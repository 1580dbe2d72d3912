---- MODULE AgentImports ----
(***************************************************************************)
(* The import of a directory of agents: files staged on disk one by one     *)
(* (services/agent_import_upload_sessions.py), frozen and turned into a     *)
(* plan, and the plan kept in a file until it is applied                    *)
(* (services/agent_import_sessions.py).  The only locks are renames: a      *)
(* request that holds a path finds it moved.  One upload and its plan.      *)
(***************************************************************************)
EXTENDS Integers, FiniteSetsExt

CONSTANTS Callers,
          NFiles,   \* total_files
          Sizes,    \* a file is known by its size; 0 is no file
          Limit,    \* configured_max_bytes
          MaxDeaths \* bound: workers that die, and answers cut short after their commit

ASSUME AgentImportsAssumption ==
    /\ NFiles \in Nat \ {0} /\ {Limit, MaxDeaths} \subseteq Nat
    /\ Sizes \subseteq Nat \ {0} /\ Callers \cap {"none", "open", "ready", "gone"} = {}

VARIABLES
    directory, \* of the upload: "none", "open" (at its path), "gone", or the caller it was renamed for
    content,   \* its files NNN.bin
    sidecar,   \* its files NNN.json, with the size
    closed,    \* session.json is too old or no longer there
    preview,   \* file of the plan: "none", "ready", "gone", or the caller it was renamed for
    outdated,   \* it is older than _TTL_SECONDS
    agents,    \* transactions of apply that were committed
    iPc, iJob, \* where a caller is, and the file it sends
    deaths,
    frozen,    \* history: the content when the directory was renamed
    planned,   \* history: the content the plan was made from
    spoilt     \* history: the preview was asked for from another group, or put back after a commit

uploadFiles == <<directory, content, sidecar, closed>>
planFiles == <<preview, outdated, agents>>
iVars == <<uploadFiles, planFiles, iPc, iJob, deaths, frozen, planned, spoilt>>

Files == 1 .. NFiles
Nothing == [i \in Files |-> 0]
NoFile == [file |-> 0, size |-> 0]

ImportsRest ==
    /\ directory = "none" /\ content = Nothing /\ sidecar = Nothing /\ closed = FALSE
    /\ preview = "none" /\ outdated = FALSE /\ agents = 0
    /\ iPc = [c \in Callers |-> "idle"] /\ iJob = [c \in Callers |-> NoFile]
    /\ deaths = 0 /\ frozen = Nothing /\ planned = Nothing /\ spoilt = FALSE

Proceeds(c, from, to) == iPc[c] = from /\ iPc' = [iPc EXCEPT ![c] = to]
Stops(c) ==
    iPc' = [iPc EXCEPT ![c] = "idle"] /\ iJob' = [iJob EXCEPT ![c] = NoFile]
HistoryRests == UNCHANGED <<deaths, frozen, planned, spoilt>>

-----------------------------------------------------------------------------
(* The upload. *)

\* create_upload_session
OpensUpload ==
    /\ directory = "none" /\ directory' = "open"
    /\ UNCHANGED <<content, sidecar, closed, planFiles, iPc, iJob>>
    /\ HistoryRests

\* store_upload_file: the metadata are read and the file is copied under a name of its own.
StoreReads(c) ==
    /\ directory = "open" /\ ~closed /\ Proceeds(c, "idle", "copied")
    /\ \E i \in Files, s \in Sizes : iJob' = [iJob EXCEPT ![c] = [file |-> i, size |-> s]]
    /\ UNCHANGED <<uploadFiles, planFiles>>
    /\ HistoryRests

\* Its paths lead nowhere once the directory has been renamed.
StoresContent(c) ==
    /\ iPc[c] = "copied"
    /\ IF directory = "open"
       THEN /\ Proceeds(c, "copied", "described") /\ UNCHANGED iJob
            /\ content' = [content EXCEPT ![iJob[c].file] = iJob[c].size]
       ELSE Stops(c) /\ UNCHANGED content
    /\ UNCHANGED <<directory, sidecar, closed, planFiles>>
    /\ HistoryRests

Describes(c) ==
    /\ iPc[c] = "described"
    /\ IF directory = "open"
       THEN /\ Proceeds(c, "described", "weigh") /\ UNCHANGED iJob
            /\ sidecar' = [sidecar EXCEPT ![iJob[c].file] = iJob[c].size]
       ELSE Stops(c) /\ UNCHANGED sidecar
    /\ UNCHANGED <<directory, content, closed, planFiles>>
    /\ HistoryRests

Staged == MapThenSumSet(LAMBDA i : sidecar[i], Files)

\* A file too much is taken back.  A directory that has moved weighs nothing.
Weighs(c) ==
    /\ iPc[c] = "weigh" /\ Stops(c)
    /\ IF directory = "open" /\ Staged > Limit
       THEN /\ content' = [content EXCEPT ![iJob[c].file] = 0]
            /\ sidecar' = [sidecar EXCEPT ![iJob[c].file] = 0]
       ELSE UNCHANGED <<content, sidecar>>
    /\ UNCHANGED <<directory, closed, planFiles>>
    /\ HistoryRests

\* delete_upload_session: a directory rmtree has opened it empties, wherever it is moved
\* meanwhile; one that moved before has no path.
CancelReads(c) ==
    /\ directory = "open" /\ ~closed /\ Proceeds(c, "idle", "remove")
    /\ UNCHANGED <<uploadFiles, planFiles, iJob>>
    /\ HistoryRests

Removes(c) ==
    /\ iPc[c] = "remove" /\ directory # "gone"
    /\ \/ ~closed /\ closed' = TRUE /\ UNCHANGED <<content, sidecar>>
       \/ \E i \in Files :
            \/ content[i] # 0 /\ content' = [content EXCEPT ![i] = 0] /\ UNCHANGED <<sidecar, closed>>
            \/ sidecar[i] # 0 /\ sidecar' = [sidecar EXCEPT ![i] = 0] /\ UNCHANGED <<content, closed>>
    /\ UNCHANGED <<directory, planFiles, iPc, iJob>>
    /\ HistoryRests

Removed(c) ==
    /\ iPc[c] = "remove" /\ Stops(c)
    /\ directory # "open" \/ (closed /\ content = Nothing /\ sidecar = Nothing)
    /\ directory' = IF directory = "open" THEN "gone" ELSE directory
    /\ UNCHANGED <<content, sidecar, closed, planFiles>>
    /\ HistoryRests

\* The half hour, and _cleanup_expired by another upload.
UploadAges ==
    /\ directory \notin {"none", "gone"} /\ ~closed /\ closed' = TRUE
    /\ UNCHANGED <<directory, content, sidecar, planFiles, iPc, iJob>>
    /\ HistoryRests

UploadSwept ==
    /\ closed /\ directory # "gone" /\ directory' = "gone"
    /\ content' = Nothing /\ sidecar' = Nothing
    /\ UNCHANGED <<closed, planFiles, iPc, iJob>>
    /\ HistoryRests

-----------------------------------------------------------------------------
(* claim_staged_uploads around the plan *)

(* A slip: the directory is read where it is. *)
ClaimsInPlace(c) ==
    /\ directory = "open" /\ ~closed /\ Proceeds(c, "idle", "entries")
    /\ frozen' = content
    /\ UNCHANGED <<uploadFiles, planFiles, iJob, deaths, planned, spoilt>>

Claims(c) ==
    /\ directory = "open" /\ ~closed /\ Proceeds(c, "idle", "entries")
    /\ directory' = c /\ frozen' = content
    /\ UNCHANGED <<content, sidecar, closed, planFiles, iJob, deaths, planned, spoilt>>

\* _staged_entries
Entries(c) ==
    /\ LET whole == \A i \in Files : content[i] # 0 /\ sidecar[i] # 0 IN
       Proceeds(c, "entries", IF whole /\ Staged <= Limit THEN "plan" ELSE "give back")
    /\ UNCHANGED <<uploadFiles, planFiles, iJob>>
    /\ HistoryRests

\* AgentDirectoryImportService.plan, which reads the files, and create_import_session
Plans(c) ==
    /\ Proceeds(c, "plan", "planned") /\ preview = "none"
    /\ \A i \in Files : content[i] # 0
    /\ planned' = content /\ preview' = "ready"
    /\ UNCHANGED <<uploadFiles, outdated, agents, iJob, deaths, frozen, spoilt>>

\* A file that has gone, or a directory that is no import.
PlanFails(c) ==
    /\ Proceeds(c, "plan", "give back")
    /\ UNCHANGED <<uploadFiles, planFiles, iJob>>
    /\ HistoryRests

\* release
Releases(c) ==
    /\ \/ /\ iPc[c] = "planned"
          /\ directory' = IF directory = c THEN "gone" ELSE directory
          /\ content' = IF directory = c THEN Nothing ELSE content
          /\ sidecar' = IF directory = c THEN Nothing ELSE sidecar
       \/ /\ iPc[c] = "give back"
          /\ directory' = IF directory = c THEN "open" ELSE directory
          /\ UNCHANGED <<content, sidecar>>
    /\ Stops(c)
    /\ UNCHANGED <<closed, planFiles>>
    /\ HistoryRests

-----------------------------------------------------------------------------
(* claim_import_session around apply *)

\* The file is renamed before anyone looks whose it is: another group or a late answer
\* end it.
ClaimsPreview(c) ==
    /\ preview = "ready" /\ iPc[c] = "idle"
    /\ \E own \in BOOLEAN :
         IF own /\ ~outdated
         THEN Proceeds(c, "idle", "apply") /\ preview' = c /\ UNCHANGED spoilt
         ELSE UNCHANGED iPc /\ preview' = "gone" /\ spoilt' = TRUE
    /\ UNCHANGED <<uploadFiles, outdated, agents, iJob, deaths, frozen, planned>>

\* The transaction of AgentDirectoryImportService.apply commits ...
Applies(c) ==
    /\ Proceeds(c, "apply", "applied") /\ agents' = agents + 1
    /\ UNCHANGED <<uploadFiles, preview, outdated, iJob>>
    /\ HistoryRests

\* ... or a choice is refused, or it rolls back.
ApplyFails(c) ==
    /\ Proceeds(c, "apply", "put back")
    /\ UNCHANGED <<uploadFiles, planFiles, iJob>>
    /\ HistoryRests

\* An error or a cancellation once the transaction is committed.
CutShort(c) ==
    /\ deaths < MaxDeaths /\ deaths' = deaths + 1
    /\ Proceeds(c, "applied", "put back") /\ spoilt' = TRUE
    /\ UNCHANGED <<uploadFiles, planFiles, iJob, frozen, planned>>

ReleasesPreview(c) ==
    /\ iPc[c] \in {"applied", "put back"} /\ Stops(c)
    /\ preview' = IF preview # c THEN preview
                  ELSE IF iPc[c] = "applied" THEN "gone" ELSE "ready"
    /\ UNCHANGED <<uploadFiles, outdated, agents>>
    /\ HistoryRests

PreviewAges ==
    /\ preview \notin {"none", "gone"} /\ ~outdated /\ outdated' = TRUE
    /\ UNCHANGED <<uploadFiles, preview, agents, iPc, iJob>>
    /\ HistoryRests

\* create_import_session of another plan
PreviewSwept ==
    /\ outdated /\ preview # "gone" /\ preview' = "gone"
    /\ UNCHANGED <<uploadFiles, outdated, agents, iPc, iJob>>
    /\ HistoryRests

\* The worker of a request: what it renamed stays until it is swept.
CallerDies(c) ==
    /\ iPc[c] # "idle" /\ deaths < MaxDeaths /\ deaths' = deaths + 1
    /\ Stops(c)
    /\ UNCHANGED <<uploadFiles, planFiles, frozen, planned, spoilt>>

ImportsNext ==
    \/ OpensUpload \/ UploadAges \/ UploadSwept \/ PreviewAges \/ PreviewSwept
    \/ \E c \in Callers :
         \/ StoreReads(c) \/ StoresContent(c) \/ Describes(c) \/ Weighs(c)
         \/ CancelReads(c) \/ Removes(c) \/ Removed(c)
         \/ Claims(c) \/ Entries(c) \/ Plans(c) \/ PlanFails(c) \/ Releases(c)
         \/ ClaimsPreview(c) \/ Applies(c) \/ ApplyFails(c) \/ CutShort(c) \/ ReleasesPreview(c)
         \/ CallerDies(c)

ImportsSpec == ImportsRest /\ [][ImportsNext]_iVars

-----------------------------------------------------------------------------
(* Properties. *)

\* Every variable keeps the shape Init gives it.
ImportsTypeOK ==
    /\ directory \in {"none", "open", "gone"} \cup Callers
    /\ preview \in {"none", "ready", "gone"} \cup Callers
    /\ {content, sidecar, frozen, planned} \subseteq [Files -> Sizes \cup {0}]
    /\ iJob \in [Callers -> [file : Files \cup {0}, size : Sizes \cup {0}]]
    /\ {closed, outdated, spoilt} \subseteq BOOLEAN /\ deaths \in 0 .. MaxDeaths

\* A plan is made from every file of the upload, as it was when it was frozen
\* (agent_import_upload_sessions.py:213), whatever uploads, cancellations and sweeps overlap.
PlanIsFrozen == preview # "none" => planned = frozen /\ \A i \in Files : planned[i] # 0

\* Of several confirmations one creates the agents, and one that fails leaves the plan to the
\* next: a plan that is used up, and was neither late nor asked for from another group, was
\* applied.
AppliedOnce ==
    ~spoilt =>
       /\ agents <= 1
       /\ preview = "gone" /\ ~outdated => agents = 1

\* What the user reviewed is what is created, once.
OneWholeImport == PlanIsFrozen /\ AppliedOnce
====
