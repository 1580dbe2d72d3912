---- MODULE UploadsProofs ----
(***************************************************************************)
(* Proofs about what is brought in from outside: a directory of agents is   *)
(* planned from all of what was frozen and applied once (AgentImports), a   *)
(* search reads the texts a pack of knowledge keeps (KnowledgePacks), and a *)
(* source is one whole commit of its repository (OfficialSources), and      *)
(* the types of all of them in the behaviours of MCRunsAndUploads.          *)
(***************************************************************************)
EXTENDS MCRunsAndUploads, CursorPagesProofs, TLAPS

Stages == {"idle", "copied", "described", "weigh", "remove", "entries", "plan", "give back",
           "planned", "apply", "applied", "put back"}
Contents == [Files -> Sizes \cup {0}]
Jobs == [file : Files \cup {0}, size : Sizes \cup {0}]

\* Every variable of an upload and its plan has its type.
ImportsShape ==
    /\ directory \in {"none", "open", "gone"} \cup Callers
    /\ preview \in {"none", "ready", "gone"} \cup Callers
    /\ content \in Contents /\ sidecar \in Contents /\ frozen \in Contents /\ planned \in Contents
    /\ iPc \in [Callers -> Stages] /\ iJob \in [Callers -> Jobs]
    /\ closed \in BOOLEAN /\ outdated \in BOOLEAN /\ spoilt \in BOOLEAN
    /\ deaths \in 0 .. MaxDeaths /\ agents \in Nat

\* A renamed directory only loses files, and one that is gone has none.
FrozenOnlyShrinks ==
    /\ directory \in Callers => \A i \in Files : content[i] \in {0, frozen[i]}
    /\ directory = "gone" => content = Nothing

\* The directory is the caller's who renamed it, until it is swept.
ClaimHolds ==
    \A c \in Callers : iPc[c] \in {"entries", "plan", "give back"} =>
       /\ directory \in {c, "gone"}
       /\ directory = c => preview = "none"

\* Once there is a plan nobody freezes the directory again; only a plan ages.
PlanIsFinal ==
    /\ preview # "none" =>
          /\ directory \notin {"none", "open"}
          /\ planned = frozen /\ \A i \in Files : planned[i] # 0
    /\ outdated => preview # "none"

\* Places of a caller that has renamed the preview.
Confirming == {"apply", "applied", "put back"}

\* One caller confirms at a time, and the agents are those of its transaction.
ConfirmedOnce ==
    ~spoilt =>
       /\ agents \in {0, 1}
       /\ \A c, d \in Callers : iPc[c] \in Confirming /\ iPc[d] \in Confirming => c = d
       /\ \A c \in Callers :
             /\ iPc[c] \in Confirming => preview \in {c, "gone"}
             /\ iPc[c] \in {"apply", "put back"} => agents = 0
             /\ iPc[c] = "applied" => agents = 1
       /\ preview \in {"none", "ready"} => agents = 0
       /\ preview = "gone" /\ ~outdated => agents = 1

ImportsInv == ImportsShape /\ FrozenOnlyShrinks /\ ClaimHolds /\ PlanIsFinal /\ ConfirmedOnce

LEMMA ImportsInitially == ImportsRest => ImportsInv
<1> SUFFICES ASSUME ImportsRest PROVE ImportsInv
    OBVIOUS
<1>1. 0 \in 0 .. MaxDeaths /\ NoFile \in Jobs
      BY AgentImportsAssumption DEF NoFile, Jobs
<1>2. Nothing \in Contents
      BY DEF Nothing, Contents
<1>3. ImportsShape
      BY <1>1, <1>2 DEF ImportsRest, ImportsShape, Stages
<1>4. FrozenOnlyShrinks /\ ClaimHolds /\ PlanIsFinal /\ ConfirmedOnce
      BY AgentImportsAssumption
      DEF ImportsRest, FrozenOnlyShrinks, ClaimHolds, PlanIsFinal, ConfirmedOnce, Confirming
<1>5. QED
      BY <1>3, <1>4 DEF ImportsInv

\* A caller that goes on or stops moves only itself.
LEMMA StageEffect ==
    ASSUME ImportsShape, NEW c \in Callers
    PROVE  /\ \A from, to \in Stages : Proceeds(c, from, to) =>
                 /\ iPc[c] = from /\ iPc' \in [Callers -> Stages] /\ iPc'[c] = to
                 /\ \A d \in Callers \ {c} : iPc'[d] = iPc[d]
           /\ Stops(c) =>
                 /\ iPc' \in [Callers -> Stages] /\ iJob' \in [Callers -> Jobs] /\ iPc'[c] = "idle"
                 /\ \A d \in Callers \ {c} : iPc'[d] = iPc[d]
<1>1. iPc \in [Callers -> Stages] /\ iJob \in [Callers -> Jobs]
      BY DEF ImportsShape
<1>2. NoFile \in Jobs
      BY DEF NoFile, Jobs
<1>3. ASSUME NEW from \in Stages, NEW to \in Stages, Proceeds(c, from, to)
      PROVE  /\ iPc[c] = from /\ iPc' \in [Callers -> Stages] /\ iPc'[c] = to
             /\ \A d \in Callers \ {c} : iPc'[d] = iPc[d]
      BY <1>1, <1>3 DEF Proceeds
<1>4. ASSUME Stops(c)
      PROVE  /\ iPc' \in [Callers -> Stages] /\ iJob' \in [Callers -> Jobs] /\ iPc'[c] = "idle"
             /\ \A d \in Callers \ {c} : iPc'[d] = iPc[d]
      BY <1>1, <1>2, <1>4 DEF Stops, Stages
<1>5. QED
      BY <1>3, <1>4

\* A step that leaves the plan alone and claims nothing: only files may go, and the directory
\* stays where it is.
LEMMA UploadKept ==
    ASSUME ImportsInv, ImportsShape',
           UNCHANGED <<preview, outdated, agents, frozen, planned, spoilt>>,
           \/ directory' = directory
           \/ directory' = "gone" /\ content' = Nothing,
           directory' \notin {"none", "open"} => \A i \in Files : content'[i] \in {0, content[i]},
           \A c \in Callers : /\ iPc'[c] \in {"entries", "plan", "give back"} =>
                                    iPc[c] \in {"entries", "plan", "give back"}
                              /\ iPc'[c] \in Confirming => iPc'[c] = iPc[c]
    PROVE  ImportsInv'
<1>1. /\ Callers \cap {"none", "open", "ready", "gone"} = {}
      /\ content \in Contents /\ content' \in Contents /\ frozen \in Contents
      BY AgentImportsAssumption DEF ImportsInv, ImportsShape, Contents
<1>2. FrozenOnlyShrinks'
  <2>1. ASSUME directory' \in Callers PROVE \A i \in Files : content'[i] \in {0, frozen'[i]}
        BY <1>1, <2>1 DEF ImportsInv, FrozenOnlyShrinks
  <2>2. ASSUME directory' = "gone" PROVE content' = Nothing
    <3>1. CASE directory = "gone"
      <4>1. content = Nothing
            BY <3>1 DEF ImportsInv, FrozenOnlyShrinks
      <4>2. \A i \in Files : content'[i] = 0
            BY <2>2, <4>1 DEF Nothing
      <4>3. QED
            BY <1>1, <4>2 DEF Nothing, Contents
    <3>2. QED
          BY <2>2, <3>1
  <2>3. QED
        BY <2>1, <2>2 DEF FrozenOnlyShrinks
<1>3. ClaimHolds'
      BY <1>1 DEF ImportsInv, ClaimHolds
<1>4. PlanIsFinal'
      BY DEF ImportsInv, PlanIsFinal
<1>5. ConfirmedOnce'
      BY DEF ImportsInv, ConfirmedOnce, Confirming
<1>6. QED
      BY <1>2, <1>3, <1>4, <1>5 DEF ImportsInv

LEMMA UploadStep ==
    ASSUME ImportsInv, NEW c \in Callers,
           \/ StoreReads(c) \/ StoresContent(c) \/ Describes(c) \/ Weighs(c)
           \/ CancelReads(c) \/ Removes(c) \/ Removed(c)
           \/ Entries(c) \/ PlanFails(c) \/ CallerDies(c)
           \/ iPc[c] = "planned" /\ Releases(c)
    PROVE  ImportsInv'
<1>0. /\ directory \in {"none", "open", "gone"} \cup Callers
      /\ content \in Contents /\ sidecar \in Contents
      /\ iPc \in [Callers -> Stages] /\ iJob \in [Callers -> Jobs] /\ closed \in BOOLEAN
      /\ deaths \in 0 .. MaxDeaths /\ MaxDeaths \in Nat /\ ImportsShape
      /\ Callers \cap {"none", "open", "ready", "gone"} = {}
      BY AgentImportsAssumption DEF ImportsInv, ImportsShape
<1>1. /\ iJob[c].file \in Files \cup {0} /\ iJob[c].size \in Sizes \cup {0}
      BY <1>0 DEF Jobs
<1>2. /\ [content EXCEPT ![iJob[c].file] = iJob[c].size] \in Contents
      /\ [sidecar EXCEPT ![iJob[c].file] = iJob[c].size] \in Contents
      /\ [content EXCEPT ![iJob[c].file] = 0] \in Contents
      /\ [sidecar EXCEPT ![iJob[c].file] = 0] \in Contents
      BY <1>0, <1>1 DEF Contents
<1>3. Nothing \in Contents
      BY DEF Nothing, Contents
<1>4. {"idle", "copied", "described", "weigh", "remove", "entries", "plan", "give back",
       "planned"} \subseteq Stages
      BY DEF Stages
<1>5. UNCHANGED <<preview, outdated, agents, frozen, planned, spoilt>>
      BY DEF StoreReads, StoresContent, Describes, Weighs, CancelReads, Removes, Removed, Entries,
             PlanFails, CallerDies, Releases, planFiles, HistoryRests
<1>6. ASSUME iPc' \in [Callers -> Stages], iJob' \in [Callers -> Jobs], closed' \in BOOLEAN,
             content' \in Contents, sidecar' \in Contents, deaths' \in 0 .. MaxDeaths,
             \/ directory' = directory
             \/ directory' = "gone" /\ content' = Nothing,
             directory' \notin {"none", "open"} => \A i \in Files : content'[i] \in {0, content[i]},
             \A d \in Callers \ {c} : iPc'[d] = iPc[d],
             \/ iPc'[c] \in {"idle", "copied", "described", "weigh", "remove", "planned"}
             \/ iPc[c] \in {"entries", "plan", "give back"} /\ iPc'[c] \in {"plan", "give back"}
      PROVE  ImportsInv'
  <2>1. ImportsShape'
        BY <1>0, <1>5, <1>6 DEF ImportsShape
  <2>2. \A d \in Callers : /\ iPc'[d] \in {"entries", "plan", "give back"} =>
                                 iPc[d] \in {"entries", "plan", "give back"}
                           /\ iPc'[d] \in Confirming => iPc'[d] = iPc[d]
        BY <1>6 DEF Confirming
  <2>3. QED
        BY <1>5, <1>6, <2>1, <2>2, UploadKept
<1>7. CASE StoreReads(c)
  <2>1. UNCHANGED <<directory, content, sidecar, closed, deaths>>
        BY <1>7 DEF StoreReads, uploadFiles, HistoryRests
  <2>2. iPc'[c] = "copied" /\ iPc' \in [Callers -> Stages] /\ \A d \in Callers \ {c} : iPc'[d] = iPc[d]
        BY <1>0, <1>4, <1>7, StageEffect DEF StoreReads
  <2>3. iJob' \in [Callers -> Jobs]
    <3>1. PICK i \in Files, n \in Sizes : iJob' = [iJob EXCEPT ![c] = [file |-> i, size |-> n]]
          BY <1>7 DEF StoreReads
    <3>2. [file |-> i, size |-> n] \in Jobs
          BY DEF Jobs
    <3>3. QED
          BY <1>0, <3>1, <3>2
  <2>4. content \in Contents /\ (\A i \in Files : content[i] \in {0, content[i]})
        BY <1>0
  <2>5. QED
        BY <1>0, <1>6, <2>1, <2>2, <2>3
<1>8. CASE CancelReads(c)
  <2>1. UNCHANGED <<directory, content, sidecar, closed, deaths, iJob>>
        BY <1>8 DEF CancelReads, uploadFiles, HistoryRests
  <2>2. iPc'[c] = "remove" /\ iPc' \in [Callers -> Stages] /\ \A d \in Callers \ {c} : iPc'[d] = iPc[d]
        BY <1>0, <1>4, <1>8, StageEffect DEF CancelReads
  <2>3. QED
        BY <1>0, <1>6, <2>1, <2>2
<1>9. CASE StoresContent(c) \/ Describes(c)
  <2>1. UNCHANGED <<directory, closed, deaths>>
        BY <1>9 DEF StoresContent, Describes, HistoryRests
  <2>2. /\ content' \in Contents /\ sidecar' \in Contents
        /\ directory # "open" => content' = content
    <3>1. CASE StoresContent(c)
          BY <1>0, <1>2, <3>1 DEF StoresContent
    <3>2. CASE Describes(c)
          BY <1>0, <1>2, <3>2 DEF Describes
    <3>3. QED
          BY <1>9, <3>1, <3>2
  <2>3. /\ iPc'[c] \in {"idle", "described", "weigh"} /\ iPc' \in [Callers -> Stages]
        /\ iJob' \in [Callers -> Jobs] /\ \A d \in Callers \ {c} : iPc'[d] = iPc[d]
    <3>1. \/ Proceeds(c, "copied", "described") /\ UNCHANGED iJob
          \/ Proceeds(c, "described", "weigh") /\ UNCHANGED iJob
          \/ Stops(c)
          BY <1>9 DEF StoresContent, Describes
    <3>2. QED
          BY <1>0, <1>4, <3>1, StageEffect
  <2>4. QED
        BY <1>0, <1>6, <2>1, <2>2, <2>3
<1>10. CASE Weighs(c)
  <2>1. UNCHANGED <<directory, closed, deaths>>
        BY <1>10 DEF Weighs, HistoryRests
  <2>2. /\ content' \in Contents /\ sidecar' \in Contents
        /\ directory # "open" => content' = content
        BY <1>0, <1>2, <1>10 DEF Weighs
  <2>3. /\ iPc'[c] = "idle" /\ iPc' \in [Callers -> Stages]
        /\ iJob' \in [Callers -> Jobs] /\ \A d \in Callers \ {c} : iPc'[d] = iPc[d]
        BY <1>0, <1>10, StageEffect DEF Weighs
  <2>4. QED
        BY <1>0, <1>6, <2>1, <2>2, <2>3
<1>11. CASE Removes(c)
  <2>1. UNCHANGED <<directory, deaths, iPc, iJob>> /\ iPc[c] = "remove"
        BY <1>11 DEF Removes, HistoryRests
  <2>2. /\ content' \in Contents /\ sidecar' \in Contents /\ closed' \in BOOLEAN
        /\ content' = content \/ \E i \in Files : content' = [content EXCEPT ![i] = 0]
    <3>1. CASE closed' = TRUE /\ UNCHANGED <<content, sidecar>>
          BY <1>0, <3>1
    <3>2. ASSUME NEW i \in Files, content' = [content EXCEPT ![i] = 0], UNCHANGED <<sidecar, closed>>
          PROVE  content' \in Contents
          BY <1>0, <3>2 DEF Contents
    <3>3. ASSUME NEW i \in Files, sidecar' = [sidecar EXCEPT ![i] = 0], UNCHANGED <<content, closed>>
          PROVE  sidecar' \in Contents
          BY <1>0, <3>3 DEF Contents
    <3>4. QED
          BY <1>0, <1>11, <3>1, <3>2, <3>3 DEF Removes
  <2>3. \A i \in Files : content'[i] \in {0, content[i]}
        BY <1>0, <2>2 DEF Contents
  <2>4. QED
        BY <1>0, <1>6, <2>1, <2>2, <2>3
<1>12. CASE Removed(c)
  <2>1. /\ UNCHANGED <<content, sidecar, closed, deaths>>
        /\ directory' = directory \/ (directory' = "gone" /\ content' = Nothing)
        BY <1>12 DEF Removed, HistoryRests
  <2>2. /\ iPc'[c] = "idle" /\ iPc' \in [Callers -> Stages]
        /\ iJob' \in [Callers -> Jobs] /\ \A d \in Callers \ {c} : iPc'[d] = iPc[d]
        BY <1>0, <1>12, StageEffect DEF Removed
  <2>3. QED
        BY <1>0, <1>6, <2>1, <2>2
<1>13. CASE Entries(c) \/ PlanFails(c)
  <2>1. UNCHANGED <<directory, content, sidecar, closed, deaths, iJob>>
        BY <1>13 DEF Entries, PlanFails, uploadFiles, HistoryRests
  <2>2. \/ Proceeds(c, "entries", "plan") \/ Proceeds(c, "entries", "give back")
        \/ Proceeds(c, "plan", "give back")
        BY <1>13 DEF Entries, PlanFails
  <2>3. /\ iPc' \in [Callers -> Stages] /\ \A d \in Callers \ {c} : iPc'[d] = iPc[d]
        /\ iPc[c] \in {"entries", "plan", "give back"} /\ iPc'[c] \in {"plan", "give back"}
        BY <1>0, <1>4, <2>2, StageEffect
  <2>4. QED
        BY <1>0, <1>6, <2>1, <2>3
<1>14. CASE CallerDies(c)
  <2>1. /\ UNCHANGED <<directory, content, sidecar, closed>>
        /\ deaths < MaxDeaths /\ deaths' = deaths + 1
        BY <1>14 DEF CallerDies, uploadFiles
  <2>2. /\ iPc'[c] = "idle" /\ iPc' \in [Callers -> Stages]
        /\ iJob' \in [Callers -> Jobs] /\ \A d \in Callers \ {c} : iPc'[d] = iPc[d]
        BY <1>0, <1>14, StageEffect DEF CallerDies
  <2>3. deaths' \in 0 .. MaxDeaths
        BY <1>0, <2>1
  <2>4. QED
        BY <1>0, <1>6, <2>1, <2>2, <2>3
<1>15. CASE iPc[c] = "planned" /\ Releases(c)
  <2>1. /\ UNCHANGED <<closed, deaths>>
        /\ directory' = IF directory = c THEN "gone" ELSE directory
        /\ content' = IF directory = c THEN Nothing ELSE content
        /\ sidecar' = IF directory = c THEN Nothing ELSE sidecar
        BY <1>15 DEF Releases, HistoryRests
  <2>2. /\ iPc'[c] = "idle" /\ iPc' \in [Callers -> Stages]
        /\ iJob' \in [Callers -> Jobs] /\ \A d \in Callers \ {c} : iPc'[d] = iPc[d]
        BY <1>0, <1>15, StageEffect DEF Releases
  <2>3. \A i \in Files : content'[i] \in {0, content[i]}
        BY <2>1 DEF Nothing
  <2>4. QED
        BY <1>0, <1>3, <1>6, <2>1, <2>2, <2>3
<1>16. QED
       BY <1>7, <1>8, <1>9, <1>10, <1>11, <1>12, <1>13, <1>14, <1>15

LEMMA DirectoryStep ==
    ASSUME ImportsInv, UploadAges \/ UploadSwept
    PROVE  ImportsInv'
<1>1. /\ UNCHANGED <<preview, outdated, agents, frozen, planned, spoilt, deaths, iPc, iJob>>
      /\ closed' \in BOOLEAN
      /\ \/ UNCHANGED <<directory, content, sidecar>>
         \/ directory' = "gone" /\ content' = Nothing /\ sidecar' = Nothing
      BY DEF UploadAges, UploadSwept, planFiles, HistoryRests, ImportsInv, ImportsShape
<1>2. Nothing \in Contents
      BY DEF Nothing, Contents
<1>3. ImportsShape'
      BY <1>1, <1>2 DEF ImportsInv, ImportsShape
<1>4. \A i \in Files : content'[i] \in {0, content[i]}
      BY <1>1 DEF Nothing
<1>5. QED
      BY <1>1, <1>3, <1>4, UploadKept

LEMMA OpenStep == ImportsInv /\ OpensUpload => ImportsInv'
<1> SUFFICES ASSUME ImportsInv, OpensUpload PROVE ImportsInv'
    OBVIOUS
<1>1. /\ directory = "none" /\ directory' = "open"
      /\ UNCHANGED <<content, sidecar, closed, preview, outdated, agents, iPc, iJob,
                     deaths, frozen, planned, spoilt>>
      BY DEF OpensUpload, planFiles, HistoryRests
<1>2. Callers \cap {"none", "open", "ready", "gone"} = {}
      BY AgentImportsAssumption
<1>3. ImportsShape'
      BY <1>1 DEF ImportsInv, ImportsShape
<1>4. FrozenOnlyShrinks'
      BY <1>1, <1>2 DEF FrozenOnlyShrinks
<1>5. ClaimHolds' /\ PlanIsFinal'
      BY <1>1, <1>2 DEF ImportsInv, ClaimHolds, PlanIsFinal
<1>6. ConfirmedOnce'
      BY <1>1 DEF ImportsInv, ConfirmedOnce, Confirming
<1>7. QED
      BY <1>3, <1>4, <1>5, <1>6 DEF ImportsInv

\* A directory is frozen by who renames it, and only while there is no plan.
LEMMA ClaimStep ==
    ASSUME ImportsInv, NEW c \in Callers, Claims(c)
    PROVE  ImportsInv'
<1>0. /\ Callers \cap {"none", "open", "ready", "gone"} = {} /\ {"idle", "entries"} \subseteq Stages
      /\ ImportsShape
      BY AgentImportsAssumption DEF ImportsInv, Stages
<1>1. /\ directory = "open" /\ directory' = c /\ frozen' = content
      /\ UNCHANGED <<content, sidecar, closed, preview, outdated, agents, iJob, deaths, planned, spoilt>>
      BY DEF Claims, planFiles
<1>2. /\ iPc' \in [Callers -> Stages] /\ iPc'[c] = "entries" /\ iPc[c] = "idle"
      /\ \A d \in Callers \ {c} : iPc'[d] = iPc[d]
      BY <1>0, StageEffect DEF Claims
<1>3. ImportsShape'
      BY <1>0, <1>1, <1>2 DEF ImportsShape
<1>4. FrozenOnlyShrinks'
      BY <1>0, <1>1 DEF FrozenOnlyShrinks
<1>5. preview = "none"
      BY <1>1 DEF ImportsInv, PlanIsFinal
<1>6. \A d \in Callers : iPc[d] \notin {"entries", "plan", "give back"}
      BY <1>0, <1>1 DEF ImportsInv, ClaimHolds
<1>7. ClaimHolds'
      BY <1>1, <1>2, <1>5, <1>6 DEF ClaimHolds
<1>8. PlanIsFinal'
      BY <1>1, <1>5 DEF ImportsInv, PlanIsFinal
<1>9. ConfirmedOnce'
      BY <1>1, <1>2 DEF ImportsInv, ConfirmedOnce, Confirming
<1>10. QED
       BY <1>3, <1>4, <1>7, <1>8, <1>9 DEF ImportsInv

\* A plan is made by the caller the directory was renamed for, from all that was frozen.
LEMMA PlanStep ==
    ASSUME ImportsInv, NEW c \in Callers, Plans(c)
    PROVE  ImportsInv'
<1>0. /\ Callers \cap {"none", "open", "ready", "gone"} = {} /\ {"plan", "planned"} \subseteq Stages
      /\ ImportsShape /\ 1 \in Files
      BY AgentImportsAssumption DEF ImportsInv, Stages, Files
<1>1. /\ preview = "none" /\ preview' = "ready" /\ planned' = content
      /\ \A i \in Files : content[i] # 0
      /\ UNCHANGED <<directory, content, sidecar, closed, outdated, agents, iJob, deaths, frozen, spoilt>>
      BY DEF Plans, uploadFiles
<1>2. /\ iPc[c] = "plan" /\ iPc' \in [Callers -> Stages] /\ iPc'[c] = "planned"
      /\ \A d \in Callers \ {c} : iPc'[d] = iPc[d]
      BY <1>0, StageEffect DEF Plans
<1>3. ImportsShape'
      BY <1>0, <1>1, <1>2 DEF ImportsShape
<1>4. directory # "gone"
      BY <1>0, <1>1 DEF ImportsInv, FrozenOnlyShrinks, Nothing
<1>5. directory = c
      BY <1>2, <1>4 DEF ImportsInv, ClaimHolds
<1>6. content = frozen
  <2>1. \A i \in Files : content[i] = frozen[i]
        BY <1>1, <1>5 DEF ImportsInv, FrozenOnlyShrinks
  <2>2. content \in Contents /\ frozen \in Contents
        BY <1>0 DEF ImportsShape
  <2>3. QED
        BY <2>1, <2>2 DEF Contents
<1>7. FrozenOnlyShrinks'
      BY <1>1 DEF ImportsInv, FrozenOnlyShrinks
<1>8. ClaimHolds'
  <2> SUFFICES ASSUME NEW d \in Callers, iPc'[d] \in {"entries", "plan", "give back"} PROVE FALSE
      BY DEF ClaimHolds
  <2>1. d # c /\ iPc[d] \in {"entries", "plan", "give back"}
        BY <1>2
  <2>2. QED
        BY <1>4, <1>5, <2>1 DEF ImportsInv, ClaimHolds
<1>9. PlanIsFinal'
      BY <1>0, <1>1, <1>5, <1>6 DEF PlanIsFinal
<1>10. ConfirmedOnce'
       BY <1>0, <1>1, <1>2 DEF ImportsInv, ConfirmedOnce, Confirming
<1>11. QED
       BY <1>3, <1>7, <1>8, <1>9, <1>10 DEF ImportsInv

\* A directory no plan was made from returns to its path.
LEMMA GiveBackStep ==
    ASSUME ImportsInv, NEW c \in Callers, iPc[c] = "give back", Releases(c)
    PROVE  ImportsInv'
<1>0. /\ Callers \cap {"none", "open", "ready", "gone"} = {} /\ ImportsShape
      BY AgentImportsAssumption DEF ImportsInv
<1>1. /\ directory' = IF directory = c THEN "open" ELSE directory
      /\ UNCHANGED <<content, sidecar, closed, preview, outdated, agents, deaths, frozen, planned, spoilt>>
      BY DEF Releases, planFiles, HistoryRests
<1>2. /\ iPc'[c] = "idle" /\ iPc' \in [Callers -> Stages]
      /\ iJob' \in [Callers -> Jobs] /\ \A d \in Callers \ {c} : iPc'[d] = iPc[d]
      BY <1>0, StageEffect DEF Releases
<1>3. ImportsShape'
      BY <1>0, <1>1, <1>2 DEF ImportsShape
<1>4. directory \in {c, "gone"} /\ (directory = c => preview = "none")
      BY DEF ImportsInv, ClaimHolds
<1>5. FrozenOnlyShrinks'
      BY <1>0, <1>1, <1>4 DEF ImportsInv, FrozenOnlyShrinks
<1>6. ClaimHolds'
  <2> SUFFICES ASSUME NEW d \in Callers, iPc'[d] \in {"entries", "plan", "give back"}
               PROVE  directory' \in {d, "gone"} /\ (directory' = d => preview' = "none")
      BY DEF ClaimHolds
  <2>1. d # c /\ directory \in {d, "gone"}
        BY <1>2 DEF ImportsInv, ClaimHolds
  <2>2. QED
        BY <1>0, <1>1, <1>4, <2>1
<1>7. PlanIsFinal'
      BY <1>0, <1>1, <1>4 DEF ImportsInv, PlanIsFinal
<1>8. ConfirmedOnce'
      BY <1>1, <1>2 DEF ImportsInv, ConfirmedOnce, Confirming
<1>9. QED
      BY <1>3, <1>5, <1>6, <1>7, <1>8 DEF ImportsInv

\* A step that leaves the upload alone and neither makes nor unmakes a plan.
LEMMA PlanKept ==
    ASSUME ImportsInv, UNCHANGED <<directory, content, sidecar, closed, frozen, planned>>,
           iPc' \in [Callers -> Stages], iJob' \in [Callers -> Jobs], outdated' \in BOOLEAN, spoilt' \in BOOLEAN,
           deaths' \in 0 .. MaxDeaths, agents' \in Nat,
           preview' \in {"none", "ready", "gone"} \cup Callers,
           (preview = "none" <=> preview' = "none"), outdated' => preview' # "none",
           \A c \in Callers : iPc'[c] \in {"entries", "plan", "give back"} => iPc'[c] = iPc[c],
           ConfirmedOnce'
    PROVE  ImportsInv'
<1>1. ImportsShape'
      BY DEF ImportsInv, ImportsShape
<1>2. FrozenOnlyShrinks'
      BY DEF ImportsInv, FrozenOnlyShrinks
<1>3. ClaimHolds'
      BY DEF ImportsInv, ClaimHolds
<1>4. PlanIsFinal'
      BY DEF ImportsInv, PlanIsFinal
<1>5. QED
      BY <1>1, <1>2, <1>3, <1>4 DEF ImportsInv

LEMMA PreviewStep ==
    ASSUME ImportsInv, PreviewAges \/ PreviewSwept
    PROVE  ImportsInv'
<1>0. /\ Callers \cap {"none", "open", "ready", "gone"} = {} /\ ImportsShape
      BY AgentImportsAssumption DEF ImportsInv
<1>1. /\ UNCHANGED <<directory, content, sidecar, closed, iJob, frozen, planned, agents, iPc, deaths, spoilt>>
      /\ outdated' = TRUE
      /\ \/ preview' = preview
         \/ preview' = "gone"
      BY DEF PreviewAges, PreviewSwept, uploadFiles, HistoryRests, ImportsInv, ImportsShape
<1>2. ConfirmedOnce'
      BY <1>0, <1>1 DEF ImportsInv, ConfirmedOnce, Confirming
<1>3. preview # "none" /\ preview' # "none"
      BY <1>0, <1>1 DEF PreviewAges, PreviewSwept, ImportsInv, PlanIsFinal
<1>4. QED
      BY <1>0, <1>1, <1>2, <1>3, PlanKept DEF ImportsShape

\* Whoever renames the preview is the only one to confirm it, unless it is spoilt.
LEMMA ConfirmStep ==
    ASSUME ImportsInv, NEW c \in Callers,
           \/ ClaimsPreview(c) \/ Applies(c) \/ ApplyFails(c) \/ CutShort(c) \/ ReleasesPreview(c)
    PROVE  ImportsInv'
<1>0. /\ Callers \cap {"none", "open", "ready", "gone"} = {} /\ ImportsShape
      /\ {"idle", "apply", "applied", "put back"} \subseteq Stages
      BY AgentImportsAssumption DEF ImportsInv, Stages
<1>1. /\ preview \in {"none", "ready", "gone"} \cup Callers
      /\ outdated \in BOOLEAN /\ spoilt \in BOOLEAN
      /\ deaths \in 0 .. MaxDeaths /\ MaxDeaths \in Nat /\ agents \in Nat
      /\ iPc \in [Callers -> Stages] /\ iJob \in [Callers -> Jobs]
      BY <1>0, AgentImportsAssumption DEF ImportsShape
<1>2. outdated => preview # "none"
      BY DEF ImportsInv, PlanIsFinal
<1>3. /\ ~spoilt => agents \in {0, 1}
      /\ ~spoilt => \A d, e \in Callers : iPc[d] \in Confirming /\ iPc[e] \in Confirming => d = e
      /\ ~spoilt => \A d \in Callers :
                       /\ iPc[d] \in Confirming => preview \in {d, "gone"}
                       /\ iPc[d] \in {"apply", "put back"} => agents = 0
                       /\ iPc[d] = "applied" => agents = 1
      /\ ~spoilt /\ preview \in {"none", "ready"} => agents = 0
      /\ ~spoilt /\ preview = "gone" /\ ~outdated => agents = 1
      BY DEF ImportsInv, ConfirmedOnce
<1>4. CASE ClaimsPreview(c)
  <2>1. /\ UNCHANGED <<directory, content, sidecar, closed, iJob, frozen, planned, outdated, agents, deaths>>
        /\ preview = "ready" /\ iPc[c] = "idle"
        BY <1>4 DEF ClaimsPreview, uploadFiles
  <2>2. \/ Proceeds(c, "idle", "apply") /\ preview' = c /\ spoilt' = spoilt
        \/ iPc' = iPc /\ preview' = "gone" /\ spoilt' = TRUE
        BY <1>4 DEF ClaimsPreview
  <2>3. CASE Proceeds(c, "idle", "apply") /\ preview' = c /\ spoilt' = spoilt
    <3>1. /\ iPc' \in [Callers -> Stages] /\ iPc'[c] = "apply"
          /\ \A d \in Callers \ {c} : iPc'[d] = iPc[d]
          BY <1>0, <2>3, StageEffect
    <3>2. ~spoilt => \A d \in Callers : iPc[d] \notin Confirming
          BY <1>0, <1>3, <2>1
    <3>3. ConfirmedOnce'
          BY <1>0, <1>3, <2>1, <2>3, <3>1, <3>2 DEF ConfirmedOnce, Confirming
    <3>4. QED
          BY <1>0, <1>1, <2>1, <2>3, <3>1, <3>3, PlanKept
  <2>4. CASE iPc' = iPc /\ preview' = "gone" /\ spoilt' = TRUE
    <3>1. ConfirmedOnce'
          BY <2>4 DEF ConfirmedOnce
    <3>2. QED
          BY <1>0, <1>1, <2>1, <2>4, <3>1, PlanKept
  <2>5. QED
        BY <2>2, <2>3, <2>4
<1>5. CASE Applies(c)
  <2>1. /\ UNCHANGED <<directory, content, sidecar, closed, iJob, frozen, planned, preview, outdated,
                       deaths, spoilt>>
        /\ agents' = agents + 1 /\ agents' \in Nat
        BY <1>1, <1>5 DEF Applies, uploadFiles, HistoryRests
  <2>2. /\ iPc[c] = "apply" /\ iPc' \in [Callers -> Stages] /\ iPc'[c] = "applied"
        /\ \A d \in Callers \ {c} : iPc'[d] = iPc[d]
        BY <1>0, <1>5, StageEffect DEF Applies
  <2>3. ~spoilt => agents = 0 /\ agents' = 1 /\ preview \notin {"none", "ready"}
    <3>1. ~spoilt => agents = 0 /\ preview \in {c, "gone"}
          BY <1>3, <2>2 DEF Confirming
    <3>2. ~spoilt => agents' = 1
          BY <2>1, <3>1
    <3>3. QED
          BY <1>0, <3>1, <3>2
  <2>4. ConfirmedOnce'
        BY <1>3, <2>1, <2>2, <2>3 DEF ConfirmedOnce, Confirming
  <2>5. QED
        BY <1>1, <1>2, <2>1, <2>2, <2>4, PlanKept
<1>6. CASE ApplyFails(c)
  <2>1. UNCHANGED <<directory, content, sidecar, closed, iJob, frozen, planned, preview, outdated,
                    agents, deaths, spoilt>>
        BY <1>6 DEF ApplyFails, uploadFiles, planFiles, HistoryRests
  <2>2. /\ iPc[c] = "apply" /\ iPc' \in [Callers -> Stages] /\ iPc'[c] = "put back"
        /\ \A d \in Callers \ {c} : iPc'[d] = iPc[d]
        BY <1>0, <1>6, StageEffect DEF ApplyFails
  <2>3. ConfirmedOnce'
        BY <1>3, <2>1, <2>2 DEF ConfirmedOnce, Confirming
  <2>4. QED
        BY <1>1, <1>2, <2>1, <2>2, <2>3, PlanKept
<1>7. CASE CutShort(c)
  <2>1. /\ UNCHANGED <<directory, content, sidecar, closed, iJob, frozen, planned, preview, outdated, agents>>
        /\ spoilt' = TRUE /\ deaths < MaxDeaths /\ deaths' = deaths + 1
        BY <1>7 DEF CutShort, uploadFiles, planFiles
  <2>2. /\ iPc' \in [Callers -> Stages] /\ iPc'[c] = "put back"
        /\ \A d \in Callers \ {c} : iPc'[d] = iPc[d]
        BY <1>0, <1>7, StageEffect DEF CutShort
  <2>3. ConfirmedOnce' /\ deaths' \in 0 .. MaxDeaths
        BY <1>1, <2>1 DEF ConfirmedOnce
  <2>4. QED
        BY <1>1, <1>2, <2>1, <2>2, <2>3, PlanKept
<1>8. CASE ReleasesPreview(c)
  <2>1. /\ UNCHANGED <<directory, content, sidecar, closed, frozen, planned, outdated, agents, deaths, spoilt>>
        /\ iPc[c] \in {"applied", "put back"}
        /\ preview' = IF preview # c THEN preview
                      ELSE IF iPc[c] = "applied" THEN "gone" ELSE "ready"
        BY <1>8 DEF ReleasesPreview, uploadFiles, HistoryRests
  <2>2. /\ iPc' \in [Callers -> Stages] /\ iJob' \in [Callers -> Jobs] /\ iPc'[c] = "idle"
        /\ \A d \in Callers \ {c} : iPc'[d] = iPc[d]
        BY <1>0, <1>8, StageEffect DEF ReleasesPreview
  <2>3. ~spoilt => \A d \in Callers : iPc'[d] \notin Confirming
        BY <1>3, <2>1, <2>2 DEF Confirming
  <2>4. ~spoilt => /\ preview' \in {"none", "ready"} => agents = 0
                   /\ preview' = "gone" /\ ~outdated => agents = 1
    <3>1. ~spoilt => preview \in {c, "gone"}
          BY <1>3, <2>1 DEF Confirming
    <3>2. ~spoilt => /\ iPc[c] = "put back" => agents = 0
                     /\ iPc[c] = "applied" => agents = 1
          BY <1>3
    <3>3. QED
          BY <1>0, <1>3, <2>1, <3>1, <3>2
  <2>5. ConfirmedOnce'
        BY <1>3, <2>1, <2>3, <2>4 DEF ConfirmedOnce, Confirming
  <2>6. /\ preview' \in {"none", "ready", "gone"} \cup Callers
        /\ preview = "none" <=> preview' = "none"
        BY <1>0, <1>1, <2>1
  <2>7. QED
        BY <1>1, <1>2, <2>1, <2>2, <2>5, <2>6, PlanKept
<1>9. QED
      BY <1>4, <1>5, <1>6, <1>7, <1>8

LEMMA ImportsStep == ImportsInv /\ [ImportsNext]_iVars => ImportsInv'
<1> SUFFICES ASSUME ImportsInv, [ImportsNext]_iVars PROVE ImportsInv'
    OBVIOUS
<1>1. ASSUME NEW c \in Callers, Releases(c) PROVE ImportsInv'
      BY <1>1, UploadStep, GiveBackStep DEF Releases
<1>2. CASE UNCHANGED iVars
  <2>1. UNCHANGED <<directory, content, sidecar, closed, preview, outdated, agents, iPc, iJob,
                    deaths, frozen, planned, spoilt>>
        BY <1>2 DEF iVars, uploadFiles, planFiles
  <2>2. ImportsShape'
        BY <2>1 DEF ImportsInv, ImportsShape
  <2>3. FrozenOnlyShrinks' /\ ClaimHolds' /\ PlanIsFinal'
        BY <2>1 DEF ImportsInv, FrozenOnlyShrinks, ClaimHolds, PlanIsFinal
  <2>4. ConfirmedOnce'
        BY <2>1 DEF ImportsInv, ConfirmedOnce, Confirming
  <2>5. QED
        BY <2>2, <2>3, <2>4 DEF ImportsInv
<1>3. QED
      BY <1>1, <1>2, OpenStep, DirectoryStep, PreviewStep, UploadStep, ClaimStep, PlanStep, ConfirmStep
      DEF ImportsNext

\* Whatever uploads, cancellations, sweeps, claims and confirmations overlap, a renamed directory
\* only loses files and a renamed plan has one confirmation.
THEOREM ImportsInvHolds == ImportsSpec => []ImportsInv
<1>1. QED
      BY ImportsInitially, ImportsStep, PTL DEF ImportsSpec

\* What the user reviewed is what is created, once: a plan is of every file that was frozen, and a
\* plan that is used up, neither late nor spoilt, was applied exactly once.
THEOREM ImportsAreWhole == ImportsSpec => []OneWholeImport
<1>1. ImportsInv => OneWholeImport
  <2> SUFFICES ASSUME ImportsInv PROVE OneWholeImport
      OBVIOUS
  <2>1. PlanIsFrozen
        BY DEF ImportsInv, PlanIsFinal, PlanIsFrozen
  <2>2. ~spoilt => agents \in {0, 1} /\ (preview = "gone" /\ ~outdated => agents = 1)
        BY DEF ImportsInv, ConfirmedOnce
  <2>3. AppliedOnce
        BY <2>2 DEF AppliedOnce
  <2>4. QED
        BY <2>1, <2>3 DEF OneWholeImport
<1>2. QED
      BY <1>1, ImportsInvHolds, PTL

LEMMA ImportsHaveType == ImportsInv => ImportsTypeOK
  BY DEF ImportsInv, ImportsShape, ImportsTypeOK, Contents, Jobs

\* Every variable of AgentImports keeps the shape Init gives it.
THEOREM ImportsTypeCorrect == ImportsSpec => []ImportsTypeOK
<1>1. QED
      BY ImportsHaveType, ImportsInvHolds, PTL

-----------------------------------------------------------------------------
(* Packs of knowledge. *)

PackStages == {"idle", "extracted", "upsert", "count", "mark", "extracted files", "replace", "delete"}

\* The files of a manifest, and the rows replace_items has read, are of paths of the pack.
ManifestFits(j) ==
    /\ j = [dir |-> j.dir, sent |-> j.sent, rows |-> j.rows]
    /\ DOMAIN j.dir \subseteq Paths

\* A request carries what its place needs.
JobFits(where, j) ==
    /\ where \in {"extracted", "upsert"} =>
          /\ j = [path |-> j.path, content |-> j.content, row |-> j.row]
          /\ j.path \in Paths /\ j.row \in Items \cup {NoRow}
          /\ where = "extracted" => j.row = NoRow
    /\ where \in {"extracted files", "replace"} => ManifestFits(j)

\* A row has a path, and a request carries what its place needs.
PackShape ==
    /\ kPc \in [Requests -> PackStages] /\ kJob = [q \in Requests |-> kJob[q]]
    /\ item = [i \in Items |-> item[i]]
    /\ shared \in BOOLEAN
    /\ \A i \in Items : item[i] # NoRow => item[i].path \in Paths
    /\ \A q \in Requests : JobFits(kPc[q], kJob[q])
    /\ upload_status = "none" => \A q \in Requests : kPc[q] = "idle"

\* One request is at work.
Alone == \A q, r \in Requests : kPc[q] # "idle" /\ kPc[r] # "idle" => q = r

\* Rows have the content of their checksum, a path has one row, and no pack no row.
Matching == \A i \in Items : item[i] # NoRow => item[i].content = item[i].checksum
OneRow == \A i, k \in Items :
             item[i] # NoRow /\ item[k] # NoRow /\ item[i].path = item[k].path => i = k
GoneIsEmpty == ~PackExists => \A i \in Items : item[i] = NoRow

\* What a request has read is still so, up to rows that were deleted one by one.
UploadHolds(q) ==
    kPc[q] = "upsert" =>
       \A i \in Items : item[i] # NoRow /\ item[i].path = kJob[q].path => kJob[q].row = i
FoundHolds(q) ==
    kPc[q] = "upsert" /\ kJob[q].row # NoRow =>
       (item[kJob[q].row] # NoRow => item[kJob[q].row].path = kJob[q].path)
UnsentHolds(q) ==
    kPc[q] = "extracted files" =>
       \A p \in DOMAIN kJob[q].dir \ kJob[q].sent, i \in Items :
          item[i] # NoRow /\ item[i].path = p => item[i].content = kJob[q].dir[p]
RowsHold(q) ==
    kPc[q] = "replace" =>
       LET j == kJob[q] IN
       /\ \A i \in Items : item[i] # NoRow =>
             item[i].path \in DOMAIN j.rows /\ j.rows[item[i].path].id = i
       /\ \A p \in (DOMAIN j.dir \ j.sent) \cap DOMAIN j.rows : j.rows[p].content = j.dir[p]
ReadHolds(q) ==
    /\ kPc[q] \in {"extracted", "upsert", "extracted files", "replace"} => PackExists
    /\ UploadHolds(q) /\ FoundHolds(q) /\ UnsentHolds(q) /\ RowsHold(q)

Solo == ~shared => /\ Alone /\ Matching /\ OneRow /\ GoneIsEmpty
                   /\ \A q \in Requests : ReadHolds(q)

PackInv == PackShape /\ SearchedAsKept /\ Solo

\* What a step has to show of the rows it leaves.
ItemShape ==
    /\ item = [i \in Items |-> item[i]]
    /\ \A i \in Items : item[i] # NoRow => item[i].path \in Paths
RowsSolo == Matching /\ OneRow /\ GoneIsEmpty

\* A transaction writes the chunks of the rows it writes.
LEMMA WritesEffect ==
    ASSUME NEW written, Writes(written), SearchedAsKept
    PROVE  /\ SearchedAsKept'
           /\ item' = [i \in Items |-> IF i \in DOMAIN written THEN written[i] ELSE item[i]]
           /\ \A i \in Items \ DOMAIN written : item'[i] = item[i]
           /\ \A i \in Items \cap DOMAIN written : item'[i] = written[i]
BY DEF Writes, SearchedAsKept

\* A request that is answered goes by nothing it read.
LEMMA IdleReads ==
    ASSUME NEW q, kPc'[q] = "idle" PROVE ReadHolds(q)'
BY DEF ReadHolds, UploadHolds, FoundHolds, UnsentHolds, RowsHold

\* A request moves on: while one is at work, the others are idle and stay so.
LEMMA Moved ==
    ASSUME PackInv, NEW q \in Requests, kPc[q] # "idle", NEW where \in PackStages, NEW job,
           Moves(q, where, job), JobFits(where, job), shared' = shared,
           ItemShape', SearchedAsKept', upload_status' = "none" => upload_status = "none",
           ~shared => RowsSolo' /\ (where # "idle" => ReadHolds(q)')
    PROVE  PackInv'
<1>1. /\ kPc' \in [Requests -> PackStages] /\ kJob' = [r \in Requests |-> kJob'[r]]
      /\ kPc'[q] = where /\ kJob'[q] = job
      /\ \A r \in Requests \ {q} : kPc'[r] = kPc[r] /\ kJob'[r] = kJob[r]
      BY DEF PackInv, PackShape, Moves
<1>2. \A r \in Requests : JobFits(kPc'[r], kJob'[r])
      BY <1>1 DEF PackInv, PackShape
<1>2a. \A r \in Requests : JobFits(kPc[r], kJob[r])'
  <2> SUFFICES ASSUME NEW r \in Requests PROVE JobFits(kPc[r], kJob[r])'
      OBVIOUS
  <2>1. JobFits(kPc'[r], kJob'[r])
        BY <1>2
  <2>2. QED
        BY <2>1 DEF JobFits, ManifestFits, Items
<1>3. upload_status' # "none"
      BY DEF PackInv, PackShape
<1>4. PackShape'
      BY <1>1, <1>2a, <1>3 DEF PackInv, PackShape, ItemShape
<1>5. ASSUME ~shared PROVE Alone' /\ \A r \in Requests : ReadHolds(r)'
  <2>1. \A r \in Requests \ {q} : kPc'[r] = "idle"
        BY <1>1, <1>5 DEF PackInv, Solo, Alone
  <2>2. Alone'
        BY <2>1 DEF Alone
  <2>3. \A r \in Requests \ {q} : ReadHolds(r)'
        BY <2>1, IdleReads
  <2>4. ReadHolds(q)'
        BY <1>1, <1>5, IdleReads
  <2>5. QED
        BY <2>2, <2>3, <2>4
<1>6. Solo'
      BY <1>5 DEF Solo, RowsSolo
<1>7. QED
      BY <1>4, <1>6 DEF PackInv

\* A read disturbs no row.
LEMMA Unwritten ==
    ASSUME PackInv, UNCHANGED packRows
    PROVE  ItemShape' /\ SearchedAsKept' /\ upload_status' = upload_status /\ (~shared => RowsSolo')
BY DEF PackInv, PackShape, ItemShape, SearchedAsKept, packRows, Solo, RowsSolo, Matching, OneRow,
       GoneIsEmpty, PackExists

\* A request begins, alone or not.
LEMMA SetsOut ==
    ASSUME PackInv, NEW q \in Requests, NEW where \in PackStages, NEW job, Begins(q, where, job),
           JobFits(where, job), upload_status # "none", ~shared => ReadHolds(q)'
    PROVE  PackInv'
<1>1. /\ kPc' \in [Requests -> PackStages] /\ kJob' = [r \in Requests |-> kJob'[r]]
      /\ kPc'[q] = where /\ kJob'[q] = job
      /\ \A r \in Requests \ {q} : kPc'[r] = kPc[r] /\ kJob'[r] = kJob[r]
      /\ shared' = (shared \/ \E r \in Requests \ {q} : kPc[r] # "idle")
      BY DEF PackInv, PackShape, Moves, Begins
<1>2. \A r \in Requests : JobFits(kPc'[r], kJob'[r])
      BY <1>1 DEF PackInv, PackShape
<1>2a. \A r \in Requests : JobFits(kPc[r], kJob[r])'
  <2> SUFFICES ASSUME NEW r \in Requests PROVE JobFits(kPc[r], kJob[r])'
      OBVIOUS
  <2>1. JobFits(kPc'[r], kJob'[r])
        BY <1>2
  <2>2. QED
        BY <2>1 DEF JobFits, ManifestFits, Items
<1>3. /\ ItemShape' /\ SearchedAsKept' /\ upload_status' = upload_status
      /\ ~shared => RowsSolo'
      BY Unwritten DEF Begins
<1>3a. shared' \in BOOLEAN
      BY <1>1 DEF PackInv, PackShape
<1>4. PackShape'
      BY <1>1, <1>2a, <1>3, <1>3a DEF PackShape, ItemShape
<1>5. ASSUME ~shared' PROVE ~shared /\ Alone' /\ \A r \in Requests : ReadHolds(r)'
  <2>0. ~shared /\ \A r \in Requests \ {q} : kPc[r] = "idle"
        BY <1>1, <1>5
  <2>1. \A r \in Requests \ {q} : kPc'[r] = "idle"
        BY <1>1, <2>0
  <2>2. Alone'
        BY <2>1 DEF Alone
  <2>3. \A r \in Requests \ {q} : ReadHolds(r)'
        BY <2>1, IdleReads
  <2>4. ReadHolds(q)'
        BY <2>0
  <2>5. QED
        BY <2>0, <2>2, <2>3, <2>4
<1>6. Solo'
      BY <1>5, <1>3 DEF Solo, RowsSolo
<1>7. QED
      BY <1>4, <1>6, <1>3 DEF PackInv

LEMMA PackInitially == PackRests => PackInv
<1> SUFFICES ASSUME PackRests PROVE PackInv
    OBVIOUS
<1>1. PackShape
      BY DEF PackRests, PackShape, PackStages, JobFits
<1>2. SearchedAsKept
      BY DEF PackRests, SearchedAsKept
<1>3. Solo
      BY DEF PackRests, Solo, Alone, Matching, OneRow, GoneIsEmpty, ReadHolds, UploadHolds,
             FoundHolds, UnsentHolds, RowsHold
<1>4. QED
      BY <1>1, <1>2, <1>3 DEF PackInv

\* Rows that are taken away disturb nothing.
LEMMA DeletesItemStep == PackInv /\ DeletesItem => PackInv'
<1> SUFFICES ASSUME PackInv, DeletesItem PROVE PackInv'
    OBVIOUS
<1>1. PICK i \in Items : item[i] # NoRow /\ Writes([k \in {i} |-> NoRow])
      BY DEF DeletesItem
<1>2. /\ SearchedAsKept'
      /\ item' = [k \in Items |-> IF k = i THEN NoRow ELSE item[k]]
      BY <1>1, WritesEffect DEF PackInv
<1>3. \A k \in Items : item'[k] = NoRow \/ item'[k] = item[k]
      BY <1>2
<1>4. UNCHANGED <<upload_status, inserted, kPc, kJob, shared>>
      BY DEF DeletesItem
<1>5. PackShape'
  <2>1. ItemShape'
        BY <1>2, <1>3 DEF PackInv, PackShape, ItemShape
  <2>2. \A q \in Requests : JobFits(kPc[q], kJob[q])'
        BY <1>4 DEF PackInv, PackShape, JobFits, ManifestFits, Items
  <2>3. QED
        BY <1>4, <2>1, <2>2 DEF PackInv, PackShape, ItemShape
<1>6. ASSUME ~shared PROVE Alone' /\ Matching' /\ OneRow' /\ GoneIsEmpty'
      BY <1>3, <1>4, <1>6 DEF PackInv, Solo, Alone, Matching, OneRow, GoneIsEmpty, PackExists
<1>7. ASSUME ~shared, NEW q \in Requests PROVE ReadHolds(q)'
  <2>1. ReadHolds(q)
        BY <1>7 DEF PackInv, Solo
  <2>2. JobFits(kPc[q], kJob[q])
        BY DEF PackInv, PackShape
  <2>3. UploadHolds(q)'
        BY <2>1, <1>3, <1>4 DEF ReadHolds, UploadHolds
  <2>4. FoundHolds(q)'
        BY <2>1, <2>2, <1>3, <1>4 DEF ReadHolds, FoundHolds, JobFits
  <2>5. UnsentHolds(q)'
    <3> SUFFICES ASSUME kPc[q] = "extracted files",
                        NEW p \in DOMAIN kJob[q].dir \ kJob[q].sent, NEW k \in Items,
                        item'[k] # NoRow, item'[k].path = p
                 PROVE  item'[k].content = kJob[q].dir[p]
        BY <1>4 DEF UnsentHolds, Items
    <3>1. item'[k] = item[k]
          BY <1>3
    <3>2. QED
          BY <2>1, <3>1 DEF ReadHolds, UnsentHolds
  <2>6. RowsHold(q)'
        BY <2>1, <1>3, <1>4 DEF ReadHolds, RowsHold
  <2>7. QED
        BY <2>1, <2>3, <2>4, <2>5, <2>6, <1>4 DEF ReadHolds, PackExists
<1>8. Solo'
      BY <1>4, <1>6, <1>7 DEF Solo
<1>9. QED
      BY <1>2, <1>5, <1>8 DEF PackInv

\* A directory has one row for each of its files.
LEMMA CreatesStep == ASSUME NEW q \in Requests PROVE PackInv /\ Creates(q) => PackInv'
<1> SUFFICES ASSUME PackInv, Creates(q) PROVE PackInv'
    OBVIOUS
<1>1. /\ UNCHANGED <<kPc, kJob, shared>> /\ upload_status = "none"
      /\ upload_status' \in {"uploading", "ready"}
      BY DEF Creates
<1>2. \A r \in Requests : kPc'[r] = "idle"
      BY <1>1 DEF PackInv, PackShape
<1>3. /\ ItemShape' /\ SearchedAsKept'
      /\ ~shared => Matching' /\ OneRow'
  <2>1. CASE UNCHANGED <<item, chunks, inserted>>
        BY <2>1 DEF PackInv, PackShape, ItemShape, SearchedAsKept, Solo, Matching, OneRow
  <2>2. CASE \E dir \in Directories(q) :
               LET new == NewRows(DOMAIN dir) IN
               /\ upload_status' = "ready" /\ inserted' = Cardinality(DOMAIN dir)
               /\ Writes([i \in Range(new) |->
                            LET p == Inverse(new, DOMAIN new, Range(new))[i]
                            IN Row(p, dir[p], dir[p])])
    <3>1. PICK dir \in Directories(q) :
               LET new == NewRows(DOMAIN dir) IN
               Writes([i \in Range(new) |->
                            LET p == Inverse(new, DOMAIN new, Range(new))[i]
                            IN Row(p, dir[p], dir[p])])
          BY <2>2
    <3> DEFINE new == NewRows(DOMAIN dir)
               path == Inverse(new, DOMAIN new, Range(new))
               written == [i \in Range(new) |-> Row(path[i], dir[path[i]], dir[path[i]])]
    <3>2. Writes(written)
          BY <3>1
    <3>3. DOMAIN dir \subseteq Paths
          BY KnowledgePacksAssumption DEF Directories
    <3>4. DOMAIN new = DOMAIN dir
          BY DEF NewRows
    <3>5. ASSUME NEW i \in Range(new) PROVE path[i] \in DOMAIN dir /\ new[path[i]] = i
      <4>1. path[i] = CHOOSE s \in DOMAIN new : i \in Range(new) => new[s] = i
            BY DEF Inverse
      <4>2. \E s \in DOMAIN new : new[s] = i
            BY <3>5 DEF Range
      <4>3. QED
            BY <4>1, <4>2, <3>4
    <3> HIDE DEF new, path
    <3>6. /\ SearchedAsKept'
          /\ item' = [i \in Items |-> IF i \in DOMAIN written THEN written[i] ELSE item[i]]
          BY <3>2, WritesEffect DEF PackInv
    <3>7. \A i \in Items : \/ /\ i \in Range(new)
                              /\ item'[i] = Row(path[i], dir[path[i]], dir[path[i]])
                           \/ i \notin Range(new) /\ item'[i] = item[i]
          BY <3>6
    <3>8. ItemShape'
          BY <3>3, <3>5, <3>6, <3>7 DEF ItemShape, PackInv, PackShape, Row
    <3>9. ASSUME ~shared PROVE Matching' /\ OneRow'
      <4>1. \A i \in Items : item[i] = NoRow
            BY <1>1, <3>9 DEF PackInv, Solo, GoneIsEmpty, PackExists
      <4>2. \A i \in Items : item'[i] # NoRow =>
               /\ i \in Range(new) /\ item'[i].path = path[i]
               /\ item'[i].content = item'[i].checksum
        <5> SUFFICES ASSUME NEW i \in Items, item'[i] # NoRow
                     PROVE  /\ i \in Range(new) /\ item'[i].path = path[i]
                            /\ item'[i].content = item'[i].checksum
            OBVIOUS
        <5>1. i \in Range(new) /\ item'[i] = Row(path[i], dir[path[i]], dir[path[i]])
              BY <3>7, <4>1
        <5>2. QED
              BY <5>1 DEF Row
      <4>3. Matching'
            BY <4>2 DEF Matching
      <4>4. OneRow'
            BY <4>2, <3>5 DEF OneRow
      <4>5. QED
            BY <4>3, <4>4
    <3>10. QED
          BY <3>6, <3>8, <3>9
  <2>3. QED
        BY <2>1, <2>2 DEF Creates
<1>4. PackShape'
  <2>1. \A r \in Requests : JobFits(kPc[r], kJob[r])'
        BY <1>1 DEF PackInv, PackShape, JobFits, ManifestFits, Items
  <2>2. QED
        BY <1>1, <1>2, <1>3, <2>1 DEF PackInv, PackShape, ItemShape
<1>5. \A r \in Requests : ReadHolds(r)'
      BY <1>2, IdleReads
<1>6. Alone' /\ GoneIsEmpty'
      BY <1>1, <1>2 DEF Alone, GoneIsEmpty, PackExists
<1>7. Solo'
      BY <1>1, <1>3, <1>5, <1>6 DEF Solo
<1>8. QED
      BY <1>3, <1>4, <1>7 DEF PackInv

\* A file replaces the one row of its path, or is the first of it.
LEMMA UpsertStep ==
    ASSUME NEW q \in Requests
    PROVE  PackInv /\ (UploadReads(q) \/ UploadFinds(q) \/ Upserts(q)) => PackInv'
<1>1. ASSUME PackInv, UploadReads(q) PROVE PackInv'
  <2>1. PICK p \in About[q], t \in Texts :
           Begins(q, "extracted", [path |-> p, content |-> t, row |-> NoRow])
        BY <1>1 DEF UploadReads
  <2>2. upload_status = "uploading"
        BY <1>1 DEF UploadReads
  <2> DEFINE job == [path |-> p, content |-> t, row |-> NoRow]
  <2>3. JobFits("extracted", job)
        BY KnowledgePacksAssumption DEF JobFits
  <2>4. kPc'[q] = "extracted" /\ upload_status' = upload_status
        BY <1>1, <2>1 DEF Begins, Moves, packRows, PackInv, PackShape
  <2>5. ReadHolds(q)'
        BY <2>2, <2>4 DEF ReadHolds, UploadHolds, FoundHolds, UnsentHolds, RowsHold, PackExists
  <2>6. QED
        BY <1>1, <2>1, <2>2, <2>3, <2>5, SetsOut DEF PackStages
<1>2. ASSUME PackInv, UploadFinds(q) PROVE PackInv'
  <2>1. /\ kPc[q] = "extracted" /\ UNCHANGED <<packRows, shared>>
        /\ JobFits("extracted", kJob[q])
        BY <1>2 DEF UploadFinds, PackInv, PackShape
  <2>2. \E i \in Items \cup {NoRow} :
           /\ Moves(q, "upsert", [kJob[q] EXCEPT !.row = i])
           /\ i = NoRow => RowsOf(kJob[q].path) = {}
           /\ i # NoRow => i \in RowsOf(kJob[q].path)
    <3>1. CASE RowsOf(kJob[q].path) = {}
      <4>1. [kJob[q] EXCEPT !.row = NoRow] = kJob[q]
            BY <2>1 DEF JobFits
      <4>2. Moves(q, "upsert", kJob[q])
            BY <1>2, <3>1 DEF UploadFinds
      <4>3. QED
            BY <3>1, <4>1, <4>2
    <3>2. CASE RowsOf(kJob[q].path) # {}
      <4>1. PICK i \in RowsOf(kJob[q].path) : Moves(q, "upsert", [kJob[q] EXCEPT !.row = i])
            BY <1>2, <3>2 DEF UploadFinds
      <4>2. i \in Items /\ i # NoRow
            BY <4>1, KnowledgePacksAssumption DEF RowsOf, Items
      <4>3. QED
            BY <4>1, <4>2
    <3>3. QED
          BY <3>1, <3>2
  <2>3. PICK i \in Items \cup {NoRow} :
           /\ Moves(q, "upsert", [kJob[q] EXCEPT !.row = i])
           /\ i = NoRow => RowsOf(kJob[q].path) = {}
           /\ i # NoRow => i \in RowsOf(kJob[q].path)
        BY <2>2
  <2> DEFINE job == [kJob[q] EXCEPT !.row = i]
  <2>4. job = [path |-> kJob[q].path, content |-> kJob[q].content, row |-> i]
        BY <2>1 DEF JobFits
  <2>5. JobFits("upsert", job)
        BY <2>1, <2>3, <2>4 DEF JobFits
  <2>6. /\ kPc'[q] = "upsert" /\ kJob'[q].path = kJob[q].path /\ kJob'[q].row = i
        BY <1>2, <2>3, <2>4 DEF Moves, PackInv, PackShape
  <2>7. UNCHANGED <<item, upload_status>>
        BY <2>1 DEF packRows
  <2>8. ASSUME ~shared PROVE ReadHolds(q)'
    <3>1. PackExists /\ OneRow
          BY <1>2, <2>1, <2>8 DEF PackInv, Solo, ReadHolds
    <3>2. \A k \in Items : item[k] # NoRow /\ item[k].path = kJob[q].path => i = k
      <4> SUFFICES ASSUME NEW k \in Items, item[k] # NoRow, item[k].path = kJob[q].path PROVE i = k
          OBVIOUS
      <4>1. k \in RowsOf(kJob[q].path)
            BY DEF RowsOf
      <4>2. i \in Items /\ item[i] # NoRow /\ item[i].path = kJob[q].path
            BY <2>3, <4>1 DEF RowsOf
      <4>3. QED
            BY <3>1, <4>2 DEF OneRow
    <3>3. UploadHolds(q)'
          BY <2>6, <2>7, <3>2 DEF UploadHolds, Items
    <3>4. FoundHolds(q)'
          BY <2>3, <2>6, <2>7 DEF FoundHolds, RowsOf
    <3>5. QED
          BY <2>6, <2>7, <3>1, <3>3, <3>4 DEF ReadHolds, UnsentHolds, RowsHold, PackExists
  <2>9. QED
        BY <1>2, <2>1, <2>3, <2>5, <2>8, Unwritten, Moved DEF PackStages
<1>3. ASSUME PackInv, Upserts(q) PROVE PackInv'
  <2> DEFINE j == kJob[q]
             row == Row(j.path, j.content, j.content)
  <2>1. /\ kPc[q] = "upsert" /\ upload_status' = upload_status /\ shared' = shared
        /\ Moves(q, "idle", NoRow)
        BY <1>3 DEF Upserts, Answers
  <2>2. j.path \in Paths /\ j.row \in Items \cup {NoRow}
        BY <1>3, <2>1 DEF PackInv, PackShape, JobFits
  <2>3. \/ UNCHANGED <<item, chunks>>
        \/ j.row # NoRow /\ item[j.row] # NoRow /\ Writes([i \in {j.row} |-> row])
        \/ j.row = NoRow /\ Writes([i \in {inserted + 1} |-> row])
        BY <1>3 DEF Upserts
  <2>4. CASE UNCHANGED <<item, chunks>>
    <3>1. ItemShape' /\ SearchedAsKept' /\ (~shared => RowsSolo')
          BY <1>3, <2>1, <2>4 DEF PackInv, PackShape, ItemShape, SearchedAsKept, Solo, RowsSolo,
                                  Matching, OneRow, GoneIsEmpty, PackExists
    <3>2. QED
          BY <1>3, <2>1, <3>1, Moved DEF PackStages, JobFits
  <2>5. ASSUME NEW n, Writes([i \in {n} |-> row]), n = j.row \/ j.row = NoRow PROVE PackInv'
    <3>1. /\ SearchedAsKept'
          /\ item' = [i \in Items |-> IF i = n THEN row ELSE item[i]]
          BY <1>3, <2>5, WritesEffect DEF PackInv
    <3>2. row.path = j.path /\ row.content = row.checksum
          BY DEF Row
    <3> HIDE DEF row
    <3>3. ItemShape'
          BY <1>3, <2>2, <3>1, <3>2 DEF ItemShape, PackInv, PackShape
    <3>4. ASSUME ~shared PROVE RowsSolo'
      <4>1. Matching'
            BY <1>3, <3>1, <3>2, <3>4 DEF PackInv, Solo, Matching
      <4>2. \A i \in Items : item[i] # NoRow /\ item[i].path = j.path => i = n
        <5>1. \A i \in Items : item[i] # NoRow /\ item[i].path = j.path => i = j.row
              BY <1>3, <2>1, <3>4 DEF PackInv, Solo, ReadHolds, UploadHolds
        <5>2. \A i \in Items : i # NoRow
              BY KnowledgePacksAssumption DEF Items
        <5>3. QED
              BY <5>1, <5>2, <2>5
      <4>3. OneRow'
            BY <1>3, <3>1, <3>2, <3>4, <4>2 DEF PackInv, Solo, OneRow
      <4>4. GoneIsEmpty'
            BY <1>3, <2>1, <3>4 DEF PackInv, Solo, ReadHolds, GoneIsEmpty, PackExists
      <4>5. QED
            BY <4>1, <4>3, <4>4 DEF RowsSolo
    <3>5. QED
          BY <1>3, <2>1, <3>1, <3>3, <3>4, Moved DEF PackStages, JobFits
  <2>6. QED
        BY <2>3, <2>4, <2>5
<1>4. QED
      BY <1>1, <1>2, <1>3

\* A request that reads nothing of the rows it then writes.
LEMMA NothingRead ==
    ASSUME NEW q, kPc'[q] \in {"idle", "count", "mark", "delete"} PROVE ReadHolds(q)'
BY DEF ReadHolds, UploadHolds, FoundHolds, UnsentHolds, RowsHold

LEMMA CompleteStep ==
    ASSUME NEW q \in Requests
    PROVE  PackInv /\ (CompleteReads(q) \/ CompleteCounts(q) \/ CompleteMarks(q)) => PackInv'
<1>1. ASSUME PackInv, CompleteReads(q) PROVE PackInv'
  <2>1. upload_status = "uploading" /\ Begins(q, "count", NoRow)
        BY <1>1 DEF CompleteReads
  <2>2. kPc'[q] = "count"
        BY <1>1, <2>1 DEF Begins, Moves, PackInv, PackShape
  <2>3. ReadHolds(q)'
        BY <2>2, NothingRead
  <2>4. "count" \in PackStages /\ JobFits("count", NoRow) /\ upload_status # "none"
        BY <2>1 DEF PackStages, JobFits
  <2>5. QED
        BY <1>1, <2>1, <2>3, <2>4, SetsOut
<1>2. ASSUME PackInv, CompleteCounts(q) PROVE PackInv'
  <2>1. PICK where \in {"mark", "idle"} : Moves(q, where, NoRow)
        BY <1>2 DEF CompleteCounts
  <2>2. kPc[q] = "count" /\ UNCHANGED <<packRows, shared>>
        BY <1>2 DEF CompleteCounts
  <2>3. kPc'[q] = where
        BY <1>2, <2>1 DEF Moves, PackInv, PackShape
  <2>4. where \in PackStages /\ JobFits(where, NoRow)
        BY <2>1 DEF PackStages, JobFits
  <2>5. ReadHolds(q)'
        BY <2>1, <2>3, NothingRead
  <2>6. ItemShape' /\ SearchedAsKept' /\ upload_status' = upload_status /\ (~shared => RowsSolo')
        BY <1>2, <2>2, Unwritten
  <2>7. QED
        BY <1>2, <2>1, <2>2, <2>4, <2>5, <2>6, Moved
<1>3. ASSUME PackInv, CompleteMarks(q) PROVE PackInv'
  <2>1. /\ kPc[q] = "mark" /\ Moves(q, "idle", NoRow) /\ shared' = shared
        /\ UNCHANGED <<item, chunks>> /\ PackExists' = PackExists
        /\ upload_status' = "none" => upload_status = "none"
        BY <1>3 DEF CompleteMarks, Answers, PackExists
  <2>2. ItemShape' /\ SearchedAsKept' /\ (~shared => RowsSolo')
        BY <1>3, <2>1 DEF PackInv, PackShape, ItemShape, SearchedAsKept, Solo, RowsSolo,
                          Matching, OneRow, GoneIsEmpty
  <2>3. QED
        BY <1>3, <2>1, <2>2, Moved DEF PackStages, JobFits
<1>4. QED
      BY <1>1, <1>2, <1>3

LEMMA DeleteStep ==
    ASSUME NEW q \in Requests
    PROVE  PackInv /\ (DeleteReads(q) \/ Deletes(q) \/ GivesUp(q)) => PackInv'
<1>1. ASSUME PackInv, DeleteReads(q) PROVE PackInv'
  <2>1. upload_status # "none" /\ Begins(q, "delete", NoRow)
        BY <1>1 DEF DeleteReads, PackExists
  <2>2. kPc'[q] = "delete"
        BY <1>1, <2>1 DEF Begins, Moves, PackInv, PackShape
  <2>3. ReadHolds(q)'
        BY <2>2, NothingRead
  <2>4. "delete" \in PackStages /\ JobFits("delete", NoRow) /\ upload_status # "none"
        BY <2>1 DEF PackStages, JobFits
  <2>5. QED
        BY <1>1, <2>1, <2>3, <2>4, SetsOut
<1>2. ASSUME PackInv, Deletes(q) PROVE PackInv'
  <2>1. /\ kPc[q] = "delete" /\ Moves(q, "idle", NoRow) /\ shared' = shared
        /\ upload_status' = "deleted" /\ Writes([i \in Items |-> NoRow])
        BY <1>2 DEF Deletes, Answers
  <2>2. SearchedAsKept' /\ item' = [i \in Items |-> NoRow]
        BY <1>2, <2>1, WritesEffect DEF PackInv
  <2>3. ItemShape' /\ RowsSolo'
        BY <2>2 DEF ItemShape, RowsSolo, Matching, OneRow, GoneIsEmpty
  <2>4. QED
        BY <1>2, <2>1, <2>2, <2>3, Moved DEF PackStages, JobFits
<1>3. ASSUME PackInv, GivesUp(q) PROVE PackInv'
      BY <1>3, Unwritten, Moved DEF GivesUp, Answers, PackStages, JobFits
<1>4. QED
      BY <1>1, <1>2, <1>3

\* The files that are not sent are those a row of the same checksum is there for; the rows a
\* replacement goes by are one for each path.
LEMMA SyncStep ==
    ASSUME NEW q \in Requests
    PROVE  PackInv /\ (SyncReads(q) \/ SyncFinds(q)) => PackInv'
<1>1. ASSUME PackInv, SyncReads(q) PROVE PackInv'
  <2>1. PackExists
        BY <1>1 DEF SyncReads
  <2>2. PICK dir \in Directories(q) :
           LET same == {p \in DOMAIN dir : \E i \in RowsOf(p) : item[i].checksum = dir[p]} IN
           \E sent \in {DOMAIN dir, DOMAIN dir \ same} :
              Begins(q, "extracted files", [dir |-> dir, sent |-> sent, rows |-> NoRow])
        BY <1>1 DEF SyncReads
  <2> DEFINE same == {p \in DOMAIN dir : \E i \in RowsOf(p) : item[i].checksum = dir[p]}
  <2>3. PICK sent \in {DOMAIN dir, DOMAIN dir \ same} :
              Begins(q, "extracted files", [dir |-> dir, sent |-> sent, rows |-> NoRow])
        BY <2>2
  <2> DEFINE job == [dir |-> dir, sent |-> sent, rows |-> NoRow]
  <2>4. DOMAIN dir \subseteq Paths
        BY KnowledgePacksAssumption DEF Directories
  <2>5. JobFits("extracted files", job)
        BY <2>4 DEF JobFits, ManifestFits
  <2>6. /\ kPc'[q] = "extracted files" /\ kJob'[q].dir = dir /\ kJob'[q].sent = sent
        /\ item' = item /\ upload_status' = upload_status
        BY <1>1, <2>3 DEF Begins, Moves, packRows, PackInv, PackShape
  <2>7. DOMAIN dir \ sent \subseteq same
        BY <2>3
  <2>8. ASSUME ~shared PROVE ReadHolds(q)'
    <3>1. ASSUME NEW p \in DOMAIN dir \ sent, NEW i \in Items, item[i] # NoRow, item[i].path = p
          PROVE  item[i].content = dir[p]
      <4>1. PICK k \in RowsOf(p) : item[k].checksum = dir[p]
            BY <2>7, <3>1
      <4>2. k = i
            BY <1>1, <2>8, <3>1, <4>1 DEF RowsOf, PackInv, Solo, OneRow
      <4>3. QED
            BY <1>1, <2>8, <3>1, <4>1, <4>2 DEF PackInv, Solo, Matching
    <3>2. UnsentHolds(q)'
          BY <2>6, <3>1 DEF UnsentHolds, Items
    <3>3. QED
          BY <2>1, <2>6, <3>2 DEF ReadHolds, UploadHolds, FoundHolds, RowsHold, PackExists
  <2>9. QED
        BY <1>1, <2>1, <2>3, <2>5, <2>8, SetsOut DEF PackStages, PackExists
<1>2. ASSUME PackInv, SyncFinds(q) PROVE PackInv'
  <2>1. /\ kPc[q] = "extracted files" /\ UNCHANGED <<packRows, shared>>
        /\ ManifestFits(kJob[q])
        BY <1>2 DEF SyncFinds, PackInv, PackShape, JobFits
  <2>2. CASE Moves(q, "idle", NoRow)
        BY <1>2, <2>1, <2>2, Unwritten, Moved DEF PackStages, JobFits
  <2> DEFINE P == {p \in Paths : RowsOf(p) # {}}
             found(id) == [p \in P |-> [id |-> id[p], content |-> item[id[p]].content]]
  <2>3. CASE \E id \in [P -> Items] :
               /\ \A p \in P : id[p] \in RowsOf(p)
               /\ Moves(q, "replace", [kJob[q] EXCEPT !.rows = found(id)])
    <3>1. PICK id \in [P -> Items] :
               /\ \A p \in P : id[p] \in RowsOf(p)
               /\ Moves(q, "replace", [kJob[q] EXCEPT !.rows = found(id)])
          BY <2>3
    <3> DEFINE R == found(id)
               job == [kJob[q] EXCEPT !.rows = R]
    <3>2. \A p \in P : R[p].id = id[p] /\ R[p].content = item[id[p]].content
          OBVIOUS
    <3>2a. DOMAIN R = P
          OBVIOUS
    <3> HIDE DEF R
    <3>3. job = [dir |-> kJob[q].dir, sent |-> kJob[q].sent, rows |-> R]
      <4> DEFINE d == kJob[q].dir  s == kJob[q].sent
      <4>1. kJob[q] = [dir |-> d, sent |-> s, rows |-> kJob[q].rows]
            BY <2>1 DEF ManifestFits
      <4> HIDE DEF d, s
      <4>2. [kJob[q] EXCEPT !.rows = R] = [dir |-> d, sent |-> s, rows |-> R]
            BY <4>1
      <4>3. QED
            BY <4>2 DEF d, s
    <3>4. JobFits("replace", job)
          BY <2>1, <3>3 DEF JobFits, ManifestFits
    <3>5. Moves(q, "replace", job)
          BY <3>1 DEF R
    <3>6. kPc'[q] = "replace" /\ kJob'[q] = [dir |-> kJob[q].dir, sent |-> kJob[q].sent, rows |-> R]
          BY <1>2, <3>3, <3>5 DEF Moves, PackInv, PackShape
    <3>7. item' = item /\ upload_status' = upload_status
          BY <2>1 DEF packRows
    <3>8. ASSUME ~shared PROVE ReadHolds(q)'
      <4>1. ASSUME NEW i \in Items, item[i] # NoRow
            PROVE  item[i].path \in P /\ R[item[i].path].id = i
        <5>1. item[i].path \in Paths /\ i \in RowsOf(item[i].path)
              BY <1>2, <4>1 DEF PackInv, PackShape, RowsOf
        <5>2. item[i].path \in P
              BY <5>1
        <5>3. id[item[i].path] \in RowsOf(item[i].path)
              BY <3>1, <5>2
        <5>4. id[item[i].path] = i
              BY <1>2, <3>8, <4>1, <5>3 DEF PackInv, Solo, OneRow, RowsOf
        <5>5. QED
              BY <3>2, <5>2, <5>4
      <4>2. ASSUME NEW p \in (DOMAIN kJob[q].dir \ kJob[q].sent) \cap P
            PROVE  R[p].content = kJob[q].dir[p]
        <5>1. id[p] \in Items /\ item[id[p]] # NoRow /\ item[id[p]].path = p
              BY <3>1, <4>2 DEF RowsOf
        <5>2. item[id[p]].content = kJob[q].dir[p]
              BY <1>2, <2>1, <3>8, <4>2, <5>1 DEF PackInv, Solo, ReadHolds, UnsentHolds
        <5>3. QED
              BY <3>2, <5>2
      <4>3. RowsHold(q)'
            BY <3>2a, <3>6, <3>7, <4>1, <4>2 DEF RowsHold, Items
      <4>4. PackExists'
            BY <1>2, <2>1, <3>7, <3>8 DEF PackInv, Solo, ReadHolds, PackExists
      <4>5. QED
            BY <3>6, <4>3, <4>4 DEF ReadHolds, UploadHolds, FoundHolds, UnsentHolds
    <3>9. QED
          BY <1>2, <2>1, <3>4, <3>5, <3>8, Unwritten, Moved DEF PackStages
  <2>4. QED
        BY <1>2, <2>2, <2>3 DEF SyncFinds
<1>3. QED
      BY <1>1, <1>2

\* A replacement writes a row for each file of the directory, of the file's path and checksum, and
\* takes the rows of the other paths away.
LEMMA ReplacedRows ==
    ASSUME NEW j, NEW n \in DOMAIN Replaced(j)
    PROVE  \/ /\ Replaced(j)[n] = NoRow
              /\ \E p \in DOMAIN j.rows \ DOMAIN j.dir : j.rows[p].id = n
           \/ \E p \in DOMAIN j.dir :
                 /\ Replaced(j)[n] = Row(p, Kept(j, p), j.dir[p])
                 /\ \A k \in DOMAIN Replaced(j) : Replaced(j)[k] # NoRow /\ Replaced(j)[k].path = p
                                                  => k = n
<1> DEFINE new == NewRows(DOMAIN j.dir \ DOMAIN j.rows)
           id == [p \in DOMAIN j.dir |-> IF p \in DOMAIN j.rows THEN j.rows[p].id ELSE new[p]]
           dropped == {j.rows[p].id : p \in DOMAIN j.rows \ DOMAIN j.dir}
           path(i) == CHOOSE p \in DOMAIN j.dir : id[p] = i
           R == Replaced(j)
<1>1. R = [i \in dropped \cup {id[p] : p \in DOMAIN j.dir} |->
              IF i \in dropped THEN NoRow ELSE Row(path(i), Kept(j, path(i)), j.dir[path(i)])]
      BY DEF Replaced
<1> HIDE DEF R, id, new
<1>2. DOMAIN R = dropped \cup {id[p] : p \in DOMAIN j.dir}
      BY <1>1
<1>3. ASSUME NEW i \in DOMAIN R, i \notin dropped
      PROVE  /\ path(i) \in DOMAIN j.dir /\ id[path(i)] = i
             /\ R[i] = Row(path(i), Kept(j, path(i)), j.dir[path(i)])
  <2>1. \E p \in DOMAIN j.dir : id[p] = i
        BY <1>2, <1>3
  <2>2. path(i) \in DOMAIN j.dir /\ id[path(i)] = i
        BY <2>1
  <2>3. QED
        BY <1>1, <1>2, <1>3, <2>2
<1>4. ASSUME NEW i \in DOMAIN R, i \in dropped
      PROVE  R[i] = NoRow /\ \E p \in DOMAIN j.rows \ DOMAIN j.dir : j.rows[p].id = i
      BY <1>1, <1>2, <1>4
<1> HIDE DEF path, dropped
<1>5. CASE n \in dropped
      BY <1>4, <1>5 DEF R
<1>6. CASE n \notin dropped
  <2>1. /\ path(n) \in DOMAIN j.dir /\ id[path(n)] = n
        /\ R[n] = Row(path(n), Kept(j, path(n)), j.dir[path(n)])
        BY <1>3, <1>6 DEF R
  <2>2. ASSUME NEW k \in DOMAIN R, R[k] # NoRow, R[k].path = path(n) PROVE k = n
    <3>1. k \notin dropped
          BY <1>4, <2>2
    <3>2. id[path(k)] = k /\ R[k] = Row(path(k), Kept(j, path(k)), j.dir[path(k)])
          BY <1>3, <2>2, <3>1
    <3>3. path(k) = path(n)
          BY <2>2, <3>2 DEF Row
    <3>4. QED
          BY <2>1, <3>2, <3>3
  <2>3. QED
        BY <2>1, <2>2 DEF R
<1>7. QED
      BY <1>5, <1>6

\* It touches every row that was read.
LEMMA ReplacedDomain ==
    ASSUME NEW j, NEW p \in DOMAIN j.rows PROVE j.rows[p].id \in DOMAIN Replaced(j)
<1> DEFINE new == NewRows(DOMAIN j.dir \ DOMAIN j.rows)
           id == [q \in DOMAIN j.dir |-> IF q \in DOMAIN j.rows THEN j.rows[q].id ELSE new[q]]
           dropped == {j.rows[q].id : q \in DOMAIN j.rows \ DOMAIN j.dir}
<1>1. DOMAIN Replaced(j) = dropped \cup {id[q] : q \in DOMAIN j.dir}
      BY DEF Replaced
<1>2. CASE p \in DOMAIN j.dir
  <2>1. id[p] = j.rows[p].id
        BY <1>2
  <2>2. QED
        BY <1>1, <1>2, <2>1
<1>3. CASE p \notin DOMAIN j.dir
      BY <1>1, <1>3
<1>4. QED
      BY <1>2, <1>3

LEMMA ReplaceStep ==
    ASSUME NEW q \in Requests PROVE PackInv /\ Replaces(q) => PackInv'
<1> SUFFICES ASSUME PackInv, Replaces(q) PROVE PackInv'
    OBVIOUS
<1> DEFINE j == kJob[q]
           R == Replaced(j)
<1>1. /\ kPc[q] = "replace" /\ upload_status' = upload_status /\ shared' = shared
      /\ Moves(q, "idle", NoRow) /\ ManifestFits(j)
      BY DEF Replaces, Answers, PackInv, PackShape, JobFits
<1>2. CASE UNCHANGED <<item, chunks>>
  <2>1. ItemShape' /\ SearchedAsKept' /\ (~shared => RowsSolo')
        BY <1>1, <1>2 DEF PackInv, PackShape, ItemShape, SearchedAsKept, Solo, RowsSolo,
                          Matching, OneRow, GoneIsEmpty, PackExists
  <2>2. QED
        BY <1>1, <2>1, Moved DEF PackStages, JobFits
<1>3. CASE Writes(R) /\ DOMAIN j.dir \ DOMAIN j.rows \subseteq j.sent
  <2>1. /\ SearchedAsKept'
        /\ item' = [i \in Items |-> IF i \in DOMAIN R THEN R[i] ELSE item[i]]
        BY <1>3, WritesEffect DEF PackInv
  <2>2. ASSUME NEW n \in DOMAIN R, R[n] # NoRow
        PROVE  \E p \in DOMAIN j.dir :
                  /\ R[n] = Row(p, Kept(j, p), j.dir[p])
                  /\ \A k \in DOMAIN R : R[k] # NoRow /\ R[k].path = p => k = n
        BY <2>2, ReplacedRows
  <2>3. ItemShape'
    <3>1. ASSUME NEW i \in Items, item'[i] # NoRow PROVE item'[i].path \in Paths
      <4>1. CASE i \in DOMAIN R
        <5>1. item'[i] = R[i]
              BY <2>1, <4>1
        <5>2. PICK p \in DOMAIN j.dir : R[i] = Row(p, Kept(j, p), j.dir[p])
              BY <2>2, <3>1, <4>1, <5>1
        <5>3. QED
              BY <1>1, <5>1, <5>2 DEF Row, ManifestFits
      <4>2. CASE i \notin DOMAIN R
            BY <2>1, <3>1, <4>2 DEF PackInv, PackShape
      <4>3. QED
            BY <4>1, <4>2
    <3>2. QED
          BY <2>1, <3>1 DEF ItemShape, Items
  <2>4. ASSUME ~shared PROVE RowsSolo'
    <3>1. RowsHold(q) /\ PackExists
          BY <1>1, <2>4 DEF PackInv, Solo, ReadHolds
    <3>2. ASSUME NEW i \in Items, item'[i] # NoRow PROVE i \in DOMAIN R /\ item'[i] = R[i]
      <4>1. CASE i \notin DOMAIN R
        <5>1. item[i] # NoRow
              BY <2>1, <3>2, <4>1
        <5>2. item[i].path \in DOMAIN j.rows /\ j.rows[item[i].path].id = i
              BY <1>1, <3>1, <5>1 DEF RowsHold
        <5>3. QED
              BY <4>1, <5>2, ReplacedDomain
      <4>2. QED
            BY <2>1, <4>1
    <3>3. Matching'
      <4> SUFFICES ASSUME NEW i \in Items, item'[i] # NoRow
                   PROVE  item'[i].content = item'[i].checksum
          BY DEF Matching, Items
      <4>1. PICK p \in DOMAIN j.dir : item'[i] = Row(p, Kept(j, p), j.dir[p])
            BY <2>2, <3>2
      <4>2. Kept(j, p) = j.dir[p]
            BY <1>1, <1>3, <3>1 DEF Kept, RowsHold
      <4>3. QED
            BY <4>1, <4>2 DEF Row
    <3>4. OneRow'
      <4> SUFFICES ASSUME NEW i \in Items, NEW k \in Items, item'[i] # NoRow, item'[k] # NoRow,
                          item'[i].path = item'[k].path
                   PROVE  i = k
          BY DEF OneRow, Items
      <4>1. /\ i \in DOMAIN R /\ item'[i] = R[i]
            /\ k \in DOMAIN R /\ item'[k] = R[k]
            BY <3>2
      <4>2. PICK p \in DOMAIN j.dir :
                  /\ R[i] = Row(p, Kept(j, p), j.dir[p])
                  /\ \A l \in DOMAIN R : R[l] # NoRow /\ R[l].path = p => l = i
            BY <2>2, <4>1
      <4>3. R[i].path = p
            BY <4>2 DEF Row
      <4>4. QED
            BY <4>1, <4>2, <4>3
    <3>5. QED
          BY <1>1, <3>1, <3>3, <3>4 DEF RowsSolo, GoneIsEmpty, PackExists
  <2>5. QED
        BY <1>1, <2>1, <2>3, <2>4, Moved DEF PackStages, JobFits
<1>4. QED
      BY <1>2, <1>3 DEF Replaces

LEMMA PackStep == PackInv /\ [PackNext]_packVars => PackInv'
<1> SUFFICES ASSUME PackInv, [PackNext]_packVars PROVE PackInv'
    OBVIOUS
<1>1. CASE UNCHANGED packVars
  <2>1. UNCHANGED <<upload_status, item, chunks, inserted, kPc, kJob, shared>>
        BY <1>1 DEF packVars, packRows
  <2>2. \A q \in Requests : JobFits(kPc[q], kJob[q])'
        BY <2>1 DEF PackInv, PackShape, JobFits, ManifestFits, Items
  <2>3. PackShape'
        BY <2>1, <2>2 DEF PackInv, PackShape, Items
  <2>4. SearchedAsKept'
        BY <2>1 DEF PackInv, SearchedAsKept
  <2>5. ASSUME ~shared PROVE Alone' /\ Matching' /\ OneRow' /\ GoneIsEmpty'
        BY <2>1, <2>5 DEF PackInv, Solo, Alone, Matching, OneRow, GoneIsEmpty, PackExists
  <2>6. ASSUME ~shared, NEW q \in Requests PROVE ReadHolds(q)'
    <3>1. ReadHolds(q)
          BY <2>6 DEF PackInv, Solo
    <3>2. QED
          BY <2>1, <3>1 DEF ReadHolds, UploadHolds, FoundHolds, UnsentHolds, RowsHold, PackExists, Items
  <2>7. Solo'
        BY <2>1, <2>5, <2>6 DEF Solo
  <2>8. QED
        BY <2>3, <2>4, <2>7 DEF PackInv
<1>2. ASSUME NEW q \in Requests,
             \/ Creates(q) \/ UploadReads(q) \/ UploadFinds(q) \/ Upserts(q)
             \/ CompleteReads(q) \/ CompleteCounts(q) \/ CompleteMarks(q)
             \/ SyncReads(q) \/ SyncFinds(q) \/ Replaces(q)
             \/ DeleteReads(q) \/ Deletes(q) \/ GivesUp(q)
      PROVE  PackInv'
      BY <1>2, CreatesStep, UpsertStep, CompleteStep, SyncStep, ReplaceStep, DeleteStep
<1>3. QED
      BY <1>1, <1>2, DeletesItemStep DEF PackNext

\* Whatever requests overlap, fail or find their rows gone, every chunk is of its row's content;
\* and what a request that is alone has read of the rows stays true until it writes.
THEOREM PackInvHolds == PackSpec => []PackInv
<1>1. QED
      BY PackInitially, PackStep, PTL DEF PackSpec

\* A search reads the texts that are kept; and unless two requests were at work at once, a row has
\* the content of its checksum, a path has one row and no row outlives its pack.
THEOREM PacksAreConsistent == PackSpec => []PackIsConsistent
<1>1. PackInv => PackIsConsistent
  <2> SUFFICES ASSUME PackInv PROVE PackIsConsistent
      OBVIOUS
  <2>1. SearchedAsKept
        BY DEF PackInv
  <2>2. ASSUME ~shared, NEW p \in Paths PROVE Cardinality(RowsOf(p)) <= 1
    <3>1. \A i, k \in RowsOf(p) : i = k
          BY <2>2 DEF PackInv, Solo, OneRow, RowsOf
    <3>2. CASE RowsOf(p) = {}
          BY <3>2, FS_EmptySet
    <3>3. CASE \E i \in RowsOf(p) : TRUE
      <4>1. PICK i \in RowsOf(p) : RowsOf(p) = {i}
            BY <3>1, <3>3
      <4>2. QED
            BY <4>1, FS_Singleton
    <3>4. QED
          BY <3>2, <3>3
  <2>3. ASSUME ~shared, upload_status \in {"none", "deleted"}, NEW i \in Items PROVE item[i] = NoRow
        BY <2>3 DEF PackInv, Solo, GoneIsEmpty, PackExists
  <2>4. ~shared => \A i \in Items : item[i] # NoRow => item[i].content = item[i].checksum
        BY DEF PackInv, Solo, Matching
  <2>5. ChecksumsTell
        BY <2>2, <2>3, <2>4 DEF ChecksumsTell
  <2>6. QED
        BY <2>1, <2>5 DEF PackIsConsistent
<1>2. QED
      BY <1>1, PackInvHolds, PTL

(* The texts of a pack. *)

TextRows == [path : Paths, content : Texts, checksum : Texts]

\* The texts a request carries; what it sends is finite.
TextsFit(where, j) ==
    /\ where \in {"extracted", "upsert"} => j.content \in Texts
    /\ where \in {"extracted files", "replace"} =>
          IsFiniteSet(DOMAIN j.dir) /\ \A p \in DOMAIN j.dir : j.dir[p] \in Texts
    /\ where = "replace" => \A p \in DOMAIN j.rows : j.rows[p].content \in Texts

RowsTyped ==
    /\ \A i \in Items : item[i] # NoRow => item[i] \in TextRows
    /\ chunks = [i \in Items |-> chunks[i]]

\* What PackInv does not say of the shape of a pack: rows are of texts, and are counted.
PackTyped ==
    /\ upload_status \in {"none", "uploading", "ready", "deleted"} /\ inserted \in 0 .. MaxItems
    /\ RowsTyped
    /\ \A q \in Requests : TextsFit(kPc[q], kJob[q])

LEMMA TypedWrites ==
    ASSUME PackTyped, NEW written, Writes(written),
           \A i \in Items \cap DOMAIN written : written[i] = NoRow \/ written[i] \in TextRows
    PROVE  RowsTyped'
<1>1. /\ item' = [i \in Items |-> IF i \in DOMAIN written THEN written[i] ELSE item[i]]
      /\ chunks' = [i \in Items |-> chunks'[i]]
      BY DEF Writes
<1>2. \A i \in Items : item'[i] # NoRow => item'[i] \in TextRows
      BY <1>1 DEF PackTyped, RowsTyped
<1>3. QED
      BY <1>1, <1>2 DEF RowsTyped, Items, TextRows

LEMMA TypedMoves ==
    ASSUME PackInv, PackTyped, NEW q \in Requests, NEW where, NEW job, Moves(q, where, job),
           TextsFit(where, job)
    PROVE  \A r \in Requests : TextsFit(kPc[r], kJob[r])'
<1> SUFFICES ASSUME NEW r \in Requests PROVE TextsFit(kPc[r], kJob[r])'
    OBVIOUS
<1>1. /\ kPc' = [kPc EXCEPT ![q] = where] /\ kJob' = [kJob EXCEPT ![q] = job]
      /\ kPc = [s \in Requests |-> kPc[s]] /\ kJob = [s \in Requests |-> kJob[s]]
      BY DEF Moves, PackInv, PackShape
<1>2. CASE r = q
  <2>1. kPc'[r] = where /\ kJob'[r] = job
        BY <1>1, <1>2
  <2>2. QED
        BY <2>1 DEF TextsFit
<1>3. CASE r # q
  <2>1. kPc'[r] = kPc[r] /\ kJob'[r] = kJob[r]
        BY <1>1, <1>3
  <2>2. TextsFit(kPc[r], kJob[r])
        BY DEF PackTyped
  <2>3. QED
        BY <2>1, <2>2 DEF TextsFit
<1>4. QED
      BY <1>2, <1>3

\* A request that is answered carries nothing.
LEMMA TypedAnswers ==
    ASSUME PackInv, PackTyped, NEW q \in Requests, Moves(q, "idle", NoRow) \/ UNCHANGED <<kPc, kJob>>
    PROVE  \A r \in Requests : TextsFit(kPc[r], kJob[r])'
<1>1. TextsFit("idle", NoRow)
      BY DEF TextsFit
<1>2. CASE Moves(q, "idle", NoRow)
      BY <1>1, <1>2, TypedMoves
<1>3. CASE UNCHANGED <<kPc, kJob>>
      BY <1>3 DEF PackTyped, TextsFit
<1>4. QED
      BY <1>2, <1>3

LEMMA TypedRests == PackTyped /\ UNCHANGED packRows => RowsTyped' /\ inserted' = inserted
                                                     /\ upload_status' = upload_status
BY DEF PackTyped, RowsTyped, packRows, Items, TextRows

LEMMA CreatesTyped == ASSUME NEW q \in Requests, PackInv, PackTyped, Creates(q) PROVE PackTyped'
<1>1. UNCHANGED <<kPc, kJob>> /\ upload_status' \in {"uploading", "ready"}
      BY DEF Creates
<1>2. CASE UNCHANGED <<item, chunks, inserted>>
  <2>1. RowsTyped'
        BY <1>2 DEF PackTyped, RowsTyped, Items, TextRows
  <2>2. QED
        BY <1>1, <1>2, <2>1, TypedAnswers DEF PackTyped
<1>3. CASE ~UNCHANGED <<item, chunks, inserted>>
  <2>1. PICK dir \in Directories(q) :
           LET new == NewRows(DOMAIN dir) IN
           /\ Cardinality(DOMAIN dir) <= MaxItems /\ inserted' = Cardinality(DOMAIN dir)
           /\ Writes([i \in Range(new) |->
                            LET p == Inverse(new, DOMAIN new, Range(new))[i]
                            IN Row(p, dir[p], dir[p])])
        BY <1>3 DEF Creates
  <2> DEFINE new == NewRows(DOMAIN dir)
             path == Inverse(new, DOMAIN new, Range(new))
             written == [i \in Range(new) |-> Row(path[i], dir[path[i]], dir[path[i]])]
  <2>2. Writes(written)
        BY <2>1
  <2>3. DOMAIN dir \subseteq Paths /\ IsFiniteSet(DOMAIN dir) /\ \A p \in DOMAIN dir : dir[p] \in Texts
        BY KnowledgePacksAssumption, FS_Subset DEF Directories
  <2>4. DOMAIN new = DOMAIN dir
        BY DEF NewRows
  <2>5. ASSUME NEW i \in Range(new) PROVE path[i] \in DOMAIN dir
    <3>1. path[i] = CHOOSE s \in DOMAIN new : i \in Range(new) => new[s] = i
          BY DEF Inverse
    <3>2. \E s \in DOMAIN new : new[s] = i
          BY <2>5 DEF Range
    <3>3. QED
          BY <2>4, <3>1, <3>2
  <2> HIDE DEF new, path
  <2>6. \A i \in DOMAIN written : written[i] \in TextRows
        BY <2>3, <2>5 DEF Row, TextRows
  <2> HIDE DEF written
  <2>7. RowsTyped'
        BY <2>2, <2>6, TypedWrites
  <2>8. inserted' \in 0 .. MaxItems
        BY <2>1, <2>3, FS_CardinalityType, KnowledgePacksAssumption
  <2>9. QED
        BY <1>1, <2>7, <2>8, TypedAnswers DEF PackTyped
<1>4. QED
      BY <1>2, <1>3

LEMMA UpsertTyped ==
    ASSUME NEW q \in Requests, PackInv, PackTyped, UploadReads(q) \/ UploadFinds(q) \/ Upserts(q)
    PROVE  PackTyped'
<1>1. CASE UploadReads(q)
  <2>1. PICK p \in About[q], t \in Texts :
           Begins(q, "extracted", [path |-> p, content |-> t, row |-> NoRow])
        BY <1>1 DEF UploadReads
  <2>2. TextsFit("extracted", [path |-> p, content |-> t, row |-> NoRow])
        BY DEF TextsFit
  <2>3. QED
        BY <2>1, <2>2, TypedMoves, TypedRests DEF Begins, PackTyped
<1>2. CASE UploadFinds(q)
  <2>1. /\ UNCHANGED packRows /\ kPc[q] = "extracted"
        /\ \E job \in {kJob[q]} \cup {[kJob[q] EXCEPT !.row = i] : i \in Items} : Moves(q, "upsert", job)
        BY <1>2 DEF UploadFinds, RowsOf
  <2>2. PICK job \in {kJob[q]} \cup {[kJob[q] EXCEPT !.row = i] : i \in Items} : Moves(q, "upsert", job)
        BY <2>1
  <2>3. kJob[q].content \in Texts /\ JobFits("extracted", kJob[q])
        BY <2>1 DEF PackTyped, TextsFit, PackInv, PackShape
  <2>4. job.content = kJob[q].content
        BY <2>3 DEF JobFits
  <2>5. TextsFit("upsert", job)
        BY <2>3, <2>4 DEF TextsFit
  <2>6. QED
        BY <2>1, <2>2, <2>5, TypedMoves, TypedRests DEF PackTyped
<1>3. CASE Upserts(q)
  <2> DEFINE row == Row(kJob[q].path, kJob[q].content, kJob[q].content)
  <2>1. kPc[q] = "upsert" /\ upload_status' = upload_status /\ Moves(q, "idle", NoRow)
        BY <1>3 DEF Upserts, Answers
  <2>2. row \in TextRows
        BY <2>1 DEF PackTyped, TextsFit, PackInv, PackShape, JobFits, Row, TextRows
  <2>3. \/ UNCHANGED <<item, chunks, inserted>>
        \/ /\ \E i \in Int : Writes([k \in {i} |-> row])
           /\ inserted' \in 0 .. MaxItems
    <3>1. kJob[q].row # NoRow => kJob[q].row \in Items
          BY <2>1 DEF PackInv, PackShape, JobFits
    <3>2. inserted \in 0 .. MaxItems /\ MaxItems \in Nat
          BY KnowledgePacksAssumption DEF PackTyped
    <3>3. CASE kJob[q].row # NoRow
      <4>1. \/ UNCHANGED <<item, chunks, inserted>>
            \/ Writes([k \in {kJob[q].row} |-> row]) /\ inserted' = inserted
            BY <1>3, <3>3 DEF Upserts
      <4>2. kJob[q].row \in Int
            BY <3>1, <3>2, <3>3 DEF Items
      <4> HIDE DEF row
      <4>3. QED
            BY <3>2, <4>1, <4>2
    <3>4. CASE kJob[q].row = NoRow
      <4>1. /\ inserted < MaxItems /\ inserted' = inserted + 1
            /\ Writes([k \in {inserted + 1} |-> row])
            BY <1>3, <3>4 DEF Upserts
      <4> HIDE DEF row
      <4>2. QED
            BY <3>2, <4>1
    <3>5. QED
          BY <3>3, <3>4
  <2>4. RowsTyped' /\ inserted' \in 0 .. MaxItems
    <3>1. CASE UNCHANGED <<item, chunks, inserted>>
          BY <3>1 DEF PackTyped, RowsTyped, Items, TextRows
    <3>2. CASE /\ \E i \in Int : Writes([k \in {i} |-> row])
               /\ inserted' \in 0 .. MaxItems
      <4>1. PICK i \in Int : Writes([k \in {i} |-> row])
            BY <3>2
      <4> HIDE DEF row
      <4> DEFINE written == [k \in {i} |-> row]
      <4>2. \A k \in DOMAIN written : written[k] \in TextRows
            BY <2>2
      <4>3. Writes(written)
            BY <4>1
      <4> HIDE DEF written
      <4>4. QED
            BY <3>2, <4>2, <4>3, TypedWrites
    <3>3. QED
          BY <2>3, <3>1, <3>2
  <2>5. QED
        BY <2>1, <2>4, TypedAnswers DEF PackTyped
<1>4. QED
      BY <1>1, <1>2, <1>3

LEMMA CompleteTyped ==
    ASSUME NEW q \in Requests, PackInv, PackTyped,
           CompleteReads(q) \/ CompleteCounts(q) \/ CompleteMarks(q)
    PROVE  PackTyped'
<1>1. TextsFit("count", NoRow) /\ TextsFit("mark", NoRow) /\ TextsFit("idle", NoRow)
      BY DEF TextsFit
<1>2. CASE CompleteReads(q)
      BY <1>1, <1>2, TypedMoves, TypedRests DEF CompleteReads, Begins, PackTyped
<1>3. CASE CompleteCounts(q)
      BY <1>1, <1>3, TypedMoves, TypedRests DEF CompleteCounts, PackTyped
<1>4. CASE CompleteMarks(q)
  <2>1. /\ UNCHANGED <<item, chunks, inserted>> /\ Moves(q, "idle", NoRow)
        /\ upload_status' \in {upload_status, "ready"}
        BY <1>4 DEF CompleteMarks, Answers
  <2>2. RowsTyped'
        BY <2>1 DEF PackTyped, RowsTyped, Items, TextRows
  <2>3. QED
        BY <2>1, <2>2, TypedAnswers DEF PackTyped
<1>5. QED
      BY <1>2, <1>3, <1>4

LEMMA SyncTyped ==
    ASSUME NEW q \in Requests, PackInv, PackTyped, SyncReads(q) \/ SyncFinds(q)
    PROVE  PackTyped'
<1>1. CASE SyncReads(q)
  <2>1. PICK dir \in Directories(q) : \E sent :
              Begins(q, "extracted files", [dir |-> dir, sent |-> sent, rows |-> NoRow])
        BY <1>1 DEF SyncReads
  <2>2. PICK sent : Begins(q, "extracted files", [dir |-> dir, sent |-> sent, rows |-> NoRow])
        BY <2>1
  <2>3. IsFiniteSet(DOMAIN dir) /\ \A p \in DOMAIN dir : dir[p] \in Texts
        BY KnowledgePacksAssumption, FS_Subset DEF Directories
  <2>4. TextsFit("extracted files", [dir |-> dir, sent |-> sent, rows |-> NoRow])
        BY <2>3 DEF TextsFit
  <2>5. QED
        BY <2>2, <2>4, TypedMoves, TypedRests DEF Begins, PackTyped
<1>2. CASE SyncFinds(q)
  <2>1. kPc[q] = "extracted files" /\ UNCHANGED packRows /\ ManifestFits(kJob[q])
        BY <1>2 DEF SyncFinds, PackInv, PackShape, JobFits
  <2>2. CASE Moves(q, "idle", NoRow)
        BY <2>1, <2>2, TypedAnswers, TypedRests DEF PackTyped
  <2> DEFINE P == {p \in Paths : RowsOf(p) # {}}
             found(id) == [p \in P |-> [id |-> id[p], content |-> item[id[p]].content]]
  <2>3. CASE \E id \in [P -> Items] :
               /\ \A p \in P : id[p] \in RowsOf(p)
               /\ Moves(q, "replace", [kJob[q] EXCEPT !.rows = found(id)])
    <3>1. PICK id \in [P -> Items] :
               /\ \A p \in P : id[p] \in RowsOf(p)
               /\ Moves(q, "replace", [kJob[q] EXCEPT !.rows = found(id)])
          BY <2>3
    <3> DEFINE R == found(id)
               job == [kJob[q] EXCEPT !.rows = R]
    <3>2. DOMAIN R = P /\ \A p \in P : R[p].content = item[id[p]].content
          OBVIOUS
    <3>3. \A p \in P : item[id[p]].content \in Texts
          BY <3>1 DEF RowsOf, PackTyped, RowsTyped, TextRows
    <3> HIDE DEF R
    <3>4. \A p \in DOMAIN R : R[p].content \in Texts
          BY <3>2, <3>3
    <3>5. job.dir = kJob[q].dir /\ job.rows = R
      <4> DEFINE d == kJob[q].dir  s == kJob[q].sent
      <4>1. kJob[q] = [dir |-> d, sent |-> s, rows |-> kJob[q].rows]
            BY <2>1 DEF ManifestFits
      <4> HIDE DEF d, s
      <4>2. job = [dir |-> d, sent |-> s, rows |-> R]
            BY <4>1
      <4>3. QED
            BY <4>2 DEF d
    <3>6. TextsFit("extracted files", kJob[q])
          BY <2>1 DEF PackTyped
    <3> HIDE DEF job
    <3>7. TextsFit("replace", job)
          BY <3>4, <3>5, <3>6 DEF TextsFit
    <3>8. Moves(q, "replace", job)
          BY <3>1 DEF R, job
    <3>9. QED
          BY <2>1, <3>7, <3>8, TypedMoves, TypedRests DEF PackTyped
  <2>4. QED
        BY <1>2, <2>2, <2>3 DEF SyncFinds
<1>3. QED
      BY <1>1, <1>2

LEMMA ReplaceTyped ==
    ASSUME NEW q \in Requests, PackInv, PackTyped, Replaces(q)
    PROVE  PackTyped'
<1> DEFINE j == kJob[q]
           fresh == DOMAIN j.dir \ DOMAIN j.rows
           R == Replaced(j)
<1>1. kPc[q] = "replace" /\ upload_status' = upload_status /\ Moves(q, "idle", NoRow)
      BY DEF Replaces, Answers
<1>2. TextsFit("replace", j) /\ ManifestFits(j)
      BY <1>1 DEF PackTyped, PackInv, PackShape, JobFits
<1>3. CASE UNCHANGED <<item, chunks, inserted>>
  <2>1. RowsTyped'
        BY <1>3 DEF PackTyped, RowsTyped, Items, TextRows
  <2>2. QED
        BY <1>1, <1>3, <2>1, TypedAnswers DEF PackTyped
<1>4. CASE /\ fresh \subseteq j.sent /\ inserted + Cardinality(fresh) <= MaxItems
           /\ inserted' = inserted + Cardinality(fresh) /\ Writes(R)
  <2>1. ASSUME NEW i \in DOMAIN R PROVE R[i] = NoRow \/ R[i] \in TextRows
    <3>1. CASE R[i] = NoRow
          BY <3>1
    <3>2. CASE R[i] # NoRow
      <4>1. PICK p \in DOMAIN j.dir : R[i] = Row(p, Kept(j, p), j.dir[p])
            BY <3>2, ReplacedRows
      <4>2. p \in Paths /\ j.dir[p] \in Texts /\ Kept(j, p) \in Texts
            BY <1>2, <1>4 DEF TextsFit, ManifestFits, Kept
      <4>3. QED
            BY <4>1, <4>2 DEF Row, TextRows
    <3>3. QED
          BY <3>1, <3>2
  <2> HIDE DEF R
  <2>2. RowsTyped'
        BY <1>4, <2>1, TypedWrites
  <2>3. Cardinality(fresh) \in Nat
        BY <1>2, FS_Subset, FS_CardinalityType DEF TextsFit
  <2>4. inserted' \in 0 .. MaxItems
        BY <1>4, <2>3, KnowledgePacksAssumption DEF PackTyped
  <2>5. QED
        BY <1>1, <2>2, <2>4, TypedAnswers DEF PackTyped
<1>5. QED
      BY <1>3, <1>4 DEF Replaces

LEMMA DeleteTyped ==
    ASSUME NEW q \in Requests, PackInv, PackTyped, DeleteReads(q) \/ Deletes(q) \/ GivesUp(q)
    PROVE  PackTyped'
<1>1. TextsFit("delete", NoRow)
      BY DEF TextsFit
<1>2. CASE DeleteReads(q)
      BY <1>1, <1>2, TypedMoves, TypedRests DEF DeleteReads, Begins, PackTyped
<1>3. CASE Deletes(q)
  <2>1. RowsTyped'
        BY <1>3, TypedWrites DEF Deletes
  <2>2. QED
        BY <1>3, <2>1, TypedAnswers DEF Deletes, Answers, PackTyped
<1>4. CASE GivesUp(q)
      BY <1>4, TypedAnswers, TypedRests DEF GivesUp, Answers, PackTyped
<1>5. QED
      BY <1>2, <1>3, <1>4

LEMMA PackTypedStep == PackInv /\ PackTyped /\ [PackNext]_packVars => PackTyped'
<1> SUFFICES ASSUME PackInv, PackTyped, [PackNext]_packVars PROVE PackTyped'
    OBVIOUS
<1>1. CASE UNCHANGED packVars
  <2>1. UNCHANGED packRows /\ UNCHANGED <<kPc, kJob>>
        BY <1>1 DEF packVars
  <2>2. \A r \in Requests : TextsFit(kPc[r], kJob[r])'
        BY <2>1 DEF PackTyped, TextsFit
  <2>3. QED
        BY <2>1, <2>2, TypedRests DEF PackTyped
<1>2. CASE DeletesItem
  <2>1. PICK i \in Items : Writes([k \in {i} |-> NoRow])
        BY <1>2 DEF DeletesItem
  <2>2. RowsTyped'
        BY <2>1, TypedWrites
  <2>3. UNCHANGED <<upload_status, inserted, kPc, kJob>>
        BY <1>2 DEF DeletesItem
  <2>4. \A r \in Requests : TextsFit(kPc[r], kJob[r])'
        BY <2>3 DEF PackTyped, TextsFit
  <2>5. QED
        BY <2>2, <2>3, <2>4 DEF PackTyped
<1>3. ASSUME NEW q \in Requests,
             \/ Creates(q) \/ UploadReads(q) \/ UploadFinds(q) \/ Upserts(q)
             \/ CompleteReads(q) \/ CompleteCounts(q) \/ CompleteMarks(q)
             \/ SyncReads(q) \/ SyncFinds(q) \/ Replaces(q)
             \/ DeleteReads(q) \/ Deletes(q) \/ GivesUp(q)
      PROVE  PackTyped'
      BY <1>3, CreatesTyped, UpsertTyped, CompleteTyped, SyncTyped, ReplaceTyped, DeleteTyped
<1>4. QED
      BY <1>1, <1>2, <1>3 DEF PackNext

LEMMA PackTypedInitially == PackRests => PackTyped
BY KnowledgePacksAssumption DEF PackRests, PackTyped, RowsTyped, TextsFit

LEMMA PackHasType == PackInv /\ PackTyped => PackTypeOK
<1> SUFFICES ASSUME PackInv, PackTyped PROVE PackTypeOK
    OBVIOUS
<1>1. \A i \in Items : chunks[i] \in Texts \cup {NoRow}
      BY DEF PackInv, SearchedAsKept, PackTyped, RowsTyped, TextRows
<1>2. QED
      BY <1>1 DEF PackInv, PackShape, PackTyped, RowsTyped, TextRows, PackTypeOK

-----------------------------------------------------------------------------
(* Official sources.  The invariant says what a request knows of its draft   *)
(* and of the source from the moment it reads them, and that until somebody  *)
(* writes past the lock (crossed) what it knows stays true.                  *)

Owners == Admins \cup {"none"}
\* From the moment a request has a source to write until it is done with it.
Holding == {"lock", "saved", "failed late", "delete", "transfer"} \cup Section
Planned == {"source", "register", "lock", "commit", "mark"}

IsLink(l) == l = [res |-> l.res, owner |-> l.owner, hash |-> l.hash, explicit |-> l.explicit]
IsDraft(x) ==
    x = [status |-> x.status, src |-> x.src, base |-> x.base, commit |-> x.commit, owner |-> x.owner,
         known |-> x.known, selected |-> x.selected, explicit |-> x.explicit, accepted |-> x.accepted]
IsWork(j) ==
    j = [d |-> j.d, src |-> j.src, base |-> j.base, commit |-> j.commit, owner |-> j.owner,
         fresh |-> j.fresh, chosen |-> j.chosen, explicit |-> j.explicit, listed |-> j.listed,
         c |-> j.c, on |-> j.on]

\* Every variable has its type.
OfficialShape ==
    /\ upstream \in Commits /\ lastSource \in 0 .. MaxSources
    /\ source \in [id : {0, lastSource}, state : {"idle", "applying", "failed"}, commit : 0 .. upstream,
                   owner : Owners]
    /\ source.id = 0 => source = NoSource
    /\ DOMAIN link = Components /\ \A c \in Components : IsLink(link[c])
    /\ DOMAIN draft = Drafts /\ DOMAIN ePc = Editors /\ DOMAIN eJob = Editors
    /\ \A d \in Drafts :
         /\ IsDraft(draft[d]) /\ draft[d].selected \cup draft[d].explicit \subseteq draft[d].known
         /\ draft[d].owner \in Owners
    /\ spent \in 0 .. Budget /\ failed \in BOOLEAN /\ crossed \in BOOLEAN

\* A draft is of a commit no older than the one it compares with, and what it accepts was accepted.
DraftsFit ==
    \A d \in Drafts : draft[d].status = "pending" =>
        /\ draft[d].commit \in 1 .. upstream /\ draft[d].base \in 0 .. draft[d].commit
        /\ \A c \in draft[d].accepted : <<c, Tree[draft[d].commit][c]>> \in accepted

\* What a request has read of the source and its draft.
WorkOf(e) ==
    LET j == eJob[e] IN
    /\ IsWork(j) /\ j.owner \in Owners
    /\ ePc[e] \in {"inspected", "import", "attach"} =>
          j.commit \in 1 .. upstream /\ j.base \in 0 .. upstream
    /\ ePc[e] = "inspected" => j.base <= j.commit
    /\ ePc[e] \in {"import", "attach"} =>
          j.d \in Drafts /\ (draft[j.d].status = "pending" => draft[j.d].commit = j.commit)
    /\ ePc[e] \in {"failed", "failed late"} => failed

\* What will be applied is a whole selection of one commit, with every tool accepted.
PlanOf(e) ==
    LET j == eJob[e] IN
    ePc[e] \in Planned =>
        /\ j.commit \in 1 .. upstream /\ j.base \in 0 .. j.commit
        /\ j.chosen \subseteq Present(j.commit)
        /\ \A c \in j.chosen : Needs[c] \subseteq j.chosen
        /\ \A c \in j.chosen \cap Tools : <<c, Tree[j.commit][c]>> \in accepted

RequestsFit == \A e \in Editors : WorkOf(e) /\ PlanOf(e)

\* The lock is held by one request at most, of the source that is there.
LockFits ==
    /\ \A e \in Editors : ePc[e] \in Holding => eJob[e].src = source.id /\ source.id # 0
    /\ \A e \in Editors : ePc[e] \in Section => source.state = "applying"
    /\ \A e, f \in Editors : ePc[e] \in Section /\ ePc[f] \in Section => e = f

\* What a request has read of the source is still so, and what it has written.
StillOf(e) ==
    LET j == eJob[e] IN
    /\ ePc[e] \in {"lock", "commit", "mark"} => j.owner = source.owner
    /\ ePc[e] \in {"commit", "mark"} => j.base = source.commit
    /\ ePc[e] \in {"commit", "delete", "transfer"} => j.listed = link
    /\ ePc[e] = "mark" => Linked = j.chosen /\ \A c \in Linked : link[c].hash = Tree[j.commit][c]

StillSo == \A e \in Editors : StillOf(e)

\* Links and rows name each other, and only links to something are links.
LinksAreWhole ==
    /\ rows = {[c |-> c, res |-> link[c].res, owner |-> source.owner] : c \in Linked}
    /\ source.id = 0 => Linked = {}
    /\ \A c \in Linked :
         /\ link[c].owner = source.owner /\ Needs[c] \subseteq Linked /\ link[c].hash # 0
         /\ c \in Tools => <<c, link[c].hash>> \in accepted
         /\ source.state = "idle" => link[c].hash = Tree[source.commit][c]

\* The lock is held without a request only if there was a failure.
LockIsHeld ==
    source.state = "applying" =>
        failed \/ \E e \in Editors : ePc[e] \in Section /\ eJob[e].src = source.id

\* What holds until a row is written by one that the lock does not keep away.
Sound == DraftsFit /\ RequestsFit /\ LockFits /\ StillSo /\ LinksAreWhole

OfficialInv ==
    /\ OfficialShape /\ LockIsHeld
    /\ crossed \/ (DraftsFit /\ RequestsFit /\ LockFits /\ StillSo /\ LinksAreWhole)

-----------------------------------------------------------------------------

\* One request moves from a place to another.
LEMMA GoesOn ==
    ASSUME OfficialShape, NEW e \in Editors, NEW from, NEW to, At(e, from, to)
    PROVE  /\ ePc[e] = from /\ ePc'[e] = to /\ DOMAIN ePc' = Editors
           /\ \A f \in Editors \ {e} : ePc'[f] = ePc[f]
BY DEF OfficialShape, At

LEMMA HasJob ==
    ASSUME OfficialShape, NEW e \in Editors, NEW j, Keeps(e, j)
    PROVE  eJob'[e] = j /\ DOMAIN eJob' = Editors /\ \A f \in Editors \ {e} : eJob'[f] = eJob[f]
BY DEF OfficialShape, Keeps

LEMMA Ended ==
    ASSUME OfficialShape, NEW e \in Editors, Over(e)
    PROVE  /\ ePc'[e] = "idle" /\ DOMAIN ePc' = Editors /\ eJob'[e] = NoWork /\ DOMAIN eJob' = Editors
           /\ \A f \in Editors \ {e} : ePc'[f] = ePc[f] /\ eJob'[f] = eJob[f]
BY DEF OfficialShape, Over, Keeps

LEMMA NoWorkIsWork == IsWork(NoWork) /\ NoWork.owner \in Owners
BY DEF IsWork, NoWork, Owners

\* A request that holds nothing, before or after, leaves the source as it is.
LEMMA Quiet ==
    ASSUME OfficialInv, Sound, NEW e, UNCHANGED <<source, link, rows>>,
           accepted \subseteq accepted', failed => failed',
           \A f \in Editors \ {e} : ePc'[f] = ePc[f] /\ eJob'[f] = eJob[f],
           e \in Editors => ePc[e] \notin Section /\ ePc'[e] \notin Holding
    PROVE  LockFits' /\ StillSo' /\ LinksAreWhole' /\ LockIsHeld'
<1> USE DEF OfficialInv, Sound
<1>1. LockFits'
  <2>1. \A f \in Editors : ePc'[f] \in Holding => f # e
    OBVIOUS
  <2>2. \A f \in Editors : ePc'[f] \in Section => ePc'[f] \in Holding
    BY DEF Holding
  <2> QED BY <2>1, <2>2 DEF LockFits
<1>2. StillSo'
  <2> SUFFICES ASSUME NEW f \in Editors PROVE StillOf(f)'
    BY DEF StillSo
  <2>1. CASE f = e
    BY <2>1 DEF StillOf, Holding, Section
  <2>2. CASE f # e
    <3>1. StillOf(f) /\ ePc'[f] = ePc[f] /\ eJob'[f] = eJob[f]
      BY <2>2 DEF StillSo
    <3> QED BY <3>1 DEF StillOf, Linked
  <2> QED BY <2>1, <2>2
<1>3. LinksAreWhole'
  BY DEF LinksAreWhole, Linked
<1>4. LockIsHeld'
  BY DEF LockIsHeld
<1> QED BY <1>1, <1>2, <1>3, <1>4

\* A draft others know of is still of the commit they know.
LEMMA OthersFit ==
    ASSUME OfficialInv, Sound, NEW e, accepted \subseteq accepted', failed => failed',
           upstream' \in Nat, upstream <= upstream',
           \A f \in Editors \ {e} : ePc'[f] = ePc[f] /\ eJob'[f] = eJob[f],
           \A d \in Drafts : draft'[d].status = "pending" =>
               \/ draft[d].status = "pending" /\ draft'[d].commit = draft[d].commit
               \/ \A f \in Editors : eJob[f].d # d
    PROVE  \A f \in Editors \ {e} : WorkOf(f)' /\ PlanOf(f)'
<1> SUFFICES ASSUME NEW f \in Editors \ {e} PROVE WorkOf(f)' /\ PlanOf(f)'
  OBVIOUS
<1>1. WorkOf(f) /\ PlanOf(f) /\ ePc'[f] = ePc[f] /\ eJob'[f] = eJob[f] /\ upstream \in Nat
  BY DEF Sound, RequestsFit, OfficialInv, OfficialShape, Commits
<1>2. WorkOf(f)'
  <2>1. IsWork(eJob'[f])
    BY <1>1 DEF WorkOf
  <2>2. ePc[f] \in {"import", "attach"} =>
          /\ eJob[f].d \in Drafts
          /\ draft'[eJob[f].d].status = "pending" => draft'[eJob[f].d].commit = eJob[f].commit
    BY <1>1 DEF WorkOf
  <2>3. ePc[f] \in {"inspected", "import", "attach"} =>
          eJob[f].commit \in 1 .. upstream' /\ eJob[f].base \in 0 .. upstream'
    <3>1. ePc[f] \in {"inspected", "import", "attach"} =>
            eJob[f].commit \in 1 .. upstream /\ eJob[f].base \in 0 .. upstream
      BY <1>1 DEF WorkOf
    <3>2. 1 .. upstream \subseteq 1 .. upstream' /\ 0 .. upstream \subseteq 0 .. upstream'
      BY <1>1
    <3> QED BY <3>1, <3>2
  <2>4. /\ eJob[f].owner \in Owners
        /\ ePc[f] = "inspected" => eJob[f].base <= eJob[f].commit
        /\ ePc[f] \in {"failed", "failed late"} => failed'
    BY <1>1 DEF WorkOf
  <2>5. ePc'[f] = ePc[f] /\ eJob'[f] = eJob[f]
    BY <1>1
  <2> QED BY <2>1, <2>2, <2>3, <2>4, <2>5 DEF WorkOf, Owners
<1>3. PlanOf(f)'
  <2> SUFFICES ASSUME ePc[f] \in Planned PROVE PlanOf(f)'
    BY <1>1 DEF PlanOf, Planned
  <2>1. /\ eJob[f].commit \in 1 .. upstream /\ eJob[f].base \in 0 .. eJob[f].commit
        /\ eJob[f].chosen \subseteq Present(eJob[f].commit)
        /\ \A c \in eJob[f].chosen : Needs[c] \subseteq eJob[f].chosen
        /\ \A c \in eJob[f].chosen \cap Tools : <<c, Tree[eJob[f].commit][c]>> \in accepted
    BY <1>1 DEF PlanOf
  <2>2. eJob[f].commit \in 1 .. upstream'
    BY <1>1, <2>1
  <2> QED BY <1>1, <2>1, <2>2 DEF PlanOf
<1> QED BY <1>2, <1>3

\* Such a step keeps the invariant if it keeps what is said of the request and the drafts.
LEMMA QuietStep ==
    ASSUME OfficialInv, Sound, NEW e, UNCHANGED <<source, link, rows>>,
           accepted \subseteq accepted', failed => failed',
           \A f \in Editors \ {e} : ePc'[f] = ePc[f] /\ eJob'[f] = eJob[f],
           e \in Editors => ePc[e] \notin Section /\ ePc'[e] \notin Holding,
           upstream' \in Nat, upstream <= upstream',
           \A d \in Drafts : draft'[d].status = "pending" =>
               \/ draft[d].status = "pending" /\ draft'[d].commit = draft[d].commit
               \/ \A f \in Editors : eJob[f].d # d,
           OfficialShape', ~crossed' => DraftsFit',
           e \in Editors => WorkOf(e)' /\ PlanOf(e)'
    PROVE  OfficialInv'
<1>1. LockFits' /\ StillSo' /\ LinksAreWhole' /\ LockIsHeld'
  BY Quiet
<1>2. \A f \in Editors \ {e} : WorkOf(f)' /\ PlanOf(f)'
  BY OthersFit
<1> QED BY <1>1, <1>2 DEF OfficialInv, RequestsFit

\* The same, of a request.
LEMMA RequestStep ==
    ASSUME OfficialInv, Sound, NEW e \in Editors, UNCHANGED <<source, link, rows, upstream>>,
           accepted' = accepted, failed => failed',
           \A f \in Editors \ {e} : ePc'[f] = ePc[f] /\ eJob'[f] = eJob[f],
           ePc[e] \notin Section, ePc'[e] \notin Holding,
           \A d \in Drafts : draft'[d].status = "pending" =>
               \/ draft[d].status = "pending" /\ draft'[d].commit = draft[d].commit
               \/ \A f \in Editors : eJob[f].d # d,
           OfficialShape', ~crossed' => DraftsFit',
           WorkOf(e)' /\ PlanOf(e)'
    PROVE  OfficialInv'
<1>1. upstream' \in Nat /\ upstream <= upstream'
  BY DEF OfficialInv, OfficialShape, Commits
<1>2. accepted \subseteq accepted'
  OBVIOUS
<1> QED BY <1>1, <1>2, QuietStep

\* A request that is over.
LEMMA IdleFits ==
    ASSUME NEW e \in Editors, ePc'[e] = "idle", eJob'[e] = NoWork
    PROVE  WorkOf(e)' /\ PlanOf(e)'
BY NoWorkIsWork DEF WorkOf, PlanOf, Planned, Section, Owners

-----------------------------------------------------------------------------
(* The review. *)

LEMMA UpstreamMovesStep ==
    ASSUME OfficialInv, Sound, UpstreamMoves
    PROVE  OfficialInv'
<1>1. /\ upstream + 1 \in Commits /\ upstream' = upstream + 1
      /\ UNCHANGED <<source, lastSource, link, rows, draft, ePc, eJob, spent, failed, accepted, crossed>>
  BY DEF UpstreamMoves, oStore, oPast
<1>2. upstream \in Nat /\ source.commit \in 0 .. upstream
  BY DEF OfficialInv, OfficialShape, Commits
<1>3. source \in [id : {0, lastSource}, state : {"idle", "applying", "failed"}, commit : 0 .. upstream',
                  owner : Owners]
  BY <1>1, <1>2 DEF OfficialInv, OfficialShape
<1>4. OfficialShape'
  BY <1>1, <1>3 DEF OfficialInv, OfficialShape, Commits
<1>5. DraftsFit'
  <2>1. \A n : n \in 1 .. upstream => n \in 1 .. upstream'
    BY <1>1, <1>2
  <2> QED BY <1>1, <2>1 DEF Sound, DraftsFit
<1>6. PICK x : x \notin Editors
  BY NoSetContainsEverything
<1> QED BY <1>1, <1>2, <1>4, <1>5, <1>6, QuietStep

LEMMA DraftExpiresStep ==
    ASSUME OfficialInv, Sound, NEW d \in Drafts, DraftExpires(d)
    PROVE  OfficialInv'
<1>1. /\ draft' = [draft EXCEPT ![d] = [NoDraft EXCEPT !.status = "gone"]]
      /\ UNCHANGED <<source, lastSource, link, rows, ePc, eJob, upstream, failed, accepted, crossed>>
      /\ spent' \in 0 .. Budget
  BY OfficialAssumption DEF DraftExpires, Spend, oStore, oPast, OfficialInv, OfficialShape
<1>2. /\ draft'[d] = [NoDraft EXCEPT !.status = "gone"] /\ \A x \in Drafts \ {d} : draft'[x] = draft[x]
      /\ DOMAIN draft' = Drafts
  BY <1>1 DEF OfficialInv, OfficialShape
<1>3. IsDraft(draft'[d]) /\ draft'[d].status = "gone" /\ draft'[d].owner \in Owners
      /\ draft'[d].selected = {} /\ draft'[d].explicit = {}
  BY <1>2 DEF IsDraft, NoDraft, Owners
<1>4. OfficialShape'
  BY <1>1, <1>2, <1>3 DEF OfficialInv, OfficialShape
<1>5. DraftsFit'
  BY <1>1, <1>2, <1>3 DEF Sound, DraftsFit
<1>6. PICK x : x \notin Editors
  BY NoSetContainsEverything
<1> QED BY <1>1, <1>2, <1>3, <1>4, <1>5, <1>6, QuietStep DEF OfficialInv, OfficialShape, Commits

LEMMA AcceptsToolStep ==
    ASSUME OfficialInv, Sound, NEW d \in Drafts, NEW c \in Components, AcceptsTool(d, c)
    PROVE  OfficialInv'
<1>1. /\ draft[d].status = "pending"
      /\ draft' = [draft EXCEPT ![d].accepted = @ \cup {c}]
      /\ accepted' = accepted \cup {<<c, Tree[draft[d].commit][c]>>}
      /\ UNCHANGED <<source, lastSource, link, rows, ePc, eJob, upstream, spent, failed, crossed>>
  BY DEF AcceptsTool, oStore, oCount
<1>2. IsDraft(draft[d]) /\ DOMAIN draft = Drafts
  BY DEF OfficialInv, OfficialShape
<1>3. /\ draft'[d] = [draft[d] EXCEPT !.accepted = @ \cup {c}] /\ DOMAIN draft' = Drafts
      /\ \A x \in Drafts \ {d} : draft'[x] = draft[x]
  BY <1>1, <1>2
<1>4. /\ draft'[d].status = draft[d].status /\ draft'[d].commit = draft[d].commit
      /\ draft'[d].base = draft[d].base /\ draft'[d].owner = draft[d].owner
      /\ draft'[d].known = draft[d].known /\ draft'[d].selected = draft[d].selected
      /\ draft'[d].explicit = draft[d].explicit /\ draft'[d].accepted = draft[d].accepted \cup {c}
      /\ IsDraft(draft'[d])
  BY <1>2, <1>3 DEF IsDraft
<1>5. OfficialShape'
  BY <1>1, <1>3, <1>4 DEF OfficialInv, OfficialShape
<1>6. DraftsFit'
  BY <1>1, <1>3, <1>4 DEF Sound, DraftsFit
<1>7. PICK x : x \notin Editors
  BY NoSetContainsEverything
<1>8. upstream' \in Nat /\ upstream <= upstream'
  BY <1>1 DEF OfficialInv, OfficialShape, Commits
<1>9. \A y \in Drafts : draft'[y].status = "pending" =>
        draft[y].status = "pending" /\ draft'[y].commit = draft[y].commit
  BY <1>3, <1>4
<1>10. accepted \subseteq accepted' /\ UNCHANGED <<source, link, rows, ePc, eJob, failed>>
  BY <1>1
<1> QED BY <1>5, <1>6, <1>7, <1>8, <1>9, <1>10, QuietStep

LEMMA InspectReadsStep ==
    ASSUME OfficialInv, Sound, NEW e \in Editors, InspectReads(e)
    PROVE  OfficialInv'
<1>1. PICK a \in Reviewers, s \in {0, source.id}, import \in BOOLEAN :
        /\ IF import THEN Spend(2) /\ s = 0 ELSE UNCHANGED spent
        /\ Keeps(e, [NoWork EXCEPT !.src = s, !.base = IF s = 0 THEN 0 ELSE source.commit,
                                    !.commit = upstream, !.owner = a, !.fresh = import])
  BY DEF InspectReads
<1>2. At(e, "idle", "inspected") /\ UNCHANGED <<oStore, draft, upstream, failed, oPast>>
  BY DEF InspectReads
<1>3. UNCHANGED <<source, lastSource, link, rows, draft, upstream, failed, accepted, crossed>>
  BY <1>2 DEF oStore, oPast
<1>4. /\ ePc[e] = "idle" /\ ePc'[e] = "inspected" /\ DOMAIN ePc' = Editors
      /\ \A f \in Editors \ {e} : ePc'[f] = ePc[f]
  BY <1>2, GoesOn DEF OfficialInv
<1>5. /\ eJob'[e] = [NoWork EXCEPT !.src = s, !.base = IF s = 0 THEN 0 ELSE source.commit,
                                   !.commit = upstream, !.owner = a, !.fresh = import]
      /\ DOMAIN eJob' = Editors /\ \A f \in Editors \ {e} : eJob'[f] = eJob[f]
  BY <1>1, HasJob DEF OfficialInv
<1>6. spent' \in 0 .. Budget
  BY <1>1, OfficialAssumption DEF Spend, OfficialInv, OfficialShape
<1>7. OfficialShape'
  BY <1>3, <1>4, <1>5, <1>6 DEF OfficialInv, OfficialShape
<1>8. WorkOf(e)' /\ PlanOf(e)'
  <2>1. source.commit \in 0 .. upstream /\ upstream \in Nat /\ upstream >= 1
    BY DEF OfficialInv, OfficialShape, Commits
  <2>2. eJob'[e].base \in 0 .. upstream /\ eJob'[e].commit = upstream /\ eJob'[e].owner \in Owners
    BY <1>5, <2>1, OfficialAssumption DEF NoWork, Owners
  <2>3. IsWork(eJob'[e])
    BY <1>5 DEF NoWork, IsWork
  <2> QED BY <1>3, <1>4, <2>1, <2>2, <2>3 DEF WorkOf, PlanOf, Planned
<1>9. DraftsFit'
  BY <1>3 DEF DraftsFit, Sound
<1>10. /\ \A f \in Editors \ {e} : ePc'[f] = ePc[f] /\ eJob'[f] = eJob[f]
       /\ ePc[e] \notin Section /\ ePc'[e] \notin Holding
  BY <1>4, <1>5 DEF Section, Holding
<1>11. \A y \in Drafts : draft'[y].status = "pending" =>
         draft[y].status = "pending" /\ draft'[y].commit = draft[y].commit
  BY <1>3
<1>12. UNCHANGED <<source, link, rows, upstream, failed, accepted>>
  BY <1>3
<1> QED BY <1>7, <1>8, <1>9, <1>10, <1>11, <1>12, RequestStep

\* A draft as the inspection leaves it.
LEMMA DetectedIsDraft ==
    ASSUME NEW j, j.owner \in Owners
    PROVE  /\ IsDraft(Detected(j)) /\ Detected(j).owner \in Owners
           /\ Detected(j).selected \cup Detected(j).explicit \subseteq Detected(j).known
           /\ Detected(j).commit = j.commit /\ Detected(j).base = j.base /\ Detected(j).accepted = {}
<1> DEFINE linked == IF j.src = 0 THEN {} ELSE Linked
           kept == linked \cap Present(j.commit)
           marked == {c \in kept : link[c].explicit}
           fate == IF j.src \in {0, source.id} THEN "pending" ELSE "gone"
<1>1. Detected(j) = [status |-> fate, src |-> j.src, base |-> j.base, commit |-> j.commit,
                     owner |-> j.owner, known |-> linked \cup Present(j.commit), selected |-> kept,
                     explicit |-> marked, accepted |-> {}]
  BY DEF Detected
<1>2. kept \cup marked \subseteq linked \cup Present(j.commit)
  OBVIOUS
<1> HIDE DEF linked, kept, marked, fate
<1> QED BY <1>1, <1>2 DEF IsDraft

LEMMA SelectingIsDraft ==
    ASSUME NEW x, NEW selected, NEW explicit, IsDraft(x), x.owner \in Owners
    PROVE  LET y == Selecting(x, selected, explicit) IN
           /\ IsDraft(y) /\ y.owner \in Owners /\ y.selected \cup y.explicit \subseteq y.known
           /\ y.status = x.status /\ y.commit = x.commit /\ y.base = x.base /\ y.accepted = x.accepted
<1> DEFINE y == Selecting(x, selected, explicit)
<1>1. /\ y.status = x.status /\ y.commit = x.commit /\ y.base = x.base /\ y.accepted = x.accepted
      /\ y.owner = x.owner /\ y.known = x.known
      /\ y.selected = selected \cap x.known /\ y.explicit = explicit \cap x.known
  BY DEF Selecting, IsDraft
<1>2. y = [status |-> x.status, src |-> x.src, base |-> x.base, commit |-> x.commit, owner |-> x.owner,
           known |-> x.known, selected |-> selected \cap x.known, explicit |-> explicit \cap x.known,
           accepted |-> x.accepted]
  <2>1. x = [status |-> x.status, src |-> x.src, base |-> x.base, commit |-> x.commit, owner |-> x.owner,
             known |-> x.known, selected |-> x.selected, explicit |-> x.explicit, accepted |-> x.accepted]
    BY DEF IsDraft
  <2>2. y = [x EXCEPT !.selected = selected \cap x.known, !.explicit = explicit \cap x.known]
    BY DEF Selecting
  <2> HIDE DEF y
  <2> QED BY <2>1, <2>2
<1>3. IsDraft(y)
  <2> HIDE DEF y
  <2> QED BY <1>2 DEF IsDraft
<1> QED BY <1>1, <1>3

\* What is taken from a draft that may be applied is a plan.
LEMMA ApplicableFits ==
    ASSUME NEW x, NEW d, NEW j, j = ToApply(d, x), Applicable(x), x.commit \in 1 .. upstream, x.base \in 0 .. x.commit,
           x.owner \in Owners, \A c \in x.accepted : <<c, Tree[x.commit][c]>> \in accepted
    PROVE  /\ IsWork(j) /\ j.owner \in Owners
           /\ j.commit \in 1 .. upstream /\ j.base \in 0 .. j.commit
           /\ j.chosen \subseteq Present(j.commit)
           /\ \A c \in j.chosen : Needs[c] \subseteq j.chosen
           /\ \A c \in j.chosen \cap Tools : <<c, Tree[j.commit][c]>> \in accepted
<1>1. j = [d |-> d, src |-> x.src, base |-> x.base, commit |-> x.commit, owner |-> x.owner,
           fresh |-> FALSE, chosen |-> Chosen(x), explicit |-> Chosen(x) \cap x.explicit,
           listed |-> Unlinked, c |-> "none", on |-> FALSE]
  BY DEF ToApply, NoWork
<1>3. IsWork(j)
  BY <1>1 DEF IsWork
<1>2. /\ Chosen(x) \subseteq Present(x.commit) /\ \A c \in Chosen(x) : Needs[c] \subseteq Chosen(x)
      /\ Chosen(x) \cap Tools \subseteq x.accepted
  BY DEF Applicable, Chosen
<1> QED BY <1>1, <1>2, <1>3

LEMMA CreatesDraftStep ==
    ASSUME OfficialInv, Sound, NEW e \in Editors, CreatesDraft(e)
    PROVE  OfficialInv'
<1> DEFINE j == eJob[e]
           new == Detected(j)
           picked(ids) == Selecting(new, Closed(ids, new), ids)
<1>1. PICK slot \in Free, ids \in SUBSET Components :
        \/ Over(e) /\ draft' = [draft EXCEPT ![slot] = new]
        \/ /\ eJob[e].fresh /\ At(e, "inspected", "import") /\ Keeps(e, [eJob[e] EXCEPT !.d = slot])
           /\ draft' = [draft EXCEPT ![slot] = new]
        \/ /\ eJob[e].src # 0 /\ ids \subseteq new.known /\ draft' = [draft EXCEPT ![slot] = picked(ids)]
           /\ IF Applicable(picked(ids))
              THEN At(e, "inspected", "source") /\ Keeps(e, ToApply(slot, picked(ids))) ELSE Over(e)
  BY DEF CreatesDraft
<1>2. /\ ePc[e] = "inspected"
      /\ UNCHANGED <<source, lastSource, link, rows, upstream, spent, failed, accepted, crossed>>
  BY DEF CreatesDraft, oStore, oCount, oPast
<1>3. /\ IsWork(j) /\ j.owner \in Owners /\ j.commit \in 1 .. upstream /\ j.base \in 0 .. upstream
      /\ j.base <= j.commit /\ upstream \in Nat /\ OfficialShape
  <2>1. OfficialShape /\ upstream \in Nat
    BY DEF OfficialInv, OfficialShape, Commits
  <2>2. WorkOf(e)
    BY DEF Sound, RequestsFit
  <2> QED BY <1>2, <2>1, <2>2 DEF WorkOf
<1>4. /\ IsDraft(new) /\ new.owner \in Owners /\ new.selected \cup new.explicit \subseteq new.known
      /\ new.commit = j.commit /\ new.base = j.base /\ new.accepted = {}
  BY <1>3, DetectedIsDraft
<1>5. /\ IsDraft(picked(ids)) /\ picked(ids).owner \in Owners
      /\ picked(ids).selected \cup picked(ids).explicit \subseteq picked(ids).known
      /\ picked(ids).commit = j.commit /\ picked(ids).base = j.base /\ picked(ids).accepted = {}
  BY <1>4, SelectingIsDraft
<1>6. slot \in Drafts /\ \A f \in Editors : eJob[f].d # slot
  BY DEF Free
<1>7. ASSUME NEW x, IsDraft(x), x.owner \in Owners, x.selected \cup x.explicit \subseteq x.known,
             x.commit = j.commit, x.base = j.base, x.accepted = {},
             draft' = [draft EXCEPT ![slot] = x],
             \A f \in Editors \ {e} : ePc'[f] = ePc[f] /\ eJob'[f] = eJob[f],
             DOMAIN ePc' = Editors, DOMAIN eJob' = Editors, ePc'[e] \notin Holding,
             WorkOf(e)' /\ PlanOf(e)'
      PROVE  OfficialInv'
  <2>1. draft'[slot] = x /\ DOMAIN draft' = Drafts /\ \A d \in Drafts \ {slot} : draft'[d] = draft[d]
    BY <1>3, <1>6, <1>7 DEF OfficialShape
  <2>2. OfficialShape'
    BY <1>2, <1>3, <1>7, <2>1 DEF OfficialShape
  <2>3. DraftsFit'
    <3>1. x.commit \in 1 .. upstream /\ x.base \in 0 .. x.commit
      BY <1>3, <1>7
    <3> QED BY <1>2, <1>7, <2>1, <3>1 DEF Sound, DraftsFit
  <2>4. \A d \in Drafts : draft'[d].status = "pending" =>
          \/ draft[d].status = "pending" /\ draft'[d].commit = draft[d].commit
          \/ \A f \in Editors : eJob[f].d # d
    BY <1>6, <2>1
  <2>5. ePc[e] \notin Section /\ UNCHANGED <<source, link, rows, upstream, failed, accepted>>
    BY <1>2 DEF Section
  <2> QED BY <1>7, <2>2, <2>3, <2>4, <2>5, RequestStep
<1>8. CASE Over(e) /\ draft' = [draft EXCEPT ![slot] = new]
  <2>1. /\ ePc'[e] = "idle" /\ DOMAIN ePc' = Editors /\ eJob'[e] = NoWork /\ DOMAIN eJob' = Editors
        /\ \A f \in Editors \ {e} : ePc'[f] = ePc[f] /\ eJob'[f] = eJob[f]
    BY <1>3, <1>8, Ended
  <2>2. WorkOf(e)' /\ PlanOf(e)' /\ ePc'[e] \notin Holding
    BY <2>1, IdleFits DEF Holding, Section
  <2> QED BY <1>4, <1>7, <1>8, <2>1, <2>2
<1>9. CASE At(e, "inspected", "import") /\ Keeps(e, [j EXCEPT !.d = slot]) /\ draft' = [draft EXCEPT ![slot] = new]
  <2>1. /\ ePc'[e] = "import" /\ DOMAIN ePc' = Editors /\ \A f \in Editors \ {e} : ePc'[f] = ePc[f]
    BY <1>3, <1>9, GoesOn
  <2>2. /\ eJob'[e] = [j EXCEPT !.d = slot] /\ DOMAIN eJob' = Editors
        /\ \A f \in Editors \ {e} : eJob'[f] = eJob[f]
    BY <1>3, <1>9, HasJob
  <2>3. IsWork(eJob'[e]) /\ eJob'[e].d = slot /\ eJob'[e].commit = j.commit /\ eJob'[e].base = j.base
        /\ eJob'[e].owner = j.owner
    BY <1>3, <2>2 DEF IsWork
  <2>4. draft'[slot] = new
    BY <1>3, <1>6, <1>9 DEF OfficialShape
  <2>5. WorkOf(e)' /\ PlanOf(e)' /\ ePc'[e] \notin Holding
    BY <1>2, <1>3, <1>4, <1>6, <2>1, <2>3, <2>4 DEF WorkOf, PlanOf, Planned, Holding, Section, Owners
  <2> QED BY <1>4, <1>7, <1>9, <2>1, <2>2, <2>5
<1>10. CASE /\ Applicable(picked(ids)) /\ draft' = [draft EXCEPT ![slot] = picked(ids)]
            /\ At(e, "inspected", "source") /\ Keeps(e, ToApply(slot, picked(ids)))
  <2>1. /\ ePc'[e] = "source" /\ DOMAIN ePc' = Editors /\ \A f \in Editors \ {e} : ePc'[f] = ePc[f]
    BY <1>3, <1>10, GoesOn
  <2>2. /\ eJob'[e] = ToApply(slot, picked(ids)) /\ DOMAIN eJob' = Editors
        /\ \A f \in Editors \ {e} : eJob'[f] = eJob[f]
    BY <1>3, <1>10, HasJob
  <2>3. /\ IsWork(eJob'[e]) /\ eJob'[e].owner \in Owners
        /\ eJob'[e].commit \in 1 .. upstream /\ eJob'[e].base \in 0 .. eJob'[e].commit
        /\ eJob'[e].chosen \subseteq Present(eJob'[e].commit)
        /\ \A c \in eJob'[e].chosen : Needs[c] \subseteq eJob'[e].chosen
        /\ \A c \in eJob'[e].chosen \cap Tools : <<c, Tree[eJob'[e].commit][c]>> \in accepted
    <3> DEFINE x == picked(ids)
    <3>1. /\ x.commit \in 1 .. upstream /\ x.base \in 0 .. x.commit /\ x.owner \in Owners
          /\ \A c \in x.accepted : <<c, Tree[x.commit][c]>> \in accepted /\ Applicable(x)
      BY <1>3, <1>5, <1>10
    <3>2. Applicable(x) /\ eJob'[e] = ToApply(slot, x)
      BY <1>10, <2>2
    <3> HIDE DEF x
    <3> QED BY <3>1, <3>2, ApplicableFits
  <2>4. WorkOf(e)' /\ PlanOf(e)' /\ ePc'[e] \notin Holding
    BY <1>2, <2>1, <2>3 DEF WorkOf, PlanOf, Holding, Section, Owners
  <2> QED BY <1>5, <1>7, <1>10, <2>1, <2>2, <2>4
<1>11. CASE Over(e) /\ draft' = [draft EXCEPT ![slot] = picked(ids)]
  <2>1. /\ ePc'[e] = "idle" /\ DOMAIN ePc' = Editors /\ eJob'[e] = NoWork /\ DOMAIN eJob' = Editors
        /\ \A f \in Editors \ {e} : ePc'[f] = ePc[f] /\ eJob'[f] = eJob[f]
    BY <1>3, <1>11, Ended
  <2>2. WorkOf(e)' /\ PlanOf(e)' /\ ePc'[e] \notin Holding
    BY <2>1, IdleFits DEF Holding, Section
  <2> QED BY <1>5, <1>7, <1>11, <2>1, <2>2
<1> QED BY <1>1, <1>8, <1>9, <1>10, <1>11

\* A request that holds nothing changes drafts that are there.
LEMMA DraftsChange ==
    ASSUME OfficialInv, Sound, NEW e \in Editors, UNCHANGED <<source, lastSource, link, rows, upstream, accepted>>,
           spent' \in 0 .. Budget, failed' \in BOOLEAN, failed => failed', crossed' \in BOOLEAN,
           DOMAIN ePc' = Editors, DOMAIN eJob' = Editors, DOMAIN draft' = Drafts,
           \A f \in Editors \ {e} : ePc'[f] = ePc[f] /\ eJob'[f] = eJob[f],
           ePc[e] \notin Section, ePc'[e] \notin Holding,
           \A d \in Drafts :
               /\ IsDraft(draft'[d]) /\ draft'[d].selected \cup draft'[d].explicit \subseteq draft'[d].known
               /\ draft'[d].owner \in Owners
               /\ draft'[d].status = "pending" =>
                     /\ draft[d].status = "pending" /\ draft'[d].commit = draft[d].commit
                     /\ draft'[d].accepted = draft[d].accepted
                     /\ ~crossed' => draft'[d].base \in 0 .. draft'[d].commit,
           WorkOf(e)' /\ PlanOf(e)'
    PROVE  OfficialInv'
<1>1. OfficialShape'
  BY DEF OfficialInv, OfficialShape
<1>2. ~crossed' => DraftsFit'
  BY DEF Sound, DraftsFit
<1> QED BY <1>1, <1>2, RequestStep

\* ... or none.
LEMMA DraftsStay ==
    ASSUME OfficialInv, Sound, NEW e \in Editors,
           UNCHANGED <<source, lastSource, link, rows, upstream, accepted, draft>>,
           spent' \in 0 .. Budget, failed' \in BOOLEAN, failed => failed', crossed' \in BOOLEAN,
           DOMAIN ePc' = Editors, DOMAIN eJob' = Editors,
           \A f \in Editors \ {e} : ePc'[f] = ePc[f] /\ eJob'[f] = eJob[f],
           ePc[e] \notin Section, ePc'[e] \notin Holding,
           WorkOf(e)' /\ PlanOf(e)'
    PROVE  OfficialInv'
<1>1. \A d \in Drafts :
        /\ IsDraft(draft[d]) /\ draft[d].selected \cup draft[d].explicit \subseteq draft[d].known
        /\ draft[d].owner \in Owners
  BY DEF OfficialInv, OfficialShape
<1>2. \A d \in Drafts : draft[d].status = "pending" => draft[d].base \in 0 .. draft[d].commit
  BY DEF Sound, DraftsFit
<1>3. DOMAIN draft = Drafts
  BY DEF OfficialInv, OfficialShape
<1> QED BY <1>1, <1>2, <1>3, DraftsChange

LEMMA AttachesStep ==
    ASSUME OfficialInv, Sound, NEW e \in Editors, Attaches(e)
    PROVE  OfficialInv'
<1> DEFINE j == eJob[e]
<1>1. /\ ePc[e] = "attach" /\ Over(e)
      /\ draft' = IF draft[j.d].status # "pending" \/ j.src # source.id THEN draft
                  ELSE [draft EXCEPT ![j.d].src = j.src, ![j.d].base = j.base]
      /\ crossed' = (crossed \/ j.base > j.commit)
      /\ UNCHANGED <<source, lastSource, link, rows, upstream, spent, failed, accepted>>
  BY DEF Attaches, oStore, oCount
<1>2. OfficialShape /\ upstream \in Nat /\ spent \in 0 .. Budget /\ failed \in BOOLEAN /\ crossed \in BOOLEAN
  BY DEF OfficialInv, OfficialShape, Commits
<1>3. j.d \in Drafts /\ (draft[j.d].status = "pending" => draft[j.d].commit = j.commit)
      /\ j.commit \in 1 .. upstream /\ j.base \in 0 .. upstream
  BY <1>1 DEF Sound, RequestsFit, WorkOf
<1>4. /\ ePc'[e] = "idle" /\ DOMAIN ePc' = Editors /\ eJob'[e] = NoWork /\ DOMAIN eJob' = Editors
      /\ \A f \in Editors \ {e} : ePc'[f] = ePc[f] /\ eJob'[f] = eJob[f]
  BY <1>1, <1>2, Ended
<1>5. WorkOf(e)' /\ PlanOf(e)' /\ ePc'[e] \notin Holding /\ ePc[e] \notin Section
  BY <1>1, <1>4, IdleFits DEF Holding, Section
<1>6. CASE draft' = draft
  BY <1>1, <1>2, <1>4, <1>5, <1>6, DraftsStay
<1>7. CASE draft[j.d].status = "pending" /\ draft' = [draft EXCEPT ![j.d].src = j.src, ![j.d].base = j.base]
  <2>1. /\ DOMAIN draft' = Drafts /\ \A d \in Drafts \ {j.d} : draft'[d] = draft[d]
        /\ draft'[j.d] = [draft[j.d] EXCEPT !.src = j.src, !.base = j.base]
    BY <1>2, <1>3, <1>7 DEF OfficialShape
  <2>2. IsDraft(draft[j.d])
    BY <1>2, <1>3 DEF OfficialShape
  <2>3. /\ IsDraft(draft'[j.d]) /\ draft'[j.d].owner = draft[j.d].owner /\ draft'[j.d].known = draft[j.d].known
        /\ draft'[j.d].selected = draft[j.d].selected /\ draft'[j.d].explicit = draft[j.d].explicit
        /\ draft'[j.d].commit = draft[j.d].commit /\ draft'[j.d].accepted = draft[j.d].accepted
        /\ draft'[j.d].base = j.base
    BY <2>1, <2>2 DEF IsDraft
  <2>4. ~crossed' => j.base \in 0 .. j.commit
    <3>1. \A m, n \in Nat : ~(n > m) => n \in 0 .. m
      OBVIOUS
    <3>2. j.base \in Nat /\ j.commit \in Nat
      BY <1>2, <1>3
    <3>3. ~crossed' => ~(j.base > j.commit)
      BY <1>1
    <3> QED BY <3>1, <3>2, <3>3
  <2>5. \A d \in Drafts :
          /\ IsDraft(draft'[d]) /\ draft'[d].selected \cup draft'[d].explicit \subseteq draft'[d].known
          /\ draft'[d].owner \in Owners
          /\ draft'[d].status = "pending" =>
                /\ draft[d].status = "pending" /\ draft'[d].commit = draft[d].commit
                /\ draft'[d].accepted = draft[d].accepted
                /\ ~crossed' => draft'[d].base \in 0 .. draft'[d].commit
    <3> SUFFICES ASSUME NEW d \in Drafts
                 PROVE  /\ IsDraft(draft'[d]) /\ draft'[d].selected \cup draft'[d].explicit \subseteq draft'[d].known
                        /\ draft'[d].owner \in Owners
                        /\ draft'[d].status = "pending" =>
                              /\ draft[d].status = "pending" /\ draft'[d].commit = draft[d].commit
                              /\ draft'[d].accepted = draft[d].accepted
                              /\ ~crossed' => draft'[d].base \in 0 .. draft'[d].commit
      OBVIOUS
    <3>1. /\ IsDraft(draft[d]) /\ draft[d].selected \cup draft[d].explicit \subseteq draft[d].known
          /\ draft[d].owner \in Owners
          /\ draft[d].status = "pending" => draft[d].base \in 0 .. draft[d].commit
      BY <1>2 DEF OfficialShape, Sound, DraftsFit
    <3>2. CASE d = j.d
      BY <1>3, <1>7, <2>3, <2>4, <3>1, <3>2
    <3>3. CASE d # j.d
      BY <2>1, <3>1, <3>3
    <3> QED BY <3>2, <3>3
  <2>6. crossed' \in BOOLEAN
    BY <1>1, <1>2
  <2> QED BY <1>1, <1>2, <1>4, <1>5, <2>1, <2>5, <2>6, DraftsChange
<1> QED BY <1>1, <1>6, <1>7

LEMMA PatchWritesStep ==
    ASSUME OfficialInv, Sound, NEW e \in Editors, NEW d \in Drafts, NEW c \in Components, NEW on \in BOOLEAN,
           PatchWrites(e, d, c, on)
    PROVE  OfficialInv'
<1>1. /\ draft[d].status = "pending" /\ c \in draft[d].known
      /\ At(e, "idle", "patched") /\ Keeps(e, [NoWork EXCEPT !.d = d, !.c = c, !.on = on])
      /\ draft' = [draft EXCEPT ![d].selected = IF on THEN (@ \cup {c}) ELSE (@ \ {c})]
      /\ UNCHANGED <<source, lastSource, link, rows, upstream, failed, accepted, crossed>>
  BY DEF PatchWrites, oStore, oPast
<1>2. OfficialShape /\ spent' \in 0 .. Budget /\ failed \in BOOLEAN /\ crossed \in BOOLEAN
  BY OfficialAssumption DEF OfficialInv, OfficialShape, PatchWrites, Spend
<1>3. ePc[e] = "idle" /\ ePc'[e] = "patched" /\ DOMAIN ePc' = Editors /\ \A f \in Editors \ {e} : ePc'[f] = ePc[f]
  BY <1>1, <1>2, GoesOn
<1>4. eJob'[e] = [NoWork EXCEPT !.d = d, !.c = c, !.on = on] /\ DOMAIN eJob' = Editors
      /\ \A f \in Editors \ {e} : eJob'[f] = eJob[f]
  BY <1>1, <1>2, HasJob
<1>5. IsWork(eJob'[e]) /\ eJob'[e].owner \in Owners
  BY <1>4 DEF IsWork, NoWork, Owners
<1>6. WorkOf(e)' /\ PlanOf(e)' /\ ePc'[e] \notin Holding /\ ePc[e] \notin Section
  BY <1>3, <1>5 DEF WorkOf, PlanOf, Planned, Holding, Section, Owners
<1>7. /\ DOMAIN draft' = Drafts /\ \A x \in Drafts \ {d} : draft'[x] = draft[x]
      /\ draft'[d] = [draft[d] EXCEPT !.selected = IF on THEN (@ \cup {c}) ELSE (@ \ {c})]
  BY <1>1, <1>2 DEF OfficialShape
<1>8. \A x \in Drafts :
        /\ IsDraft(draft[x]) /\ draft[x].selected \cup draft[x].explicit \subseteq draft[x].known
        /\ draft[x].owner \in Owners
        /\ draft[x].status = "pending" => draft[x].base \in 0 .. draft[x].commit
  BY <1>2 DEF OfficialShape, Sound, DraftsFit
<1>9. /\ IsDraft(draft'[d]) /\ draft'[d].owner = draft[d].owner /\ draft'[d].known = draft[d].known
      /\ draft'[d].selected \subseteq draft[d].selected \cup {c} /\ draft'[d].explicit = draft[d].explicit
      /\ draft'[d].commit = draft[d].commit /\ draft'[d].accepted = draft[d].accepted
      /\ draft'[d].base = draft[d].base
  <2>1. draft[d] = [status |-> draft[d].status, src |-> draft[d].src, base |-> draft[d].base,
                    commit |-> draft[d].commit, owner |-> draft[d].owner, known |-> draft[d].known,
                    selected |-> draft[d].selected, explicit |-> draft[d].explicit,
                    accepted |-> draft[d].accepted]
    <3>1. IsDraft(draft[d])
      BY <1>8
    <3> QED BY <3>1 DEF IsDraft
  <2> DEFINE wanted == IF on THEN draft[d].selected \cup {c} ELSE draft[d].selected \ {c}
  <2>2. wanted \subseteq draft[d].selected \cup {c} /\ draft'[d] = [draft[d] EXCEPT !.selected = wanted]
    BY <1>7
  <2> HIDE DEF wanted
  <2> QED BY <2>1, <2>2 DEF IsDraft
<1>10. \A x \in Drafts :
         /\ IsDraft(draft'[x]) /\ draft'[x].selected \cup draft'[x].explicit \subseteq draft'[x].known
         /\ draft'[x].owner \in Owners
         /\ draft'[x].status = "pending" =>
               /\ draft[x].status = "pending" /\ draft'[x].commit = draft[x].commit
               /\ draft'[x].accepted = draft[x].accepted
               /\ ~crossed' => draft'[x].base \in 0 .. draft'[x].commit
  BY <1>1, <1>7, <1>8, <1>9
<1> QED BY <1>1, <1>2, <1>3, <1>4, <1>6, <1>7, <1>10, DraftsChange

LEMMA PatchReadsStep ==
    ASSUME OfficialInv, Sound, NEW e \in Editors, PatchReads(e)
    PROVE  OfficialInv'
<1> DEFINE j == eJob[e]
           explicit == Explicit(j.d, j.c, j.on)
           chosen == Closed(Explicit(j.d, j.c, j.on), draft[j.d])
<1>1. /\ At(e, "patched", "replace") /\ Keeps(e, [j EXCEPT !.explicit = explicit, !.chosen = chosen])
      /\ UNCHANGED <<source, lastSource, link, rows, upstream, spent, failed, accepted, crossed, draft>>
  BY DEF PatchReads, oStore, oCount, oPast
<1>2. OfficialShape /\ spent \in 0 .. Budget /\ failed \in BOOLEAN /\ crossed \in BOOLEAN
      /\ IsWork(j) /\ j.owner \in Owners
  BY DEF OfficialInv, OfficialShape, Sound, RequestsFit, WorkOf
<1> HIDE DEF explicit, chosen
<1>3. ePc[e] = "patched" /\ ePc'[e] = "replace" /\ DOMAIN ePc' = Editors /\ \A f \in Editors \ {e} : ePc'[f] = ePc[f]
  BY <1>1, <1>2, GoesOn
<1>4. eJob'[e] = [j EXCEPT !.explicit = explicit, !.chosen = chosen] /\ DOMAIN eJob' = Editors
      /\ \A f \in Editors \ {e} : eJob'[f] = eJob[f]
  BY <1>1, <1>2, HasJob
<1>5. IsWork(eJob'[e]) /\ eJob'[e].owner \in Owners
  BY <1>2, <1>4 DEF IsWork
<1>6. WorkOf(e)' /\ PlanOf(e)' /\ ePc'[e] \notin Holding /\ ePc[e] \notin Section
  BY <1>3, <1>5 DEF WorkOf, PlanOf, Planned, Holding, Section, Owners
<1> QED BY <1>1, <1>2, <1>3, <1>4, <1>6, DraftsStay

LEMMA PatchReplacesStep ==
    ASSUME OfficialInv, Sound, NEW e \in Editors, PatchReplaces(e)
    PROVE  OfficialInv'
<1> DEFINE j == eJob[e]
<1>1. /\ ePc[e] = "replace" /\ Over(e)
      /\ draft' = [draft EXCEPT ![j.d] = Selecting(@, j.chosen, j.explicit)]
      /\ UNCHANGED <<source, lastSource, link, rows, upstream, spent, failed, accepted, crossed>>
  BY DEF PatchReplaces, oStore, oCount, oPast
<1>2. OfficialShape /\ spent \in 0 .. Budget /\ failed \in BOOLEAN /\ crossed \in BOOLEAN
  BY DEF OfficialInv, OfficialShape
<1>3. /\ ePc'[e] = "idle" /\ DOMAIN ePc' = Editors /\ eJob'[e] = NoWork /\ DOMAIN eJob' = Editors
      /\ \A f \in Editors \ {e} : ePc'[f] = ePc[f] /\ eJob'[f] = eJob[f]
  BY <1>1, <1>2, Ended
<1>4. WorkOf(e)' /\ PlanOf(e)' /\ ePc'[e] \notin Holding /\ ePc[e] \notin Section
  BY <1>1, <1>3, IdleFits DEF Holding, Section
<1>5. DOMAIN draft' = Drafts
      /\ \A d \in Drafts : draft'[d] = IF d = j.d THEN Selecting(draft[d], j.chosen, j.explicit) ELSE draft[d]
  BY <1>1, <1>2 DEF OfficialShape
<1>6. \A d \in Drafts :
        /\ IsDraft(draft'[d]) /\ draft'[d].selected \cup draft'[d].explicit \subseteq draft'[d].known
        /\ draft'[d].owner \in Owners
        /\ draft'[d].status = "pending" =>
              /\ draft[d].status = "pending" /\ draft'[d].commit = draft[d].commit
              /\ draft'[d].accepted = draft[d].accepted
              /\ ~crossed' => draft'[d].base \in 0 .. draft'[d].commit
  <2> SUFFICES ASSUME NEW d \in Drafts
               PROVE  /\ IsDraft(draft'[d]) /\ draft'[d].selected \cup draft'[d].explicit \subseteq draft'[d].known
                      /\ draft'[d].owner \in Owners
                      /\ draft'[d].status = "pending" =>
                            /\ draft[d].status = "pending" /\ draft'[d].commit = draft[d].commit
                            /\ draft'[d].accepted = draft[d].accepted
                            /\ ~crossed' => draft'[d].base \in 0 .. draft'[d].commit
    OBVIOUS
  <2>1. /\ IsDraft(draft[d]) /\ draft[d].selected \cup draft[d].explicit \subseteq draft[d].known
        /\ draft[d].owner \in Owners
        /\ draft[d].status = "pending" => draft[d].base \in 0 .. draft[d].commit
    BY <1>2 DEF OfficialShape, Sound, DraftsFit
  <2>2. CASE d = j.d
    BY <1>5, <2>1, <2>2, SelectingIsDraft
  <2>3. CASE d # j.d
    BY <1>5, <2>1, <2>3
  <2> QED BY <2>2, <2>3
<1> QED BY <1>1, <1>2, <1>3, <1>4, <1>5, <1>6, DraftsChange

-----------------------------------------------------------------------------
(* The application. *)

LEMMA ApplyReadsStep ==
    ASSUME OfficialInv, Sound, NEW e \in Editors, NEW d \in Drafts, ApplyReads(e, d)
    PROVE  OfficialInv'
<1>1. /\ Applicable(draft[d]) /\ At(e, "idle", "source") /\ Keeps(e, ToApply(d, draft[d]))
      /\ UNCHANGED <<source, lastSource, link, rows, upstream, spent, failed, accepted, crossed, draft>>
  BY DEF ApplyReads, oStore, oCount, oPast
<1>2. OfficialShape /\ spent \in 0 .. Budget /\ failed \in BOOLEAN /\ crossed \in BOOLEAN
      /\ draft[d].owner \in Owners
  BY DEF OfficialInv, OfficialShape
<1>3. ePc[e] = "idle" /\ ePc'[e] = "source" /\ DOMAIN ePc' = Editors /\ \A f \in Editors \ {e} : ePc'[f] = ePc[f]
  BY <1>1, <1>2, GoesOn
<1>4. eJob'[e] = ToApply(d, draft[d]) /\ DOMAIN eJob' = Editors /\ \A f \in Editors \ {e} : eJob'[f] = eJob[f]
  BY <1>1, <1>2, HasJob
<1>5. /\ draft[d].commit \in 1 .. upstream /\ draft[d].base \in 0 .. draft[d].commit
      /\ \A c \in draft[d].accepted : <<c, Tree[draft[d].commit][c]>> \in accepted
  BY <1>1 DEF Sound, DraftsFit, Applicable
<1> DEFINE j == eJob'[e]
<1>6. /\ IsWork(j) /\ j.owner \in Owners
      /\ j.commit \in 1 .. upstream /\ j.base \in 0 .. j.commit
      /\ j.chosen \subseteq Present(j.commit)
      /\ \A c \in j.chosen : Needs[c] \subseteq j.chosen
      /\ \A c \in j.chosen \cap Tools : <<c, Tree[j.commit][c]>> \in accepted
  <2>1. ASSUME NEW k, k = ToApply(d, draft[d])
        PROVE  /\ IsWork(k) /\ k.owner \in Owners
               /\ k.commit \in 1 .. upstream /\ k.base \in 0 .. k.commit
               /\ k.chosen \subseteq Present(k.commit)
               /\ \A c \in k.chosen : Needs[c] \subseteq k.chosen
               /\ \A c \in k.chosen \cap Tools : <<c, Tree[k.commit][c]>> \in accepted
    BY <1>1, <1>2, <1>5, <2>1, ApplicableFits
  <2> QED BY <1>4, <2>1
<1>7. WorkOf(e)' /\ PlanOf(e)' /\ ePc'[e] \notin Holding /\ ePc[e] \notin Section
  BY <1>1, <1>3, <1>6 DEF WorkOf, PlanOf, Holding, Section, Owners
<1> QED BY <1>1, <1>2, <1>3, <1>4, <1>7, DraftsStay

LEMMA MarksAppliedStep ==
    ASSUME OfficialInv, Sound, NEW e \in Editors, MarksApplied(e)
    PROVE  OfficialInv'
<1> DEFINE j == eJob[e]
           gone == [NoDraft EXCEPT !.status = "gone"]
<1>1. /\ ePc[e] = "saved" /\ Over(e) /\ draft' = [draft EXCEPT ![j.d] = gone]
      /\ UNCHANGED <<source, lastSource, link, rows, upstream, spent, failed, accepted, crossed>>
  BY DEF MarksApplied, oStore, oCount, oPast
<1>2. OfficialShape /\ spent \in 0 .. Budget /\ failed \in BOOLEAN /\ crossed \in BOOLEAN
  BY DEF OfficialInv, OfficialShape
<1>3. /\ ePc'[e] = "idle" /\ DOMAIN ePc' = Editors /\ eJob'[e] = NoWork /\ DOMAIN eJob' = Editors
      /\ \A f \in Editors \ {e} : ePc'[f] = ePc[f] /\ eJob'[f] = eJob[f]
  BY <1>1, <1>2, Ended
<1>4. WorkOf(e)' /\ PlanOf(e)' /\ ePc'[e] \notin Holding /\ ePc[e] \notin Section
  BY <1>1, <1>3, IdleFits DEF Holding, Section
<1>5. IsDraft(gone) /\ gone.status = "gone" /\ gone.owner \in Owners /\ gone.selected = {} /\ gone.explicit = {}
  BY DEF IsDraft, NoDraft, Owners
<1>6. DOMAIN draft' = Drafts /\ \A d \in Drafts : draft'[d] = IF d = j.d THEN gone ELSE draft[d]
  BY <1>1, <1>2 DEF OfficialShape
<1> HIDE DEF gone
<1>7. \A d \in Drafts :
        /\ IsDraft(draft[d]) /\ draft[d].selected \cup draft[d].explicit \subseteq draft[d].known
        /\ draft[d].owner \in Owners
        /\ draft[d].status = "pending" => draft[d].base \in 0 .. draft[d].commit
  BY <1>2 DEF OfficialShape, Sound, DraftsFit
<1>8. \A d \in Drafts :
        /\ IsDraft(draft'[d]) /\ draft'[d].selected \cup draft'[d].explicit \subseteq draft'[d].known
        /\ draft'[d].owner \in Owners
        /\ draft'[d].status = "pending" =>
              /\ draft[d].status = "pending" /\ draft'[d].commit = draft[d].commit
              /\ draft'[d].accepted = draft[d].accepted
              /\ ~crossed' => draft'[d].base \in 0 .. draft'[d].commit
  BY <1>5, <1>6, <1>7
<1> QED BY <1>1, <1>2, <1>3, <1>4, <1>6, <1>8, DraftsChange

\* The other steps keep the drafts; what they must keep is what is said of e and of the source.
LEMMA Settled ==
    ASSUME OfficialInv, Sound, NEW e \in Editors, UNCHANGED <<draft, upstream, accepted>>, failed => failed',
           \A f \in Editors \ {e} : ePc'[f] = ePc[f] /\ eJob'[f] = eJob[f],
           OfficialShape', LockIsHeld',
           crossed' \/ (WorkOf(e)' /\ PlanOf(e)' /\ LockFits' /\ StillSo' /\ LinksAreWhole')
    PROVE  OfficialInv'
<1>1. DraftsFit'
  BY DEF Sound, DraftsFit
<1>2. upstream' \in Nat /\ upstream <= upstream' /\ accepted \subseteq accepted'
  BY DEF OfficialInv, OfficialShape, Commits
<1>3. \A d \in Drafts : draft'[d].status = "pending" =>
        draft[d].status = "pending" /\ draft'[d].commit = draft[d].commit
  OBVIOUS
<1>4. \A f \in Editors \ {e} : WorkOf(f)' /\ PlanOf(f)'
  BY <1>2, <1>3, OthersFit
<1> QED BY <1>1, <1>4 DEF OfficialInv, RequestsFit

\* What a request may rely on.
LEMMA OfficialFacts ==
    ASSUME OfficialInv, Sound
    PROVE  /\ OfficialShape /\ spent \in 0 .. Budget /\ failed \in BOOLEAN /\ crossed \in BOOLEAN
           /\ upstream \in Nat /\ upstream >= 1
           /\ source.id = 0 => source = NoSource
           /\ source = [id |-> source.id, state |-> source.state, commit |-> source.commit, owner |-> source.owner]
           /\ source.state \in {"idle", "applying", "failed"} /\ source.commit \in 0 .. upstream
           /\ source.owner \in Owners /\ source.id \in {0, lastSource} /\ lastSource \in 0 .. MaxSources
           /\ \A e \in Editors : WorkOf(e) /\ PlanOf(e)
BY DEF OfficialInv, Sound, OfficialShape, Commits, RequestsFit

LEMMA FindsSourceStep ==
    ASSUME OfficialInv, Sound, NEW e \in Editors, FindsSource(e)
    PROVE  OfficialInv'
<1> DEFINE j == eJob[e]
<1>1. /\ ePc[e] = "source"
      /\ UNCHANGED <<source, lastSource, link, rows, draft, upstream, spent, failed, accepted, crossed>>
  BY DEF FindsSource, oStore, oCount, oPast
<1>2. /\ OfficialShape /\ spent \in 0 .. Budget /\ failed \in BOOLEAN /\ crossed \in BOOLEAN
      /\ source.owner \in Owners /\ WorkOf(e) /\ PlanOf(e)
  BY OfficialFacts
<1>3. CASE /\ j.src # 0 /\ j.src = source.id
           /\ At(e, "source", "lock") /\ Keeps(e, [j EXCEPT !.owner = source.owner])
  <2>1. ePc'[e] = "lock" /\ DOMAIN ePc' = Editors /\ \A f \in Editors \ {e} : ePc'[f] = ePc[f]
    BY <1>2, <1>3, GoesOn
  <2>2. eJob'[e] = [j EXCEPT !.owner = source.owner] /\ DOMAIN eJob' = Editors
        /\ \A f \in Editors \ {e} : eJob'[f] = eJob[f]
    BY <1>2, <1>3, HasJob
  <2>3. IsWork(j)
    BY <1>2 DEF WorkOf
  <2>4. /\ IsWork(eJob'[e]) /\ eJob'[e].owner = source.owner /\ eJob'[e].src = j.src
        /\ eJob'[e].commit = j.commit /\ eJob'[e].base = j.base /\ eJob'[e].chosen = j.chosen
    BY <2>2, <2>3 DEF IsWork
  <2>5. WorkOf(e)'
    BY <1>1, <1>2, <2>1, <2>4 DEF WorkOf, Owners
  <2>6. PlanOf(e)'
    <3>1. PlanOf(e) /\ ePc[e] \in Planned
      BY <1>1, <1>2 DEF Planned
    <3> QED BY <1>1, <3>1, <2>4 DEF PlanOf
  <2>7. LockFits'
    <3>1. LockFits
      BY DEF Sound
    <3>2. source.id # 0 /\ eJob'[e].src = source.id /\ ePc'[e] \notin Section
      BY <1>3, <2>1, <2>4 DEF Section
    <3> QED BY <1>1, <2>1, <2>2, <3>1, <3>2 DEF LockFits
  <2>8. StillSo'
    <3>1. StillSo
      BY DEF Sound
    <3> SUFFICES ASSUME NEW f \in Editors
                 PROVE  StillOf(f)'
      BY DEF StillSo
    <3>2. CASE f = e
      BY <1>1, <2>1, <2>4, <3>2 DEF StillOf
    <3>3. CASE f # e
      <4>1. StillOf(f) /\ ePc'[f] = ePc[f] /\ eJob'[f] = eJob[f]
        BY <2>1, <2>2, <3>1, <3>3 DEF StillSo
      <4> QED BY <1>1, <4>1 DEF StillOf, Linked
    <3> QED BY <3>2, <3>3
  <2>9. LinksAreWhole'
    BY <1>1 DEF Sound, LinksAreWhole, Linked
  <2>10. LockIsHeld'
    BY <1>1, <2>1, <2>2, <2>4 DEF OfficialInv, LockIsHeld, Section
  <2>11. OfficialShape'
    BY <1>1, <1>2, <2>1, <2>2 DEF OfficialShape
  <2> QED BY <1>1, <2>1, <2>2, <2>5, <2>6, <2>7, <2>8, <2>9, <2>10, <2>11, Settled
<1>4. CASE At(e, "source", "register") /\ UNCHANGED eJob
  <2>1. ePc'[e] = "register" /\ DOMAIN ePc' = Editors /\ \A f \in Editors \ {e} : ePc'[f] = ePc[f]
    BY <1>2, <1>4, GoesOn
  <2>2. WorkOf(e)'
    BY <1>1, <1>2, <1>4, <2>1 DEF WorkOf, Owners
  <2>3. PlanOf(e)'
    BY <1>1, <1>2, <1>4, <2>1 DEF PlanOf, Planned
  <2>4. DOMAIN eJob' = Editors /\ ePc'[e] \notin Holding /\ ePc[e] \notin Section
        /\ \A f \in Editors \ {e} : eJob'[f] = eJob[f]
    BY <1>1, <1>2, <1>4, <2>1 DEF Holding, Section, OfficialShape
  <2> QED BY <1>1, <1>2, <2>1, <2>2, <2>3, <2>4, DraftsStay
<1>5. CASE Over(e)
  <2>1. /\ ePc'[e] = "idle" /\ DOMAIN ePc' = Editors /\ eJob'[e] = NoWork /\ DOMAIN eJob' = Editors
        /\ \A f \in Editors \ {e} : ePc'[f] = ePc[f] /\ eJob'[f] = eJob[f]
    BY <1>2, <1>5, Ended
  <2>2. WorkOf(e)' /\ PlanOf(e)' /\ ePc'[e] \notin Holding /\ ePc[e] \notin Section
    BY <1>1, <2>1, IdleFits DEF Holding, Section
  <2> QED BY <1>1, <1>2, <2>1, <2>2, DraftsStay
<1> QED BY <1>3, <1>4, <1>5 DEF FindsSource

\* A new row is of nobody's application yet.
LEMMA NewSource ==
    ASSUME OfficialInv, Sound, NEW e \in Editors, NEW owner \in Owners, SaveSource(owner), source = NoSource,
           UNCHANGED <<link, rows, draft, upstream, spent, failed, accepted>>, crossed' \in BOOLEAN,
           DOMAIN ePc' = Editors, DOMAIN eJob' = Editors,
           \A f \in Editors \ {e} : ePc'[f] = ePc[f] /\ eJob'[f] = eJob[f],
           \/ ePc'[e] \notin Holding
           \/ ePc'[e] = "lock" /\ eJob'[e].src = source'.id /\ eJob'[e].owner = owner,
           WorkOf(e)' /\ PlanOf(e)'
    PROVE  OfficialInv'
<1>1. /\ lastSource < MaxSources /\ lastSource' = lastSource + 1
      /\ source' = [NoSource EXCEPT !.id = lastSource + 1, !.owner = owner]
  BY DEF SaveSource
<1>2. OfficialShape /\ upstream \in Nat /\ lastSource \in 0 .. MaxSources
  BY OfficialFacts
<1>3. /\ source'.id = lastSource' /\ source'.id # 0 /\ source'.state = "idle" /\ source'.commit = 0
      /\ source'.owner = owner
      /\ source' = [id |-> lastSource', state |-> "idle", commit |-> 0, owner |-> owner]
      /\ lastSource' \in 0 .. MaxSources
  <2>1. lastSource' # 0 /\ lastSource' \in 0 .. MaxSources
    BY <1>1, <1>2, OfficialAssumption
  <2>2. source' = [id |-> lastSource', state |-> "idle", commit |-> 0, owner |-> owner]
    BY <1>1 DEF NoSource
  <2> QED BY <2>1, <2>2
<1>4. OfficialShape'
  BY <1>2, <1>3 DEF OfficialShape
<1>5. \A f \in Editors : ePc[f] \notin Holding
  BY DEF Sound, LockFits, NoSource
<1>6. LockFits'
  <2>1. \A f \in Editors : ePc'[f] \notin Section
    BY <1>5 DEF Holding, Section
  <2> QED BY <1>3, <1>5, <2>1 DEF LockFits, Holding, Section
<1>7. StillSo'
  BY <1>3, <1>5 DEF StillSo, StillOf, Holding, Section
<1>8. LinksAreWhole'
  BY <1>3 DEF Sound, LinksAreWhole, Linked, NoSource
<1>9. LockIsHeld'
  BY <1>3 DEF LockIsHeld
<1> QED BY <1>4, <1>6, <1>7, <1>8, <1>9, Settled

LEMMA ImportRegistersStep ==
    ASSUME OfficialInv, Sound, NEW e \in Editors, ImportRegisters(e)
    PROVE  OfficialInv'
<1> DEFINE j == eJob[e]
<1>1. /\ At(e, "import", "attach") /\ SaveSource(j.owner)
      /\ Keeps(e, [j EXCEPT !.src = source'.id, !.base = source'.commit])
      /\ UNCHANGED <<link, rows, draft, upstream, spent, failed, accepted, crossed>>
  BY DEF ImportRegisters, oCount, oPast
<1>2. /\ OfficialShape /\ spent \in 0 .. Budget /\ failed \in BOOLEAN /\ crossed \in BOOLEAN
      /\ upstream \in Nat /\ source.commit \in 0 .. upstream /\ WorkOf(e)
  BY OfficialFacts
<1>3. ePc[e] = "import" /\ ePc'[e] = "attach" /\ DOMAIN ePc' = Editors /\ \A f \in Editors \ {e} : ePc'[f] = ePc[f]
  BY <1>1, <1>2, GoesOn
<1>4. eJob'[e] = [j EXCEPT !.src = source'.id, !.base = source'.commit] /\ DOMAIN eJob' = Editors
      /\ \A f \in Editors \ {e} : eJob'[f] = eJob[f]
  BY <1>1, <1>2, HasJob
<1>5. /\ IsWork(j) /\ j.owner \in Owners /\ j.commit \in 1 .. upstream /\ j.d \in Drafts
      /\ draft[j.d].status = "pending" => draft[j.d].commit = j.commit
  BY <1>2, <1>3 DEF WorkOf
<1>6. /\ IsWork(eJob'[e]) /\ eJob'[e].owner = j.owner /\ eJob'[e].commit = j.commit
      /\ eJob'[e].base = source'.commit /\ eJob'[e].d = j.d
  BY <1>4, <1>5 DEF IsWork
<1>7. source'.commit \in 0 .. upstream
  BY <1>1, <1>2 DEF SaveSource, NoSource
<1>8. WorkOf(e)' /\ PlanOf(e)' /\ ePc'[e] \notin Holding /\ ePc[e] \notin Section
  BY <1>1, <1>3, <1>5, <1>6, <1>7 DEF WorkOf, PlanOf, Planned, Holding, Section, Owners
<1>9. CASE source # NoSource
  <2>1. UNCHANGED <<source, lastSource>>
    BY <1>1, <1>9 DEF SaveSource
  <2> QED BY <1>1, <1>2, <1>3, <1>4, <1>8, <2>1, DraftsStay
<1>10. CASE source = NoSource
  BY <1>1, <1>2, <1>3, <1>4, <1>5, <1>8, <1>10, NewSource
<1> QED BY <1>9, <1>10

LEMMA RegistersStep ==
    ASSUME OfficialInv, Sound, NEW e \in Editors, Registers(e)
    PROVE  OfficialInv'
<1> DEFINE j == eJob[e]
<1>1. /\ At(e, "register", "lock") /\ SaveSource(j.owner)
      /\ crossed' = (crossed \/ source # NoSource)
      /\ Keeps(e, [j EXCEPT !.src = source'.id, !.fresh = TRUE])
      /\ UNCHANGED <<link, rows, draft, upstream, spent, failed, accepted>>
  BY DEF Registers, oCount
<1>2. /\ OfficialShape /\ spent \in 0 .. Budget /\ failed \in BOOLEAN /\ crossed \in BOOLEAN
      /\ upstream \in Nat /\ WorkOf(e) /\ PlanOf(e)
  BY OfficialFacts
<1>3. ePc[e] = "register" /\ ePc'[e] = "lock" /\ DOMAIN ePc' = Editors /\ \A f \in Editors \ {e} : ePc'[f] = ePc[f]
  BY <1>1, <1>2, GoesOn
<1>4. eJob'[e] = [j EXCEPT !.src = source'.id, !.fresh = TRUE] /\ DOMAIN eJob' = Editors
      /\ \A f \in Editors \ {e} : eJob'[f] = eJob[f]
  BY <1>1, <1>2, HasJob
<1>5. IsWork(j) /\ j.owner \in Owners
  BY <1>2 DEF WorkOf
<1>6. /\ IsWork(eJob'[e]) /\ eJob'[e].owner = j.owner /\ eJob'[e].commit = j.commit
      /\ eJob'[e].base = j.base /\ eJob'[e].chosen = j.chosen /\ eJob'[e].src = source'.id
  BY <1>4, <1>5 DEF IsWork
<1>7. WorkOf(e)'
  BY <1>1, <1>3, <1>5, <1>6 DEF WorkOf, Owners
<1>8. PlanOf(e)'
  <2>1. PlanOf(e) /\ ePc[e] \in Planned
    BY <1>2, <1>3 DEF Planned
  <2> QED BY <1>1, <2>1, <1>6 DEF PlanOf
<1>9. crossed' \in BOOLEAN
  BY <1>1, <1>2
<1>10. CASE source # NoSource
  <2>1. UNCHANGED <<source, lastSource>> /\ crossed'
    BY <1>1, <1>10 DEF SaveSource
  <2>2. OfficialShape'
    BY <1>1, <1>2, <1>3, <1>4, <1>9, <2>1 DEF OfficialShape
  <2>3. LockIsHeld'
    BY <1>1, <1>3, <1>4, <2>1 DEF OfficialInv, LockIsHeld, Section
  <2> QED BY <2>1, <2>2, <2>3 DEF OfficialInv
<1>11. CASE source = NoSource
  BY <1>1, <1>3, <1>4, <1>5, <1>6, <1>7, <1>8, <1>9, <1>11, NewSource
<1> QED BY <1>10, <1>11

\* What the lock, and what was read before, tell a request of the source.
LEMMA LockFacts ==
    ASSUME OfficialInv, Sound
    PROVE  /\ \A f \in Editors : ePc[f] \in Holding => eJob[f].src = source.id /\ source.id # 0
           /\ \A f \in Editors : ePc[f] \in Section => source.state = "applying"
           /\ \A e, f \in Editors : ePc[e] \in Section /\ ePc[f] \in Section => e = f
           /\ \A f \in Editors : StillOf(f)
BY DEF Sound, LockFits, StillSo

LEMMA LocksStep ==
    ASSUME OfficialInv, Sound, NEW e \in Editors, Locks(e)
    PROVE  OfficialInv'
<1> DEFINE j == eJob[e]
<1>1. ePc[e] = "lock" /\ UNCHANGED <<lastSource, link, rows, draft, upstream, spent, failed, accepted, crossed>>
  BY DEF Locks, oCount, oPast
<1>2. /\ OfficialShape /\ spent \in 0 .. Budget /\ failed \in BOOLEAN /\ crossed \in BOOLEAN
      /\ WorkOf(e) /\ PlanOf(e)
  BY OfficialFacts
<1>3. CASE ~MayLock(j)
  <2>1. Over(e) /\ UNCHANGED source
    BY <1>3 DEF Locks
  <2>2. /\ ePc'[e] = "idle" /\ DOMAIN ePc' = Editors /\ eJob'[e] = NoWork /\ DOMAIN eJob' = Editors
        /\ \A f \in Editors \ {e} : ePc'[f] = ePc[f] /\ eJob'[f] = eJob[f]
    BY <1>2, <2>1, Ended
  <2>3. WorkOf(e)' /\ PlanOf(e)' /\ ePc'[e] \notin Holding /\ ePc[e] \notin Section
    BY <1>1, <2>2, IdleFits DEF Holding, Section
  <2> QED BY <1>1, <1>2, <2>1, <2>2, <2>3, DraftsStay
<1>4. CASE MayLock(j)
  <2>1. /\ At(e, "lock", "commit") /\ source' = [source EXCEPT !.state = "applying"]
        /\ Keeps(e, [j EXCEPT !.listed = link])
        /\ source.id = j.src /\ source.state # "applying" /\ source.commit = j.base
    BY <1>4 DEF Locks, MayLock
  <2>2. ePc'[e] = "commit" /\ DOMAIN ePc' = Editors /\ \A f \in Editors \ {e} : ePc'[f] = ePc[f]
    BY <1>2, <2>1, GoesOn
  <2>3. eJob'[e] = [j EXCEPT !.listed = link] /\ DOMAIN eJob' = Editors
        /\ \A f \in Editors \ {e} : eJob'[f] = eJob[f]
    BY <1>2, <2>1, HasJob
  <2>4. IsWork(j) /\ j.owner \in Owners
    BY <1>2 DEF WorkOf
  <2>5. /\ IsWork(eJob'[e]) /\ eJob'[e].owner = j.owner /\ eJob'[e].src = j.src
        /\ eJob'[e].commit = j.commit /\ eJob'[e].base = j.base /\ eJob'[e].chosen = j.chosen
        /\ eJob'[e].listed = link
    BY <2>3, <2>4 DEF IsWork
  <2>6. /\ source'.id = source.id /\ source'.owner = source.owner /\ source'.commit = source.commit
        /\ source'.state = "applying"
        /\ source' = [id |-> source.id, state |-> "applying", commit |-> source.commit, owner |-> source.owner]
    <3>1. source = [id |-> source.id, state |-> source.state, commit |-> source.commit, owner |-> source.owner]
      BY OfficialFacts
    <3> QED BY <2>1, <3>1
  <2>7. source.id # 0 /\ eJob'[e].src = source'.id
    BY <1>1, <2>1, <2>5, <2>6, LockFacts DEF Holding
  <2>8. OfficialShape'
    BY <1>1, <1>2, <2>2, <2>3, <2>6, <2>7, OfficialFacts DEF OfficialShape
  <2>9. LockIsHeld'
    BY <2>2, <2>7 DEF LockIsHeld, Section
  <2>10. WorkOf(e)'
    BY <2>2, <2>4, <2>5 DEF WorkOf, Owners
  <2>11. PlanOf(e)'
    <3>1. PlanOf(e) /\ ePc[e] \in Planned
      BY <1>1, <1>2 DEF Planned
    <3> QED BY <1>1, <3>1, <2>5 DEF PlanOf
  <2>12. \A f \in Editors \ {e} : ePc[f] \notin Section
    BY <2>1, LockFacts
  <2>13. LockFits'
    <3>1. \A f \in Editors : ePc'[f] \in Holding => eJob'[f].src = source'.id /\ source'.id # 0
      <4> SUFFICES ASSUME NEW f \in Editors, ePc'[f] \in Holding
                   PROVE  eJob'[f].src = source'.id /\ source'.id # 0
        OBVIOUS
      <4>1. CASE f = e
        BY <2>6, <2>7, <4>1
      <4>2. CASE f # e
        BY <2>2, <2>3, <2>6, <4>2, LockFacts
      <4> QED BY <4>1, <4>2
    <3>2. \A f \in Editors : ePc'[f] \in Section => f = e
      BY <2>2, <2>12
    <3> QED BY <2>6, <3>1, <3>2 DEF LockFits
  <2>14. StillSo'
    <3> SUFFICES ASSUME NEW f \in Editors PROVE StillOf(f)'
      BY DEF StillSo
    <3>1. CASE f = e
      <4>1. j.owner = source.owner
        BY <1>1, LockFacts DEF StillOf
      <4> QED BY <1>1, <2>1, <2>2, <2>5, <2>6, <3>1, <4>1 DEF StillOf
    <3>2. CASE f # e
      <4>1. StillOf(f) /\ ePc'[f] = ePc[f] /\ eJob'[f] = eJob[f]
        BY <2>2, <2>3, <3>2, LockFacts
      <4> QED BY <1>1, <2>6, <4>1 DEF StillOf, Linked
    <3> QED BY <3>1, <3>2
  <2>15. LinksAreWhole'
    BY <1>1, <2>6 DEF Sound, LinksAreWhole, Linked
  <2> QED BY <1>1, <2>2, <2>3, <2>8, <2>9, <2>10, <2>11, <2>13, <2>14, <2>15, Settled
<1> QED BY <1>3, <1>4

LEMMA MarksStep ==
    ASSUME OfficialInv, Sound, NEW e \in Editors, Marks(e)
    PROVE  OfficialInv' /\ (source.commit <= source'.commit)
<1> DEFINE j == eJob[e]
<1>1. /\ At(e, "mark", "saved")
      /\ UNCHANGED <<eJob, lastSource, link, rows, draft, upstream, spent, failed, accepted, crossed>>
  BY DEF Marks, oCount, oPast
<1>2. /\ OfficialShape /\ spent \in 0 .. Budget /\ failed \in BOOLEAN /\ crossed \in BOOLEAN
      /\ WorkOf(e) /\ PlanOf(e) /\ upstream \in Nat
  BY OfficialFacts
<1>3. /\ ePc[e] = "mark" /\ ePc'[e] = "saved" /\ DOMAIN ePc' = Editors
      /\ \A f \in Editors \ {e} : ePc'[f] = ePc[f]
  BY <1>1, <1>2, GoesOn
<1>4. source.id = j.src /\ source.id # 0 /\ source.commit = j.base
  BY <1>3, LockFacts DEF StillOf, Holding, Section
<1>5. source' = [source EXCEPT !.state = "idle", !.commit = j.commit]
  BY <1>4 DEF Marks
<1>6. j.commit \in 1 .. upstream /\ j.base \in 0 .. j.commit
  BY <1>2, <1>3 DEF PlanOf, Planned
<1>7. /\ source'.id = source.id /\ source'.owner = source.owner /\ source'.commit = j.commit
      /\ source'.state = "idle"
      /\ source' = [id |-> source.id, state |-> "idle", commit |-> j.commit, owner |-> source.owner]
  <2>1. source = [id |-> source.id, state |-> source.state, commit |-> source.commit, owner |-> source.owner]
    BY OfficialFacts
  <2> QED BY <1>5, <2>1
<1>8. OfficialShape'
  <2>1. source'.id # 0 /\ j.commit \in 0 .. upstream
    BY <1>2, <1>4, <1>6, <1>7
  <2> QED BY <1>1, <1>2, <1>3, <1>7, <2>1, OfficialFacts DEF OfficialShape
<1>9. LockIsHeld'
  BY <1>7 DEF LockIsHeld
<1>10. WorkOf(e)' /\ PlanOf(e)'
  BY <1>1, <1>2, <1>3 DEF WorkOf, PlanOf, Planned, Owners
<1>11. \A f \in Editors : ePc'[f] \notin Section
  BY <1>3, LockFacts DEF Section
<1>12. LockFits'
  <2>1. \A f \in Editors : ePc'[f] \in Holding => ePc[f] \in Holding
    BY <1>3 DEF Holding, Section
  <2> QED BY <1>1, <1>7, <1>11, <2>1, LockFacts DEF LockFits
<1>13. StillSo'
  <2> SUFFICES ASSUME NEW f \in Editors PROVE StillOf(f)'
    BY DEF StillSo
  <2>1. CASE f = e
    BY <1>3, <2>1 DEF StillOf
  <2>2. CASE f # e
    <3>1. StillOf(f) /\ ePc'[f] = ePc[f] /\ eJob'[f] = eJob[f] /\ ePc[f] \notin {"commit", "mark"}
      BY <1>1, <1>3, <1>11, <2>2, LockFacts DEF Section
    <3> QED BY <1>1, <1>7, <3>1 DEF StillOf, Linked
  <2> QED BY <2>1, <2>2
<1>14. LinksAreWhole'
  <2>1. \A c \in Linked : link[c].hash = Tree[j.commit][c]
    BY <1>3, LockFacts DEF StillOf
  <2> QED BY <1>1, <1>4, <1>7, <2>1 DEF Sound, LinksAreWhole, Linked
<1>15. OfficialInv'
  BY <1>1, <1>3, <1>8, <1>9, <1>10, <1>12, <1>13, <1>14, Settled
<1>16. source.commit <= source'.commit
  BY <1>4, <1>6, <1>7
<1> QED BY <1>15, <1>16

LEMMA ApplicationFailsStep ==
    ASSUME OfficialInv, Sound, NEW e \in Editors, ApplicationFails(e)
    PROVE  OfficialInv'
<1> DEFINE j == eJob[e]
<1>1. /\ ePc[e] \in {"commit", "mark", "saved"} /\ Spend(2) /\ failed' = TRUE
      /\ ePc' = [ePc EXCEPT ![e] = IF @ = "saved" THEN "failed late" ELSE "failed"]
      /\ UNCHANGED <<eJob, source, lastSource, link, rows, draft, upstream, accepted, crossed>>
  BY DEF ApplicationFails, oStore, oPast
<1>2. /\ OfficialShape /\ WorkOf(e)
  BY OfficialFacts
<1>3. /\ ePc'[e] = (IF ePc[e] = "saved" THEN "failed late" ELSE "failed") /\ DOMAIN ePc' = Editors
      /\ \A f \in Editors \ {e} : ePc'[f] = ePc[f]
  BY <1>1, <1>2 DEF OfficialShape
<1>4. spent' \in 0 .. Budget
  <2>1. spent \in 0 .. Budget /\ Budget \in Nat
    BY <1>2, OfficialAssumption DEF OfficialShape
  <2>2. spent + 2 <= Budget /\ spent' = spent + 2
    BY <1>1 DEF Spend
  <2> QED BY <2>1, <2>2
<1>5. OfficialShape'
  BY <1>1, <1>2, <1>3, <1>4 DEF OfficialShape
<1>6. LockIsHeld'
  BY <1>1 DEF LockIsHeld
<1>7. WorkOf(e)' /\ PlanOf(e)'
  BY <1>1, <1>2, <1>3 DEF WorkOf, PlanOf, Planned, Owners
<1>8. \A f \in Editors : /\ ePc'[f] \in Holding => ePc[f] \in Holding
                         /\ ePc'[f] \in Section => ePc[f] \in Section
  BY <1>1, <1>3 DEF Holding, Section
<1>9. LockFits'
  BY <1>1, <1>8, LockFacts DEF LockFits
<1>10. StillSo'
  <2> SUFFICES ASSUME NEW f \in Editors PROVE StillOf(f)'
    BY DEF StillSo
  <2>1. CASE f = e
    BY <1>3, <2>1 DEF StillOf
  <2>2. CASE f # e
    <3>1. StillOf(f) /\ ePc'[f] = ePc[f] /\ eJob'[f] = eJob[f]
      BY <1>1, <1>3, <2>2, LockFacts
    <3> QED BY <1>1, <3>1 DEF StillOf, Linked
  <2> QED BY <2>1, <2>2
<1>11. LinksAreWhole'
  BY <1>1 DEF Sound, LinksAreWhole, Linked
<1> QED BY <1>1, <1>3, <1>5, <1>6, <1>7, <1>9, <1>10, <1>11, Settled

LEMMA Spending ==
    ASSUME OfficialShape, NEW cost \in Nat, Spend(cost)
    PROVE  spent' \in 0 .. Budget
<1>1. spent \in 0 .. Budget /\ Budget \in Nat
  BY OfficialAssumption DEF OfficialShape
<1>2. spent + cost <= Budget /\ spent' = spent + cost
  BY DEF Spend
<1> QED BY <1>1, <1>2

\* What the transaction of an application leaves: the links of the plan, and their rows.
LEMMA MaterializesLinks ==
    ASSUME OfficialInv, Sound, NEW e \in Editors, Materializes(e)
    PROVE  LET j == eJob[e] IN
           /\ DOMAIN link' = Components /\ \A c \in Components : IsLink(link'[c])
           /\ {c \in Components : link'[c] # NoLink} = j.chosen
           /\ \A c \in j.chosen : link'[c].owner = source.owner /\ link'[c].hash = Tree[j.commit][c]
           /\ \A c \in j.chosen : link'[c].hash # 0
           /\ rows' = {[c |-> c, res |-> link'[c].res, owner |-> source.owner] : c \in j.chosen}
<1> DEFINE j == eJob[e]
           unlinked(c) == c \in Unselected(j) /\ link[c].res = j.listed[c].res /\ link[c].owner = j.listed[c].owner
<1>1. /\ ePc[e] = "commit"
      /\ rows' = {r \in rows : /\ \A c \in Unselected(j) : ~IsRow(r, c, j.listed[c])
                               /\ \A c \in j.chosen : ~IsRow(r, c, Saved(j, c))}
                 \cup {[c |-> c, res |-> Saved(j, c).res, owner |-> j.owner] : c \in j.chosen}
      /\ link' = [c \in Components |->
                    IF c \in j.chosen THEN Saved(j, c) ELSE IF unlinked(c) THEN NoLink ELSE link[c]]
  BY DEF Materializes, At
<1>2. /\ j.listed = link /\ j.owner = source.owner
  BY <1>1, LockFacts DEF StillOf
<1>3. /\ j.chosen \subseteq Present(j.commit) /\ j.commit \in 1 .. upstream /\ upstream \in Nat
      /\ OfficialShape
  BY <1>1, OfficialFacts DEF PlanOf, Planned
<1>4. \A c \in j.chosen : c \in Components /\ Tree[j.commit][c] # 0
  BY <1>3 DEF Present
<1>5. \A c \in Components \ j.chosen : unlinked(c) <=> c \in Linked
  BY <1>2 DEF Unselected, Linked
<1>6. \A c \in Components : link'[c] = IF c \in j.chosen THEN Saved(j, c) ELSE NoLink
  BY <1>1, <1>5 DEF Linked
<1>7. \A c \in j.chosen :
        /\ Saved(j, c).owner = source.owner /\ Saved(j, c).hash = Tree[j.commit][c]
        /\ IsLink(Saved(j, c)) /\ Saved(j, c) # NoLink
        /\ c \in Linked => Saved(j, c).res = link[c].res
  <2> SUFFICES ASSUME NEW c \in j.chosen
               PROVE  /\ Saved(j, c).owner = source.owner /\ Saved(j, c).hash = Tree[j.commit][c]
                      /\ IsLink(Saved(j, c)) /\ Saved(j, c) # NoLink
                      /\ c \in Linked => Saved(j, c).res = link[c].res
    OBVIOUS
  <2>1. PICK res : /\ Saved(j, c) = [res |-> res, owner |-> j.owner, hash |-> Tree[j.commit][c],
                                     explicit |-> c \in j.explicit]
                   /\ link[c] # NoLink => res = link[c].res
    <3>1. Saved(j, c) = [res |-> IF link[c] = NoLink THEN NewRes(c) ELSE link[c].res, owner |-> j.owner,
                         hash |-> Tree[j.commit][c], explicit |-> c \in j.explicit]
      BY <1>2 DEF Saved
    <3> DEFINE res == IF link[c] = NoLink THEN NewRes(c) ELSE link[c].res
    <3>2. link[c] # NoLink => res = link[c].res
      OBVIOUS
    <3>3. Saved(j, c) = [res |-> res, owner |-> j.owner, hash |-> Tree[j.commit][c], explicit |-> c \in j.explicit]
      BY <3>1
    <3> HIDE DEF res
    <3> QED BY <3>2, <3>3
  <2>2. Saved(j, c).hash # NoLink.hash
    BY <1>4, <2>1 DEF NoLink
  <2>3. IsLink(Saved(j, c))
    BY <2>1 DEF IsLink
  <2> QED BY <1>2, <2>1, <2>2, <2>3 DEF Linked
<1>8. DOMAIN link' = Components /\ \A c \in Components : IsLink(link'[c])
  <2>1. IsLink(NoLink)
    BY DEF NoLink, IsLink
  <2>2. DOMAIN link' = Components
    BY <1>1
  <2> QED BY <1>6, <1>7, <2>1, <2>2
<1>9. {c \in Components : link'[c] # NoLink} = j.chosen
  BY <1>4, <1>6, <1>7
<1>10. \A c \in j.chosen : link'[c].owner = source.owner /\ link'[c].hash = Tree[j.commit][c] /\ link'[c].hash # 0
  BY <1>4, <1>6, <1>7
<1>11. rows' = {[c |-> c, res |-> link'[c].res, owner |-> source.owner] : c \in j.chosen}
  <2>1. rows = {[c |-> c, res |-> link[c].res, owner |-> source.owner] : c \in Linked}
        /\ \A c \in Linked : link[c].owner = source.owner
    BY DEF Sound, LinksAreWhole
  <2>2. \A r \in rows : \/ \E c \in Unselected(j) : IsRow(r, c, j.listed[c])
                        \/ \E c \in j.chosen : IsRow(r, c, Saved(j, c))
    <3> SUFFICES ASSUME NEW r \in rows
                 PROVE  \/ \E c \in Unselected(j) : IsRow(r, c, j.listed[c])
                        \/ \E c \in j.chosen : IsRow(r, c, Saved(j, c))
      OBVIOUS
    <3>1. PICK c \in Linked : r = [c |-> c, res |-> link[c].res, owner |-> source.owner]
      BY <2>1
    <3>2. CASE c \in j.chosen
      BY <1>7, <3>1, <3>2 DEF IsRow
    <3>3. CASE c \notin j.chosen
      <4>1. c \in Unselected(j) /\ j.listed[c] = link[c]
        BY <1>2, <3>1, <3>3 DEF Unselected, Linked
      <4>2. IsRow(r, c, j.listed[c])
        BY <2>1, <3>1, <4>1 DEF IsRow
      <4> QED BY <4>1, <4>2
    <3> QED BY <3>2, <3>3
  <2>3. rows' = {[c |-> c, res |-> Saved(j, c).res, owner |-> j.owner] : c \in j.chosen}
    BY <1>1, <2>2
  <2>4. \A c \in j.chosen : Saved(j, c) = link'[c] /\ j.owner = source.owner
    BY <1>2, <1>4, <1>6
  <2> QED BY <2>3, <2>4
<1> QED BY <1>8, <1>9, <1>10, <1>11

LEMMA MaterializesStep ==
    ASSUME OfficialInv, Sound, NEW e \in Editors, Materializes(e)
    PROVE  OfficialInv'
<1> DEFINE j == eJob[e]
<1>1. /\ At(e, "commit", "mark") /\ crossed' = (crossed \/ OthersIn(e, {"delete", "transfer"}))
      /\ UNCHANGED <<source, lastSource, draft, eJob, upstream, spent, failed, accepted>>
  BY DEF Materializes, oCount
<1>2. /\ DOMAIN link' = Components /\ \A c \in Components : IsLink(link'[c])
      /\ Linked' = j.chosen
      /\ \A c \in j.chosen : link'[c].owner = source.owner /\ link'[c].hash = Tree[j.commit][c]
      /\ \A c \in j.chosen : link'[c].hash # 0
      /\ rows' = {[c |-> c, res |-> link'[c].res, owner |-> source.owner] : c \in j.chosen}
  BY MaterializesLinks DEF Linked
<1>3. OfficialShape /\ crossed \in BOOLEAN /\ WorkOf(e) /\ PlanOf(e)
  BY OfficialFacts
<1>4. /\ ePc[e] = "commit" /\ ePc'[e] = "mark" /\ DOMAIN ePc' = Editors
      /\ \A f \in Editors \ {e} : ePc'[f] = ePc[f]
  BY <1>1, <1>3, GoesOn
<1>5. OfficialShape'
  <2>1. crossed' \in BOOLEAN
    BY <1>1, <1>3
  <2> QED BY <1>1, <1>2, <1>3, <1>4, <2>1 DEF OfficialShape
<1>6. source.state = "applying" /\ source.id = j.src /\ source.id # 0
      /\ j.owner = source.owner /\ j.base = source.commit
  BY <1>4, LockFacts DEF Holding, Section, StillOf
<1>7. LockIsHeld'
  BY <1>1, <1>4, <1>6 DEF LockIsHeld, Section
<1>8. WorkOf(e)' /\ PlanOf(e)'
  BY <1>1, <1>3, <1>4 DEF WorkOf, PlanOf, Planned, Owners
<1>9. LockFits'
  <2>1. \A f \in Editors : /\ ePc'[f] \in Holding => ePc[f] \in Holding
                           /\ ePc'[f] \in Section => ePc[f] \in Section
    BY <1>4 DEF Holding, Section
  <2> QED BY <1>1, <2>1, LockFacts DEF LockFits
<1>10. ~crossed' => StillSo'
  <2> SUFFICES ASSUME ~crossed', NEW f \in Editors PROVE StillOf(f)'
    BY DEF StillSo
  <2>1. CASE f = e
    BY <1>1, <1>2, <1>4, <1>6, <2>1 DEF StillOf
  <2>2. CASE f # e
    <3>1. StillOf(f) /\ ePc'[f] = ePc[f] /\ eJob'[f] = eJob[f] /\ ePc[f] \notin {"commit", "mark"}
      BY <1>1, <1>4, <2>2, LockFacts DEF Section
    <3>2. ePc[f] \notin {"delete", "transfer"}
      BY <1>1, <2>2 DEF OthersIn
    <3> QED BY <1>1, <3>1, <3>2 DEF StillOf
  <2> QED BY <2>1, <2>2
<1>11. LinksAreWhole'
  <2>1. /\ \A c \in j.chosen : Needs[c] \subseteq j.chosen
        /\ \A c \in j.chosen \cap Tools : <<c, Tree[j.commit][c]>> \in accepted
    BY <1>3, <1>4 DEF PlanOf, Planned
  <2>2. rows' = {[c |-> c, res |-> link'[c].res, owner |-> source'.owner] : c \in Linked'}
    BY <1>1, <1>2
  <2> QED BY <1>1, <1>2, <1>6, <2>1, <2>2 DEF LinksAreWhole
<1> QED BY <1>1, <1>4, <1>5, <1>7, <1>8, <1>9, <1>10, <1>11, Settled

LEMMA MarksFailedStep ==
    ASSUME OfficialInv, Sound, NEW e \in Editors, MarksFailed(e)
    PROVE  OfficialInv'
<1> DEFINE j == eJob[e]
<1>1. /\ ePc[e] \in {"failed", "failed late"} /\ Over(e)
      /\ source' = IF source.id = j.src THEN [source EXCEPT !.state = "failed"] ELSE source
      /\ crossed' = (crossed \/ OthersIn(e, Section))
      /\ UNCHANGED <<lastSource, link, rows, draft, upstream, spent, failed, accepted>>
  BY DEF MarksFailed, oCount
<1>2. OfficialShape /\ crossed \in BOOLEAN
  BY OfficialFacts
<1>3. /\ ePc'[e] = "idle" /\ DOMAIN ePc' = Editors /\ eJob'[e] = NoWork /\ DOMAIN eJob' = Editors
      /\ \A f \in Editors \ {e} : ePc'[f] = ePc[f] /\ eJob'[f] = eJob[f]
  BY <1>1, <1>2, Ended
<1>4. source.id = j.src /\ source.id # 0
  BY <1>1, LockFacts DEF Holding, Section
<1>5. /\ source'.id = source.id /\ source'.owner = source.owner /\ source'.commit = source.commit
      /\ source'.state = "failed"
      /\ source' = [id |-> source.id, state |-> "failed", commit |-> source.commit, owner |-> source.owner]
  <2>1. source = [id |-> source.id, state |-> source.state, commit |-> source.commit, owner |-> source.owner]
    BY OfficialFacts
  <2> QED BY <1>1, <1>4, <2>1
<1>6. OfficialShape'
  <2>1. crossed' \in BOOLEAN
    BY <1>1, <1>2
  <2> QED BY <1>1, <1>2, <1>3, <1>4, <1>5, <2>1, OfficialFacts DEF OfficialShape
<1>7. LockIsHeld'
  BY <1>5 DEF LockIsHeld
<1>8. WorkOf(e)' /\ PlanOf(e)'
  BY <1>3, IdleFits
<1>9. ~crossed' => LockFits' /\ StillSo'
  <2> SUFFICES ASSUME ~crossed' PROVE LockFits' /\ StillSo'
    OBVIOUS
  <2>1. \A f \in Editors : ePc'[f] \notin Section
    BY <1>1, <1>3 DEF OthersIn, Section
  <2>2. \A f \in Editors : ePc'[f] \in Holding => f # e
    BY <1>3 DEF Holding, Section
  <2>3. LockFits'
    BY <1>3, <1>5, <2>1, <2>2, LockFacts DEF LockFits
  <2>4. ASSUME NEW f \in Editors PROVE StillOf(f)'
    <3>1. CASE f = e
      BY <1>3, <3>1 DEF StillOf
    <3>2. CASE f # e
      <4>1. StillOf(f) /\ ePc'[f] = ePc[f] /\ eJob'[f] = eJob[f]
        BY <1>3, <3>2, LockFacts
      <4> QED BY <1>1, <1>5, <4>1 DEF StillOf, Linked
    <3> QED BY <3>1, <3>2
  <2> QED BY <2>3, <2>4 DEF StillSo
<1>10. LinksAreWhole'
  BY <1>1, <1>5 DEF Sound, LinksAreWhole, Linked
<1> QED BY <1>1, <1>3, <1>6, <1>7, <1>8, <1>9, <1>10, Settled

-----------------------------------------------------------------------------
(* The rest of what is done to a source. *)

\* A request begins to write the source it has read.
LEMMA Takes ==
    ASSUME OfficialInv, Sound, NEW e \in Editors, NEW from, NEW to \in {"delete", "transfer"}, NEW job,
           IsWork(job), job.owner \in Owners, job.src = source.id, job.listed = link,
           ePc[e] = from, from = "idle" \/ ePc[e] \in {"failed", "failed late"},
           ePc' = [ePc EXCEPT ![e] = to], Keeps(e, job),
           source.id # 0, spent' \in 0 .. Budget,
           UNCHANGED <<source, lastSource, link, rows, draft, upstream, failed, accepted, crossed>>
    PROVE  OfficialInv'
<1>1. OfficialShape /\ WorkOf(e)
  BY OfficialFacts
<1>2. ePc'[e] = to /\ DOMAIN ePc' = Editors /\ \A f \in Editors \ {e} : ePc'[f] = ePc[f]
  BY <1>1 DEF OfficialShape
<1>3. eJob'[e] = job /\ DOMAIN eJob' = Editors /\ \A f \in Editors \ {e} : eJob'[f] = eJob[f]
  BY <1>1, HasJob
<1>4. IsWork(eJob'[e]) /\ eJob'[e].owner \in Owners /\ eJob'[e].src = source.id /\ eJob'[e].listed = link
  BY <1>3
<1>5. OfficialShape'
  BY <1>1, <1>2, <1>3 DEF OfficialShape
<1>6. LockIsHeld'
  <2> SUFFICES ASSUME source.state = "applying", ~failed
               PROVE  \E f \in Editors : ePc'[f] \in Section /\ eJob'[f].src = source.id
    BY DEF LockIsHeld
  <2>1. PICK f \in Editors : ePc[f] \in Section /\ eJob[f].src = source.id
    BY DEF OfficialInv, LockIsHeld
  <2>2. f # e
    BY <1>1, <2>1 DEF WorkOf, Section
  <2> QED BY <1>2, <1>3, <2>1, <2>2
<1>7. WorkOf(e)' /\ PlanOf(e)'
  BY <1>2, <1>4 DEF WorkOf, PlanOf, Planned, Owners
<1>8. LockFits'
  <2>1. \A f \in Editors : ePc'[f] \in Section => f # e
    BY <1>2 DEF Section
  <2>2. \A f \in Editors : ePc'[f] \in Holding => eJob'[f].src = source.id
    BY <1>2, <1>3, <1>4, LockFacts
  <2>3. \A f \in Editors : ePc'[f] \in Section => ePc[f] \in Section
    BY <1>2, <2>1
  <2> QED BY <2>2, <2>3, LockFacts DEF LockFits
<1>9. StillSo'
  <2> SUFFICES ASSUME NEW f \in Editors PROVE StillOf(f)'
    BY DEF StillSo
  <2>1. CASE f = e
    BY <1>2, <1>4, <2>1 DEF StillOf
  <2>2. CASE f # e
    <3>1. StillOf(f) /\ ePc'[f] = ePc[f] /\ eJob'[f] = eJob[f]
      BY <1>2, <1>3, <2>2, LockFacts
    <3> QED BY <3>1 DEF StillOf, Linked
  <2> QED BY <2>1, <2>2
<1>10. LinksAreWhole'
  BY DEF Sound, LinksAreWhole, Linked
<1> QED BY <1>2, <1>3, <1>5, <1>6, <1>7, <1>8, <1>9, <1>10, Settled

LEMMA DeleteListsStep ==
    ASSUME OfficialInv, Sound, NEW e \in Editors, DeleteLists(e)
    PROVE  OfficialInv'
<1>1. /\ \/ ePc[e] \in {"failed", "failed late"} /\ eJob[e].fresh /\ UNCHANGED spent
         \/ ePc[e] = "idle" /\ source # NoSource /\ Spend(2)
      /\ ePc' = [ePc EXCEPT ![e] = "delete"]
      /\ LET id == IF ePc[e] = "idle" THEN source.id ELSE eJob[e].src IN
         Keeps(e, [NoWork EXCEPT !.src = id, !.listed = IF id = source.id THEN link ELSE Unlinked])
      /\ UNCHANGED <<source, lastSource, link, rows, draft, upstream, failed, accepted, crossed>>
  BY DEF DeleteLists, oStore, oPast
<1>2. /\ OfficialShape /\ spent \in 0 .. Budget
      /\ source.id = 0 => source = NoSource
  BY OfficialFacts
<1>3. spent' \in 0 .. Budget
  BY <1>1, <1>2, Spending
<1>4. source.id # 0 /\ (ePc[e] # "idle" => eJob[e].src = source.id)
  BY <1>1, <1>2, LockFacts DEF Holding, Section
<1>5. PICK job : job = [NoWork EXCEPT !.src = source.id, !.listed = link] /\ Keeps(e, job)
  BY <1>1, <1>4
<1>6. IsWork(job) /\ job.owner \in Owners /\ job.src = source.id /\ job.listed = link
  BY <1>5 DEF NoWork, IsWork, Owners
<1>7. "delete" \in {"delete", "transfer"}
  OBVIOUS
<1>8. PICK from : ePc[e] = from
  OBVIOUS
<1> QED BY <1>1, <1>3, <1>4, <1>5, <1>6, <1>7, <1>8, Takes

LEMMA TransferReadsStep ==
    ASSUME OfficialInv, Sound, NEW e \in Editors, TransferReads(e)
    PROVE  OfficialInv'
<1>1. /\ source # NoSource /\ Spend(2) /\ At(e, "idle", "transfer")
      /\ UNCHANGED <<source, lastSource, link, rows, draft, upstream, failed, accepted, crossed>>
  BY DEF TransferReads, oStore, oPast
<1>2. PICK a \in Admins : Keeps(e, [NoWork EXCEPT !.src = source.id, !.owner = a, !.listed = link])
  BY DEF TransferReads
<1>3. OfficialShape /\ source.id # 0
  BY <1>1, OfficialFacts
<1>4. spent' \in 0 .. Budget
  BY <1>1, <1>3, Spending
<1>5. PICK job : job = [NoWork EXCEPT !.src = source.id, !.owner = a, !.listed = link] /\ Keeps(e, job)
  BY <1>2
<1>6. ePc[e] = "idle" /\ ePc' = [ePc EXCEPT ![e] = "transfer"]
  BY <1>1 DEF At
<1>7. /\ IsWork(job) /\ job.owner \in Owners /\ job.src = source.id /\ job.listed = link
      /\ "transfer" \in {"delete", "transfer"}
  BY <1>5 DEF NoWork, IsWork, Owners
<1> QED BY <1>1, <1>3, <1>4, <1>5, <1>6, <1>7, Takes

\* Nobody but e is about to write the source.
LEMMA LastWriter ==
    ASSUME OfficialInv, Sound, NEW e \in Editors, Over(e), OfficialShape', LockIsHeld',
           crossed' = (crossed \/ OthersIn(e, Applying \cup {"delete", "transfer"})),
           UNCHANGED <<upstream, accepted>>, failed => failed',
           \A d \in Drafts : draft'[d].status = "pending" =>
               /\ draft[d].status = "pending" /\ draft'[d].commit = draft[d].commit
               /\ draft'[d].base = draft[d].base /\ draft'[d].accepted = draft[d].accepted,
           LinksAreWhole'
    PROVE  OfficialInv'
<1>1. OfficialShape
  BY OfficialFacts
<1>2. /\ ePc'[e] = "idle" /\ eJob'[e] = NoWork
      /\ \A f \in Editors \ {e} : ePc'[f] = ePc[f] /\ eJob'[f] = eJob[f]
  BY <1>1, Ended
<1>3. ~crossed' => \A f \in Editors : ePc'[f] \notin Holding
  BY <1>2 DEF OthersIn, Applying, Holding, Section
<1>4. ~crossed' => LockFits' /\ StillSo'
  BY <1>3 DEF LockFits, StillSo, StillOf, Holding, Section
<1>5. DraftsFit'
  BY DEF Sound, DraftsFit
<1>6. RequestsFit'
  <2>1. upstream' \in Nat /\ upstream <= upstream' /\ accepted \subseteq accepted'
    BY <1>1 DEF OfficialShape, Commits
  <2>2. \A f \in Editors \ {e} : WorkOf(f)' /\ PlanOf(f)'
    BY <1>2, <2>1, OthersFit
  <2>3. WorkOf(e)' /\ PlanOf(e)'
    BY <1>2, IdleFits
  <2> QED BY <2>2, <2>3 DEF RequestsFit
<1> QED BY <1>4, <1>5, <1>6 DEF OfficialInv

LEMMA DeletesSourceStep ==
    ASSUME OfficialInv, Sound, NEW e \in Editors, DeletesSource(e)
    PROVE  OfficialInv' /\ source'.id # source.id
<1> DEFINE j == eJob[e]
           gone == [NoDraft EXCEPT !.status = "gone"]
<1>1. /\ ePc[e] = "delete" /\ Over(e)
      /\ rows' = {r \in rows : \A c \in Components : j.listed[c] # NoLink => ~IsRow(r, c, j.listed[c])}
      /\ crossed' = (crossed \/ OthersIn(e, Applying \cup {"delete", "transfer"}))
      /\ UNCHANGED <<lastSource, upstream, spent, failed, accepted>>
  BY DEF DeletesSource, oCount
<1>2. j.src = source.id /\ source.id # 0 /\ j.listed = link
  BY <1>1, LockFacts DEF Holding, StillOf
<1>3. /\ source' = NoSource /\ link' = Unlinked
      /\ draft' = [d \in Drafts |-> IF draft[d].src = j.src THEN gone ELSE draft[d]]
  BY <1>2 DEF DeletesSource
<1>4. OfficialShape /\ crossed \in BOOLEAN /\ upstream \in Nat
  BY OfficialFacts
<1>5. /\ DOMAIN ePc' = Editors /\ DOMAIN eJob' = Editors
  BY <1>1, <1>4, Ended
<1>6. IsDraft(gone) /\ gone.status = "gone" /\ gone.owner \in Owners /\ gone.selected = {} /\ gone.explicit = {}
  BY DEF IsDraft, NoDraft, Owners
<1> HIDE DEF gone
<1>7. /\ DOMAIN draft' = Drafts
      /\ \A d \in Drafts : draft'[d] = gone \/ draft'[d] = draft[d]
  BY <1>3
<1>8. OfficialShape'
  <2>1. /\ source' \in [id : {0, lastSource}, state : {"idle", "applying", "failed"}, commit : 0 .. upstream,
                        owner : Owners]
        /\ source'.id = 0 => source' = NoSource
    BY <1>3, <1>4 DEF NoSource, Owners
  <2>2. DOMAIN link' = Components /\ \A c \in Components : IsLink(link'[c])
    BY <1>3 DEF Unlinked, NoLink, IsLink
  <2>3. crossed' \in BOOLEAN
    BY <1>1, <1>4
  <2>4. \A d \in Drafts :
          /\ IsDraft(draft'[d]) /\ draft'[d].selected \cup draft'[d].explicit \subseteq draft'[d].known
          /\ draft'[d].owner \in Owners
    BY <1>4, <1>6, <1>7 DEF OfficialShape
  <2> QED BY <1>1, <1>4, <1>5, <1>7, <2>1, <2>2, <2>3, <2>4 DEF OfficialShape
<1>9. LockIsHeld'
  BY <1>3 DEF LockIsHeld, NoSource
<1>10. LinksAreWhole'
  <2>1. \A r \in rows : \E c \in Components : link[c] # NoLink /\ IsRow(r, c, link[c])
    <3>1. rows = {[c |-> c, res |-> link[c].res, owner |-> source.owner] : c \in Linked}
          /\ \A c \in Linked : link[c].owner = source.owner
      BY DEF Sound, LinksAreWhole
    <3> QED BY <3>1 DEF Linked, IsRow
  <2>2. rows' = {}
    BY <1>1, <1>2, <2>1
  <2>3. Linked' = {}
    BY <1>3 DEF Linked, Unlinked
  <2> QED BY <2>2, <2>3 DEF LinksAreWhole
<1>11. \A d \in Drafts : draft'[d].status = "pending" => draft'[d] = draft[d]
  BY <1>6, <1>7
<1>12. OfficialInv'
  BY <1>1, <1>8, <1>9, <1>10, <1>11, LastWriter
<1>13. source'.id # source.id
  BY <1>2, <1>3 DEF NoSource
<1> QED BY <1>12, <1>13

LEMMA TransfersStep ==
    ASSUME OfficialInv, Sound, NEW e \in Editors, Transfers(e)
    PROVE  OfficialInv' /\ source'.commit = source.commit
<1> DEFINE j == eJob[e]
           named(r) == \E c \in Components : j.listed[c] # NoLink /\ IsRow(r, c, j.listed[c])
<1>1. /\ ePc[e] = "transfer" /\ Over(e)
      /\ rows' = {IF named(r) THEN [r EXCEPT !.owner = j.owner] ELSE r : r \in rows}
      /\ crossed' = (crossed \/ OthersIn(e, Applying \cup {"delete", "transfer"}))
      /\ UNCHANGED <<lastSource, draft, upstream, spent, failed, accepted>>
  BY DEF Transfers, oCount
<1>2. j.src = source.id /\ source.id # 0 /\ j.listed = link
  BY <1>1, LockFacts DEF Holding, StillOf
<1>3. /\ source' = [source EXCEPT !.owner = j.owner]
      /\ link' = [c \in Components |-> IF link[c] = NoLink THEN link[c] ELSE [link[c] EXCEPT !.owner = j.owner]]
  BY <1>2 DEF Transfers
<1>4. OfficialShape /\ crossed \in BOOLEAN /\ upstream \in Nat /\ j.owner \in Owners
  BY OfficialFacts DEF WorkOf
<1>5. /\ DOMAIN ePc' = Editors /\ DOMAIN eJob' = Editors
      /\ \A f \in Editors \ {e} : ePc'[f] = ePc[f] /\ eJob'[f] = eJob[f]
  BY <1>1, <1>4, Ended
<1>6. /\ source'.id = source.id /\ source'.owner = j.owner /\ source'.commit = source.commit
      /\ source'.state = source.state
      /\ source' = [id |-> source.id, state |-> source.state, commit |-> source.commit, owner |-> j.owner]
  <2>1. source = [id |-> source.id, state |-> source.state, commit |-> source.commit, owner |-> source.owner]
    BY OfficialFacts
  <2> QED BY <1>3, <2>1
<1>7. \A c \in Linked :
        /\ IsLink(link'[c]) /\ link'[c].owner = j.owner /\ link'[c].res = link[c].res
        /\ link'[c].hash = link[c].hash
  <2> SUFFICES ASSUME NEW c \in Linked
               PROVE  /\ IsLink(link'[c]) /\ link'[c].owner = j.owner /\ link'[c].res = link[c].res
                      /\ link'[c].hash = link[c].hash
    OBVIOUS
  <2>1. IsLink(link[c]) /\ link'[c] = [link[c] EXCEPT !.owner = j.owner]
    BY <1>3, <1>4 DEF Linked, OfficialShape
  <2> QED BY <2>1 DEF IsLink
<1>8. \A c \in Components \ Linked : link'[c] = NoLink
  BY <1>3 DEF Linked
<1>9. \A c \in Linked : link[c].hash # 0 /\ link[c].owner = source.owner
  BY DEF Sound, LinksAreWhole
<1>10. Linked' = Linked
  <2>1. \A c \in Linked : link'[c] # NoLink
    <3>1. NoLink.hash = 0
      BY DEF NoLink
    <3> QED BY <1>7, <1>9, <3>1
  <2>2. Linked \subseteq Components
    BY DEF Linked
  <2>3. Linked' = {c \in Components : link'[c] # NoLink}
    BY DEF Linked
  <2> QED BY <1>8, <2>1, <2>2, <2>3
<1>11. OfficialShape'
  <2>1. DOMAIN link' = Components /\ \A c \in Components : IsLink(link'[c])
    <3>1. IsLink(NoLink) /\ DOMAIN link' = Components
      BY <1>3 DEF NoLink, IsLink
    <3> QED BY <1>7, <1>8, <3>1
  <2>2. crossed' \in BOOLEAN
    BY <1>1, <1>4
  <2> QED BY <1>1, <1>2, <1>4, <1>5, <1>6, <2>1, <2>2 DEF OfficialShape
<1>12. LockIsHeld'
  BY <1>1, <1>5, <1>6 DEF OfficialInv, LockIsHeld, Section
<1>13. LinksAreWhole'
  <2>1. rows = {[c |-> c, res |-> link[c].res, owner |-> source.owner] : c \in Linked}
    BY DEF Sound, LinksAreWhole
  <2>2. \A r \in rows : named(r)
    BY <1>2, <1>9, <2>1 DEF Linked, IsRow
  <2>3. rows' = {[r EXCEPT !.owner = j.owner] : r \in rows}
    <3> HIDE DEF named
    <3> QED BY <1>1, <2>2
  <2>4. rows' = {[c |-> c, res |-> link[c].res, owner |-> j.owner] : c \in Linked}
    <3> DEFINE old(c) == [c |-> c, res |-> link[c].res, owner |-> source.owner]
               new(c) == [c |-> c, res |-> link[c].res, owner |-> j.owner]
    <3>1. \A c \in Linked : [old(c) EXCEPT !.owner = j.owner] = new(c)
      OBVIOUS
    <3>2. rows = {old(c) : c \in Linked}
      BY <2>1
    <3> HIDE DEF old, new
    <3>3. rows' = {new(c) : c \in Linked}
      BY <2>3, <3>1, <3>2
    <3> QED BY <3>3 DEF new
  <2>5. rows' = {[c |-> c, res |-> link'[c].res, owner |-> source'.owner] : c \in Linked'}
    BY <1>6, <1>7, <1>10, <2>4
  <2>6. LinksAreWhole
    BY DEF Sound
  <2> QED BY <1>1, <1>2, <1>6, <1>7, <1>10, <2>5, <2>6 DEF LinksAreWhole
<1>14. \A d \in Drafts : draft'[d] = draft[d]
  BY <1>1
<1>15. OfficialInv'
  BY <1>1, <1>11, <1>12, <1>13, <1>14, LastWriter
<1> QED BY <1>6, <1>15

LEMMA EditorDiesStep ==
    ASSUME OfficialInv, Sound, NEW e \in Editors, EditorDies(e)
    PROVE  OfficialInv'
<1>1. /\ Spend(2) /\ failed' = TRUE /\ Over(e)
      /\ UNCHANGED <<source, lastSource, link, rows, draft, upstream, accepted, crossed>>
  BY DEF EditorDies, oStore
<1>2. OfficialShape
  BY OfficialFacts
<1>3. spent' \in 0 .. Budget
  BY <1>1, <1>2, Spending
<1>4. /\ ePc'[e] = "idle" /\ DOMAIN ePc' = Editors /\ eJob'[e] = NoWork /\ DOMAIN eJob' = Editors
      /\ \A f \in Editors \ {e} : ePc'[f] = ePc[f] /\ eJob'[f] = eJob[f]
  BY <1>1, <1>2, Ended
<1>5. OfficialShape'
  BY <1>1, <1>2, <1>3, <1>4 DEF OfficialShape
<1>6. LockIsHeld'
  BY <1>1 DEF LockIsHeld
<1>7. WorkOf(e)' /\ PlanOf(e)'
  BY <1>4, IdleFits
<1>8. LockFits'
  <2>1. ePc'[e] \notin Holding /\ ePc'[e] \notin Section
    BY <1>4 DEF Holding, Section
  <2> QED BY <1>1, <1>4, <2>1, LockFacts DEF LockFits
<1>9. StillSo'
  <2> SUFFICES ASSUME NEW f \in Editors PROVE StillOf(f)'
    BY DEF StillSo
  <2>1. CASE f = e
    BY <1>4, <2>1 DEF StillOf
  <2>2. CASE f # e
    <3>1. StillOf(f) /\ ePc'[f] = ePc[f] /\ eJob'[f] = eJob[f]
      BY <1>4, <2>2, LockFacts
    <3> QED BY <1>1, <3>1 DEF StillOf, Linked
  <2> QED BY <2>1, <2>2
<1>10. LinksAreWhole'
  BY <1>1 DEF Sound, LinksAreWhole, Linked
<1> QED BY <1>1, <1>4, <1>5, <1>6, <1>7, <1>8, <1>9, <1>10, Settled

-----------------------------------------------------------------------------

LEMMA OfficialInit ==
    ASSUME OfficialRests
    PROVE  OfficialInv
<1> USE DEF OfficialRests
<1>1. OfficialShape
  <2>1. 1 \in Commits
    BY OfficialAssumption DEF Commits
  <2>2. IsLink(NoLink) /\ DOMAIN Unlinked = Components /\ \A c \in Components : Unlinked[c] = NoLink
    BY DEF IsLink, NoLink, Unlinked
  <2>3. IsDraft(NoDraft) /\ NoDraft.selected = {} /\ NoDraft.explicit = {} /\ NoDraft.owner \in Owners
    BY DEF IsDraft, NoDraft, Owners
  <2>4. NoSource \in [id : {0, 0}, state : {"idle", "applying", "failed"}, commit : 0 .. 1, owner : Owners]
    BY DEF NoSource, Owners
  <2>5. 0 \in 0 .. MaxSources /\ 0 \in 0 .. Budget
    BY OfficialAssumption
  <2> QED BY <2>1, <2>2, <2>3, <2>4, <2>5 DEF OfficialShape
<1>2. LockIsHeld
  BY DEF LockIsHeld, NoSource
<1>3. DraftsFit
  BY DEF DraftsFit, NoDraft
<1>4. RequestsFit
  <2>1. \A e \in Editors : ePc[e] = "idle" /\ eJob[e] = NoWork
    OBVIOUS
  <2> QED BY <2>1, NoWorkIsWork DEF RequestsFit, WorkOf, PlanOf, Planned
<1>5. LockFits /\ StillSo
  BY DEF LockFits, StillSo, StillOf, Holding, Section
<1>6. LinksAreWhole
  <2>1. Linked = {}
    BY DEF Linked, Unlinked
  <2> QED BY <2>1 DEF LinksAreWhole
<1> QED BY <1>1, <1>2, <1>3, <1>4, <1>5, <1>6 DEF OfficialInv

LEMMA OfficialStep ==
    ASSUME OfficialInv, OfficialNext
    PROVE  OfficialInv'
<1>1. Sound
  BY DEF OfficialInv, OfficialNext, Sound
<1>2. CASE UpstreamMoves
  BY <1>1, <1>2, UpstreamMovesStep
<1>3. CASE \E d \in Drafts : DraftExpires(d) \/ \E c \in Components : AcceptsTool(d, c)
  BY <1>1, <1>3, DraftExpiresStep, AcceptsToolStep
<1>4. ASSUME NEW e \in Editors,
             \/ InspectReads(e) \/ CreatesDraft(e) \/ ImportRegisters(e) \/ Attaches(e)
             \/ PatchReads(e) \/ PatchReplaces(e)
      PROVE  OfficialInv'
  BY <1>1, <1>4, InspectReadsStep, CreatesDraftStep, ImportRegistersStep, AttachesStep, PatchReadsStep,
     PatchReplacesStep
<1>5. ASSUME NEW e \in Editors, NEW d \in Drafts,
             ApplyReads(e, d) \/ \E c \in Components, on \in BOOLEAN : PatchWrites(e, d, c, on)
      PROVE  OfficialInv'
  BY <1>1, <1>5, ApplyReadsStep, PatchWritesStep
<1>6. ASSUME NEW e \in Editors,
             \/ FindsSource(e) \/ Registers(e) \/ Locks(e) \/ Materializes(e) \/ Marks(e)
             \/ MarksApplied(e) \/ ApplicationFails(e) \/ MarksFailed(e)
      PROVE  OfficialInv'
  BY <1>1, <1>6, FindsSourceStep, RegistersStep, LocksStep, MaterializesStep, MarksStep, MarksAppliedStep,
     ApplicationFailsStep, MarksFailedStep
<1>7. ASSUME NEW e \in Editors,
             DeleteLists(e) \/ DeletesSource(e) \/ TransferReads(e) \/ Transfers(e) \/ EditorDies(e)
      PROVE  OfficialInv'
  BY <1>1, <1>7, DeleteListsStep, DeletesSourceStep, TransferReadsStep, TransfersStep, EditorDiesStep
<1> QED BY <1>2, <1>3, <1>4, <1>5, <1>6, <1>7 DEF OfficialNext

LEMMA OfficialStutter ==
    ASSUME OfficialInv, UNCHANGED oVars
    PROVE  OfficialInv'
<1>1. UNCHANGED <<upstream, source, lastSource, draft, link, rows, ePc, eJob, spent, failed, accepted, crossed>>
  BY DEF oVars, oPast
<1>2. OfficialShape' /\ LockIsHeld'
  BY <1>1 DEF OfficialInv, OfficialShape, LockIsHeld
<1>3. ASSUME Sound
      PROVE  DraftsFit' /\ RequestsFit' /\ LockFits' /\ StillSo' /\ LinksAreWhole'
  <2>1. DraftsFit'
    BY <1>1, <1>3 DEF Sound, DraftsFit
  <2>2. \A e \in Editors : WorkOf(e)' /\ PlanOf(e)'
    BY <1>1, <1>3, OfficialFacts DEF WorkOf, PlanOf, Owners
  <2>3. LockFits'
    BY <1>1, <1>3 DEF Sound, LockFits
  <2>4. \A e \in Editors : StillOf(e)'
    BY <1>1, <1>3, LockFacts DEF StillOf, Linked
  <2>5. LinksAreWhole'
    BY <1>1, <1>3 DEF Sound, LinksAreWhole, Linked
  <2> QED BY <2>1, <2>2, <2>3, <2>4, <2>5 DEF RequestsFit, StillSo
<1> QED BY <1>1, <1>2, <1>3 DEF OfficialInv, Sound

\* What is kept of the source, its drafts and its requests, whatever fails or crosses.
THEOREM OfficialInvHolds == OfficialSpec => []OfficialInv
<1>1. OfficialRests => OfficialInv
  BY OfficialInit
<1>2. OfficialInv /\ [OfficialNext]_oVars => OfficialInv'
  BY OfficialStep, OfficialStutter
<1> QED BY <1>1, <1>2, PTL DEF OfficialSpec

\* The lock lets one application in at a time, and what a source has brought is one whole commit of
\* it: drafts that overlap leave it with one of them, for any tree of commits, any number of
\* administrators and any failures.
THEOREM SourceStaysOne == OfficialSpec => []SourceIsOne
<1>1. OfficialInv => SourceIsOne
  <2> SUFFICES ASSUME OfficialInv PROVE SourceIsOne
    OBVIOUS
  <2> DEFINE in == {e \in Editors : ePc[e] \in Section /\ eJob[e].src = source.id}
  <2>1. Cardinality(in) <= 1 \/ crossed
    <3> SUFFICES ASSUME ~crossed PROVE Cardinality(in) <= 1
      OBVIOUS
    <3>1. \A e, f \in in : e = f
      BY DEF OfficialInv, LockFits
    <3>2. CASE in = {}
      BY <3>2, FS_EmptySet
    <3>3. CASE in # {}
      <4>1. PICK e : in = {e}
        BY <3>1, <3>3
      <4>2. Cardinality({e}) = 1
        BY FS_Singleton
      <4> HIDE DEF in
      <4> QED BY <4>1, <4>2
    <3> QED BY <3>2, <3>3
  <2>2. source.state = "applying" /\ in = {} => failed
    BY DEF OfficialInv, LockIsHeld
  <2>3. OneApplication
    BY <2>1, <2>2 DEF OneApplication
  <2>4. SourceIsWhole
    BY DEF OfficialInv, LinksAreWhole, SourceIsWhole
  <2> QED BY <2>3, <2>4 DEF SourceIsOne
<1> QED BY <1>1, OfficialInvHolds, PTL

LEMMA CommitStaysOrGrows ==
    ASSUME OfficialInv, OfficialNext
    PROVE  source'.id = source.id => source'.commit >= source.commit
<1>1. Sound
  BY DEF OfficialInv, OfficialNext, Sound
<1>2. source.commit \in Nat /\ upstream \in Nat
  BY <1>1, OfficialFacts
<1>3. source' = source => source'.commit >= source.commit
  BY <1>2
<1>4. source'.commit = source.commit => source'.commit >= source.commit
  BY <1>2
<1>5. CASE UpstreamMoves \/ \E d \in Drafts : DraftExpires(d) \/ \E c \in Components : AcceptsTool(d, c)
  BY <1>3, <1>5 DEF UpstreamMoves, DraftExpires, AcceptsTool, oStore
<1>6. ASSUME NEW e \in Editors,
             \/ InspectReads(e) \/ CreatesDraft(e) \/ Attaches(e) \/ PatchReads(e) \/ PatchReplaces(e)
             \/ FindsSource(e) \/ MarksApplied(e) \/ ApplicationFails(e)
             \/ DeleteLists(e) \/ TransferReads(e) \/ EditorDies(e)
             \/ \E d \in Drafts :
                  ApplyReads(e, d) \/ \E c \in Components, on \in BOOLEAN : PatchWrites(e, d, c, on)
      PROVE  source' = source
  BY <1>6 DEF InspectReads, CreatesDraft, Attaches, PatchReads, PatchReplaces, FindsSource, MarksApplied,
     ApplicationFails, DeleteLists, TransferReads, EditorDies, ApplyReads, PatchWrites, oStore
<1>7. ASSUME NEW e \in Editors, ImportRegisters(e) \/ Registers(e)
      PROVE  source'.id = source.id => source' = source
  <2>1. PICK owner : SaveSource(owner)
    BY <1>7 DEF ImportRegisters, Registers
  <2>2. lastSource \in Nat
    <3>1. lastSource \in 0 .. MaxSources /\ MaxSources \in Nat
      BY <1>1, OfficialFacts, OfficialAssumption
    <3> QED BY <3>1
  <2>3. CASE source = NoSource
    <3>1. source' = [NoSource EXCEPT !.id = lastSource + 1, !.owner = owner] /\ source.id = 0
      BY <2>1, <2>3 DEF SaveSource, NoSource
    <3>2. source'.id = lastSource + 1
      BY <3>1 DEF NoSource
    <3> QED BY <2>2, <3>1, <3>2
  <2>4. CASE source # NoSource
    BY <2>1, <2>4 DEF SaveSource
  <2> QED BY <2>3, <2>4
<1>8. ASSUME NEW e \in Editors, Locks(e) \/ Materializes(e) \/ MarksFailed(e)
      PROVE  source'.commit = source.commit
  <2>1. source = [id |-> source.id, state |-> source.state, commit |-> source.commit, owner |-> source.owner]
    BY <1>1, OfficialFacts
  <2> QED BY <1>8, <2>1 DEF Locks, Materializes, MarksFailed
<1>9. ASSUME NEW e \in Editors, Marks(e)
      PROVE  source'.commit >= source.commit
  <2>1. OfficialInv' /\ source.commit <= source'.commit
    BY <1>1, <1>9, MarksStep
  <2>2. source'.commit \in Nat
    BY <2>1 DEF OfficialInv, OfficialShape, Commits
  <2> QED BY <1>2, <2>1, <2>2
<1>10. ASSUME NEW e \in Editors, DeletesSource(e)
       PROVE  source'.id # source.id
  BY <1>1, <1>10, DeletesSourceStep
<1>11. ASSUME NEW e \in Editors, Transfers(e)
       PROVE  source'.commit = source.commit
  BY <1>1, <1>11, TransfersStep
<1>12. CASE \E e \in Editors :
            \/ InspectReads(e) \/ CreatesDraft(e) \/ ImportRegisters(e) \/ Attaches(e)
            \/ PatchReads(e) \/ PatchReplaces(e)
            \/ \E d \in Drafts :
                 ApplyReads(e, d) \/ \E c \in Components, on \in BOOLEAN : PatchWrites(e, d, c, on)
            \/ FindsSource(e) \/ Registers(e) \/ Locks(e) \/ Materializes(e) \/ Marks(e)
            \/ MarksApplied(e) \/ ApplicationFails(e) \/ MarksFailed(e)
            \/ DeleteLists(e) \/ DeletesSource(e) \/ TransferReads(e) \/ Transfers(e) \/ EditorDies(e)
  BY <1>3, <1>4, <1>6, <1>7, <1>8, <1>9, <1>10, <1>11, <1>12
<1> QED BY <1>5, <1>12 DEF OfficialNext

\* A draft that has become stale is refused: whatever is reviewed, applied, failed or handed over
\* meanwhile, a source never goes back to a former commit.
THEOREM NeverGoesBack == OfficialSpec => NeverBack
<1>1. OfficialInv /\ [OfficialNext]_oVars
        => [source'.id = source.id /\ ~crossed' => source'.commit >= source.commit]_source
  BY CommitStaysOrGrows DEF oVars
<1> QED BY <1>1, OfficialInvHolds, PTL DEF OfficialSpec, NeverBack

LEMMA OfficialHasType == OfficialInv => OfficialTypeOK
<1> SUFFICES ASSUME OfficialInv PROVE OfficialTypeOK
  OBVIOUS
<1>1. 0 .. upstream \subseteq 0 .. Len(Tree)
  <2>1. upstream \in 1 .. Len(Tree) /\ Len(Tree) \in Nat
    BY OfficialAssumption DEF OfficialInv, OfficialShape, Commits
  <2> QED BY <2>1
<1>2. /\ upstream \in Commits /\ lastSource \in 0 .. MaxSources /\ spent \in 0 .. Budget /\ failed \in BOOLEAN
      /\ \A d \in Drafts : draft[d].selected \cup draft[d].explicit \subseteq draft[d].known
  BY DEF OfficialInv, OfficialShape
<1>3. /\ source.commit \in 0 .. upstream /\ source.state \in {"idle", "applying", "failed"}
      /\ source.owner \in Admins \cup {"none"} /\ source.id \in {0, lastSource}
  BY DEF OfficialInv, OfficialShape, Owners
<1> QED BY <1>1, <1>2, <1>3 DEF OfficialTypeOK

\* Commits, owners and counters stay in their ranges, and no draft selects what it does not list.
THEOREM OfficialTypeCorrect == OfficialSpec => []OfficialTypeOK
<1> QED BY OfficialHasType, OfficialInvHolds, PTL

-----------------------------------------------------------------------------
(* The selections of drafts.  _dependency_closure runs as many rounds as     *)
(* there are components: a round that is not the last one finds one more.    *)
(* A closed selection stays closed because a request at a PATCH writes what  *)
(* it has closed, of rows that do not change while the draft is pending.     *)

\* What the drafts select is closed under what they need.
Whole(draftOf, cs) == UNION {Wants(draftOf, c) : c \in cs} \subseteq cs
Growing(draftOf, cs) == cs \cup UNION {Wants(draftOf, c) : c \in cs}
\* The first n rounds of _dependency_closure.
RoundsTo(f, n, draftOf, cs) ==
    f = [k \in 0 .. n |-> IF k = 0 THEN cs ELSE Growing(draftOf, f[k - 1])]

\* The function of the rounds exists: there is no least number of rounds without one.
LEMMA RoundsExist ==
    ASSUME NEW n \in Nat, NEW x, NEW cs
    PROVE  \E f : RoundsTo(f, n, x, cs)
<1> DEFINE T == {m \in Nat : ~\E f : RoundsTo(f, m, x, cs)}
<1> SUFFICES ASSUME T # {} PROVE FALSE
  OBVIOUS
<1>1. PICK m \in T : \A y \in T : m <= y
  <2> HIDE DEF T
  <2>1. T \in SUBSET Nat
    BY DEF T
  <2> QED BY <2>1, LeastOf
<1>2. m # 0
  <2>1. RoundsTo([k \in 0 .. 0 |-> cs], 0, x, cs)
    BY DEF RoundsTo
  <2> QED BY <2>1
<1>3. m \in Nat /\ m - 1 \in Nat /\ m - 1 \notin T
  BY <1>1, <1>2
<1>4. PICK f : RoundsTo(f, m - 1, x, cs)
  BY <1>3
<1> DEFINE g == [k \in 0 .. m |-> IF k = m THEN Growing(x, f[m - 1]) ELSE f[k]]
<1>5. \A k \in 0 .. m - 1 : f[k] = IF k = 0 THEN cs ELSE Growing(x, f[k - 1])
  BY <1>4 DEF RoundsTo
<1>6. \A k \in 0 .. m : g[k] = IF k = 0 THEN cs ELSE Growing(x, g[k - 1])
  BY <1>2, <1>3, <1>5
<1>7. g = [k \in 0 .. m |-> g[k]]
  OBVIOUS
<1>8. RoundsTo(g, m, x, cs)
  <2> HIDE DEF g
  <2> QED BY <1>6, <1>7 DEF RoundsTo
<1> QED BY <1>1, <1>8

\* Each round that is not the last one finds a component more.
LEMMA RoundsGrow ==
    ASSUME IsFiniteSet(Components), NEW N \in Nat, NEW x, NEW cs, NEW f, RoundsTo(f, N, x, cs), NEW n \in 0 .. N
    PROVE  Whole(x, f[n]) \/ Cardinality(f[n] \cap Components) >= n
<1> DEFINE T == {m \in 0 .. N : ~(Whole(x, f[m]) \/ Cardinality(f[m] \cap Components) >= m)}
           size(k) == Cardinality(f[k] \cap Components)
<1> SUFFICES ASSUME T # {} PROVE FALSE
  OBVIOUS
<1>1. PICK m \in T : \A y \in T : m <= y
  <2> HIDE DEF T
  <2>1. T \in SUBSET Nat
    BY DEF T
  <2> QED BY <2>1, LeastOf
<1>2. \A k : IsFiniteSet(f[k] \cap Components) /\ size(k) \in Nat
  BY FS_Intersection, FS_CardinalityType
<1>7. m \in 0 .. N /\ ~(size(m) >= m)
  OBVIOUS
<1>3. m # 0
  <2>1. size(m) \in Nat
    BY <1>2
  <2> HIDE DEF size, T
  <2> QED BY <2>1, <1>7
<1>4. m - 1 \in 0 .. N /\ m - 1 \notin T /\ f[m] = Growing(x, f[m - 1])
  <2>1. m - 1 \in 0 .. N /\ m - 1 \notin T
    BY <1>1, <1>3, <1>7
  <2>2. f[m] = Growing(x, f[m - 1])
    BY <1>3, <1>7 DEF RoundsTo
  <2> QED BY <2>1, <2>2
<1>5. CASE Whole(x, f[m - 1])
  <2>1. f[m] = f[m - 1]
    BY <1>4, <1>5 DEF Whole, Growing
  <2> QED BY <1>1, <1>5, <2>1
<1>6. CASE ~Whole(x, f[m - 1])
  <2>1. PICK c \in f[m - 1] : \E y \in Wants(x, c) : y \notin f[m - 1]
    BY <1>6 DEF Whole
  <2>8. PICK y \in Wants(x, c) : y \notin f[m - 1]
    BY <2>1
  <2>2. y \in Components
    <3>1. c \in Components
      BY <2>8 DEF Wants, Present
    <3> QED BY <2>8, <3>1, OfficialAssumption DEF Wants
  <2>3. f[m - 1] \cap Components \subseteq (f[m] \cap Components) \ {y} /\ y \in f[m] \cap Components
    BY <1>4, <2>8, <2>2 DEF Growing
  <2>4. size(m - 1) <= Cardinality((f[m] \cap Components) \ {y})
    BY <1>2, <2>3, FS_Subset, FS_RemoveElement
  <2>5. Cardinality((f[m] \cap Components) \ {y}) = size(m) - 1
    BY <1>2, <2>3, FS_RemoveElement
  <2>6. size(m - 1) >= m - 1
    BY <1>4, <1>6
  <2>7. size(m) >= m
    <3> HIDE DEF size
    <3> QED BY <1>2, <1>4, <2>4, <2>5, <2>6, <1>1
  <2> QED BY <1>1, <2>7
<1> QED BY <1>5, <1>6

\* The closure of a selection is closed.
LEMMA ClosedIsWhole ==
    ASSUME NEW x, NEW cs
    PROVE  Whole(x, Closed(cs, x))
<1> DEFINE N == Cardinality(Components)
           R(f) == f = [n \in Rounds |-> IF n = 0 THEN cs ELSE f[n - 1] \cup UNION {Wants(x, c) : c \in f[n - 1]}]
           grown == CHOOSE f : R(f)
<1>1. IsFiniteSet(Components) /\ N \in Nat
  BY OfficialAssumption, FS_CardinalityType
<1>2. \A f : R(f) <=> RoundsTo(f, N, x, cs)
  BY DEF RoundsTo, Rounds, Growing
<1>3. RoundsTo(grown, N, x, cs)
  <2>1. \E f : R(f)
    BY <1>1, <1>2, RoundsExist
  <2> QED BY <1>2, <2>1
<1>4. Closed(cs, x) = grown[N]
  BY DEF Closed
<1> HIDE DEF grown, R
<1>5. Whole(x, grown[N]) \/ Cardinality(grown[N] \cap Components) >= N
  BY <1>1, <1>3, RoundsGrow
<1>6. CASE Cardinality(grown[N] \cap Components) >= N
  <2>1. IsFiniteSet(grown[N] \cap Components) /\ Cardinality(grown[N] \cap Components) <= N
    BY <1>1, FS_Subset, FS_Intersection
  <2>2. grown[N] \cap Components = Components
    BY <1>1, <1>6, <2>1, FS_Subset, FS_CardinalityType
  <2>3. \A c : Wants(x, c) \subseteq Components
    BY OfficialAssumption DEF Wants, Present
  <2> QED BY <1>4, <2>2, <2>3 DEF Whole
<1> QED BY <1>4, <1>5, <1>6

Patching == {"patched", "replace"}

\* A selection is closed, or a request is at work that will close it: it writes a closed one.
SelectionsFit ==
    /\ \A d \in Drafts \ torn :
         draft[d].status = "pending" /\ ~HasErrors(draft[d].commit)
            => \/ Whole(draft[d], draft[d].selected)
               \/ \E e \in Editors : ePc[e] \in Patching /\ eJob[e].d = d
    /\ \A e \in Editors :
         /\ ePc[e] \in Patching => eJob[e].d \in Drafts
         /\ ePc[e] = "replace" => Whole(draft[eJob[e].d], eJob[e].chosen)

\* What is needed of a draft keeps it as it is, or it has gone.
DraftsKept ==
    \A d \in Drafts :
        \/ /\ draft'[d].status = draft[d].status /\ draft'[d].commit = draft[d].commit
           /\ draft'[d].known = draft[d].known /\ draft'[d].selected = draft[d].selected
        \/ draft'[d] = [NoDraft EXCEPT !.status = "gone"]

LEMMA NothingWanted ==
    ASSUME NEW x, x.commit = 0, NEW cs
    PROVE  Whole(x, cs)
BY DEF Whole, Wants, Present

LEMMA SameWhole ==
    ASSUME NEW x, NEW y, x.commit = y.commit, x.known = y.known, NEW cs
    PROVE  Whole(x, cs) <=> Whole(y, cs)
BY DEF Whole, Wants

\* A step that touches no PATCH, or cuts it short.
LEMMA SelectionsKept ==
    ASSUME SelectionsFit, DraftsKept, torn \subseteq torn',
           \A f \in Editors :
              /\ ePc'[f] \in Patching => ePc'[f] = ePc[f] /\ eJob'[f] = eJob[f]
              /\ ePc[f] \in Patching => (ePc'[f] = ePc[f] /\ eJob'[f] = eJob[f]) \/ eJob[f].d \in torn'
    PROVE  SelectionsFit'
<1>1. ASSUME NEW d \in Drafts, NEW cs, Whole(draft[d], cs) PROVE Whole(draft'[d], cs)
  <2>1. CASE draft'[d] = [NoDraft EXCEPT !.status = "gone"]
    <3>1. draft'[d].commit = 0
      BY <2>1 DEF NoDraft
    <3> QED BY <3>1, NothingWanted
  <2>2. CASE draft'[d].commit = draft[d].commit /\ draft'[d].known = draft[d].known
    BY <1>1, <2>2, SameWhole
  <2> QED BY <2>1, <2>2 DEF DraftsKept
<1>2. ASSUME NEW d \in Drafts, d \notin torn', draft'[d].status = "pending", ~HasErrors(draft'[d].commit)
      PROVE  \/ Whole(draft'[d], draft'[d].selected)
             \/ \E e \in Editors : ePc'[e] \in Patching /\ eJob'[e].d = d
  <2>1. draft'[d] # [NoDraft EXCEPT !.status = "gone"]
    BY <1>2 DEF NoDraft
  <2>2. /\ draft'[d].status = draft[d].status /\ draft'[d].commit = draft[d].commit
        /\ draft'[d].selected = draft[d].selected
    BY <2>1 DEF DraftsKept
  <2>3. \/ Whole(draft[d], draft[d].selected)
        \/ \E e \in Editors : ePc[e] \in Patching /\ eJob[e].d = d
    BY <1>2, <2>2 DEF SelectionsFit
  <2> QED BY <1>1, <1>2, <2>2, <2>3
<1>3. ASSUME NEW e \in Editors
      PROVE  /\ ePc'[e] \in Patching => eJob'[e].d \in Drafts
             /\ ePc'[e] = "replace" => Whole(draft'[eJob'[e].d], eJob'[e].chosen)
  <2>1. "replace" \in Patching
    BY DEF Patching
  <2> QED BY <1>1, <2>1 DEF SelectionsFit
<1>4. Patching' = Patching
  BY DEF Patching
<1> QED
  <2>1. \A d \in Drafts \ torn' : draft'[d].status = "pending" /\ ~HasErrors(draft'[d].commit)
            => \/ Whole(draft'[d], draft'[d].selected)
               \/ \E e \in Editors : ePc'[e] \in Patching /\ eJob'[e].d = d
    BY <1>2
  <2> QED BY <1>3, <2>1 DEF SelectionsFit

\* A request that is not at a PATCH, before or after.
LEMMA SelectionsBeside ==
    ASSUME SelectionsFit, DraftsKept, torn' = torn, NEW e,
           \A f \in Editors \ {e} : ePc'[f] = ePc[f] /\ eJob'[f] = eJob[f],
           e \in Editors => ePc[e] \notin Patching /\ ePc'[e] \notin Patching
    PROVE  SelectionsFit'
BY SelectionsKept

LEMMA SameDrafts == ASSUME UNCHANGED draft PROVE DraftsKept
BY DEF DraftsKept

LEMMA UpstreamMovesSelections ==
    ASSUME SelectionsFit, UpstreamMoves
    PROVE  SelectionsFit'
<1>1. UNCHANGED <<draft, ePc, eJob, torn>>
  BY DEF UpstreamMoves, oPast
<1> QED BY <1>1, SameDrafts, SelectionsKept

LEMMA DraftExpiresSelections ==
    ASSUME OfficialShape, SelectionsFit, NEW d \in Drafts, DraftExpires(d)
    PROVE  SelectionsFit'
<1>1. UNCHANGED <<ePc, eJob, torn>> /\ draft' = [draft EXCEPT ![d] = [NoDraft EXCEPT !.status = "gone"]]
  BY DEF DraftExpires, oPast
<1>2. DraftsKept
  BY <1>1 DEF DraftsKept, OfficialShape
<1> QED BY <1>1, <1>2, SelectionsKept

LEMMA AcceptsToolSelections ==
    ASSUME OfficialShape, SelectionsFit, NEW d \in Drafts, NEW c, AcceptsTool(d, c)
    PROVE  SelectionsFit'
<1>1. UNCHANGED <<ePc, eJob, torn>> /\ draft' = [draft EXCEPT ![d].accepted = @ \cup {c}]
  BY DEF AcceptsTool
<1>2. DraftsKept
  BY <1>1 DEF DraftsKept, OfficialShape, IsDraft
<1> QED BY <1>1, <1>2, SelectionsKept

\* A request goes from a place to another, neither of them of a PATCH.
LEMMA RequestSelections ==
    ASSUME OfficialShape, SelectionsFit, DraftsKept, torn' = torn, NEW e \in Editors, NEW from, NEW to, NEW j,
           At(e, from, to), Keeps(e, j), from \notin Patching, to \notin Patching
    PROVE  SelectionsFit'
BY GoesOn, HasJob, SelectionsBeside

LEMMA PlaceSelections ==
    ASSUME OfficialShape, SelectionsFit, DraftsKept, torn' = torn, NEW e \in Editors, NEW from, NEW to,
           At(e, from, to), UNCHANGED eJob, from \notin Patching, to \notin Patching
    PROVE  SelectionsFit'
BY GoesOn, SelectionsBeside

LEMMA EndSelections ==
    ASSUME OfficialShape, SelectionsFit, DraftsKept, torn' = torn, NEW e \in Editors,
           Over(e), ePc[e] \notin Patching
    PROVE  SelectionsFit'
BY Ended, SelectionsBeside DEF Patching

\* The requests that leave every draft as it is, or gone.
LEMMA ReadersSelections ==
    ASSUME OfficialShape, SelectionsFit, NEW e \in Editors,
           \/ InspectReads(e) \/ ImportRegisters(e) \/ Registers(e) \/ FindsSource(e) \/ TransferReads(e)
           \/ \E d \in Drafts : ApplyReads(e, d)
    PROVE  SelectionsFit'
<1> USE DEF Patching
<1>1. UNCHANGED <<draft, torn>>
  BY DEF InspectReads, ImportRegisters, Registers, FindsSource, TransferReads, ApplyReads, oPast
<1>2. DraftsKept
  BY <1>1, SameDrafts
<1>3. CASE InspectReads(e)
  <2>1. At(e, "idle", "inspected") /\ \E j : Keeps(e, j)
    BY <1>3 DEF InspectReads
  <2> QED BY <1>1, <1>2, <2>1, RequestSelections
<1>4. CASE ImportRegisters(e)
  <2>1. At(e, "import", "attach") /\ \E j : Keeps(e, j)
    BY <1>4 DEF ImportRegisters
  <2> QED BY <1>1, <1>2, <2>1, RequestSelections
<1>5. CASE Registers(e)
  <2>1. At(e, "register", "lock") /\ \E j : Keeps(e, j)
    BY <1>5 DEF Registers
  <2> QED BY <1>1, <1>2, <2>1, RequestSelections
<1>6. CASE FindsSource(e)
  <2>1. \/ At(e, "source", "lock") /\ \E j : Keeps(e, j)
        \/ At(e, "source", "register") /\ UNCHANGED eJob
        \/ ePc[e] = "source" /\ Over(e)
    BY <1>6 DEF FindsSource
  <2> QED BY <1>1, <1>2, <2>1, RequestSelections, PlaceSelections, EndSelections
<1>7. CASE TransferReads(e)
  <2>1. At(e, "idle", "transfer") /\ \E j : Keeps(e, j)
    BY <1>7 DEF TransferReads
  <2> QED BY <1>1, <1>2, <2>1, RequestSelections
<1>8. ASSUME NEW d \in Drafts, ApplyReads(e, d) PROVE SelectionsFit'
  <2>1. At(e, "idle", "source") /\ \E j : Keeps(e, j)
    BY <1>8 DEF ApplyReads
  <2> QED BY <1>1, <1>2, <2>1, RequestSelections
<1> QED BY <1>3, <1>4, <1>5, <1>6, <1>7, <1>8

LEMMA WritersSelections ==
    ASSUME OfficialShape, SelectionsFit, NEW e \in Editors,
           \/ Attaches(e) \/ Locks(e) \/ Materializes(e) \/ Marks(e) \/ MarksApplied(e) \/ ApplicationFails(e)
           \/ MarksFailed(e) \/ DeleteLists(e) \/ DeletesSource(e) \/ Transfers(e)
    PROVE  SelectionsFit'
<1> USE DEF Patching
<1>1. CASE Attaches(e)
  <2>1. /\ ePc[e] = "attach" /\ Over(e) /\ torn' = torn
        /\ \/ draft' = draft
           \/ draft' = [draft EXCEPT ![eJob[e].d].src = eJob[e].src, ![eJob[e].d].base = eJob[e].base]
    BY <1>1 DEF Attaches
  <2>2. DraftsKept
    BY <2>1 DEF DraftsKept, OfficialShape, IsDraft
  <2> QED BY <2>1, <2>2, EndSelections
<1>2. CASE Locks(e)
  <2>1. /\ UNCHANGED <<draft, torn>>
        /\ \/ At(e, "lock", "commit") /\ \E j : Keeps(e, j)
           \/ ePc[e] = "lock" /\ Over(e)
    BY <1>2 DEF Locks, oPast
  <2> QED BY <2>1, SameDrafts, RequestSelections, EndSelections
<1>3. CASE Materializes(e)
  <2>1. At(e, "commit", "mark") /\ UNCHANGED <<draft, eJob, torn>>
    BY <1>3 DEF Materializes
  <2> QED BY <2>1, SameDrafts, PlaceSelections
<1>4. CASE Marks(e)
  <2>1. At(e, "mark", "saved") /\ UNCHANGED <<draft, eJob, torn>>
    BY <1>4 DEF Marks, oPast
  <2> QED BY <2>1, SameDrafts, PlaceSelections
<1>5. CASE MarksApplied(e)
  <2>1. /\ ePc[e] = "saved" /\ Over(e) /\ torn' = torn
        /\ draft' = [draft EXCEPT ![eJob[e].d] = [NoDraft EXCEPT !.status = "gone"]]
    BY <1>5 DEF MarksApplied, oPast
  <2>2. DraftsKept
    BY <2>1 DEF DraftsKept, OfficialShape
  <2> QED BY <2>1, <2>2, EndSelections
<1>6. CASE ApplicationFails(e)
  <2>1. /\ ePc[e] \in {"commit", "mark", "saved"} /\ UNCHANGED <<draft, eJob, torn>>
        /\ ePc' = [ePc EXCEPT ![e] = IF @ = "saved" THEN "failed late" ELSE "failed"]
    BY <1>6 DEF ApplicationFails, oPast
  <2>2. ePc'[e] \in {"failed", "failed late"} /\ \A f \in Editors \ {e} : ePc'[f] = ePc[f]
    BY <2>1 DEF OfficialShape
  <2> QED BY <2>1, <2>2, SameDrafts, SelectionsBeside
<1>7. CASE MarksFailed(e)
  <2>1. ePc[e] \in {"failed", "failed late"} /\ Over(e) /\ UNCHANGED <<draft, torn>>
    BY <1>7 DEF MarksFailed
  <2> QED BY <2>1, SameDrafts, EndSelections
<1>8. CASE DeleteLists(e)
  <2>1. /\ ePc[e] \in {"failed", "failed late", "idle"} /\ UNCHANGED <<draft, torn>>
        /\ ePc' = [ePc EXCEPT ![e] = "delete"] /\ \E j : Keeps(e, j)
    BY <1>8 DEF DeleteLists, oPast
  <2>2. ePc'[e] = "delete" /\ \A f \in Editors \ {e} : ePc'[f] = ePc[f] /\ eJob'[f] = eJob[f]
    BY <2>1, HasJob DEF OfficialShape
  <2> QED BY <2>1, <2>2, SameDrafts, SelectionsBeside
<1>9. CASE DeletesSource(e)
  <2>1. /\ ePc[e] = "delete" /\ Over(e) /\ torn' = torn
        /\ \/ draft' = draft
           \/ draft' = [d \in Drafts |-> IF draft[d].src = eJob[e].src
                                         THEN [NoDraft EXCEPT !.status = "gone"] ELSE draft[d]]
    BY <1>9 DEF DeletesSource
  <2>2. DraftsKept
    BY <2>1 DEF DraftsKept
  <2> QED BY <2>1, <2>2, EndSelections
<1>10. CASE Transfers(e)
  <2>1. ePc[e] = "transfer" /\ Over(e) /\ UNCHANGED <<draft, torn>>
    BY <1>10 DEF Transfers
  <2> QED BY <2>1, SameDrafts, EndSelections
<1> QED BY <1>1, <1>2, <1>3, <1>4, <1>5, <1>6, <1>7, <1>8, <1>9, <1>10

LEMMA EditorDiesSelections ==
    ASSUME OfficialShape, SelectionsFit, NEW e \in Editors, EditorDies(e)
    PROVE  SelectionsFit'
<1>1. /\ Over(e) /\ UNCHANGED draft
      /\ torn' = IF ePc[e] \in {"patched", "replace"} THEN torn \cup {eJob[e].d} ELSE torn
  BY DEF EditorDies
<1>2. /\ ePc'[e] = "idle" /\ \A f \in Editors \ {e} : ePc'[f] = ePc[f] /\ eJob'[f] = eJob[f]
  BY <1>1, Ended
<1> QED BY <1>1, <1>2, SameDrafts, SelectionsKept DEF Patching

\* A selection cut to the rows is still closed.
LEMMA SelectingIsWhole ==
    ASSUME NEW x, IsDraft(x), NEW cs, NEW explicit, Whole(x, cs)
    PROVE  LET y == Selecting(x, cs, explicit) IN
           /\ Whole(y, y.selected) /\ y.status = x.status /\ y.commit = x.commit /\ y.known = x.known
<1> DEFINE y == Selecting(x, cs, explicit)
<1>1. y.selected = cs \cap x.known /\ y.status = x.status /\ y.commit = x.commit /\ y.known = x.known
  BY DEF Selecting, IsDraft
<1> HIDE DEF y
<1>2. \A c : Wants(y, c) = Wants(x, c) /\ Wants(x, c) \subseteq x.known
  BY <1>1 DEF Wants
<1>3. Whole(y, y.selected)
  BY <1>1, <1>2 DEF Whole
<1> QED BY <1>1, <1>3 DEF y

\* An inspection that finds no error starts with whole links, as the source is whole.
LEMMA DetectedIsWhole ==
    ASSUME LinksAreWhole, NEW j, ~HasErrors(Detected(j).commit)
    PROVE  Whole(Detected(j), Detected(j).selected)
<1> DEFINE x == Detected(j)
           linked == IF j.src = 0 THEN {} ELSE Linked
<1>1. x.commit = j.commit /\ x.selected = linked \cap Present(j.commit)
  BY DEF Detected
<1> HIDE DEF x
<1>2. ASSUME NEW c \in x.selected PROVE Wants(x, c) \subseteq x.selected
  <2>1. c \in Present(j.commit) /\ c \in Linked /\ linked = Linked
    BY <1>1, <1>2
  <2>2. Needs[c] \subseteq Linked
    BY <2>1 DEF LinksAreWhole
  <2>3. Needs[c] \subseteq Present(j.commit)
    BY <1>1, <2>1 DEF HasErrors, x
  <2> QED BY <1>1, <2>1, <2>2, <2>3 DEF Wants
<1> QED BY <1>2 DEF Whole, x

LEMMA CreatesDraftSelections ==
    ASSUME OfficialInv, Sound, SelectionsFit, NEW e \in Editors, CreatesDraft(e)
    PROVE  SelectionsFit'
<1> DEFINE j == eJob[e]
           new == Detected(j)
           picked(ids) == Selecting(new, Closed(ids, new), ids)
<1>1. PICK slot \in Free, ids \in SUBSET Components :
        \/ Over(e) /\ draft' = [draft EXCEPT ![slot] = new]
        \/ /\ eJob[e].fresh /\ At(e, "inspected", "import") /\ Keeps(e, [eJob[e] EXCEPT !.d = slot])
           /\ draft' = [draft EXCEPT ![slot] = new]
        \/ /\ eJob[e].src # 0 /\ ids \subseteq new.known /\ draft' = [draft EXCEPT ![slot] = picked(ids)]
           /\ IF Applicable(picked(ids))
              THEN At(e, "inspected", "source") /\ Keeps(e, ToApply(slot, picked(ids))) ELSE Over(e)
  BY DEF CreatesDraft
<1>2. ePc[e] = "inspected" /\ torn' = torn /\ OfficialShape
  BY DEF CreatesDraft, oPast, OfficialInv
<1>3. slot \in Drafts /\ \A f \in Editors : eJob[f].d # slot
  BY <1>1 DEF Free
<1>4. IsDraft(new)
  <2>1. WorkOf(e)
    BY DEF Sound, RequestsFit
  <2> QED BY <2>1, DetectedIsDraft DEF WorkOf
<1>5. /\ ePc'[e] \notin Patching
      /\ \A f \in Editors \ {e} : ePc'[f] = ePc[f] /\ eJob'[f] = eJob[f]
  BY <1>1, <1>2, GoesOn, HasJob, Ended DEF Patching
<1>6. Whole(picked(ids), picked(ids).selected)
  <2>1. Whole(new, Closed(ids, new))
    BY ClosedIsWhole
  <2> HIDE DEF new
  <2> QED BY <1>4, <2>1, SelectingIsWhole
<1>7. ~HasErrors(new.commit) => Whole(new, new.selected)
  BY DetectedIsWhole DEF Sound
<1>8. /\ DOMAIN draft = Drafts
      /\ \/ draft' = [draft EXCEPT ![slot] = new]
         \/ draft' = [draft EXCEPT ![slot] = picked(ids)]
  BY <1>1, <1>2 DEF OfficialShape
<1> HIDE DEF new, picked
<1>9. /\ \A d \in Drafts \ {slot} : draft'[d] = draft[d]
      /\ ~HasErrors(draft'[slot].commit) => Whole(draft'[slot], draft'[slot].selected)
  BY <1>3, <1>6, <1>7, <1>8
<1>10. ASSUME NEW f \in Editors, ePc'[f] \in Patching
       PROVE  /\ eJob'[f].d \in Drafts
              /\ ePc'[f] = "replace" => Whole(draft'[eJob'[f].d], eJob'[f].chosen)
  <2>1. f # e /\ ePc'[f] = ePc[f] /\ eJob'[f] = eJob[f]
    BY <1>5, <1>10
  <2>2. eJob[f].d \in Drafts \ {slot}
    BY <1>3, <1>10, <2>1 DEF SelectionsFit
  <2> QED BY <1>9, <2>1, <2>2 DEF SelectionsFit
<1>11. ASSUME NEW d \in Drafts \ torn, d # slot, draft'[d].status = "pending", ~HasErrors(draft'[d].commit)
       PROVE  \/ Whole(draft'[d], draft'[d].selected)
              \/ \E f \in Editors : ePc'[f] \in Patching /\ eJob'[f].d = d
  <2>1. \/ Whole(draft[d], draft[d].selected)
        \/ \E f \in Editors : ePc[f] \in Patching /\ eJob[f].d = d
    BY <1>9, <1>11 DEF SelectionsFit
  <2>2. \A f \in Editors : ePc[f] \in Patching => f # e
    BY <1>2 DEF Patching
  <2> QED BY <1>5, <1>9, <1>11, <2>1, <2>2
<1>12. "replace" \in Patching
  BY DEF Patching
<1> QED BY <1>2, <1>9, <1>10, <1>11, <1>12 DEF SelectionsFit

LEMMA PatchWritesSelections ==
    ASSUME OfficialShape, SelectionsFit, NEW e \in Editors, NEW d \in Drafts, NEW c, NEW on,
           PatchWrites(e, d, c, on)
    PROVE  SelectionsFit'
<1>1. /\ At(e, "idle", "patched") /\ Keeps(e, [NoWork EXCEPT !.d = d, !.c = c, !.on = on])
      /\ draft' = [draft EXCEPT ![d].selected = IF on THEN (@ \cup {c}) ELSE (@ \ {c})]
      /\ torn' = torn
  BY DEF PatchWrites, oPast
<1>2. /\ ePc[e] = "idle" /\ ePc'[e] = "patched" /\ eJob'[e].d = d
      /\ \A f \in Editors \ {e} : ePc'[f] = ePc[f] /\ eJob'[f] = eJob[f]
  <2> DEFINE job == [NoWork EXCEPT !.d = d, !.c = c, !.on = on]
  <2>1. job.d = d
    BY DEF NoWork
  <2> HIDE DEF job
  <2>2. At(e, "idle", "patched") /\ Keeps(e, job)
    BY <1>1 DEF job
  <2> QED BY <2>1, <2>2, GoesOn, HasJob
<1>3. /\ \A x \in Drafts \ {d} : draft'[x] = draft[x]
      /\ draft'[d].commit = draft[d].commit /\ draft'[d].known = draft[d].known
  BY <1>1 DEF OfficialShape, IsDraft
<1>4. ASSUME NEW f \in Editors, ePc'[f] \in Patching
      PROVE  /\ eJob'[f].d \in Drafts
             /\ ePc'[f] = "replace" => Whole(draft'[eJob'[f].d], eJob'[f].chosen)
  <2>1. CASE f = e
    BY <1>2, <2>1
  <2>2. CASE f # e
    <3>1. eJob[f].d \in Drafts /\ (ePc[f] = "replace" => Whole(draft[eJob[f].d], eJob[f].chosen))
      BY <1>2, <1>4, <2>2 DEF SelectionsFit
    <3> QED BY <1>2, <1>3, <2>2, <3>1, SameWhole
  <2> QED BY <2>1, <2>2
<1>5. ASSUME NEW x \in Drafts \ torn, x # d, draft'[x].status = "pending", ~HasErrors(draft'[x].commit)
      PROVE  \/ Whole(draft'[x], draft'[x].selected)
             \/ \E f \in Editors : ePc'[f] \in Patching /\ eJob'[f].d = x
  <2>1. \/ Whole(draft[x], draft[x].selected)
        \/ \E f \in Editors : ePc[f] \in Patching /\ eJob[f].d = x
    BY <1>3, <1>5 DEF SelectionsFit
  <2>2. \A f \in Editors : ePc[f] \in Patching => f # e
    BY <1>2 DEF Patching
  <2> QED BY <1>2, <1>3, <1>5, <2>1, <2>2
<1>6. "patched" \in Patching /\ "replace" \in Patching
  BY DEF Patching
<1> QED BY <1>1, <1>2, <1>4, <1>5, <1>6 DEF SelectionsFit

LEMMA PatchReadsSelections ==
    ASSUME OfficialShape, RequestsFit, SelectionsFit, NEW e \in Editors, PatchReads(e)
    PROVE  SelectionsFit'
<1> DEFINE j == eJob[e]
           cs == Explicit(j.d, j.c, j.on)
           job == [j EXCEPT !.explicit = cs, !.chosen = Closed(cs, draft[j.d])]
<1>1. At(e, "patched", "replace") /\ Keeps(e, job) /\ UNCHANGED <<draft, torn>>
  BY DEF PatchReads, oPast
<1>2. IsWork(j)
  BY DEF RequestsFit, WorkOf
<1>3. job.d = j.d /\ job.chosen = Closed(cs, draft[j.d])
  <2> HIDE DEF cs
  <2> QED BY <1>2 DEF IsWork
<1>4. Whole(draft[j.d], Closed(cs, draft[j.d]))
  BY ClosedIsWhole
<1> HIDE DEF job, cs
<1>5. /\ ePc[e] = "patched" /\ ePc'[e] = "replace" /\ eJob'[e] = job
      /\ \A f \in Editors \ {e} : ePc'[f] = ePc[f] /\ eJob'[f] = eJob[f]
  BY <1>1, GoesOn, HasJob
<1>6. j.d \in Drafts
  BY <1>5 DEF SelectionsFit, Patching
<1>7. ASSUME NEW d \in Drafts \ torn, draft[d].status = "pending", ~HasErrors(draft[d].commit)
      PROVE  \/ Whole(draft[d], draft[d].selected)
             \/ \E f \in Editors : ePc'[f] \in Patching /\ eJob'[f].d = d
  <2>1. \/ Whole(draft[d], draft[d].selected)
        \/ \E f \in Editors : ePc[f] \in Patching /\ eJob[f].d = d
    BY <1>7 DEF SelectionsFit
  <2> QED BY <1>3, <1>5, <2>1 DEF Patching
<1>8. ASSUME NEW f \in Editors, ePc'[f] \in Patching
      PROVE  /\ eJob'[f].d \in Drafts
             /\ ePc'[f] = "replace" => Whole(draft[eJob'[f].d], eJob'[f].chosen)
  BY <1>3, <1>4, <1>5, <1>6, <1>8 DEF SelectionsFit
<1>9. "patched" \in Patching /\ "replace" \in Patching
  BY DEF Patching
<1> QED BY <1>1, <1>7, <1>8, <1>9 DEF SelectionsFit

LEMMA PatchReplacesSelections ==
    ASSUME OfficialShape, SelectionsFit, NEW e \in Editors, PatchReplaces(e)
    PROVE  SelectionsFit'
<1> DEFINE j == eJob[e] y == Selecting(draft[j.d], j.chosen, j.explicit)
<1>1. ePc[e] = "replace" /\ Over(e) /\ draft' = [draft EXCEPT ![j.d] = y] /\ torn' = torn
  BY DEF PatchReplaces, oPast
<1>2. ePc'[e] = "idle" /\ \A f \in Editors \ {e} : ePc'[f] = ePc[f] /\ eJob'[f] = eJob[f]
  BY <1>1, Ended
<1>3. j.d \in Drafts /\ Whole(draft[j.d], j.chosen)
  BY <1>1 DEF SelectionsFit, Patching
<1>4. /\ Whole(y, y.selected) /\ y.status = draft[j.d].status
      /\ y.commit = draft[j.d].commit /\ y.known = draft[j.d].known
  BY <1>3, SelectingIsWhole DEF OfficialShape
<1> HIDE DEF y
<1>5. draft'[j.d] = y /\ \A d \in Drafts \ {j.d} : draft'[d] = draft[d]
  BY <1>1, <1>3 DEF OfficialShape
<1>6. ASSUME NEW f \in Editors, ePc'[f] \in Patching
      PROVE  /\ eJob'[f].d \in Drafts
             /\ ePc'[f] = "replace" => Whole(draft'[eJob'[f].d], eJob'[f].chosen)
  <2>1. f # e
    BY <1>2, <1>6 DEF Patching
  <2>2. eJob[f].d \in Drafts /\ (ePc[f] = "replace" => Whole(draft[eJob[f].d], eJob[f].chosen))
    BY <1>2, <1>6, <2>1 DEF SelectionsFit
  <2> QED BY <1>2, <1>4, <1>5, <2>1, <2>2, SameWhole
<1>7. ASSUME NEW d \in Drafts \ torn, d # j.d, draft'[d].status = "pending", ~HasErrors(draft'[d].commit)
      PROVE  \/ Whole(draft'[d], draft'[d].selected)
             \/ \E f \in Editors : ePc'[f] \in Patching /\ eJob'[f].d = d
  <2>1. \/ Whole(draft[d], draft[d].selected)
        \/ \E f \in Editors : ePc[f] \in Patching /\ eJob[f].d = d
    BY <1>5, <1>7 DEF SelectionsFit
  <2> QED BY <1>2, <1>5, <1>7, <2>1
<1>8. "replace" \in Patching
  BY DEF Patching
<1> QED BY <1>1, <1>4, <1>5, <1>6, <1>7, <1>8 DEF SelectionsFit

\* What a draft shows once its answers are sent is closed, for any components and dependencies,
\* whatever is marked and unmarked at once.
THEOREM SelectionsStayClosed == OfficialSpec => []SelectionIsClosed
<1>1. OfficialRests => SelectionsFit
  BY DEF OfficialRests, SelectionsFit, NoDraft, Patching
<1>2. OfficialInv /\ SelectionsFit /\ [OfficialNext]_oVars => SelectionsFit'
  <2> SUFFICES ASSUME OfficialInv, SelectionsFit, [OfficialNext]_oVars PROVE SelectionsFit'
    OBVIOUS
  <2>1. OfficialShape
    BY DEF OfficialInv
  <2>2. CASE UNCHANGED oVars
    <3>1. UNCHANGED <<draft, ePc, eJob, torn>>
      BY <2>2 DEF oVars, oPast
    <3> QED BY <3>1, SameDrafts, SelectionsKept
  <2>3. CASE OfficialNext
    <3>1. Sound
      BY <2>3 DEF OfficialNext, OfficialInv, Sound
    <3>2. RequestsFit
      BY <3>1 DEF Sound
    <3> QED BY <2>1, <2>3, <3>1, <3>2, UpstreamMovesSelections, DraftExpiresSelections,
               AcceptsToolSelections, ReadersSelections, WritersSelections, EditorDiesSelections,
               CreatesDraftSelections, PatchWritesSelections, PatchReadsSelections,
               PatchReplacesSelections DEF OfficialNext
  <2> QED BY <2>2, <2>3
<1>3. SelectionsFit => SelectionIsClosed
  BY DEF SelectionsFit, SelectionIsClosed, Whole
<1> QED BY <1>1, <1>2, <1>3, OfficialInvHolds, PTL DEF OfficialSpec

-----------------------------------------------------------------------------
(* Whatever the focus. *)

UploadsInv == PackInv /\ PackTyped /\ ImportsInv /\ OfficialInv /\ CursorPagesInv

\* One of the modules takes a step of its own and the others rest.
LEMMA UploadsStep ==
    UploadsInv /\ [RunsNext]_<<focus, vars, packVars, iVars, oVars, pVars>> => UploadsInv'
<1> SUFFICES ASSUME UploadsInv, [RunsNext]_<<focus, vars, packVars, iVars, oVars, pVars>>
             PROVE  UploadsInv'
  OBVIOUS
<1>1. [PackNext]_packVars /\ [ImportsNext]_iVars /\ [OfficialNext]_oVars /\ [CursorPagesNext]_pVars
  BY DEF RunsNext
<1>2. PackInv' /\ PackTyped'
  BY <1>1, PackStep, PackTypedStep DEF UploadsInv
<1>3. ImportsInv'
  BY <1>1, ImportsStep DEF UploadsInv
<1>4. OfficialInv'
  BY <1>1, OfficialStep, OfficialStutter DEF UploadsInv
<1>5. CursorPagesInv'
  BY <1>1, CursorPagesStep DEF UploadsInv
<1> QED BY <1>2, <1>3, <1>4, <1>5 DEF UploadsInv

\* The packs, uploads, sources and listings keep their types in one behaviour: the texts, rows and
\* answers of a pack (KnowledgePacks), an upload and its plan (AgentImports), a source and its drafts
\* (OfficialSources), a page and its cursor (CursorPages).
THEOREM UploadsTypeCorrect == RunsSpec => []UploadsTypeOK
<1>1. RunsInit => UploadsInv
  BY PackInitially, PackTypedInitially, ImportsInitially, OfficialInit, CursorPagesStarts
     DEF RunsInit, UploadsInv
<1>2. UploadsInv => UploadsTypeOK
  BY PackHasType, ImportsHaveType, OfficialHasType, CursorPagesHasType DEF UploadsInv, UploadsTypeOK
<1> QED BY <1>1, <1>2, UploadsStep, PTL DEF RunsSpec
====
