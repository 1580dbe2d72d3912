---- MODULE OfficialSources ----
(***************************************************************************)
(* Repositories whose contents an administrator brings into the hub:        *)
(* drafts that are reviewed component by component                          *)
(* (services/official_source_drafts.py), and their application under a      *)
(* compare-and-set of the source's row (services/official_source_sync.py).  *)
(* One repository; every statement of a handler that is a transaction of    *)
(* its own is a step.                                                       *)
(***************************************************************************)
EXTENDS Integers, FiniteSets, Sequences

CONSTANTS Editors,    \* requests of administrators
          Admins, Reviewers,  \* administrators, and those who review drafts
          Components,
          Needs,      \* dependencies of a component
          Tools,      \* components whose security_accepted is asked for
          Tree,       \* Tree[k][c]: content hash of c at the k-th commit; 0 if it is not there
          Drafts, MaxSources,
          Budget      \* bound: PATCHes, expiries, transfers, deletions, faults, registrations by import

ASSUME OfficialAssumption ==
    /\ Reviewers \subseteq Admins
    /\ IsFiniteSet(Components) /\ Needs \in [Components -> SUBSET Components] /\ Tools \subseteq Components
    /\ Tree \in Seq([Components -> Nat]) /\ Len(Tree) > 0
    /\ {MaxSources, Budget} \subseteq Nat

VARIABLES
    upstream,  \* commit of the tracked reference
    source,    \* row of official_sources; id 0: none
    lastSource,
    draft,     \* official_import_drafts with its components
    link,      \* resource_source_links by component_key
    rows,      \* resources marked with a source
    ePc, eJob, \* where a request is, and its local variables
    spent,     \* of Budget
    failed,    \* history: there was an error or a death
    torn,      \* history: drafts a PATCH of which was cut short
    accepted,  \* history: the hashes somebody accepted
    crossed    \* history: a row was written by one that the lock does not keep away

oStore == <<source, lastSource, link, rows>>
oCount == <<upstream, spent, failed>>
oPast == <<torn, accepted, crossed>>
oVars == <<upstream, source, lastSource, draft, link, rows, ePc, eJob, spent, failed, oPast>>

Commits == 1 .. Len(Tree)
NoSource == [id |-> 0, state |-> "idle", commit |-> 0, owner |-> "none"]
NoLink == [res |-> 0, owner |-> "none", hash |-> 0, explicit |-> FALSE]
Unlinked == [c \in Components |-> NoLink]
NoDraft == [status |-> "none", src |-> 0, base |-> 0, commit |-> 0, owner |-> "none",
            known |-> {}, selected |-> {}, explicit |-> {}, accepted |-> {}]
NoWork == [d |-> 0, src |-> 0, base |-> 0, commit |-> 0, owner |-> "none", fresh |-> FALSE,
           chosen |-> {}, explicit |-> {}, listed |-> Unlinked, c |-> "none", on |-> FALSE]

OfficialRests ==
    /\ upstream = 1 /\ source = NoSource /\ lastSource = 0
    /\ draft = [d \in Drafts |-> NoDraft]
    /\ link = Unlinked /\ rows = {}
    /\ ePc = [e \in Editors |-> "idle"] /\ eJob = [e \in Editors |-> NoWork]
    /\ spent = 0 /\ failed = FALSE /\ torn = {} /\ accepted = {} /\ crossed = FALSE

Spend(cost) == spent + cost <= Budget /\ spent' = spent + cost
At(e, from, to) == ePc[e] = from /\ ePc' = [ePc EXCEPT ![e] = to]
Keeps(e, job) == eJob' = [eJob EXCEPT ![e] = job]
Over(e) == ePc' = [ePc EXCEPT ![e] = "idle"] /\ Keeps(e, NoWork)

Present(k) == {c \in Components : k # 0 /\ Tree[k][c] # 0}
Linked == {c \in Components : link[c] # NoLink}
\* validate_components: a dependency that is not in the repository
HasErrors(k) == \E c \in Present(k) : ~(Needs[c] \subseteq Present(k))

\* The steps of an application that the lock is for.
Section == {"commit", "mark", "failed"}
Applying == {"source", "register", "lock", "saved", "failed late"} \cup Section
OthersIn(e, places) == \E f \in Editors \ {e} : ePc[f] \in places

-----------------------------------------------------------------------------
(* The review. *)

UpstreamMoves ==
    /\ upstream + 1 \in Commits /\ upstream' = upstream + 1
    /\ UNCHANGED <<oStore, draft, ePc, eJob, spent, failed, oPast>>

Free == {d \in Drafts : draft[d].status = "none" /\ \A e \in Editors : eJob[e].d # d}

\* inspect_source reads the row, and then the repository; inspect, the repository only.
InspectReads(e) ==
    /\ At(e, "idle", "inspected")
    /\ \E a \in Reviewers, s \in {0, source.id}, import \in BOOLEAN :
         /\ IF import THEN Spend(2) /\ s = 0 ELSE UNCHANGED spent
         /\ Keeps(e, [NoWork EXCEPT !.src = s, !.base = IF s = 0 THEN 0 ELSE source.commit,
                                    !.commit = upstream, !.owner = a, !.fresh = import])
    /\ UNCHANGED <<oStore, draft, upstream, failed, oPast>>

Rounds == 0 .. Cardinality(Components)
\* The dependencies of a row; none once the repository has lost the component.
Wants(draftOf, c) == IF c \in Present(draftOf.commit) THEN Needs[c] \cap draftOf.known ELSE {}
\* _dependency_closure
Closed(cs, draftOf) ==
    LET grown[n \in Rounds] ==
            IF n = 0 THEN cs ELSE grown[n - 1] \cup UNION {Wants(draftOf, c) : c \in grown[n - 1]}
    IN grown[Cardinality(Components)]

Selecting(draftOf, selected, explicit) ==
    [draftOf EXCEPT !.selected = selected \cap draftOf.known, !.explicit = explicit \cap draftOf.known]
\* What apply refuses besides a draft that is not pending or has errors.
Chosen(draftOf) == draftOf.selected \cap Present(draftOf.commit)
Applicable(draftOf) ==
    /\ draftOf.status = "pending" /\ ~HasErrors(draftOf.commit)
    /\ UNION {Needs[c] : c \in Chosen(draftOf)} \subseteq Chosen(draftOf)
    /\ Chosen(draftOf) \cap Tools \subseteq draftOf.accepted
ToApply(d, draftOf) ==
    [NoWork EXCEPT !.d = d, !.src = draftOf.src, !.base = draftOf.base, !.commit = draftOf.commit,
                   !.owner = draftOf.owner, !.chosen = Chosen(draftOf),
                   !.explicit = Chosen(draftOf) \cap draftOf.explicit]

\* ... and the links when the download is over.  Without a source nothing is selected; a
\* draft whose source has been deleted violates its foreign key.
Detected(j) ==
    LET known == IF j.src = 0 THEN {} ELSE Linked
        kept == known \cap Present(j.commit) IN
    [status |-> IF j.src \in {0, source.id} THEN "pending" ELSE "gone", src |-> j.src,
     base |-> j.base, commit |-> j.commit, owner |-> j.owner, known |-> known \cup Present(j.commit),
     selected |-> kept, explicit |-> {c \in kept : link[c].explicit}, accepted |-> {}]

\* The draft is answered, registered by the route import, or, by the route sync with its
\* component_ids, selected and applied in the same request.
CreatesDraft(e) ==
    /\ ePc[e] = "inspected"
    /\ \E slot \in Free, ids \in SUBSET Components :
         LET new == Detected(eJob[e])
             asked == Selecting(new, Closed(ids, new), ids) IN
         /\ \/ Over(e) /\ draft' = [draft EXCEPT ![slot] = new]
            \/ /\ eJob[e].fresh /\ At(e, "inspected", "import") /\ Keeps(e, [eJob[e] EXCEPT !.d = slot])
               /\ draft' = [draft EXCEPT ![slot] = new]
            \/ /\ eJob[e].src # 0 /\ ids \subseteq new.known /\ draft' = [draft EXCEPT ![slot] = asked]
               /\ IF Applicable(asked)
                  THEN At(e, "inspected", "source") /\ Keeps(e, ToApply(slot, asked)) ELSE Over(e)
    /\ UNCHANGED <<oStore, oCount, oPast>>

\* save_source: a row of the same URL is kept.
SaveSource(owner) ==
    IF source # NoSource THEN UNCHANGED <<source, lastSource>>
    ELSE /\ lastSource < MaxSources /\ lastSource' = lastSource + 1
         /\ source' = [NoSource EXCEPT !.id = lastSource + 1, !.owner = owner]

\* The route import registers the source with its draft, ...
ImportRegisters(e) ==
    /\ At(e, "import", "attach") /\ SaveSource(eJob[e].owner)
    /\ Keeps(e, [eJob[e] EXCEPT !.src = source'.id, !.base = source'.commit])
    /\ UNCHANGED <<link, rows, draft, oCount, oPast>>

\* ... and attaches the draft to it, which is older than the commit it is attached to if the
\* source was there.
Attaches(e) ==
    LET j == eJob[e] IN
    /\ ePc[e] = "attach" /\ Over(e)
    /\ draft' = IF draft[j.d].status # "pending" \/ j.src # source.id THEN draft
                ELSE [draft EXCEPT ![j.d].src = j.src, ![j.d].base = j.base]
    /\ crossed' = (crossed \/ j.base > j.commit)
    /\ UNCHANGED <<oStore, oCount, torn, accepted>>

\* Drafts of a day ago go with the next inspection.
DraftExpires(d) ==
    /\ Spend(2)
    /\ draft[d].status = "pending"
    /\ draft' = [draft EXCEPT ![d] = [NoDraft EXCEPT !.status = "gone"]]
    /\ UNCHANGED <<oStore, ePc, eJob, upstream, failed, oPast>>

AcceptsTool(d, c) ==
    /\ draft[d].status = "pending" /\ c \in (Tools \cap Present(draft[d].commit)) \ draft[d].accepted
    /\ draft' = [draft EXCEPT ![d].accepted = @ \cup {c}]
    /\ accepted' = accepted \cup {<<c, Tree[draft[d].commit][c]>>}
    /\ UNCHANGED <<oStore, oCount, ePc, eJob, torn, crossed>>

\* update_component: the row of the component, ...
PatchWrites(e, d, c, on) ==
    /\ Spend(1)
    /\ draft[d].status = "pending" /\ c \in draft[d].known
    /\ At(e, "idle", "patched") /\ Keeps(e, [NoWork EXCEPT !.d = d, !.c = c, !.on = on])
    /\ draft' = [draft EXCEPT ![d].selected = IF on THEN (@ \cup {c}) ELSE (@ \ {c})]
    /\ UNCHANGED <<oStore, upstream, failed, oPast>>

\* Those that need the deselected one go, and those that need them: among the explicit ones.
Cascade(draftOf, c) ==
    LET left[n \in Rounds] ==
            IF n = 0 THEN draftOf.explicit \ {c}
            ELSE {x \in left[n - 1] : Wants(draftOf, x) \cap ({c} \cup (draftOf.explicit \ left[n - 1])) = {}}
    IN left[Cardinality(Components)]

Explicit(d, c, on) ==
    IF on THEN draft[d].explicit \cup {c} ELSE Cascade(draft[d], c)

\* ... every row is read, ...
PatchReads(e) ==
    /\ At(e, "patched", "replace")
    /\ LET j == eJob[e] IN
       Keeps(e, [j EXCEPT !.explicit = Explicit(j.d, j.c, j.on),
                          !.chosen = Closed(Explicit(j.d, j.c, j.on), draft[j.d])])
    /\ UNCHANGED <<oStore, draft, oCount, oPast>>

(* A slip: only what the PATCH changes is written. *)
PatchReplacesChange(e) ==
    /\ ePc[e] = "replace" /\ Over(e)
    /\ LET j == eJob[e] IN
       draft' = [draft EXCEPT ![j.d] = Selecting(@, IF j.on THEN @.selected \cup j.chosen ELSE @.selected, j.explicit)]
    /\ UNCHANGED <<oStore, oCount, oPast>>

\* ... and replace_draft_selection writes the whole selection.  No row is left of a draft that
\* has gone.
PatchReplaces(e) ==
    /\ ePc[e] = "replace" /\ Over(e)
    /\ LET j == eJob[e] IN
       draft' = [draft EXCEPT ![j.d] = Selecting(@, j.chosen, j.explicit)]
    /\ UNCHANGED <<oStore, oCount, oPast>>

-----------------------------------------------------------------------------
(* The application. *)

ApplyReads(e, d) ==
    /\ Applicable(draft[d]) /\ At(e, "idle", "source") /\ Keeps(e, ToApply(d, draft[d]))
    /\ UNCHANGED <<oStore, draft, oCount, oPast>>

\* The source of the draft, or that there is none of the repository.
FindsSource(e) ==
    /\ ePc[e] = "source"
    /\ \/ /\ eJob[e].src # 0 /\ eJob[e].src = source.id
          /\ At(e, "source", "lock") /\ Keeps(e, [eJob[e] EXCEPT !.owner = source.owner])
       \/ /\ eJob[e].src = 0 /\ source = NoSource
          /\ At(e, "source", "register") /\ UNCHANGED eJob
       \/ /\ eJob[e].src # source.id /\ Over(e)
    /\ UNCHANGED <<oStore, draft, oCount, oPast>>

\* save_source: by its URL, the row of another registration is taken for this one.
Registers(e) ==
    /\ At(e, "register", "lock")
    /\ SaveSource(eJob[e].owner)
    /\ crossed' = (crossed \/ source # NoSource)
    /\ Keeps(e, [eJob[e] EXCEPT !.src = source'.id, !.fresh = TRUE])
    /\ UNCHANGED <<link, rows, draft, oCount, torn, accepted>>

(* A slip: the commit alone is compared. *)
MayLockTwice(j) == source.id = j.src /\ source.commit = j.base

(* A slip: the state alone is compared. *)
MayLockStale(j) == source.id = j.src /\ source.state # "applying"

\* The compare-and-set of acquire_sync_lock.
MayLock(j) == source.id = j.src /\ source.state # "applying" /\ source.commit = j.base

\* list_resources comes next; it is read again in the transaction, on another connection.
Locks(e) ==
    /\ ePc[e] = "lock"
    /\ IF MayLock(eJob[e])
       THEN /\ At(e, "lock", "commit") /\ source' = [source EXCEPT !.state = "applying"]
            /\ Keeps(e, [eJob[e] EXCEPT !.listed = link])
       ELSE Over(e) /\ UNCHANGED source
    /\ UNCHANGED <<lastSource, link, rows, draft, oCount, oPast>>

IsRow(r, c, l) == r.c = c /\ r.res = l.res /\ r.owner = l.owner
NewRes(c) == CHOOSE n \in 1 .. Cardinality(rows) + 1 :
    /\ \A r \in rows : r.c = c => r.res # n
    /\ \A m \in 1 .. n - 1 : \E r \in rows : r.c = c /\ r.res = m

\* What a chosen component is afterwards: its resource keeps its id, under the owner read before.
Saved(j, c) ==
    [res |-> IF j.listed[c] = NoLink THEN NewRes(c) ELSE j.listed[c].res, owner |-> j.owner,
     hash |-> Tree[j.commit][c], explicit |-> c \in j.explicit]
\* _remove_unselected
Unselected(j) == {c \in Components \ j.chosen : j.listed[c] # NoLink}

\* The transaction of materialize.  The link of a source that has gone violates its foreign key.
Materializes(e) ==
    LET j == eJob[e]
        unlinked(c) == c \in Unselected(j) /\ link[c].res = j.listed[c].res /\ link[c].owner = j.listed[c].owner
    IN
    /\ At(e, "commit", "mark") /\ (j.chosen # {} => source.id = j.src)
    /\ rows' = {r \in rows : /\ \A c \in Unselected(j) : ~IsRow(r, c, j.listed[c])
                             /\ \A c \in j.chosen : ~IsRow(r, c, Saved(j, c))}
               \cup {[c |-> c, res |-> Saved(j, c).res, owner |-> j.owner] : c \in j.chosen}
    /\ link' = [c \in Components |->
                  IF c \in j.chosen THEN Saved(j, c) ELSE IF unlinked(c) THEN NoLink ELSE link[c]]
    /\ crossed' = (crossed \/ OthersIn(e, {"delete", "transfer"}))
    /\ UNCHANGED <<source, lastSource, draft, eJob, oCount, torn, accepted>>

\* mark_sync of the new commit, which lets go of the lock
Marks(e) ==
    /\ At(e, "mark", "saved") /\ UNCHANGED eJob
    /\ source' = IF source.id = eJob[e].src
                 THEN [source EXCEPT !.state = "idle", !.commit = eJob[e].commit] ELSE source
    /\ UNCHANGED <<lastSource, link, rows, draft, oCount, oPast>>

\* mark_draft_status, after the mappings
MarksApplied(e) ==
    /\ ePc[e] = "saved" /\ Over(e)
    /\ draft' = [draft EXCEPT ![eJob[e].d] = [NoDraft EXCEPT !.status = "gone"]]
    /\ UNCHANGED <<oStore, oCount, oPast>>

\* An Exception since the lock was taken: the transaction is rolled back, or was committed.
ApplicationFails(e) ==
    /\ ePc[e] \in {"commit", "mark", "saved"} /\ Spend(2) /\ failed' = TRUE
    /\ ePc' = [ePc EXCEPT ![e] = IF @ = "saved" THEN "failed late" ELSE "failed"]
    /\ UNCHANGED <<oStore, draft, eJob, upstream, oPast>>

\* A source registered by the draft is deleted with it; another is marked as failed.
MarksFailed(e) ==
    /\ ePc[e] \in {"failed", "failed late"} /\ ~eJob[e].fresh /\ Over(e)
    /\ source' = IF source.id = eJob[e].src THEN [source EXCEPT !.state = "failed"] ELSE source
    /\ crossed' = (crossed \/ OthersIn(e, Section))
    /\ UNCHANGED <<lastSource, link, rows, draft, oCount, torn, accepted>>

-----------------------------------------------------------------------------
(* The rest of what is done to a source. *)

\* delete_source, of the route or of a failed registration: the list, ...
DeleteLists(e) ==
    /\ \/ ePc[e] \in {"failed", "failed late"} /\ eJob[e].fresh /\ UNCHANGED spent
       \/ ePc[e] = "idle" /\ source # NoSource /\ Spend(2)
    /\ ePc' = [ePc EXCEPT ![e] = "delete"]
    /\ LET id == IF ePc[e] = "idle" THEN source.id ELSE eJob[e].src IN
       Keeps(e, [NoWork EXCEPT !.src = id, !.listed = IF id = source.id THEN link ELSE Unlinked])
    /\ UNCHANGED <<oStore, draft, upstream, failed, oPast>>

\* ... and the transaction, whose cascade takes links and drafts along.
DeletesSource(e) ==
    LET j == eJob[e] here == source.id = j.src IN
    /\ ePc[e] = "delete" /\ Over(e)
    /\ rows' = {r \in rows : \A c \in Components : j.listed[c] # NoLink => ~IsRow(r, c, j.listed[c])}
    /\ source' = IF here THEN NoSource ELSE source
    /\ link' = IF here THEN Unlinked ELSE link
    /\ draft' = IF ~here THEN draft ELSE
         [d \in Drafts |-> IF draft[d].src = j.src THEN [NoDraft EXCEPT !.status = "gone"] ELSE draft[d]]
    /\ crossed' = (crossed \/ OthersIn(e, Applying \cup {"delete", "transfer"}))
    /\ UNCHANGED <<lastSource, oCount, torn, accepted>>

\* transfer_owner: the links are read, ...
TransferReads(e) ==
    /\ source # NoSource /\ Spend(2)
    /\ At(e, "idle", "transfer")
    /\ \E a \in Admins \ {source.owner} :
         Keeps(e, [NoWork EXCEPT !.src = source.id, !.owner = a, !.listed = link])
    /\ UNCHANGED <<oStore, draft, upstream, failed, oPast>>

\* ... and the rows they name change hands, with every link of the source.
Transfers(e) ==
    LET j == eJob[e]
        named(r) == \E c \in Components : j.listed[c] # NoLink /\ IsRow(r, c, j.listed[c])
    IN
    /\ ePc[e] = "transfer" /\ Over(e)
    /\ rows' = {IF named(r) THEN [r EXCEPT !.owner = j.owner] ELSE r : r \in rows}
    /\ source' = IF source.id = j.src THEN [source EXCEPT !.owner = j.owner] ELSE source
    /\ link' = [c \in Components |-> IF source.id # j.src \/ link[c] = NoLink THEN link[c]
                                     ELSE [link[c] EXCEPT !.owner = j.owner]]
    /\ crossed' = (crossed \/ OthersIn(e, Applying \cup {"delete", "transfer"}))
    /\ UNCHANGED <<lastSource, draft, oCount, torn, accepted>>

\* The worker of a request, or a cancellation, which no handler of Exception sees.
EditorDies(e) ==
    /\ ePc[e] # "idle" /\ Spend(2) /\ failed' = TRUE /\ Over(e)
    /\ torn' = IF ePc[e] \in {"patched", "replace"} THEN torn \cup {eJob[e].d} ELSE torn
    /\ UNCHANGED <<oStore, draft, upstream, accepted, crossed>>

\* A bound: what happens after a crossing is not followed.
OfficialNext ==
    /\ ~crossed
    /\ \/ UpstreamMoves
       \/ \E d \in Drafts : DraftExpires(d) \/ \E c \in Components : AcceptsTool(d, c)
       \/ \E e \in Editors :
            \/ InspectReads(e) \/ CreatesDraft(e) \/ ImportRegisters(e) \/ Attaches(e)
            \/ PatchReads(e) \/ PatchReplaces(e)
            \/ \E d \in Drafts :
                 ApplyReads(e, d) \/ \E c \in Components, on \in BOOLEAN : PatchWrites(e, d, c, on)
            \/ FindsSource(e) \/ Registers(e) \/ Locks(e) \/ Materializes(e) \/ Marks(e)
            \/ MarksApplied(e) \/ ApplicationFails(e) \/ MarksFailed(e)
            \/ DeleteLists(e) \/ DeletesSource(e) \/ TransferReads(e) \/ Transfers(e) \/ EditorDies(e)

OfficialSpec == OfficialRests /\ [][OfficialNext]_oVars

-----------------------------------------------------------------------------
(* Properties. *)

\* Every variable keeps the shape Init gives it.
OfficialTypeOK ==
    /\ upstream \in Commits /\ source.commit \in 0 .. Len(Tree)
    /\ source.state \in {"idle", "applying", "failed"} /\ source.owner \in Admins \cup {"none"}
    /\ source.id \in {0, lastSource} /\ lastSource \in 0 .. MaxSources
    /\ \A d \in Drafts : draft[d].selected \cup draft[d].explicit \subseteq draft[d].known
    /\ spent \in 0 .. Budget /\ failed \in BOOLEAN

\* A draft shows a selection that contains what it needs, whatever components are marked and
\* unmarked at the same time, once the answers are sent (official_source_drafts.py:246).  One
\* with errors starts with what is linked, whatever that needs, and is never applied.
SelectionIsClosed ==
    \A d \in Drafts \ torn :
        draft[d].status = "pending" /\ ~HasErrors(draft[d].commit) /\ (\A e \in Editors : eJob[e].d # d)
            => UNION {Wants(draft[d], c) : c \in draft[d].selected} \subseteq draft[d].selected

\* acquire_sync_lock lets one application in at a time, and is only held without one of them
\* by the request that died.
OneApplication ==
    LET in == {e \in Editors : ePc[e] \in Section /\ eJob[e].src = source.id} IN
    /\ Cardinality(in) <= 1 \/ crossed
    /\ source.state = "applying" /\ in = {} => failed

\* What a source has brought is one resource per link, its owner's; when it rests, they are of
\* the commit the source names, with what they need, and every tool is as somebody accepted it.
SourceIsWhole ==
    crossed \/
    /\ rows = {[c |-> c, res |-> link[c].res, owner |-> source.owner] : c \in Linked}
    /\ \A c \in Linked :
         /\ link[c].owner = source.owner /\ Needs[c] \subseteq Linked
         /\ c \in Tools => <<c, link[c].hash>> \in accepted
         /\ source.state = "idle" => link[c].hash = Tree[source.commit][c]

\* Drafts of the same source that overlap leave it with one of them.
SourceIsOne == OneApplication /\ SourceIsWhole

\* A draft that has become stale is refused: the source never goes back to a former commit
\* (_sources.py:184).
NeverBack == [][source'.id = source.id /\ ~crossed' => source'.commit >= source.commit]_source
====
