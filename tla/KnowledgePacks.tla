---- MODULE KnowledgePacks ----
(***************************************************************************)
(* One pack of knowledge (storage/knowledge_packs.py and the routes of      *)
(* api/routes/knowledge): files uploaded one by one until the pack is       *)
(* declared ready, and directories synchronised by checksum, where a file   *)
(* that did not change is not sent again.  A request reads, and writes in a *)
(* later transaction; a text is known by its checksum.                      *)
(***************************************************************************)
EXTENDS Integers, FiniteSets, Functions, SequencesExt

CONSTANTS Requests, Paths, Texts,
          About,        \* bound: the paths a request may send
          MaxItems,     \* bound: rows of knowledge_items ever inserted
          NoRow

ASSUME KnowledgePacksAssumption ==
    /\ About \in [Requests -> SUBSET Paths] /\ \A q \in Requests : IsFiniteSet(About[q])
    /\ MaxItems \in Nat /\ NoRow \notin Texts \cup (1 .. MaxItems)

VARIABLES
    upload_status, \* of the pack: "none", "uploading", "ready" or "deleted"
    item,     \* knowledge_items: path, content and checksum of a row, or NoRow
    chunks,   \* knowledge_chunks: the content they were cut from, or NoRow
    inserted, \* rows inserted so far
    kPc, kJob,\* where a request is, and what it carries
    shared    \* history: two requests were at work at once

packRows == <<upload_status, item, chunks, inserted>>
packVars == <<packRows, kPc, kJob, shared>>

Items == 1 .. MaxItems
Directories(q) == UNION {[D -> Texts] : D \in SUBSET About[q] \ {{}}}
RowsOf(p) == {i \in Items : item[i] # NoRow /\ item[i].path = p}
PackExists == upload_status \in {"uploading", "ready"}

PackRests ==
    /\ upload_status = "none" /\ inserted = 0
    /\ item = [i \in Items |-> NoRow] /\ chunks = [i \in Items |-> NoRow]
    /\ kPc = [q \in Requests |-> "idle"] /\ kJob = [q \in Requests |-> NoRow]
    /\ shared = FALSE

Moves(q, where, job) == kPc' = [kPc EXCEPT ![q] = where] /\ kJob' = [kJob EXCEPT ![q] = job]
Begins(q, where, job) ==
    /\ kPc[q] = "idle" /\ Moves(q, where, job)
    /\ shared' = (shared \/ \E r \in Requests \ {q} : kPc[r] # "idle")
    /\ UNCHANGED packRows
Answers(q) == Moves(q, "idle", NoRow) /\ UNCHANGED shared

\* The rows a transaction writes, with their chunks.
Writes(rows) ==
    /\ item' = [i \in Items |-> IF i \in DOMAIN rows THEN rows[i] ELSE item[i]]
    /\ chunks' = [i \in Items |-> IF i \notin DOMAIN rows THEN chunks[i]
                                  ELSE IF rows[i] = NoRow THEN NoRow ELSE rows[i].content]

\* New rows for a set of paths, in some order.
NewRows(P) ==
    LET order == SetToSeq(P) IN
    [p \in P |-> inserted + CHOOSE n \in DOMAIN order : order[n] = p]

Row(p, content, checksum) == [path |-> p, content |-> content, checksum |-> checksum]

-----------------------------------------------------------------------------
(* Upload. *)

\* create, by upload_pack with its files or by an upload session without any
Creates(q) ==
    /\ kPc[q] = "idle" /\ upload_status = "none"
    /\ \/ upload_status' = "uploading" /\ UNCHANGED <<item, chunks, inserted>>
       \/ \E dir \in Directories(q) :
            LET new == NewRows(DOMAIN dir) IN
            /\ Cardinality(DOMAIN dir) <= MaxItems
            /\ upload_status' = "ready" /\ inserted' = Cardinality(DOMAIN dir)
            /\ Writes([i \in Range(new) |-> LET p == Inverse(new, DOMAIN new, Range(new))[i]
                                            IN Row(p, dir[p], dir[p])])
    /\ UNCHANGED <<kPc, kJob, shared>>

\* upload_pack_session_file: the document is extracted; upsert_item reads the pack.
UploadReads(q) ==
    /\ upload_status = "uploading"
    /\ \E p \in About[q], t \in Texts : Begins(q, "extracted", [path |-> p, content |-> t, row |-> NoRow])

\* pack_item_by_path
UploadFinds(q) ==
    /\ kPc[q] = "extracted"
    /\ IF RowsOf(kJob[q].path) = {} THEN Moves(q, "upsert", kJob[q])
       ELSE \E i \in RowsOf(kJob[q].path) : Moves(q, "upsert", [kJob[q] EXCEPT !.row = i])
    /\ UNCHANGED <<packRows, shared>>

(* A slip: the chunks are written for new rows only. *)
UpsertsRowOnly(q) ==
    /\ kPc[q] = "upsert"
    /\ LET j == kJob[q]  row == Row(j.path, j.content, j.content) IN
       IF j.row # NoRow
       THEN /\ item' = [item EXCEPT ![j.row] = IF @ = NoRow THEN NoRow ELSE row]
            /\ UNCHANGED <<chunks, inserted>>
       ELSE /\ inserted < MaxItems /\ inserted' = inserted + 1
            /\ Writes([i \in {inserted + 1} |-> row])
    /\ UNCHANGED upload_status
    /\ Answers(q)

\* The transaction of upsert_item.  If the row it found is gone the UPDATE writes nothing
\* and its chunks have no document: the foreign key undoes the transaction.
Upserts(q) ==
    /\ kPc[q] = "upsert"
    /\ LET j == kJob[q]  row == Row(j.path, j.content, j.content) IN
       IF j.row # NoRow
       THEN /\ IF item[j.row] = NoRow THEN UNCHANGED <<item, chunks>>
               ELSE Writes([i \in {j.row} |-> row])
            /\ UNCHANGED inserted
       ELSE /\ inserted < MaxItems /\ inserted' = inserted + 1
            /\ Writes([i \in {inserted + 1} |-> row])
    /\ UNCHANGED upload_status
    /\ Answers(q)

\* complete_upload: the pack, its items, the UPDATE
CompleteReads(q) == upload_status = "uploading" /\ Begins(q, "count", NoRow)
CompleteCounts(q) ==
    /\ kPc[q] = "count"
    /\ IF \E i \in Items : item[i] # NoRow THEN Moves(q, "mark", NoRow) ELSE Moves(q, "idle", NoRow)
    /\ UNCHANGED <<packRows, shared>>
(* A slip: a status no reader of the pack knows. *)
CompleteMarksDone(q) ==
    /\ kPc[q] = "mark"
    /\ upload_status' = IF PackExists THEN "done" ELSE upload_status
    /\ Answers(q)
    /\ UNCHANGED <<item, chunks, inserted>>

CompleteMarks(q) ==
    /\ kPc[q] = "mark"
    /\ upload_status' = IF PackExists THEN "ready" ELSE upload_status
    /\ Answers(q)
    /\ UNCHANGED <<item, chunks, inserted>>

-----------------------------------------------------------------------------
(* Synchronisation and deletion. *)

\* sync_pack with a manifest: only the files whose checksum differs from the rows just read
\* are sent, or the request is refused.  Without a manifest, and for references, all are.
SyncReads(q) ==
    /\ PackExists
    /\ \E dir \in Directories(q) :
         LET same == {p \in DOMAIN dir : \E i \in RowsOf(p) : item[i].checksum = dir[p]} IN
         \E sent \in {DOMAIN dir, DOMAIN dir \ same} :
            Begins(q, "extracted files", [dir |-> dir, sent |-> sent, rows |-> NoRow])

\* replace_items: pack_items_for_sync, by path
SyncFinds(q) ==
    /\ kPc[q] = "extracted files"
    /\ IF ~PackExists THEN Moves(q, "idle", NoRow)
       ELSE LET P == {p \in Paths : RowsOf(p) # {}} IN
            \E id \in [P -> Items] :
               /\ \A p \in P : id[p] \in RowsOf(p)
               /\ Moves(q, "replace", [kJob[q] EXCEPT !.rows =
                     [p \in P |-> [id |-> id[p], content |-> item[id[p]].content]]])
    /\ UNCHANGED <<packRows, shared>>

\* A file that was not sent keeps the content of the row that was read.
Kept(j, p) == IF p \in j.sent THEN j.dir[p] ELSE j.rows[p].content

\* What the transaction of replace_items leaves in the rows it touches.
Replaced(j) ==
    LET new == NewRows(DOMAIN j.dir \ DOMAIN j.rows)
        id == [p \in DOMAIN j.dir |-> IF p \in DOMAIN j.rows THEN j.rows[p].id ELSE new[p]]
        dropped == {j.rows[p].id : p \in DOMAIN j.rows \ DOMAIN j.dir}
    IN [i \in dropped \cup {id[p] : p \in DOMAIN j.dir} |->
          IF i \in dropped THEN NoRow
          ELSE LET p == CHOOSE p \in DOMAIN j.dir : id[p] = i IN Row(p, Kept(j, p), j.dir[p])]

\* The transaction fails without the content of a new file, or when a row to update is gone.
Replaces(q) ==
    /\ kPc[q] = "replace"
    /\ LET j == kJob[q]  fresh == DOMAIN j.dir \ DOMAIN j.rows IN
       IF ~(fresh \subseteq j.sent)
          \/ \E p \in DOMAIN j.dir \cap DOMAIN j.rows : item[j.rows[p].id] = NoRow
       THEN UNCHANGED <<item, chunks, inserted>>
       ELSE /\ inserted + Cardinality(fresh) <= MaxItems
            /\ inserted' = inserted + Cardinality(fresh)
            /\ Writes(Replaced(j))
    /\ UNCHANGED upload_status
    /\ Answers(q)

\* delete: the pack, then one transaction
DeleteReads(q) == PackExists /\ Begins(q, "delete", NoRow)
Deletes(q) ==
    /\ kPc[q] = "delete"
    /\ upload_status' = "deleted"
    /\ Writes([i \in Items |-> NoRow])
    /\ Answers(q)
    /\ UNCHANGED inserted

\* KnowledgeStorage.delete of one file
DeletesItem ==
    /\ \E i \in Items : item[i] # NoRow /\ Writes([k \in {i} |-> NoRow])
    /\ UNCHANGED <<upload_status, inserted, kPc, kJob, shared>>

\* An error of the database, a refused document or the end of the worker, at any point.
GivesUp(q) == kPc[q] # "idle" /\ Answers(q) /\ UNCHANGED packRows

PackNext ==
    \/ DeletesItem
    \/ \E q \in Requests :
         \/ Creates(q) \/ UploadReads(q) \/ UploadFinds(q) \/ Upserts(q)
         \/ CompleteReads(q) \/ CompleteCounts(q) \/ CompleteMarks(q)
         \/ SyncReads(q) \/ SyncFinds(q) \/ Replaces(q)
         \/ DeleteReads(q) \/ Deletes(q) \/ GivesUp(q)

PackSpec == PackRests /\ [][PackNext]_packVars

-----------------------------------------------------------------------------
(* Properties. *)

\* Every variable keeps the shape Init gives it.
PackTypeOK ==
    /\ upload_status \in {"none", "uploading", "ready", "deleted"} /\ inserted \in 0 .. MaxItems
    /\ \A i \in Items : item[i] = NoRow \/ item[i] \in [path : Paths, content : Texts, checksum : Texts]
    /\ chunks \in [Items -> Texts \cup {NoRow}] /\ shared \in BOOLEAN

\* A search never reads a chunk of a text its document no longer has, nor misses a document,
\* however requests overlap, fail or find their rows gone.
SearchedAsKept ==
    \A i \in Items : chunks[i] = IF item[i] = NoRow THEN NoRow ELSE item[i].content

\* With one request at a time, a row has the content its checksum stands for, so that the
\* next manifest asks again for what differs; a path has one row; and a pack that is gone
\* leaves none.
ChecksumsTell ==
    ~shared =>
       /\ \A i \in Items : item[i] # NoRow => item[i].content = item[i].checksum
       /\ \A p \in Paths : Cardinality(RowsOf(p)) <= 1
       /\ upload_status \in {"none", "deleted"} => \A i \in Items : item[i] = NoRow

\* What an agent is answered from is what the owner uploaded.
PackIsConsistent == SearchedAsKept /\ ChecksumsTell
====
