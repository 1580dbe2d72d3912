---- MODULE CursorPages ----
(***************************************************************************)
(* A listing read page by page while its rows change: pagination/ and the   *)
(* two engines, storage/cursor_page_query.py and composite_cursor_page.py.  *)
(* The cursor a client sends back holds the sort key of the last row it was *)
(* shown, the moment of the first page and the total; the server keeps      *)
(* nothing.  A page is a COUNT, when the client asks for it, and a SELECT:  *)
(* two statements without a transaction around them.                        *)
(***************************************************************************)
EXTENDS Naturals, Sequences, FiniteSets, Functions

CONSTANTS
    NListed,    \* rows 1 .. NListed, in the order of their identity
    PageLimit,  \* rows of a page
    Listings,   \* the listings to walk
    MaxNow,   \* bound: instants of now_iso
    MaxWrites   \* bound: writes beside a walk

ASSUME CursorPagesAssumption ==
    /\ NListed \in Nat /\ PageLimit \in Nat \ {0} /\ MaxNow \in Nat /\ MaxWrites \in Nat
    /\ Listings \subseteq {"resources", "knowledge", "explore", "feed", "users"} /\ Listings # {}

ListRows == 1 .. NListed

VARIABLES
    listing,
    nowIso,
    when,       \* updated_at or created_at of a row, 0 without one
    stars,      \* stars_count
    hidden,     \* rows the filters leave out: not shared, not public, inactive
    saving,     \* a save that has read the nowIso and not written yet, 0 without one
    walk,       \* what the client has: the cursor and the rows it was shown
    page,       \* the page being served
    writes,
    known,      \* history: the rows listed when the first page was asked for
    touched,    \* history: rows written, shown or hidden since
    disturbed,  \* history: one of them was of the snapshot, before or after
    starred     \* history: rows that gained or lost a star since

pVars == <<listing, nowIso, when, stars, hidden, saving, walk, page, writes,
           known, touched, disturbed, starred>>

\* The order of each listing: a column and whether it descends.  position_column and
\* id_column where both descend ...
ResourceOrder == <<<<"when", TRUE>>, <<"row", TRUE>>>>
KnowledgeOrder == <<<<"when", TRUE>>, <<"row", TRUE>>>>

\* ... and KeysetColumns where they do not.
ExploreOrder == <<<<"when", TRUE>>, <<"stars", TRUE>>, <<"row", FALSE>>>>
FeedOrder == <<<<"when", TRUE>>, <<"row", FALSE>>>>
UserOrder == <<<<"row", FALSE>>>>

Columns == [resources |-> ResourceOrder, knowledge |-> KnowledgeOrder,
            explore |-> ExploreOrder, feed |-> FeedOrder, users |-> UserOrder]

Order == Columns[listing]

\* The columns of row r, those of the cursor when r is its last row.
Key(r) == [i \in DOMAIN Order |->
              CASE Order[i][1] = "when"  -> when[r]
                [] Order[i][1] = "stars" -> stars[r]
                [] Order[i][1] = "row"   -> r]

\* _after_predicate, and the comparison of tuples where every column descends.
After(r, key) ==
    \E i \in DOMAIN Order :
        /\ \A j \in 1 .. i - 1 : Key(r)[j] = key[j]
        /\ IF Order[i][2] THEN Key(r)[i] < key[i] ELSE Key(r)[i] > key[i]

\* ORDER BY: a set of rows as a sequence.
InOrder(rows) ==
    CHOOSE s \in Bijection(1 .. Cardinality(rows), rows) :
        \A i, j \in DOMAIN s : i < j => After(s[j], Key(s[i]))

Listed == {r \in ListRows : when[r] # 0} \ hidden

\* The rows of the WHERE: the filters and, in a consistent walk, the snapshot.
Within(snapshot) == {r \in Listed : snapshot # 0 => when[r] <= snapshot}

(* A slip: the COUNT without the snapshot. *)
TotalOfAll == Cardinality(Listed)

Total == Cardinality(Within(walk.snapshot))

(* A slip: the row that LIMIT + 1 adds, which nobody has seen. *)
CursorOfNext(found) == Key(found[PageLimit + 1])

\* The cursor of a page that is not the last: its last visible row.
Cursor(found) == Key(found[PageLimit])

NoPage == [step |-> "none", count |-> 0]
NoWalk == [step |-> "none"]

NothingWalked ==
    /\ nowIso = 2 /\ hidden = {} /\ saving = [r \in ListRows |-> 0]
    /\ walk = NoWalk /\ page = NoPage /\ writes = 0
    /\ known = {} /\ touched = {} /\ disturbed = FALSE /\ starred = {}

\* The rows of a catalogue that is synchronised share their updated_at.
CursorPagesInit ==
    /\ listing \in Listings
    /\ when \in [ListRows -> IF listing \in {"resources", "knowledge"} THEN 0 .. 2 ELSE 0 .. 1]
    /\ stars \in [ListRows -> 0 .. 1]
    /\ \A r \in ListRows : stars[r] = 1 => listing = "explore" /\ when[r] # 0
    /\ NothingWalked

NothingListed ==
    /\ listing = (CHOOSE l \in Listings : TRUE) /\ when = [r \in ListRows |-> 0] /\ stars = when /\ NothingWalked

pTable == <<when, stars, hidden, saving>>
pHistory == <<writes, known, touched, disturbed, starred>>

-----------------------------------------------------------------------------
(* The walk.  0 is None, so that a total is one more than it says. *)

\* A first page: the snapshot is now_iso, before any statement.  What walks by names
\* or keys has none.
Opens(consistent, wanted) ==
    /\ walk = NoWalk /\ page = NoPage
    /\ walk' = [step |-> "walking", after |-> <<>>, total |-> 0, shown |-> <<>>,
                snapshot |-> IF consistent /\ listing # "users" THEN nowIso ELSE 0]
    /\ page' = [step |-> IF wanted THEN "count" ELSE "select", count |-> 0]
    /\ known' = Listed /\ touched' = {} /\ disturbed' = FALSE /\ starred' = {}
    /\ UNCHANGED <<listing, nowIso, pTable, writes>>

\* A page from a cursor.  include_total may change from one page to the next.
Follows(wanted) ==
    /\ walk.step = "walking" /\ walk.after # <<>> /\ page = NoPage
    /\ page' = [step |-> IF wanted THEN "count" ELSE "select", count |-> 0]
    /\ UNCHANGED <<listing, nowIso, pTable, walk, pHistory>>

\* exact_total: the total of the cursor, or the COUNT of the whole listing.
Counts ==
    /\ page.step = "count"
    /\ page' = [step |-> "select",
                count |-> IF walk.total # 0 THEN walk.total ELSE 1 + Total]
    /\ UNCHANGED <<listing, nowIso, pTable, walk, pHistory>>

\* LIMIT + 1: one row more than the page tells whether there is another.
Selects ==
    /\ page.step = "select"
    /\ LET found == InOrder({r \in Within(walk.snapshot) :
                               walk.after # <<>> => After(r, walk.after)})
       IN  walk' = [walk EXCEPT
              !.shown = @ \o SubSeq(found, 1, IF Len(found) > PageLimit THEN PageLimit ELSE Len(found)),
              !.total = IF page.count # 0 THEN page.count ELSE @,
              !.after = IF Len(found) > PageLimit THEN Cursor(found) ELSE <<>>,
              !.step  = IF Len(found) > PageLimit THEN @ ELSE "over"]
    /\ page' = NoPage
    /\ UNCHANGED <<listing, nowIso, pTable, pHistory>>

\* The total takes too long (503), or the answer is lost: the client asks again with the
\* cursor it has.
NoAnswer ==
    /\ page # NoPage
    /\ page' = NoPage
    /\ walk' = IF walk.after = <<>> THEN NoWalk ELSE walk
    /\ UNCHANGED <<listing, nowIso, pTable, pHistory>>

\* The cursor is older than CURSOR_TTL_SECONDS, its secret has changed or
\* the filters are others (422): the walk cannot go on.
CursorExpires ==
    /\ walk.step = "walking" /\ page = NoPage
    /\ walk' = [walk EXCEPT !.step = "expired"]
    /\ UNCHANGED <<listing, nowIso, pTable, page, pHistory>>

-----------------------------------------------------------------------------
(* What changes beside it. *)

Begun == writes + Cardinality({r \in ListRows : saving[r] # 0})

Writing(r) ==
    /\ walk.step = "walking" /\ writes' = writes + 1
    /\ touched' = touched \cup {r}
    /\ UNCHANGED <<listing, nowIso, walk, page, known, starred>>
    /\ disturbed' = (disturbed \/ r \in Within(walk.snapshot) \cup Within(walk.snapshot)')

\* A save reads the nowIso ...
Stamps(r) ==
    /\ saving[r] = 0 /\ Begun < MaxWrites /\ walk.step \in {"none", "walking"}
    /\ saving' = [saving EXCEPT ![r] = nowIso]
    /\ UNCHANGED <<listing, nowIso, when, stars, hidden, walk, page, pHistory>>

\* ... and writes later.  Only updated_at moves with an update.
SaveArrives(r) ==
    /\ saving[r] # 0
    /\ when' = [when EXCEPT ![r] =
                  IF @ # 0 /\ listing \in {"knowledge", "users"} THEN @ ELSE saving[r]]
    /\ saving' = [saving EXCEPT ![r] = 0]
    /\ UNCHANGED <<stars, hidden>> /\ Writing(r)

DeletesRow(r) ==
    /\ when[r] # 0 /\ Begun < MaxWrites
    /\ when' = [when EXCEPT ![r] = 0]
    /\ UNCHANGED <<stars, hidden, saving>> /\ Writing(r)

\* A share, a membership or a state that the filters look at, at any age of the row.
Filtered(r) ==
    /\ when[r] # 0 /\ Begun < MaxWrites
    /\ hidden' = IF r \in hidden THEN hidden \ {r} ELSE hidden \cup {r}
    /\ UNCHANGED <<when, stars, saving>> /\ Writing(r)

\* star_resource, unstar_resource: refresh_stars_count leaves updated_at as it was.
Stars(r) ==
    /\ listing = "explore" /\ when[r] # 0 /\ Begun < MaxWrites /\ walk.step = "walking"
    /\ stars' = [stars EXCEPT ![r] = 1 - @]
    /\ starred' = starred \cup {r}
    /\ writes' = writes + 1
    /\ UNCHANGED <<listing, nowIso, when, hidden, saving, walk, page, known, touched, disturbed>>

TimePasses ==
    /\ nowIso < MaxNow /\ walk.step = "walking"
    /\ nowIso' = nowIso + 1
    /\ UNCHANGED <<listing, pTable, walk, page, pHistory>>

CursorPagesNext ==
    \/ \E consistent, wanted \in BOOLEAN : Opens(consistent, wanted) \/ Follows(wanted)
    \/ Counts \/ Selects \/ NoAnswer \/ CursorExpires
    \/ \E r \in ListRows : Stamps(r) \/ SaveArrives(r) \/ DeletesRow(r) \/ Filtered(r) \/ Stars(r)
    \/ TimePasses

CursorPagesSpec == CursorPagesInit /\ [][CursorPagesNext]_pVars

-----------------------------------------------------------------------------
(* Properties. *)

CursorPagesTypeOK ==
    /\ listing \in Listings /\ nowIso \in Nat /\ writes \in 0 .. MaxWrites
    /\ when \in [ListRows -> 0 .. nowIso] /\ stars \in [ListRows -> 0 .. 1]
    /\ hidden \subseteq ListRows /\ saving \in [ListRows -> 0 .. nowIso]
    /\ page.step \in {"none", "count", "select"}
    /\ walk.step \in {"none", "walking", "over", "expired"}
    /\ walk.step # "none" => walk.snapshot <= nowIso /\ walk.shown \in Seq(ListRows)

TimesShown(r) == Cardinality({i \in DOMAIN walk.shown : walk.shown[i] = r})

ShownOnce(rows) ==
    walk.step # "none" =>
        \A r \in rows : TimesShown(r) <= 1 /\ (walk.step = "over" => (TimesShown(r) = 1 <=> r \in known))

\* Pages never repeat or drop a row that nobody touches, whatever happens to the others
\* (docs/en/architecture.md:104).
WalkIsExact == ShownOnce(ListRows \ (touched \cup starred))

\* The total of a consistent walk is the number of rows it shows, whichever page first asked
\* for it and whatever is written after the first page (docs/en/api.md:34), unless it is a
\* row of the snapshot that is written.
TotalIsExact ==
    (walk.step = "over" /\ walk.snapshot # 0 /\ walk.total # 0 /\ ~disturbed /\ starred = {})
    => walk.total = 1 + Len(walk.shown)

\* A walk shows every row that rests exactly once, and its total says how many they are.
PagesAreExact == WalkIsExact /\ TotalIsExact
====
