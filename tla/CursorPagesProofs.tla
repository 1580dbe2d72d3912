---- MODULE CursorPagesProofs ----
(***************************************************************************)
(* Theorems about the pages of a listing, for any number of rows, any size  *)
(* of a page, every order of columns and any writes beside the walk.  The   *)
(* rows have a strict total order, so that a page is well defined; the rest *)
(* is about what a cursor has passed: a row that rests was shown once if    *)
(* its key is not beyond the cursor, and not at all otherwise.              *)
(***************************************************************************)
EXTENDS CursorPages, FiniteSetTheorems, FunctionTheorems, WellFoundedInduction, TLAPS

\* Nat is well-founded.
LEMMA LeastOf ==
    ASSUME NEW T \in SUBSET Nat, T # {}
    PROVE  \E x \in T : \A y \in T : x <= y
<1> DEFINE R == {p \in Nat \X Nat : p[1] < p[2]}
<1>1. PICK x \in T : \A y \in T : <<y, x>> \notin R
  <2>1. IsWellFoundedOn(R, Nat)
    BY NatLessThanWellFounded DEF OpToRel
  <2> HIDE DEF R
  <2> QED BY <2>1, WFMin
<1>2. \A y \in T : ~(y < x)
  BY <1>1
<1> QED BY <1>2

-----------------------------------------------------------------------------
(* The order of the rows. *)

\* The rows have the columns of their listing.
TableShape ==
    /\ listing \in {"resources", "knowledge", "explore", "feed", "users"} \cap Listings
    /\ nowIso \in Nat \ {0}
    /\ when \in [ListRows -> 0 .. nowIso] /\ stars \in [ListRows -> 0 .. 1]
    /\ hidden \subseteq ListRows /\ saving \in [ListRows -> 0 .. nowIso]

SortKeys == [DOMAIN Order -> Nat]

\* After, between two keys: by the first column in which they differ.
Below(i, x, y) == IF Order[i][2] THEN x < y ELSE x > y
Beyond(k, key) ==
    \E i \in DOMAIN Order : (\A j \in 1 .. i - 1 : k[j] = key[j]) /\ Below(i, k[i], key[i])

\* The columns of a listing are of three kinds, and one of them is the row itself.
LEMMA OrderFits ==
    ASSUME TableShape
    PROVE  \E n \in 1 .. 3 :
              /\ DOMAIN Order = 1 .. n /\ Order[n][1] = "row"
              /\ \A i \in 1 .. n : Order[i][1] \in {"when", "stars", "row"} /\ Order[i][2] \in BOOLEAN
<1> USE DEF Order, Columns
<1>1. CASE listing = "resources"
  BY <1>1 DEF ResourceOrder
<1>2. CASE listing = "knowledge"
  BY <1>2 DEF KnowledgeOrder
<1>3. CASE listing = "explore"
  BY <1>3 DEF ExploreOrder
<1>4. CASE listing = "feed"
  BY <1>4 DEF FeedOrder
<1>5. CASE listing = "users"
  BY <1>5 DEF UserOrder
<1> QED BY <1>1, <1>2, <1>3, <1>4, <1>5 DEF TableShape

\* The key of a row has a number in every column.
LEMMA KeysFit ==
    ASSUME TableShape, NEW r \in ListRows
    PROVE  Key(r) \in SortKeys
<1>1. when[r] \in Nat /\ stars[r] \in Nat /\ r \in Nat
  BY CursorPagesAssumption DEF TableShape, ListRows
<1> HIDE DEF Order
<1> QED BY <1>1, OrderFits DEF Key, SortKeys

\* _after_predicate compares keys.
LEMMA AfterIsBeyond ==
    ASSUME NEW r, NEW key
    PROVE  After(r, key) <=> Beyond(Key(r), key)
BY DEF After, Beyond, Below

\* SortKeys are strictly ordered, by the first column in which they differ.
LEMMA BeyondIsStrict ==
    ASSUME TableShape, NEW a \in SortKeys, NEW b \in SortKeys, NEW c \in SortKeys
    PROVE  /\ ~Beyond(a, a)
           /\ Beyond(a, b) /\ Beyond(b, c) => Beyond(a, c)
<1> HIDE DEF Order
<1> PICK n \in 1 .. 3 : DOMAIN Order = 1 .. n
  BY OrderFits
<1>1. \A i \in 1 .. n : a[i] \in Nat /\ b[i] \in Nat /\ c[i] \in Nat
  BY DEF SortKeys
<1>2. ~Beyond(a, a)
  BY <1>1 DEF Beyond, Below
<1>3. ASSUME Beyond(a, b), Beyond(b, c) PROVE Beyond(a, c)
  <2>1. PICK i \in 1 .. n : (\A j \in 1 .. i - 1 : a[j] = b[j]) /\ Below(i, a[i], b[i])
    BY <1>3 DEF Beyond
  <2>2. PICK k \in 1 .. n : (\A j \in 1 .. k - 1 : b[j] = c[j]) /\ Below(k, b[k], c[k])
    BY <1>3 DEF Beyond
  <2>3. CASE i < k
    <3>1. Below(i, a[i], c[i]) /\ \A j \in 1 .. i - 1 : a[j] = c[j]
      BY <2>1, <2>2, <2>3
    <3> QED BY <3>1 DEF Beyond
  <2>4. CASE i > k
    <3>1. Below(k, a[k], c[k]) /\ \A j \in 1 .. k - 1 : a[j] = c[j]
      BY <2>1, <2>2, <2>4
    <3> QED BY <3>1 DEF Beyond
  <2>5. CASE i = k
    <3>1. Below(i, a[i], c[i]) /\ \A j \in 1 .. i - 1 : a[j] = c[j]
      BY <1>1, <2>1, <2>2, <2>5 DEF Below
    <3> QED BY <3>1 DEF Beyond
  <2> QED BY <2>3, <2>4, <2>5
<1> QED BY <1>2, <1>3

\* Two rows never have the same key: one is after the other.
LEMMA RowsAreApart ==
    ASSUME TableShape, NEW r \in ListRows, NEW s \in ListRows, r # s
    PROVE  After(r, Key(s)) \/ After(s, Key(r))
<1> HIDE DEF Order
<1> PICK n \in 1 .. 3 : /\ DOMAIN Order = 1 .. n /\ Order[n][1] = "row"
                        /\ \A i \in 1 .. n : Order[i][2] \in BOOLEAN
  BY OrderFits
<1> DEFINE T == {i \in 1 .. n : Key(r)[i] # Key(s)[i]}
<1>1. \A i \in 1 .. n : Key(r)[i] \in Nat /\ Key(s)[i] \in Nat
  BY KeysFit DEF SortKeys
<1>2. n \in T
  BY DEF Key
<1>3. PICK i \in T : \A j \in T : i <= j
  <2>1. T \in SUBSET Nat
    OBVIOUS
  <2> HIDE DEF T
  <2> QED BY <1>2, <2>1, LeastOf
<1>4. i \in 1 .. n /\ \A j \in 1 .. i - 1 : Key(r)[j] = Key(s)[j]
  BY <1>3
<1>5. Below(i, Key(r)[i], Key(s)[i]) \/ Below(i, Key(s)[i], Key(r)[i])
  BY <1>1, <1>3 DEF Below
<1> QED BY <1>4, <1>5, AfterIsBeyond DEF Beyond

\* Every set of rows has a size.
LEMMA RowsAreFinite ==
    \A U \in SUBSET ListRows : IsFiniteSet(U) /\ Cardinality(U) \in Nat
<1>1. IsFiniteSet(ListRows)
  BY CursorPagesAssumption, FS_Interval DEF ListRows
<1> QED BY <1>1, FS_Subset, FS_CardinalityType

\* A set of rows has a last one ...
LEMMA LastRow ==
    ASSUME TableShape, NEW S \in SUBSET ListRows, S # {}
    PROVE  \E m \in S : \A r \in S \ {m} : After(m, Key(r))
<1> DEFINE T == {n \in Nat : \E U \in SUBSET ListRows :
                    /\ U # {} /\ Cardinality(U) = n
                    /\ ~\E m \in U : \A r \in U \ {m} : After(m, Key(r))}
<1>1. \A U \in SUBSET ListRows : IsFiniteSet(U) /\ Cardinality(U) \in Nat
  BY RowsAreFinite
<1> SUFFICES ASSUME T # {} PROVE FALSE
  BY <1>1
<1>2. PICK n \in T : \A k \in T : n <= k
  <2> HIDE DEF T
  <2>1. T \in SUBSET Nat
    BY DEF T
  <2> QED BY <2>1, LeastOf
<1>3. PICK U \in SUBSET ListRows :
         /\ U # {} /\ Cardinality(U) = n
         /\ ~\E m \in U : \A r \in U \ {m} : After(m, Key(r))
  BY <1>2
<1>4. PICK x \in U : TRUE
  BY <1>3
<1> DEFINE V == U \ {x}
<1>5. Cardinality(V) < n /\ Cardinality(V) \in Nat /\ V \in SUBSET ListRows
  <2>1. Cardinality(V) = Cardinality(U) - 1
    BY <1>1, <1>4, FS_RemoveElement
  <2> QED BY <1>1, <1>3, <2>1
<1>6. V # {}
  BY <1>3, <1>4
<1>7. PICK m \in V : \A r \in V \ {m} : After(m, Key(r))
  <2>1. Cardinality(V) \notin T
    <3> HIDE DEF T, V
    <3> QED BY <1>1, <1>2, <1>3, <1>5
  <2> HIDE DEF V
  <2> QED BY <1>5, <1>6, <2>1
<1>8. CASE After(m, Key(x))
  <2>1. \A r \in U \ {m} : After(m, Key(r))
    BY <1>7, <1>8
  <2> QED BY <1>3, <1>7, <2>1
<1>9. CASE After(x, Key(m))
  <2>1. \A r \in V : After(x, Key(r))
    <3> SUFFICES ASSUME NEW r \in V PROVE After(x, Key(r))
      OBVIOUS
    <3>1. Key(x) \in SortKeys /\ Key(m) \in SortKeys /\ Key(r) \in SortKeys
      BY <1>5, KeysFit
    <3>2. r = m \/ After(m, Key(r))
      BY <1>7
    <3> QED BY <1>9, <3>1, <3>2, AfterIsBeyond, BeyondIsStrict
  <2> QED BY <1>3, <1>4, <2>1
<1> QED BY <1>3, <1>5, <1>7, <1>8, <1>9, RowsAreApart

Sorted(s, rows) ==
    /\ s \in Bijection(1 .. Cardinality(rows), rows)
    /\ \A i, j \in DOMAIN s : i < j => After(s[j], Key(s[i]))

\* ... and can be put in order.
LEMMA RowsCanBeSorted ==
    ASSUME TableShape, NEW S \in SUBSET ListRows
    PROVE  \E s : Sorted(s, S)
<1> DEFINE T == {n \in Nat : \E U \in SUBSET ListRows : Cardinality(U) = n /\ ~\E s : Sorted(s, U)}
<1>1. \A U \in SUBSET ListRows : IsFiniteSet(U) /\ Cardinality(U) \in Nat
  BY RowsAreFinite
<1> SUFFICES ASSUME T # {} PROVE FALSE
  BY <1>1
<1>2. PICK n \in T : \A k \in T : n <= k
  <2> HIDE DEF T
  <2>1. T \in SUBSET Nat
    BY DEF T
  <2> QED BY <2>1, LeastOf
<1>3. PICK U \in SUBSET ListRows : Cardinality(U) = n /\ ~\E s : Sorted(s, U)
  BY <1>2
<1>4. U # {}
  <2> SUFFICES ASSUME U = {} PROVE \E s : Sorted(s, U)
    BY <1>3
  <2> DEFINE e == [i \in {} |-> i]
  <2>1. 1 .. Cardinality(U) = {}
    BY FS_EmptySet
  <2>2. e \in [1 .. Cardinality(U) -> U] /\ \A i, j \in 1 .. Cardinality(U) : e[i] = e[j] => i = j
    BY <2>1
  <2>3. e \in Bijection(1 .. Cardinality(U), U)
    BY <2>1, <2>2 DEF Bijection, Injection, Surjection, IsInjective
  <2> QED BY <2>3 DEF Sorted
<1>5. PICK m \in U : \A r \in U \ {m} : After(m, Key(r))
  BY <1>4, LastRow
<1> DEFINE V == U \ {m}
<1>6. Cardinality(V) = n - 1 /\ n - 1 \in Nat /\ V \in SUBSET ListRows
  <2>1. Cardinality(V) = Cardinality(U) - 1
    BY <1>1, <1>5, FS_RemoveElement
  <2>2. Cardinality(V) \in Nat
    BY <1>1
  <2> QED BY <1>3, <2>1, <2>2
<1>7. PICK s : Sorted(s, V)
  <2>1. Cardinality(V) \notin T
    BY <1>2, <1>6
  <2> HIDE DEF V
  <2> QED BY <1>6, <2>1
<1> DEFINE t == [i \in 1 .. n |-> IF i = n THEN m ELSE s[i]]
<1>8. /\ s \in [1 .. n - 1 -> V] /\ \A i, j \in 1 .. n - 1 : s[i] = s[j] => i = j
      /\ \A r \in V : \E i \in 1 .. n - 1 : s[i] = r
      /\ \A i, j \in 1 .. n - 1 : i < j => After(s[j], Key(s[i]))
  BY <1>6, <1>7 DEF Sorted, Bijection, Injection, Surjection, IsInjective
<1>9. t \in [1 .. n -> U] /\ \A i, j \in 1 .. n : t[i] = t[j] => i = j
  BY <1>5, <1>6, <1>8
<1>10. \A r \in U : \E i \in 1 .. n : t[i] = r
  <2> SUFFICES ASSUME NEW r \in U PROVE \E i \in 1 .. n : t[i] = r
    OBVIOUS
  <2>1. CASE r = m
    <3>1. n \in 1 .. n /\ t[n] = m
      BY <1>6
    <3> QED BY <2>1, <3>1
  <2>2. CASE r # m
    <3>1. PICK i \in 1 .. n - 1 : s[i] = r
      BY <1>8, <2>2
    <3>2. i \in 1 .. n /\ t[i] = r
      BY <1>6, <3>1
    <3> QED BY <3>2
  <2> QED BY <2>1, <2>2
<1>11. \A i, j \in 1 .. n : i < j => After(t[j], Key(t[i]))
  <2> SUFFICES ASSUME NEW i \in 1 .. n, NEW j \in 1 .. n, i < j PROVE After(t[j], Key(t[i]))
    OBVIOUS
  <2>1. i \in 1 .. n - 1 /\ t[i] = s[i] /\ s[i] \in V
    BY <1>6, <1>8
  <2>2. CASE j = n
    <3>1. t[j] = m
      BY <2>2
    <3>2. After(m, Key(s[i]))
      BY <1>5, <2>1
    <3> QED BY <2>1, <3>1, <3>2
  <2>3. CASE j # n
    <3>1. t[j] = s[j] /\ j \in 1 .. n - 1
      BY <1>6, <2>3
    <3> QED BY <1>8, <2>1, <3>1
  <2> QED BY <2>2, <2>3
<1>12. Sorted(t, U)
  <2> HIDE DEF t
  <2> QED BY <1>3, <1>9, <1>10, <1>11 DEF Sorted, Bijection, Injection, Surjection, IsInjective
<1> QED BY <1>3, <1>12

\* ORDER BY: the sequence of a SELECT has every row once, each after the ones before it.
LEMMA InOrderIsSorted ==
    ASSUME TableShape, NEW S \in SUBSET ListRows
    PROVE  LET found == InOrder(S) n == Cardinality(S) IN
           /\ n \in Nat /\ found \in [1 .. n -> S] /\ found \in Seq(ListRows) /\ Len(found) = n
           /\ \A r \in S : \E i \in 1 .. n : found[i] = r
           /\ \A i, j \in 1 .. n : i < j => After(found[j], Key(found[i]))
           /\ \A i, j \in 1 .. n : found[i] = found[j] => i = j
<1> DEFINE n == Cardinality(S)
           found == InOrder(S)
<1>1. n \in Nat
  BY RowsAreFinite
<1>2. Sorted(found, S)
  <2>1. \E s \in Bijection(1 .. Cardinality(S), S) : \A i, j \in DOMAIN s : i < j => After(s[j], Key(s[i]))
    BY RowsCanBeSorted DEF Sorted
  <2> QED BY <2>1 DEF Sorted, InOrder
<1> HIDE DEF found
<1>3. found \in [1 .. n -> S]
  BY <1>2 DEF Sorted, Bijection, Injection
<1>4. found \in Seq(ListRows) /\ Len(found) = n
  <2>1. found \in [1 .. n -> ListRows]
    BY <1>3
  <2> QED BY <1>1, <2>1
<1>5. /\ \A r \in S : \E i \in 1 .. n : found[i] = r
      /\ \A i, j \in 1 .. n : found[i] = found[j] => i = j
  BY <1>2, <1>3 DEF Sorted, Bijection, Injection, Surjection, IsInjective
<1>6. \A i, j \in 1 .. n : i < j => After(found[j], Key(found[i]))
  BY <1>2, <1>3 DEF Sorted
<1> QED BY <1>1, <1>3, <1>4, <1>5, <1>6 DEF found

-----------------------------------------------------------------------------
(* The inductive invariant. *)

IsWalk(w) ==
    w = [step |-> w.step, after |-> w.after, total |-> w.total, shown |-> w.shown,
         snapshot |-> w.snapshot]

\* What the client has, and the page that is served of it.
WalkShape ==
    /\ walk = NoWalk \/
         /\ IsWalk(walk) /\ walk.step \in {"walking", "over", "expired"}
         /\ walk.after \in {<<>>} \cup SortKeys /\ walk.total \in Nat /\ walk.shown \in Seq(ListRows)
         /\ walk.snapshot \in 0 .. nowIso
    /\ page = [step |-> page.step, count |-> page.count]
    /\ page.step \in {"none", "count", "select"} /\ page.count \in Nat
    /\ page.step # "none" => walk.step = "walking"
    /\ touched \subseteq ListRows /\ starred \subseteq ListRows

\* The pages so far are those of the rows up to the cursor.
Passed(r) == walk.step = "over" \/ (walk.after # <<>> /\ ~After(r, walk.after))

\* A row of the walk is shown once when the cursor has passed it, the others never.
Exact(r) ==
    IF r \in Within(walk.snapshot) /\ Passed(r)
    THEN \E i \in DOMAIN walk.shown : \A j \in DOMAIN walk.shown : walk.shown[j] = r <=> j = i
    ELSE \A j \in DOMAIN walk.shown : walk.shown[j] # r

\* The walk is in the snapshot as it was when it began.
Untouched == walk.snapshot # 0 /\ ~disturbed /\ starred = {}

WalkFits ==
    walk.step # "none" =>
        /\ \A r \in ListRows \ (touched \cup starred) :
             Exact(r) /\ (r \in Within(walk.snapshot) <=> r \in known)
        /\ Untouched =>
             /\ \A r \in ListRows : Exact(r)
             /\ walk.total # 0 => walk.total = 1 + Total
             /\ page.count # 0 => page.count = 1 + Total

\* The saves that have begun are within the bound.
WritesFit == writes \in Nat /\ Begun <= MaxWrites

CursorPagesInv == TableShape /\ WalkShape /\ WalkFits /\ WritesFit

-----------------------------------------------------------------------------
(* The walk and what is written beside it. *)

\* Nothing is walked or written at first.
LEMMA CursorPagesStarts == CursorPagesInit \/ NothingListed => CursorPagesInv
<1> SUFFICES ASSUME CursorPagesInit \/ NothingListed PROVE CursorPagesInv
  OBVIOUS
<1>1. /\ listing \in Listings /\ nowIso = 2 /\ hidden = {} /\ saving = [r \in ListRows |-> 0]
      /\ walk = NoWalk /\ page = NoPage /\ writes = 0
      /\ known = {} /\ touched = {} /\ disturbed = FALSE /\ starred = {}
  BY CursorPagesAssumption DEF CursorPagesInit, NothingListed, NothingWalked
<1>2. when \in [ListRows -> 0 .. 2] /\ stars \in [ListRows -> 0 .. 1]
  BY DEF CursorPagesInit, NothingListed
<1>3. TableShape
  BY <1>1, <1>2, CursorPagesAssumption DEF TableShape
<1>4. WalkShape
  BY <1>1 DEF WalkShape, NoWalk, NoPage
<1>5. WalkFits
  BY <1>1 DEF WalkFits, NoWalk
<1>6. WritesFit
  <2>1. {r \in ListRows : saving[r] # 0} = {}
    BY <1>1
  <2>2. Begun = 0
    BY <1>1, <2>1, FS_EmptySet DEF Begun
  <2> QED BY <1>1, <2>2, CursorPagesAssumption DEF WritesFit
<1> QED BY <1>3, <1>4, <1>5, <1>6 DEF CursorPagesInv

\* A page shows the rows that follow the cursor, and moves it past them.
LEMMA SelectsFits ==
    ASSUME CursorPagesInv, Selects
    PROVE  /\ WalkShape'
           /\ walk'.step # "none" /\ walk'.snapshot = walk.snapshot
           /\ walk'.total = IF page.count # 0 THEN page.count ELSE walk.total
           /\ \A r \in ListRows : Exact(r) => Exact(r)'
<1> DEFINE rows == {r \in Within(walk.snapshot) : walk.after # <<>> => After(r, walk.after)}
           found == InOrder(rows)
           n == Cardinality(rows)
           L == IF n > PageLimit THEN PageLimit ELSE n
           more == SubSeq(found, 1, L)
<1>1. /\ page.step = "select" /\ page' = NoPage
      /\ UNCHANGED <<listing, nowIso, when, stars, hidden, saving, writes, known, touched, disturbed, starred>>
  BY DEF Selects, pTable, pHistory
<1>2. /\ walk.step = "walking" /\ IsWalk(walk) /\ walk.after \in {<<>>} \cup SortKeys
      /\ walk.total \in Nat /\ walk.shown \in Seq(ListRows) /\ walk.snapshot \in 0 .. nowIso
  <2>1. walk.step = "walking"
    BY <1>1 DEF CursorPagesInv, WalkShape
  <2>2. walk # NoWalk
    BY <2>1 DEF NoWalk
  <2> QED BY <2>1, <2>2 DEF CursorPagesInv, WalkShape
<1>3. rows \in SUBSET ListRows
  BY DEF Within, Listed
<1>4. /\ n \in Nat /\ found \in [1 .. n -> rows] /\ found \in Seq(ListRows) /\ Len(found) = n
      /\ \A r \in rows : \E i \in 1 .. n : found[i] = r
      /\ \A i, j \in 1 .. n : i < j => After(found[j], Key(found[i]))
      /\ \A i, j \in 1 .. n : found[i] = found[j] => i = j
  <2>1. TableShape
    BY DEF CursorPagesInv
  <2> HIDE DEF rows
  <2> QED BY <1>3, <2>1, InOrderIsSorted
<1>5. walk' = [walk EXCEPT
              !.shown = @ \o SubSeq(found, 1, IF Len(found) > PageLimit THEN PageLimit ELSE Len(found)),
              !.total = IF page.count # 0 THEN page.count ELSE @,
              !.after = IF Len(found) > PageLimit THEN Cursor(found) ELSE <<>>,
              !.step  = IF Len(found) > PageLimit THEN @ ELSE "over"]
  BY DEF Selects
<1> HIDE DEF rows, found
<1>6. /\ walk'.shown = walk.shown \o more
      /\ walk'.total = IF page.count # 0 THEN page.count ELSE walk.total
      /\ walk'.after = IF n > PageLimit THEN Key(found[PageLimit]) ELSE <<>>
      /\ walk'.step = IF n > PageLimit THEN "walking" ELSE "over"
      /\ walk'.snapshot = walk.snapshot /\ IsWalk(walk')
  BY <1>2, <1>4, <1>5 DEF IsWalk, Cursor
<1>7. L \in 0 .. n /\ PageLimit \in Nat \ {0}
  BY <1>4, CursorPagesAssumption
<1>8. more \in Seq(ListRows) /\ Len(more) = L /\ \A i \in 1 .. L : more[i] = found[i]
  BY <1>4, <1>7
<1>9. /\ walk'.shown \in Seq(ListRows) /\ Len(walk'.shown) = Len(walk.shown) + L
      /\ Len(walk.shown) \in Nat
      /\ \A i \in 1 .. Len(walk.shown) : walk'.shown[i] = walk.shown[i]
      /\ \A i \in 1 .. L : walk'.shown[Len(walk.shown) + i] = found[i]
      /\ DOMAIN walk'.shown = 1 .. Len(walk'.shown) /\ DOMAIN walk.shown = 1 .. Len(walk.shown)
  <2> DEFINE p == walk.shown
  <2> HIDE DEF L, more, p
  <2>1. p \in Seq(ListRows) /\ more \in Seq(ListRows) /\ Len(more) = L
    BY <1>2, <1>8 DEF p
  <2>2. /\ p \o more \in Seq(ListRows) /\ Len(p \o more) = Len(p) + L /\ Len(p) \in Nat
        /\ \A i \in 1 .. Len(p) : (p \o more)[i] = p[i]
        /\ \A i \in 1 .. L : (p \o more)[Len(p) + i] = more[i]
        /\ DOMAIN (p \o more) = 1 .. Len(p \o more) /\ DOMAIN p = 1 .. Len(p)
    BY <2>1
  <2> QED BY <1>6, <1>8, <2>2 DEF p
<1> HIDE DEF more
<1>10. WalkShape'
  <2>1. SortKeys' = SortKeys
    BY <1>1 DEF SortKeys, Order
  <2>2. walk'.after \in {<<>>} \cup SortKeys
    <3>1. CASE n > PageLimit
      <4>1. found[PageLimit] \in ListRows
        BY <1>3, <1>4, <1>7, <3>1
      <4> QED BY <1>6, <3>1, <4>1, KeysFit DEF CursorPagesInv
    <3>2. CASE ~(n > PageLimit)
      BY <1>6, <3>2
    <3> QED BY <3>1, <3>2
  <2>3. walk'.total \in Nat /\ touched \subseteq ListRows /\ starred \subseteq ListRows
    BY <1>2, <1>6 DEF CursorPagesInv, WalkShape
  <2>4. page' = [step |-> page'.step, count |-> page'.count] /\ page'.step = "none" /\ page'.count = 0
    BY <1>1 DEF NoPage
  <2> QED BY <1>1, <1>2, <1>6, <1>9, <2>1, <2>2, <2>3, <2>4 DEF WalkShape
<1>11. ASSUME NEW r \in ListRows, Exact(r) PROVE Exact(r)'
  <2>1. (r \in Within(walk.snapshot))' <=> r \in Within(walk.snapshot)
    BY <1>1, <1>6 DEF Within, Listed
  <2>2. \A key : After(r, key)' <=> After(r, key)
    BY <1>1 DEF After, Key, Order
  <2>9. Passed(r)' <=> n <= PageLimit \/ ~After(r, Key(found[PageLimit]))
    <3>1. CASE n > PageLimit
      <4>1. Key(found[PageLimit]) # <<>>
        <5>1. found[PageLimit] \in ListRows
          BY <1>3, <1>4, <1>7, <3>1
        <5>2. Key(found[PageLimit]) \in SortKeys
          BY <5>1, KeysFit DEF CursorPagesInv
        <5>3. DOMAIN Order # {}
          BY OrderFits DEF CursorPagesInv
        <5> QED BY <5>2, <5>3 DEF SortKeys
      <4> QED BY <1>4, <1>6, <1>7, <2>2, <3>1, <4>1 DEF Passed
    <3>2. CASE ~(n > PageLimit)
      BY <1>4, <1>6, <1>7, <3>2 DEF Passed
    <3> QED BY <3>1, <3>2
  <2>3. CASE r \in rows
    <3>1. r \in Within(walk.snapshot) /\ ~Passed(r)
      BY <1>2, <2>3 DEF rows, Passed
    <3>2. \A j \in 1 .. Len(walk.shown) : walk.shown[j] # r
      BY <1>9, <1>11, <3>1 DEF Exact
    <3>3. PICK i \in 1 .. n : found[i] = r
      BY <1>4, <2>3
    <3>4. Passed(r)' <=> i <= L
      <4>1. CASE n > PageLimit
        <5>1. PageLimit \in 1 .. n /\ L = PageLimit
          BY <1>4, <1>7, <4>1
        <5>2. i > PageLimit => After(r, Key(found[PageLimit]))
          BY <1>4, <3>3, <5>1
        <5>3. i = PageLimit => ~After(r, Key(found[PageLimit]))
          <6>1. Key(r) \in SortKeys
            BY KeysFit DEF CursorPagesInv
          <6> QED BY <3>3, <6>1, AfterIsBeyond, BeyondIsStrict DEF CursorPagesInv
        <5>4. i < PageLimit => ~After(r, Key(found[PageLimit]))
          <6>1. found[PageLimit] \in ListRows
            BY <1>3, <1>4, <5>1
          <6>2. Key(r) \in SortKeys /\ Key(found[PageLimit]) \in SortKeys
            BY <6>1, KeysFit DEF CursorPagesInv
          <6>3. i < PageLimit => After(found[PageLimit], Key(r))
            BY <1>4, <3>3, <5>1
          <6> QED BY <6>2, <6>3, AfterIsBeyond, BeyondIsStrict DEF CursorPagesInv
        <5> QED BY <1>4, <2>9, <4>1, <5>1, <5>2, <5>3, <5>4
      <4>2. CASE ~(n > PageLimit)
        BY <1>4, <1>7, <2>9, <4>2
      <4> QED BY <4>1, <4>2
    <3>5. CASE i <= L
      <4>1. walk'.shown[Len(walk.shown) + i] = r /\ Len(walk.shown) + i \in 1 .. Len(walk'.shown)
        BY <1>7, <1>9, <3>3, <3>5
      <4>2. \A j \in 1 .. Len(walk'.shown) : walk'.shown[j] = r => j = Len(walk.shown) + i
        <5> SUFFICES ASSUME NEW j \in 1 .. Len(walk'.shown), walk'.shown[j] = r
                     PROVE  j = Len(walk.shown) + i
          OBVIOUS
        <5>1. j > Len(walk.shown)
          BY <1>9, <3>2
        <5>2. j - Len(walk.shown) \in 1 .. L /\ j = Len(walk.shown) + (j - Len(walk.shown))
          BY <1>7, <1>9, <5>1
        <5>3. found[j - Len(walk.shown)] = r
          BY <1>9, <5>2
        <5>4. j - Len(walk.shown) \in 1 .. n
          BY <1>4, <1>7, <5>2
        <5>5. j - Len(walk.shown) = i
          BY <1>4, <3>3, <5>3, <5>4
        <5> QED BY <1>9, <5>2, <5>5
      <4> QED BY <1>9, <2>1, <3>1, <3>4, <3>5, <4>1, <4>2 DEF Exact
    <3>6. CASE ~(i <= L)
      <4>1. \A j \in 1 .. Len(walk'.shown) : walk'.shown[j] # r
        <5> SUFFICES ASSUME NEW j \in 1 .. Len(walk'.shown), walk'.shown[j] = r PROVE FALSE
          OBVIOUS
        <5>1. j > Len(walk.shown)
          BY <1>9, <3>2
        <5>2. j - Len(walk.shown) \in 1 .. L /\ j = Len(walk.shown) + (j - Len(walk.shown))
          BY <1>7, <1>9, <5>1
        <5>3. found[j - Len(walk.shown)] = r
          BY <1>9, <5>2
        <5>4. j - Len(walk.shown) \in 1 .. n
          BY <1>4, <1>7, <5>2
        <5>5. j - Len(walk.shown) = i
          BY <1>4, <3>3, <5>3, <5>4
        <5> HIDE DEF L
        <5> QED BY <3>6, <5>2, <5>5
      <4> QED BY <1>9, <2>1, <3>4, <3>6, <4>1 DEF Exact
    <3> QED BY <3>5, <3>6
  <2>4. CASE r \notin rows
    <3>1. \A j \in 1 .. L : walk'.shown[Len(walk.shown) + j] # r
      <4> HIDE DEF L
      <4>1. \A j \in 1 .. L : j \in 1 .. n
        BY <1>4, <1>7
      <4> QED BY <1>4, <1>9, <2>4, <4>1
    <3>2. \A j \in 1 .. Len(walk'.shown) :
             /\ walk'.shown[j] = r <=> j \in 1 .. Len(walk.shown) /\ walk.shown[j] = r
      <4> SUFFICES ASSUME NEW j \in 1 .. Len(walk'.shown)
                   PROVE  walk'.shown[j] = r <=> j \in 1 .. Len(walk.shown) /\ walk.shown[j] = r
        OBVIOUS
      <4>1. CASE j \in 1 .. Len(walk.shown)
        BY <1>9, <4>1
      <4>2. CASE j \notin 1 .. Len(walk.shown)
        <5>1. j - Len(walk.shown) \in 1 .. L /\ j = Len(walk.shown) + (j - Len(walk.shown))
          BY <1>7, <1>9, <4>2
        <5>2. walk'.shown[Len(walk.shown) + (j - Len(walk.shown))] # r
          BY <3>1, <5>1
        <5> QED BY <4>2, <5>1, <5>2
      <4> QED BY <4>1, <4>2
    <3>3. CASE r \in Within(walk.snapshot)
      <4>1. walk.after # <<>> /\ ~After(r, walk.after)
        BY <2>4, <3>3 DEF rows
      <4>2. Passed(r)
        BY <4>1 DEF Passed
      <4>3. Passed(r)'
        <5>1. CASE n > PageLimit
          <6>1. found[PageLimit] \in rows /\ found[PageLimit] \in ListRows
            BY <1>3, <1>4, <1>7, <5>1
          <6>2. After(found[PageLimit], walk.after)
            BY <4>1, <6>1 DEF rows
          <6>3. Key(r) \in SortKeys /\ Key(found[PageLimit]) \in SortKeys /\ walk.after \in SortKeys
            BY <1>2, <4>1, <6>1, KeysFit DEF CursorPagesInv
          <6>4. ~After(r, Key(found[PageLimit]))
            BY <4>1, <6>2, <6>3, AfterIsBeyond, BeyondIsStrict DEF CursorPagesInv
          <6> QED BY <2>9, <6>4
        <5>2. CASE ~(n > PageLimit)
          BY <1>4, <1>7, <2>9, <5>2
        <5> QED BY <5>1, <5>2
      <4>4. PICK i \in 1 .. Len(walk.shown) : \A j \in 1 .. Len(walk.shown) : walk.shown[j] = r <=> j = i
        <5>1. \E i \in DOMAIN walk.shown : \A j \in DOMAIN walk.shown : walk.shown[j] = r <=> j = i
          BY <1>11, <3>3, <4>2 DEF Exact
        <5>2. DOMAIN walk.shown = 1 .. Len(walk.shown)
          BY <1>9
        <5> QED BY <5>1, <5>2
      <4>5. i \in 1 .. Len(walk'.shown) /\ \A j \in 1 .. Len(walk'.shown) : walk'.shown[j] = r <=> j = i
        <5>1. Len(walk.shown) \in Nat /\ Len(walk'.shown) \in Nat /\ Len(walk.shown) <= Len(walk'.shown)
          BY <1>7, <1>9
        <5>2. i \in 1 .. Len(walk'.shown)
          BY <4>4, <5>1
        <5> QED BY <3>2, <4>4, <5>2
      <4>6. \E k \in DOMAIN walk'.shown : \A j \in DOMAIN walk'.shown : walk'.shown[j] = r <=> j = k
        <5>1. DOMAIN walk'.shown = 1 .. Len(walk'.shown)
          BY <1>9
        <5> QED BY <4>5, <5>1
      <4>7. (r \in Within(walk.snapshot))'
        BY <2>1, <3>3
      <4> QED BY <4>3, <4>6, <4>7 DEF Exact
    <3>4. CASE r \notin Within(walk.snapshot)
      BY <1>7, <1>9, <1>11, <2>1, <3>2, <3>4 DEF Exact
    <3> QED BY <3>3, <3>4
  <2> QED BY <2>3, <2>4
<1> QED BY <1>6, <1>10, <1>11

\* What a row is to the walk depends on that row.
LEMMA ExactStays ==
    ASSUME NEW r \in ListRows, UNCHANGED <<listing, walk>>, when'[r] = when[r], stars'[r] = stars[r],
           r \in hidden' <=> r \in hidden
    PROVE  /\ r \in Within(walk.snapshot)' <=> r \in Within(walk.snapshot)
           /\ Exact(r) => Exact(r)'
<1>1. r \in Within(walk.snapshot)' <=> r \in Within(walk.snapshot)
  BY DEF Within, Listed
<1>2. \A key : After(r, key)' <=> After(r, key)
  BY DEF After, Key, Order
<1>3. Passed(r)' <=> Passed(r)
  BY <1>2 DEF Passed
<1>4. ASSUME Exact(r) PROVE Exact(r)'
  <2>1. CASE r \in Within(walk.snapshot) /\ Passed(r)
    <3>1. \E i \in DOMAIN walk.shown : \A j \in DOMAIN walk.shown : walk.shown[j] = r <=> j = i
      BY <1>4, <2>1 DEF Exact
    <3> QED BY <1>1, <1>3, <2>1, <3>1 DEF Exact
  <2>2. CASE ~(r \in Within(walk.snapshot) /\ Passed(r))
    <3>1. \A j \in DOMAIN walk.shown : walk.shown[j] # r
      BY <1>4, <2>2 DEF Exact
    <3> QED BY <1>1, <1>3, <2>2, <3>1 DEF Exact
  <2> QED BY <2>1, <2>2
<1> QED BY <1>1, <1>4

\* A row that is written is no longer promised; the snapshot is, if the row is not of it.
LEMMA WritingFits ==
    ASSUME CursorPagesInv, TableShape', NEW r \in ListRows, Writing(r), stars' = stars,
           \A s \in ListRows \ {r} : when'[s] = when[s] /\ (s \in hidden' <=> s \in hidden)
    PROVE  WalkShape' /\ WalkFits'
<1>1. /\ walk.step = "walking" /\ writes' = writes + 1 /\ touched' = touched \cup {r}
      /\ UNCHANGED <<listing, nowIso, walk, page, known, starred>>
      /\ disturbed' = (disturbed \/ r \in Within(walk.snapshot) \cup Within(walk.snapshot)')
  BY DEF Writing
<1>2. WalkShape'
  <2>1. SortKeys' = SortKeys
    BY <1>1 DEF SortKeys, Order
  <2> QED BY <1>1, <2>1 DEF CursorPagesInv, WalkShape
<1>3. \A s \in ListRows \ {r} :
         /\ s \in Within(walk.snapshot)' <=> s \in Within(walk.snapshot)
         /\ Exact(s) => Exact(s)'
  BY <1>1, ExactStays
<1>4. \A s \in ListRows \ (touched' \cup starred') :
         Exact(s)' /\ ((s \in Within(walk.snapshot))' <=> s \in known')
  BY <1>1, <1>3 DEF CursorPagesInv, WalkFits
<1>5. ASSUME Untouched'
      PROVE  /\ \A s \in ListRows : Exact(s)'
             /\ Within(walk.snapshot)' = Within(walk.snapshot)
  <2>1. Untouched /\ r \notin Within(walk.snapshot) /\ r \notin Within(walk.snapshot)'
    BY <1>1, <1>5 DEF Untouched
  <2>2. \A s \in ListRows : Exact(s)
    BY <1>1, <2>1 DEF CursorPagesInv, WalkFits
  <2>3. \A j \in DOMAIN walk.shown : walk.shown[j] # r
    BY <2>1, <2>2 DEF Exact
  <2>4. Exact(r)'
    BY <1>1, <2>1, <2>3 DEF Exact
  <2>5. Within(walk.snapshot)' \subseteq ListRows /\ Within(walk.snapshot) \subseteq ListRows
    BY DEF Within, Listed
  <2> QED BY <1>3, <2>1, <2>2, <2>4, <2>5
<1>6. Untouched' => Total' = Total
  BY <1>5 DEF Total
<1>7. ASSUME Untouched' PROVE (walk.total # 0 => walk.total = 1 + Total)' /\ (page.count # 0 => page.count = 1 + Total)'
  <2>1. Untouched
    BY <1>1, <1>7 DEF Untouched
  <2>2. (walk.total # 0 => walk.total = 1 + Total) /\ (page.count # 0 => page.count = 1 + Total)
    BY <1>1, <2>1 DEF CursorPagesInv, WalkFits
  <2> QED BY <1>1, <1>6, <1>7, <2>2
<1>8. WalkFits'
  BY <1>4, <1>5, <1>7 DEF WalkFits
<1> QED BY <1>2, <1>8

\* One save more or less that has read its instant and not written yet.
LEMMA SavingsCount ==
    ASSUME TableShape, NEW r \in ListRows
    PROVE  LET S == {s \in ListRows : saving[s] # 0} IN
           /\ IsFiniteSet(S) /\ Cardinality(S) \in Nat
           /\ Cardinality(S \cup {r}) = IF r \in S THEN Cardinality(S) ELSE Cardinality(S) + 1
           /\ Cardinality(S \ {r}) = IF r \in S THEN Cardinality(S) - 1 ELSE Cardinality(S)
<1> DEFINE S == {s \in ListRows : saving[s] # 0}
<1>1. IsFiniteSet(S) /\ Cardinality(S) \in Nat
  <2>1. S \in SUBSET ListRows
    OBVIOUS
  <2> HIDE DEF S
  <2> QED BY <2>1, RowsAreFinite
<1> HIDE DEF S
<1>2. /\ Cardinality(S \cup {r}) = IF r \in S THEN Cardinality(S) ELSE Cardinality(S) + 1
      /\ Cardinality(S \ {r}) = IF r \in S THEN Cardinality(S) - 1 ELSE Cardinality(S)
  BY <1>1, FS_AddElement, FS_RemoveElement
<1> QED BY <1>1, <1>2 DEF S

\* A write that has not been saved before: the bound on writes.
LEMMA WritesCount ==
    ASSUME CursorPagesInv, Begun < MaxWrites, writes' = writes + 1, saving' = saving
    PROVE  WritesFit'
<1>1. Cardinality({s \in ListRows : saving[s] # 0}) \in Nat
  <2>1. {s \in ListRows : saving[s] # 0} \in SUBSET ListRows
    OBVIOUS
  <2> QED BY <2>1, RowsAreFinite
<1> DEFINE c == Cardinality({s \in ListRows : saving[s] # 0})
<1>2. Begun = writes + c /\ Begun' = writes + 1 + c
  BY DEF Begun
<1> HIDE DEF c
<1>3. c \in Nat /\ writes \in Nat /\ MaxWrites \in Nat
  BY <1>1, CursorPagesAssumption DEF c, CursorPagesInv, WritesFit
<1>4. writes + 1 \in Nat /\ writes + 1 + c <= MaxWrites
  BY <1>2, <1>3
<1> QED BY <1>2, <1>4 DEF WritesFit

\* Neither the rows nor the order change.
LEMMA WalkStays ==
    ASSUME CursorPagesInv, UNCHANGED <<listing, when, stars, hidden, walk, known, touched, starred, disturbed>>,
           page' = page \/ page'.count = 0
    PROVE  WalkFits'
<1>1. \A s \in ListRows : /\ s \in Within(walk.snapshot)' <=> s \in Within(walk.snapshot)
                          /\ Exact(s) => Exact(s)'
  BY ExactStays
<1>2. Total' = Total
  BY DEF Total, Within, Listed
<1>3. Untouched' <=> Untouched
  BY DEF Untouched
<1> QED BY <1>1, <1>2, <1>3 DEF CursorPagesInv, WalkFits

\* Every step, of the walk and beside it.
LEMMA CursorPagesStep ==
    ASSUME CursorPagesInv, [CursorPagesNext]_pVars
    PROVE  CursorPagesInv'
<1> USE DEF CursorPagesInv
<1>1. ASSUME NEW consistent \in BOOLEAN, NEW wanted \in BOOLEAN, Opens(consistent, wanted)
      PROVE  CursorPagesInv'
  <2>1. /\ walk = NoWalk /\ page = NoPage
        /\ walk' = [step |-> "walking", after |-> <<>>, total |-> 0, shown |-> <<>>,
                    snapshot |-> IF consistent /\ listing # "users" THEN nowIso ELSE 0]
        /\ page' = [step |-> IF wanted THEN "count" ELSE "select", count |-> 0]
        /\ known' = Listed /\ touched' = {} /\ disturbed' = FALSE /\ starred' = {}
        /\ UNCHANGED <<listing, nowIso, when, stars, hidden, saving, writes>>
    BY <1>1 DEF Opens, pTable
  <2>2. TableShape' /\ WritesFit'
    BY <2>1 DEF TableShape, WritesFit, Begun
  <2>3. WalkShape'
    <3>1. walk'.snapshot \in 0 .. nowIso
      BY <2>1 DEF TableShape
    <3> QED BY <2>1, <3>1 DEF WalkShape, IsWalk
  <2>4. \A r \in ListRows : Exact(r)' /\ ((r \in Within(walk.snapshot))' <=> r \in known')
    <3> TAKE r \in ListRows
    <3>1. when[r] <= nowIso /\ when[r] \in Nat /\ nowIso \in Nat
      BY DEF TableShape
    <3>2. ~Passed(r)' /\ walk'.shown = <<>>
      BY <2>1 DEF Passed
    <3>3. Exact(r)'
      BY <3>2 DEF Exact
    <3> QED BY <2>1, <3>1, <3>3 DEF Within, Listed
  <2>5. WalkFits'
    BY <2>1, <2>4 DEF WalkFits
  <2> QED BY <2>2, <2>3, <2>5
<1>2. ASSUME NEW wanted \in BOOLEAN, Follows(wanted) PROVE CursorPagesInv'
  <2>1. /\ walk.step = "walking" /\ page' = [step |-> IF wanted THEN "count" ELSE "select", count |-> 0]
        /\ UNCHANGED <<listing, nowIso, when, stars, hidden, saving, walk, writes, known, touched, disturbed, starred>>
    BY <1>2 DEF Follows, pTable, pHistory
  <2>2. TableShape' /\ WritesFit'
    BY <2>1 DEF TableShape, WritesFit, Begun
  <2>3. WalkShape'
    <3>1. SortKeys' = SortKeys
      BY <2>1 DEF SortKeys, Order
    <3> QED BY <2>1, <3>1 DEF WalkShape
  <2> QED BY <2>1, <2>2, <2>3, WalkStays
<1>3. CASE Counts
  <2>1. /\ page.step = "count" /\ page' = [step |-> "select", count |-> IF walk.total # 0 THEN walk.total ELSE 1 + Total]
        /\ UNCHANGED <<listing, nowIso, when, stars, hidden, saving, walk, writes, known, touched, disturbed, starred>>
    BY <1>3 DEF Counts, pTable, pHistory
  <2>2. TableShape' /\ WritesFit'
    BY <2>1 DEF TableShape, WritesFit, Begun
  <2>3. Total \in Nat
    <3>1. Within(walk.snapshot) \in SUBSET ListRows
      BY DEF Within, Listed
    <3> QED BY <3>1, RowsAreFinite DEF Total
  <2>4. walk.step = "walking" /\ walk.total \in Nat
    <3>1. walk.step = "walking"
      BY <2>1 DEF WalkShape
    <3> QED BY <3>1 DEF WalkShape, NoWalk
  <2>5. WalkShape'
    <3>1. SortKeys' = SortKeys
      BY <2>1 DEF SortKeys, Order
    <3> QED BY <2>1, <2>3, <2>4, <3>1 DEF WalkShape
  <2>6. WalkFits'
    <3>1. \A s \in ListRows : /\ s \in Within(walk.snapshot)' <=> s \in Within(walk.snapshot)
                              /\ Exact(s) => Exact(s)'
      BY <2>1, ExactStays
    <3>2. Total' = Total
      BY <2>1 DEF Total, Within, Listed
    <3>3. Untouched' <=> Untouched
      BY <2>1 DEF Untouched
    <3>4. Untouched => page'.count = 1 + Total
      BY <2>1, <2>4 DEF WalkFits
    <3> QED BY <2>1, <3>1, <3>2, <3>3, <3>4 DEF WalkFits
  <2> QED BY <2>2, <2>5, <2>6
<1>4. CASE Selects
  <2>1. /\ page' = NoPage
        /\ UNCHANGED <<listing, nowIso, when, stars, hidden, saving, writes, known, touched, disturbed, starred>>
    BY <1>4 DEF Selects, pTable, pHistory
  <2>2. TableShape' /\ WritesFit'
    BY <2>1 DEF TableShape, WritesFit, Begun
  <2>3. /\ WalkShape'
        /\ walk'.step # "none" /\ walk'.snapshot = walk.snapshot
        /\ walk'.total = IF page.count # 0 THEN page.count ELSE walk.total
        /\ \A r \in ListRows : Exact(r) => Exact(r)'
    BY <1>4, SelectsFits
  <2>4. walk.step # "none"
    BY <1>4 DEF Selects, WalkShape
  <2>5. Within(walk.snapshot)' = Within(walk.snapshot) /\ Total' = Total /\ (Untouched' <=> Untouched)
    BY <2>1, <2>3 DEF Within, Listed, Total, Untouched
  <2>6. page'.count = 0
    BY <2>1 DEF NoPage
  <2>7. WalkFits'
    BY <2>1, <2>3, <2>4, <2>5, <2>6 DEF WalkFits
  <2> QED BY <2>2, <2>3, <2>7
<1>5. CASE NoAnswer
  <2>1. /\ page # NoPage /\ page' = NoPage /\ walk' = IF walk.after = <<>> THEN NoWalk ELSE walk
        /\ UNCHANGED <<listing, nowIso, when, stars, hidden, saving, writes, known, touched, disturbed, starred>>
    BY <1>5 DEF NoAnswer, pTable, pHistory
  <2>2. TableShape' /\ WritesFit'
    BY <2>1 DEF TableShape, WritesFit, Begun
  <2>3. WalkShape'
    <3>1. SortKeys' = SortKeys
      BY <2>1 DEF SortKeys, Order
    <3> QED BY <2>1, <3>1 DEF WalkShape, NoPage
  <2>4. WalkFits'
    <3>1. CASE walk' = NoWalk
      BY <3>1 DEF WalkFits, NoWalk
    <3>2. CASE walk' = walk
      BY <2>1, <3>2, WalkStays DEF NoPage
    <3> QED BY <2>1, <3>1, <3>2
  <2> QED BY <2>2, <2>3, <2>4
<1>6. CASE CursorExpires
  <2>1. /\ walk.step = "walking" /\ page = NoPage /\ walk' = [walk EXCEPT !.step = "expired"]
        /\ UNCHANGED <<listing, nowIso, when, stars, hidden, saving, page, writes, known, touched, disturbed, starred>>
    BY <1>6 DEF CursorExpires, pTable, pHistory
  <2>2. TableShape' /\ WritesFit'
    BY <2>1 DEF TableShape, WritesFit, Begun
  <2>3. walk # NoWalk /\ IsWalk(walk)
    BY <2>1 DEF WalkShape, NoWalk
  <2>4. /\ walk'.step = "expired" /\ walk'.after = walk.after /\ walk'.total = walk.total
        /\ walk'.shown = walk.shown /\ walk'.snapshot = walk.snapshot /\ IsWalk(walk')
    BY <2>1, <2>3 DEF IsWalk
  <2>5. WalkShape'
    <3>1. SortKeys' = SortKeys
      BY <2>1 DEF SortKeys, Order
    <3> QED BY <2>1, <2>3, <2>4, <3>1 DEF WalkShape, NoPage
  <2>6. ASSUME NEW r \in ListRows, Exact(r) PROVE Exact(r)'
    <3>1. (r \in Within(walk.snapshot))' <=> r \in Within(walk.snapshot)
      BY <2>1, <2>4 DEF Within, Listed
    <3>2. \A key : After(r, key)' <=> After(r, key)
      BY <2>1 DEF After, Key, Order
    <3>3. Passed(r)' <=> Passed(r)
      BY <2>1, <2>4, <3>2 DEF Passed
    <3>4. CASE r \in Within(walk.snapshot) /\ Passed(r)
      <4>1. \E i \in DOMAIN walk.shown : \A j \in DOMAIN walk.shown : walk.shown[j] = r <=> j = i
        BY <2>6, <3>4 DEF Exact
      <4> QED BY <2>4, <3>1, <3>3, <3>4, <4>1 DEF Exact
    <3>5. CASE ~(r \in Within(walk.snapshot) /\ Passed(r))
      <4>1. \A j \in DOMAIN walk.shown : walk.shown[j] # r
        BY <2>6, <3>5 DEF Exact
      <4> QED BY <2>4, <3>1, <3>3, <3>5, <4>1 DEF Exact
    <3> QED BY <3>4, <3>5
  <2>7. Within(walk.snapshot)' = Within(walk.snapshot) /\ Total' = Total /\ (Untouched' <=> Untouched)
    BY <2>1, <2>4 DEF Within, Listed, Total, Untouched
  <2>8. WalkFits'
    BY <2>1, <2>4, <2>6, <2>7 DEF WalkFits
  <2> QED BY <2>2, <2>5, <2>8
<1>7. ASSUME NEW r \in ListRows, Stamps(r) PROVE CursorPagesInv'
  <2>1. /\ saving[r] = 0 /\ Begun < MaxWrites /\ saving' = [saving EXCEPT ![r] = nowIso]
        /\ UNCHANGED <<listing, nowIso, when, stars, hidden, walk, page, writes, known, touched, disturbed, starred>>
    BY <1>7 DEF Stamps, pHistory
  <2>2. TableShape'
    BY <2>1 DEF TableShape
  <2>3. WalkShape'
    <3>1. SortKeys' = SortKeys
      BY <2>1 DEF SortKeys, Order
    <3> QED BY <2>1, <3>1 DEF WalkShape
  <2>4. WritesFit'
    <3> DEFINE S == {s \in ListRows : saving[s] # 0}
    <3>1. {s \in ListRows : saving'[s] # 0} = S \cup {r}
      BY <2>1 DEF TableShape
    <3>2. Cardinality(S) \in Nat /\ Cardinality(S \cup {r}) <= Cardinality(S) + 1 /\ Cardinality(S \cup {r}) \in Nat
      <4> HIDE DEF S
      <4>1. S \in SUBSET ListRows
        BY DEF S
      <4>2. IsFiniteSet(S)
        BY <4>1, RowsAreFinite
      <4> QED BY <4>2, FS_AddElement, FS_CardinalityType
    <3>3. Begun = writes + Cardinality(S) /\ Begun' = writes + Cardinality(S \cup {r})
      BY <2>1, <3>1 DEF Begun
    <3> HIDE DEF S
    <3>4. writes \in Nat /\ MaxWrites \in Nat
      BY CursorPagesAssumption DEF WritesFit
    <3> QED BY <2>1, <3>2, <3>3, <3>4 DEF WritesFit
  <2> QED BY <2>1, <2>2, <2>3, <2>4, WalkStays
<1>8. ASSUME NEW r \in ListRows, SaveArrives(r) PROVE CursorPagesInv'
  <2>1. /\ saving[r] # 0 /\ saving' = [saving EXCEPT ![r] = 0]
        /\ when' = [when EXCEPT ![r] = IF when[r] # 0 /\ listing \in {"knowledge", "users"} THEN when[r] ELSE saving[r]]
        /\ UNCHANGED <<stars, hidden, listing, nowIso>> /\ writes' = writes + 1 /\ Writing(r)
    BY <1>8 DEF SaveArrives, Writing
  <2>2. TableShape'
    BY <2>1 DEF TableShape
  <2>3. WalkShape' /\ WalkFits'
    BY <2>1, <2>2, WritingFits DEF TableShape
  <2>4. WritesFit'
    <3> DEFINE S == {s \in ListRows : saving[s] # 0}
    <3>1. {s \in ListRows : saving'[s] # 0} = S \ {r}
      BY <2>1 DEF TableShape
    <3>2. Cardinality(S) \in Nat /\ Cardinality(S \ {r}) = Cardinality(S) - 1
      BY <2>1, SavingsCount
    <3>3. Begun = writes + Cardinality(S) /\ Begun' = writes + 1 + Cardinality(S \ {r})
      BY <2>1, <3>1 DEF Begun
    <3> HIDE DEF S
    <3>4. writes \in Nat /\ MaxWrites \in Nat
      BY CursorPagesAssumption DEF WritesFit
    <3> QED BY <2>1, <3>2, <3>3, <3>4 DEF WritesFit
  <2> QED BY <2>2, <2>3, <2>4
<1>9. ASSUME NEW r \in ListRows, DeletesRow(r) PROVE CursorPagesInv'
  <2>1. /\ Begun < MaxWrites /\ when' = [when EXCEPT ![r] = 0]
        /\ UNCHANGED <<stars, hidden, saving, listing, nowIso>> /\ writes' = writes + 1 /\ Writing(r)
    BY <1>9 DEF DeletesRow, Writing
  <2>2. TableShape'
    BY <2>1 DEF TableShape
  <2>3. WalkShape' /\ WalkFits'
    BY <2>1, <2>2, WritingFits DEF TableShape
  <2> QED BY <2>1, <2>2, <2>3, WritesCount
<1>10. ASSUME NEW r \in ListRows, Filtered(r) PROVE CursorPagesInv'
  <2>1. /\ Begun < MaxWrites /\ hidden' = IF r \in hidden THEN hidden \ {r} ELSE hidden \cup {r}
        /\ UNCHANGED <<when, stars, saving, listing, nowIso>> /\ writes' = writes + 1 /\ Writing(r)
    BY <1>10 DEF Filtered, Writing
  <2>2. TableShape'
    BY <2>1 DEF TableShape
  <2>3. WalkShape' /\ WalkFits'
    BY <2>1, <2>2, WritingFits DEF TableShape
  <2> QED BY <2>1, <2>2, <2>3, WritesCount
<1>11. ASSUME NEW r \in ListRows, Stars(r) PROVE CursorPagesInv'
  <2>1. /\ Begun < MaxWrites /\ stars' = [stars EXCEPT ![r] = 1 - stars[r]] /\ starred' = starred \cup {r}
        /\ writes' = writes + 1
        /\ UNCHANGED <<listing, nowIso, when, hidden, saving, walk, page, known, touched, disturbed>>
    BY <1>11 DEF Stars
  <2>2. TableShape'
    BY <2>1 DEF TableShape
  <2>3. WalkShape'
    <3>1. SortKeys' = SortKeys
      BY <2>1 DEF SortKeys, Order
    <3> QED BY <2>1, <3>1 DEF WalkShape
  <2>4. WalkFits'
    <3>1. \A s \in ListRows \ {r} :
             /\ s \in Within(walk.snapshot)' <=> s \in Within(walk.snapshot)
             /\ Exact(s) => Exact(s)'
      BY <2>1, ExactStays DEF TableShape
    <3>2. ~Untouched'
      BY <2>1 DEF Untouched
    <3> QED BY <2>1, <3>1, <3>2 DEF WalkFits
  <2> QED BY <2>1, <2>2, <2>3, <2>4, WritesCount
<1>12. CASE TimePasses
  <2>1. /\ nowIso' = nowIso + 1
        /\ UNCHANGED <<listing, when, stars, hidden, saving, walk, page, writes, known, touched, disturbed, starred>>
    BY <1>12 DEF TimePasses, pTable, pHistory
  <2>2. TableShape'
    <3>1. \A r \in ListRows : when[r] \in 0 .. nowIso + 1 /\ saving[r] \in 0 .. nowIso + 1
      BY DEF TableShape
    <3> QED BY <2>1, <3>1 DEF TableShape
  <2>3. WalkShape'
    <3>1. SortKeys' = SortKeys
      BY <2>1 DEF SortKeys, Order
    <3> QED BY <2>1, <3>1 DEF WalkShape, TableShape
  <2> QED BY <2>1, <2>2, <2>3, WalkStays DEF WritesFit, Begun
<1>13. CASE UNCHANGED pVars
  <2>1. UNCHANGED <<listing, nowIso, when, stars, hidden, saving, walk, page, writes, known, touched, disturbed, starred>>
    BY <1>13 DEF pVars
  <2>2. SortKeys' = SortKeys
    BY <2>1 DEF SortKeys, Order
  <2> QED BY <2>1, <2>2, WalkStays DEF TableShape, WalkShape, WritesFit, Begun
<1> HIDE DEF CursorPagesInv
<1> QED BY <1>1, <1>2, <1>3, <1>4, <1>5, <1>6, <1>7, <1>8, <1>9, <1>10, <1>11, <1>12, <1>13 DEF CursorPagesNext

\* The table keeps its columns and a walk its shape, a row that rests was shown once if the cursor has
\* passed it and not at all otherwise, and the total is that of a snapshot nobody has disturbed.
THEOREM CursorPagesInvHolds == CursorPagesSpec => []CursorPagesInv
<1>1. CursorPagesInv /\ [CursorPagesNext]_pVars => CursorPagesInv'
  BY CursorPagesStep
<1> QED BY <1>1, CursorPagesStarts, PTL DEF CursorPagesSpec

\* However pages, saves, deletions, filters and stars interleave, a walk from cursor to cursor
\* (fetch_cursor_page, fetch_composite_cursor_page) shows every row that rests once, and a total it was
\* given is the number of rows it shows: for any rows, any size of a page and any number of writes.
THEOREM WalksAreExact == CursorPagesSpec => []PagesAreExact
<1>1. CursorPagesInv => PagesAreExact
  <2> SUFFICES ASSUME CursorPagesInv PROVE PagesAreExact
    OBVIOUS
  <2>1. WalkIsExact
    <3> SUFFICES ASSUME walk.step # "none", NEW r \in ListRows \ (touched \cup starred)
                 PROVE  TimesShown(r) <= 1 /\ (walk.step = "over" => (TimesShown(r) = 1 <=> r \in known))
      BY DEF WalkIsExact, ShownOnce
    <3> DEFINE at == {i \in DOMAIN walk.shown : walk.shown[i] = r}
    <3>1. Exact(r) /\ (r \in Within(walk.snapshot) <=> r \in known)
      BY DEF CursorPagesInv, WalkFits
    <3>2. TimesShown(r) = Cardinality(at)
      BY DEF TimesShown
    <3>3. CASE r \in Within(walk.snapshot) /\ Passed(r)
      <4>1. PICK i \in DOMAIN walk.shown : \A j \in DOMAIN walk.shown : walk.shown[j] = r <=> j = i
        BY <3>1, <3>3 DEF Exact
      <4>2. at = {i}
        BY <4>1
      <4>3. TimesShown(r) = 1
        <5> HIDE DEF at
        <5> QED BY <3>2, <4>2, FS_Singleton
      <4> QED BY <3>1, <3>3, <4>3
    <3>4. CASE ~(r \in Within(walk.snapshot) /\ Passed(r))
      <4>1. at = {}
        BY <3>1, <3>4 DEF Exact
      <4>2. TimesShown(r) = 0
        <5> HIDE DEF at
        <5> QED BY <3>2, <4>1, FS_EmptySet
      <4>3. walk.step = "over" => r \notin known
        BY <3>1, <3>4 DEF Passed
      <4> QED BY <4>2, <4>3
    <3> QED BY <3>3, <3>4
  <2>2. TotalIsExact
    <3> SUFFICES ASSUME walk.step = "over", walk.snapshot # 0, walk.total # 0, ~disturbed, starred = {}
                 PROVE  walk.total = 1 + Len(walk.shown)
      BY DEF TotalIsExact
    <3>1. (\A r \in ListRows : Exact(r)) /\ walk.total = 1 + Total
      BY DEF CursorPagesInv, WalkFits, Untouched
    <3>2. walk.shown \in Seq(ListRows)
      BY DEF CursorPagesInv, WalkShape, NoWalk
    <3> DEFINE n == Len(walk.shown)
               W == Within(walk.snapshot)
    <3>3. n \in Nat /\ walk.shown \in [1 .. n -> ListRows]
      BY <3>2
    <3>4. W \in SUBSET ListRows
      BY DEF Within, Listed
    <3>5. \A r \in W : \E i \in 1 .. n : \A j \in 1 .. n : walk.shown[j] = r <=> j = i
      <4> TAKE r \in W
      <4>1. r \in Within(walk.snapshot) /\ Passed(r) /\ Exact(r)
        BY <3>1, <3>4 DEF Passed
      <4>2. \E i \in DOMAIN walk.shown : \A j \in DOMAIN walk.shown : walk.shown[j] = r <=> j = i
        BY <4>1 DEF Exact
      <4>3. DOMAIN walk.shown = 1 .. n
        BY <3>3
      <4> HIDE DEF n
      <4> QED BY <4>2, <4>3
    <3>6. \A j \in 1 .. n : walk.shown[j] \in W
      <4> SUFFICES ASSUME NEW j \in 1 .. n, walk.shown[j] \notin W PROVE FALSE
        OBVIOUS
      <4> DEFINE r == walk.shown[j]
      <4>1. r \in ListRows /\ Exact(r) /\ r \notin Within(walk.snapshot)
        BY <3>1, <3>3
      <4>2. \A i \in DOMAIN walk.shown : walk.shown[i] # r
        <5> HIDE DEF r, W
        <5> QED BY <4>1 DEF Exact
      <4>3. j \in DOMAIN walk.shown
        BY <3>3
      <4> QED BY <4>2, <4>3
    <3> HIDE DEF W, n
    <3>7. walk.shown \in Injection(1 .. n, W)
      <4>1. walk.shown \in [1 .. n -> W]
        BY <3>3, <3>6
      <4>2. \A i, j \in 1 .. n : walk.shown[i] = walk.shown[j] => i = j
        BY <3>5, <3>6
      <4> QED BY <4>1, <4>2, Fun_IsInj
    <3>8. walk.shown \in Surjection(1 .. n, W)
      <4>1. walk.shown \in [1 .. n -> W] /\ \A r \in W : \E i \in 1 .. n : walk.shown[i] = r
        BY <3>3, <3>5, <3>6
      <4> QED BY <4>1, Fun_IsSurj
    <3>9. Cardinality(W) = n
      <4>1. IsFiniteSet(1 .. n) /\ Cardinality(1 .. n) = n
        BY <3>3, FS_Interval
      <4> QED BY <3>7, <3>8, <4>1, FS_Surjection
    <3> QED BY <3>1, <3>9 DEF W, n, Total
  <2> QED BY <2>1, <2>2 DEF PagesAreExact
<1> QED BY <1>1, CursorPagesInvHolds, PTL

LEMMA CursorPagesHasType == CursorPagesInv => CursorPagesTypeOK
<1> SUFFICES ASSUME CursorPagesInv PROVE CursorPagesTypeOK
  OBVIOUS
<1>1. writes \in 0 .. MaxWrites
  <2> DEFINE S == {s \in ListRows : saving[s] # 0}
  <2>1. S \in SUBSET ListRows
    OBVIOUS
  <2>2. Begun = writes + Cardinality(S)
    BY DEF Begun
  <2> HIDE DEF S
  <2>3. Cardinality(S) \in Nat
    BY <2>1, RowsAreFinite
  <2> QED BY <2>2, <2>3, CursorPagesAssumption DEF CursorPagesInv, WritesFit
<1>2. /\ listing \in Listings /\ nowIso \in Nat /\ when \in [ListRows -> 0 .. nowIso]
      /\ stars \in [ListRows -> 0 .. 1] /\ hidden \subseteq ListRows /\ saving \in [ListRows -> 0 .. nowIso]
  BY DEF CursorPagesInv, TableShape
<1>3. page.step \in {"none", "count", "select"}
  BY DEF CursorPagesInv, WalkShape
<1>4. /\ walk.step \in {"none", "walking", "over", "expired"}
      /\ walk.step # "none" => walk.snapshot <= nowIso /\ walk.shown \in Seq(ListRows)
  BY <1>2 DEF CursorPagesInv, WalkShape, NoWalk
<1> QED BY <1>1, <1>2, <1>3, <1>4 DEF CursorPagesTypeOK

\* The columns of the rows, the page being served and the cursor keep their types (CursorPages).
THEOREM CursorPagesTypeCorrect == CursorPagesSpec => []CursorPagesTypeOK
<1> QED BY CursorPagesHasType, CursorPagesInvHolds, PTL
====
