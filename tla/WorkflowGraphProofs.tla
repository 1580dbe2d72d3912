---- MODULE WorkflowGraphProofs ----
(***************************************************************************)
(* Proofs about what a run of a workflow executes (WorkflowGraph).  Graphs:  *)
(* what _reachable and execution_order compute.  Definitions: every node    *)
(* has one place in the order and belongs to at most one loop, and leads to *)
(* the end of its loop inside the loop.  Rounds: the results of a round are *)
(* the same in any order, and a loop starts again as a whole.  So a run is  *)
(* as its definition is drawn, for any number of nodes and of loops.        *)
(***************************************************************************)
EXTENDS WorkflowGraph, FiniteSetTheorems, FunctionTheorems, WellFoundedInduction, TLAPS

-----------------------------------------------------------------------------
(* Numbers, recursion and sorting. *)

\* Nat is well-founded.
LEMMA LeastOf ==
    ASSUME NEW T \in SUBSET Nat, T # {}
    PROVE  \E x \in T : \A y \in T : x <= y
<1> DEFINE R == {p \in Nat \X Nat : p[1] < p[2]}
<1>1. PICK x \in T : \A y \in T : <<y, x>> \notin R
  <2>1. IsWellFoundedOn(R, Nat)
    BY NatLessThanWellFounded DEF OpToRel
  <2> HIDE DEF R
  <2> QED BY <2>1, WFMin
<1>2. \A y \in T : ~(y < x)
  BY <1>1
<1> QED BY <1>2

\* A set of nodes has a last one.
LEMMA GreatestOf ==
    ASSUME NEW T \in SUBSET Steps, T # {}
    PROVE  \E x \in T : \A y \in T : y <= x
<1> DEFINE D == {d \in Nat : NSteps - d \in T}
<1>0. NSteps \in Nat /\ \A x \in T : x \in 1 .. NSteps
  BY WorkflowGraphAssumption DEF Steps
<1>1. D \in SUBSET Nat /\ D # {}
  <2>1. PICK x \in T : TRUE
    OBVIOUS
  <2>2. NSteps - x \in Nat /\ NSteps - (NSteps - x) = x
    BY <1>0, <2>1
  <2> QED BY <2>1, <2>2
<1> HIDE DEF D
<1>2. PICK d \in D : \A y \in D : d <= y
  BY <1>1, LeastOf
<1>3. d \in Nat /\ NSteps - d \in T
  BY <1>2 DEF D
<1>4. ASSUME NEW y \in T PROVE y <= NSteps - d
  <2>1. y \in Nat /\ NSteps - y \in Nat /\ NSteps - (NSteps - y) = y
    BY <1>0
  <2>2. NSteps - y \in D
    BY <2>1 DEF D
  <2> QED BY <1>0, <1>2, <1>3, <2>1, <2>2
<1> QED BY <1>3, <1>4

\* f is what is computed step by step from 0 to m.
Computes(f, m, S, x, F) ==
    f \in [0 .. m -> S] /\ f[0] = x /\ \A k \in 1 .. m : f[k] = F[<<k, f[k - 1]>>]

\* What is computed step by step from 0 to N can be computed.
LEMMA RecursionExists ==
    ASSUME NEW S, NEW x \in S, NEW N \in Nat, NEW F \in [(1 .. N) \X S -> S]
    PROVE  \E f : Computes(f, N, S, x, F)
<1> DEFINE T == {m \in 0 .. N : ~\E f : Computes(f, m, S, x, F)}
<1>1. T = {}
  <2> SUFFICES ASSUME T # {} PROVE FALSE
    OBVIOUS
  <2>1. PICK m \in T : \A y \in T : m <= y
    <3> HIDE DEF T
    <3>1. T \in SUBSET Nat
      BY DEF T
    <3> QED BY <3>1, LeastOf
  <2>2. m # 0
    <3>1. Computes([k \in 0 .. 0 |-> x], 0, S, x, F)
      BY DEF Computes
    <3> QED BY <3>1
  <2>3. m \in 1 .. N /\ m - 1 \in 0 .. N /\ m - 1 \notin T
    BY <2>1, <2>2
  <2>4. PICK f : Computes(f, m - 1, S, x, F)
    BY <2>3
  <2> DEFINE g == [k \in 0 .. m |-> IF k = m THEN F[<<m, f[m - 1]>>] ELSE f[k]]
  <2>5. f[m - 1] \in S /\ F[<<m, f[m - 1]>>] \in S
    <3>1. f[m - 1] \in S
      BY <2>3, <2>4 DEF Computes
    <3> QED BY <2>3, <3>1
  <2>6. g \in [0 .. m -> S] /\ g[0] = x
    BY <2>3, <2>4, <2>5 DEF Computes
  <2>7. ASSUME NEW k \in 1 .. m PROVE g[k] = F[<<k, g[k - 1]>>]
    <3>1. k - 1 \in 0 .. m /\ k - 1 # m /\ g[k - 1] = f[k - 1]
      BY <2>3
    <3>2. CASE k = m
      BY <3>1, <3>2
    <3>3. CASE k # m
      <4>1. k \in 1 .. m - 1 /\ g[k] = f[k]
        BY <2>3, <3>3
      <4>2. f[k] = F[<<k, f[k - 1]>>]
        BY <2>4, <4>1 DEF Computes
      <4> QED BY <3>1, <4>1, <4>2
    <3> QED BY <3>2, <3>3
  <2>8. Computes(g, m, S, x, F)
    <3> HIDE DEF g
    <3> QED BY <2>6, <2>7 DEF Computes
  <2> QED BY <2>1, <2>8
<1> QED BY <1>1

LEMMA StepsAreFinite ==
    ASSUME NEW S \in SUBSET Steps
    PROVE  IsFiniteSet(S) /\ Cardinality(S) \in Nat /\ Cardinality(S) <= NSteps
<1>1. NSteps \in Nat /\ IsFiniteSet(Steps) /\ Cardinality(Steps) = NSteps
  BY WorkflowGraphAssumption, FS_Interval DEF Steps
<1> QED BY <1>1, FS_Subset, FS_CardinalityType

Sorted(s, S) ==
    /\ s \in Bijection(1 .. Cardinality(S), S)
    /\ \A i, j \in DOMAIN s : i < j => s[i] < s[j]

\* A set of nodes can be put in order.
LEMMA NodesCanBeSorted ==
    ASSUME NEW S \in SUBSET Steps
    PROVE  \E s : Sorted(s, S)
<1> DEFINE T == {n \in Nat : \E U \in SUBSET Steps : Cardinality(U) = n /\ ~\E s : Sorted(s, U)}
<1>1. \A U \in SUBSET Steps : IsFiniteSet(U) /\ Cardinality(U) \in Nat
  BY StepsAreFinite
<1> SUFFICES ASSUME T # {} PROVE FALSE
  BY <1>1
<1>2. PICK n \in T : \A k \in T : n <= k
  <2> HIDE DEF T
  <2>1. T \in SUBSET Nat
    BY DEF T
  <2> QED BY <2>1, LeastOf
<1>3. PICK U \in SUBSET Steps : Cardinality(U) = n /\ ~\E s : Sorted(s, U)
  BY <1>2
<1>4. U # {}
  <2> SUFFICES ASSUME U = {} PROVE \E s : Sorted(s, U)
    BY <1>3
  <2> DEFINE e == [i \in {} |-> i]
  <2>1. 1 .. Cardinality(U) = {}
    BY FS_EmptySet
  <2>2. e \in [1 .. Cardinality(U) -> U] /\ \A i, j \in 1 .. Cardinality(U) : e[i] = e[j] => i = j
    BY <2>1
  <2>3. e \in Bijection(1 .. Cardinality(U), U)
    BY <2>1, <2>2 DEF Bijection, Injection, Surjection, IsInjective
  <2> QED BY <2>3 DEF Sorted
<1>5. PICK m \in U : \A r \in U : r <= m
  BY <1>4, GreatestOf
<1> DEFINE V == U \ {m}
<1>6. Cardinality(V) = n - 1 /\ n - 1 \in Nat /\ V \in SUBSET Steps
  <2>1. Cardinality(V) = Cardinality(U) - 1
    BY <1>1, <1>5, FS_RemoveElement
  <2>2. Cardinality(V) \in Nat
    BY <1>1
  <2> QED BY <1>3, <2>1, <2>2
<1>7. PICK s : Sorted(s, V)
  <2>1. Cardinality(V) \notin T
    BY <1>2, <1>6
  <2> HIDE DEF V
  <2> QED BY <1>6, <2>1
<1> DEFINE t == [i \in 1 .. n |-> IF i = n THEN m ELSE s[i]]
<1>8. /\ s \in [1 .. n - 1 -> V] /\ \A i, j \in 1 .. n - 1 : s[i] = s[j] => i = j
      /\ \A r \in V : \E i \in 1 .. n - 1 : s[i] = r
      /\ \A i, j \in 1 .. n - 1 : i < j => s[i] < s[j]
  BY <1>6, <1>7 DEF Sorted, Bijection, Injection, Surjection, IsInjective
<1>9. t \in [1 .. n -> U] /\ \A i, j \in 1 .. n : t[i] = t[j] => i = j
  BY <1>5, <1>6, <1>8
<1>10. \A r \in U : \E i \in 1 .. n : t[i] = r
  <2> SUFFICES ASSUME NEW r \in U PROVE \E i \in 1 .. n : t[i] = r
    OBVIOUS
  <2>1. CASE r = m
    <3>1. n \in 1 .. n /\ t[n] = m
      BY <1>6
    <3> QED BY <2>1, <3>1
  <2>2. CASE r # m
    <3>1. PICK i \in 1 .. n - 1 : s[i] = r
      BY <1>8, <2>2
    <3>2. i \in 1 .. n /\ t[i] = r
      BY <1>6, <3>1
    <3> QED BY <3>2
  <2> QED BY <2>1, <2>2
<1>11. \A i, j \in 1 .. n : i < j => t[i] < t[j]
  <2> SUFFICES ASSUME NEW i \in 1 .. n, NEW j \in 1 .. n, i < j PROVE t[i] < t[j]
    OBVIOUS
  <2>1. i \in 1 .. n - 1 /\ t[i] = s[i] /\ s[i] \in V
    BY <1>6, <1>8
  <2>2. CASE j = n
    <3>1. t[j] = m
      BY <2>2
    <3>2. s[i] <= m /\ s[i] # m /\ s[i] \in Nat /\ m \in Nat
      <4> HIDE DEF t
      <4>1. s[i] \in U /\ s[i] # m /\ U \subseteq Nat
        BY <2>1 DEF Steps
      <4> QED BY <1>5, <4>1
    <3> HIDE DEF t
    <3> QED BY <2>1, <3>1, <3>2
  <2>3. CASE j # n
    <3>1. t[j] = s[j] /\ j \in 1 .. n - 1
      BY <1>6, <2>3
    <3> QED BY <1>8, <2>1, <3>1
  <2> QED BY <2>2, <2>3
<1>12. Sorted(t, U)
  <2> HIDE DEF t
  <2> QED BY <1>3, <1>9, <1>10, <1>11 DEF Sorted, Bijection, Injection, Surjection, IsInjective
<1> QED BY <1>3, <1>12

\* Ascending lists a set of nodes, each once.
LEMMA AscendingLists ==
    ASSUME NEW S \in SUBSET Steps
    PROVE  LET s == Ascending(S) IN
           /\ s \in Seq(Steps)
           /\ \A i \in 1 .. Len(s) : s[i] \in S
           /\ \A r \in S : \E i \in 1 .. Len(s) : s[i] = r
           /\ \A i, j \in 1 .. Len(s) : s[i] = s[j] => i = j
<1> DEFINE n == Cardinality(S)
           s == Ascending(S)
<1>1. n \in Nat
  BY StepsAreFinite
<1>2. Sorted(s, S)
  <2>1. \E t \in Bijection(1 .. Cardinality(S), S) : \A i, j \in DOMAIN t : i < j => t[i] < t[j]
    BY NodesCanBeSorted DEF Sorted
  <2> QED BY <2>1 DEF Sorted, Ascending
<1> HIDE DEF s
<1>3. s \in [1 .. n -> S]
  BY <1>2 DEF Sorted, Bijection, Injection
<1>4. s \in Seq(Steps) /\ Len(s) = n
  <2>1. s \in [1 .. n -> Steps]
    BY <1>3
  <2> QED BY <1>1, <2>1
<1>5. /\ \A r \in S : \E i \in 1 .. n : s[i] = r
      /\ \A i, j \in 1 .. n : s[i] = s[j] => i = j
  BY <1>2, <1>3 DEF Sorted, Bijection, Injection, Surjection, IsInjective
<1> QED BY <1>3, <1>4, <1>5 DEF s

-----------------------------------------------------------------------------
(* What a node reaches. *)

\* The rounds of _reachable: what n reaches along k edges.
Rounds(f, E, n) ==
    f = [k \in 0 .. NSteps |-> IF k = 0 THEN {n}
                               ELSE f[k - 1] \cup UNION {Targets(E, m) : m \in f[k - 1]}]

LEMMA ReachableIsTheLast ==
    ASSUME NEW E, NEW n \in Steps
    PROVE  \E f \in [0 .. NSteps -> SUBSET Steps] : Rounds(f, E, n) /\ Reachable(E, n) = f[NSteps]
<1> DEFINE S == SUBSET Steps
           next(U) == U \cup UNION {Targets(E, m) : m \in U}
           F == [p \in (1 .. NSteps) \X S |-> next(p[2])]
           within == CHOOSE f : Rounds(f, E, n)
<1>1. NSteps \in Nat /\ {n} \in S
  BY WorkflowGraphAssumption
<1>2. F \in [(1 .. NSteps) \X S -> S]
  BY DEF Targets
<1>3. PICK f : Computes(f, NSteps, S, {n}, F)
  <2> HIDE DEF F, S
  <2> QED BY <1>1, <1>2, RecursionExists
<1>4. \A k \in 0 .. NSteps : f[k] = IF k = 0 THEN {n} ELSE f[k - 1] \cup UNION {Targets(E, m) : m \in f[k - 1]}
  <2> SUFFICES ASSUME NEW k \in 0 .. NSteps, k # 0
               PROVE  f[k] = f[k - 1] \cup UNION {Targets(E, m) : m \in f[k - 1]}
    BY <1>3 DEF Computes
  <2>1. k \in 1 .. NSteps /\ k - 1 \in 0 .. NSteps
    BY <1>1
  <2>2. f[k] = F[<<k, f[k - 1]>>]
    BY <1>3, <2>1 DEF Computes
  <2>3. f[k - 1] \in S
    BY <1>3, <2>1 DEF Computes
  <2>4. <<k, f[k - 1]>> \in (1 .. NSteps) \X S
    BY <2>1, <2>3
  <2> QED BY <2>2, <2>4
<1>5. Rounds(f, E, n)
  <2>1. f = [k \in 0 .. NSteps |-> f[k]]
    BY <1>3 DEF Computes
  <2> QED BY <1>4, <2>1 DEF Rounds
<1>6. Rounds(within, E, n)
  BY <1>5
<1>7. Reachable(E, n) = within[NSteps]
  BY DEF Reachable, Rounds
<1> HIDE DEF within
<1>8. \A k \in 0 .. NSteps : within[k] \in SUBSET Steps
  <2> DEFINE T == {k \in 0 .. NSteps : within[k] \notin SUBSET Steps}
  <2> SUFFICES ASSUME T # {} PROVE FALSE
    OBVIOUS
  <2>1. PICK k \in T : \A y \in T : k <= y
    <3> HIDE DEF T
    <3>1. T \in SUBSET Nat
      BY DEF T
    <3> QED BY <3>1, LeastOf
  <2>2. k # 0
    BY <1>1, <1>6, <2>1 DEF Rounds
  <2>3. k - 1 \in 0 .. NSteps /\ within[k - 1] \in SUBSET Steps
    BY <1>1, <2>1, <2>2
  <2>4. within[k] = within[k - 1] \cup UNION {Targets(E, m) : m \in within[k - 1]}
    BY <1>6, <2>1, <2>2 DEF Rounds
  <2> QED BY <2>1, <2>3, <2>4 DEF Targets
<1>9. within \in [0 .. NSteps -> SUBSET Steps]
  <2>1. within = [k \in 0 .. NSteps |-> within[k]]
    BY <1>6 DEF Rounds
  <2> QED BY <1>8, <2>1
<1> QED BY <1>6, <1>7, <1>9

LEMMA RoundsGrow ==
    ASSUME NEW E, NEW n, NEW f, Rounds(f, E, n), NEW i \in 0 .. NSteps, NEW j \in i .. NSteps
    PROVE  f[i] \subseteq f[j]
<1> DEFINE T == {k \in i .. NSteps : ~(f[i] \subseteq f[k])}
<1> SUFFICES ASSUME T # {} PROVE FALSE
  OBVIOUS
<1>0. NSteps \in Nat
  BY WorkflowGraphAssumption
<1>1. PICK k \in T : \A y \in T : k <= y
  <2> HIDE DEF T
  <2>1. T \in SUBSET Nat
    BY DEF T
  <2> QED BY <2>1, LeastOf
<1>2. k # i
  BY <1>1
<1>3. k - 1 \in i .. NSteps /\ f[i] \subseteq f[k - 1]
  BY <1>0, <1>1, <1>2
<1>4. f[k] = f[k - 1] \cup UNION {Targets(E, m) : m \in f[k - 1]}
  <2>1. k \in 0 .. NSteps /\ k # 0
    BY <1>0, <1>1, <1>2
  <2> QED BY <2>1 DEF Rounds
<1> QED BY <1>1, <1>3, <1>4

\* What is closed under the edges, and has n, has all that n reaches.
LEMMA ReachableIsLeast ==
    ASSUME NEW E, NEW n \in Steps, NEW P, n \in P, \A m \in P : Targets(E, m) \subseteq P
    PROVE  Reachable(E, n) \subseteq P
<1>0. NSteps \in Nat
  BY WorkflowGraphAssumption
<1>1. PICK f : Rounds(f, E, n) /\ Reachable(E, n) = f[NSteps]
  BY ReachableIsTheLast
<1> DEFINE T == {k \in 0 .. NSteps : ~(f[k] \subseteq P)}
<1> SUFFICES ASSUME T # {} PROVE FALSE
  BY <1>0, <1>1
<1>2. PICK k \in T : \A y \in T : k <= y
  <2> HIDE DEF T
  <2>1. T \in SUBSET Nat
    BY DEF T
  <2> QED BY <2>1, LeastOf
<1>3. k # 0
  BY <1>0, <1>1, <1>2 DEF Rounds
<1>4. k - 1 \in 0 .. NSteps /\ f[k - 1] \subseteq P
  BY <1>0, <1>2, <1>3
<1>5. f[k] = f[k - 1] \cup UNION {Targets(E, m) : m \in f[k - 1]}
  BY <1>1, <1>2, <1>3 DEF Rounds
<1> QED BY <1>2, <1>4, <1>5

\* A node is reached because it is the first one, or because another is.
LEMMA ReachedFromOne ==
    ASSUME NEW E, NEW n \in Steps, NEW m \in Reachable(E, n), m # n
    PROVE  \E k \in Reachable(E, n) : m \in Targets(E, k)
<1> DEFINE P == {n} \cup UNION {Targets(E, k) : k \in Reachable(E, n)}
           Q == P \cap Reachable(E, n)
<1>0. NSteps \in Nat
  BY WorkflowGraphAssumption
<1>1. PICK f \in [0 .. NSteps -> SUBSET Steps] : Rounds(f, E, n) /\ Reachable(E, n) = f[NSteps]
  BY ReachableIsTheLast
<1> DEFINE T == {k \in 0 .. NSteps : ~(f[k] \subseteq P)}
<1>2. T = {}
  <2> SUFFICES ASSUME T # {} PROVE FALSE
    OBVIOUS
  <2>2. PICK k \in T : \A y \in T : k <= y
    <3> HIDE DEF T
    <3>1. T \in SUBSET Nat
      BY DEF T
    <3> QED BY <3>1, LeastOf
  <2>3. k # 0
    BY <1>0, <1>1, <2>2 DEF Rounds
  <2>4. k - 1 \in 0 .. NSteps /\ f[k - 1] \subseteq P /\ NSteps \in k - 1 .. NSteps
    BY <1>0, <2>2, <2>3
  <2>5. f[k] = f[k - 1] \cup UNION {Targets(E, x) : x \in f[k - 1]}
    BY <1>1, <2>2, <2>3 DEF Rounds
  <2>6. f[k - 1] \subseteq Reachable(E, n)
    BY <1>1, <2>4, RoundsGrow
  <2> QED BY <2>2, <2>4, <2>5, <2>6
<1> QED BY <1>0, <1>1, <1>2

\* Edges ascend, so that NSteps rounds are enough.
LEMMA ReachableIsClosed ==
    ASSUME NEW E \in SUBSET Forward, NEW n \in Steps
    PROVE  /\ n \in Reachable(E, n)
           /\ \A m \in Reachable(E, n) : m \in Steps /\ n <= m /\ Targets(E, m) \subseteq Reachable(E, n)
<1>0. NSteps \in Nat /\ Steps = 1 .. NSteps
  BY WorkflowGraphAssumption DEF Steps
<1>1. PICK f \in [0 .. NSteps -> SUBSET Steps] : Rounds(f, E, n) /\ Reachable(E, n) = f[NSteps]
  BY ReachableIsTheLast
<1> DEFINE P == {m \in Steps : n <= m /\ m \in f[m - n]}
<1>2. f[0] = {n}
  BY <1>0, <1>1 DEF Rounds
<1>3. n \in P
  BY <1>0, <1>2
<1>4. ASSUME NEW m \in P, NEW x \in Targets(E, m)
      PROVE  /\ x \in Steps /\ m < x
             /\ \A k \in m - n + 1 .. NSteps : x \in f[k]
  <2>1. x \in Steps /\ <<m, x>> \in E /\ m \in Steps
    BY DEF Targets
  <2>2. m < x
    BY <2>1 DEF Forward
  <2> DEFINE d == m - n + 1
  <2>3. d \in 0 .. NSteps /\ d # 0 /\ d - 1 = m - n /\ d \in 1 .. NSteps
    BY <1>0, <2>1, <2>2
  <2>4. f[d] = f[d - 1] \cup UNION {Targets(E, y) : y \in f[d - 1]}
    <3> HIDE DEF d
    <3> QED BY <1>1, <2>3 DEF Rounds
  <2>5. x \in f[d]
    BY <2>3, <2>4
  <2> HIDE DEF d
  <2>6. \A k \in d .. NSteps : x \in f[k]
    BY <1>1, <2>3, <2>5, RoundsGrow
  <2> QED BY <2>1, <2>2, <2>6 DEF d
<1>5. \A m \in P : Targets(E, m) \subseteq P
  <2> SUFFICES ASSUME NEW m \in P, NEW x \in Targets(E, m) PROVE x \in P
    OBVIOUS
  <2>1. x \in Steps /\ m < x /\ m \in Steps /\ n <= m
    BY <1>4
  <2>2. x - n \in m - n + 1 .. NSteps
    BY <1>0, <2>1
  <2>3. x \in f[x - n]
    BY <1>4, <2>2
  <2> QED BY <1>0, <2>1, <2>3
<1>6. Reachable(E, n) \subseteq P
  <2> HIDE DEF P
  <2> QED BY <1>3, <1>5, ReachableIsLeast
<1>7. ASSUME NEW m \in Reachable(E, n), NEW x \in Targets(E, m) PROVE x \in Reachable(E, n)
  <2>1. m \in P /\ m \in Steps /\ n <= m
    BY <1>6
  <2>2. x \in Steps /\ m < x
    BY <1>4, <2>1
  <2>3. NSteps \in m - n + 1 .. NSteps
    BY <1>0, <2>1, <2>2
  <2> QED BY <1>1, <1>4, <2>1, <2>3
<1>8. n \in Reachable(E, n)
  BY <1>0, <1>1, <1>2, RoundsGrow
<1> QED BY <1>6, <1>7, <1>8

-----------------------------------------------------------------------------
(* execution_order. *)

\* The first k nodes of a queue have been served: it has the nodes whose sources all were, each
\* once and behind its sources.
QueueFits(E, q, k) ==
    /\ q \in Seq(Steps)
    /\ \A i, j \in 1 .. Len(q) : q[i] = q[j] => i = j
    /\ \A i \in 1 .. Len(q) : \A m \in Sources(E, q[i]) : \E j \in 1 .. i - 1 : q[j] = m
    /\ \A n \in Steps : (\E i \in 1 .. Len(q) : q[i] = n) <=>
                        (\A m \in Sources(E, n) : \E i \in 1 .. k : i <= Len(q) /\ q[i] = m)

LEMMA QueueStarts ==
    ASSUME NEW E
    PROVE  QueueFits(E, Ascending({n \in Steps : Sources(E, n) = {}}), 0)
<1> DEFINE S == {n \in Steps : Sources(E, n) = {}}
           q == Ascending(S)
<1>1. /\ q \in Seq(Steps)
      /\ \A i \in 1 .. Len(q) : q[i] \in S
      /\ \A r \in S : \E i \in 1 .. Len(q) : q[i] = r
      /\ \A i, j \in 1 .. Len(q) : q[i] = q[j] => i = j
  <2>1. S \in SUBSET Steps
    OBVIOUS
  <2> HIDE DEF S
  <2> QED BY <2>1, AscendingLists
<1> HIDE DEF q
<1>2. \A i \in 1 .. Len(q) : Sources(E, q[i]) = {}
  BY <1>1
<1>3. \A n \in Steps : (\E i \in 1 .. Len(q) : q[i] = n) <=> Sources(E, n) = {}
  BY <1>1
<1>4. \A n \in Steps : (\A m \in Sources(E, n) : \E i \in 1 .. 0 : i <= Len(q) /\ q[i] = m) <=> Sources(E, n) = {}
  OBVIOUS
<1> QED BY <1>1, <1>2, <1>3, <1>4 DEF QueueFits, q

LEMMA ServesFits ==
    ASSUME NEW E, NEW q, NEW k \in Nat \ {0}, QueueFits(E, q, k - 1)
    PROVE  QueueFits(E, Serves(E, q, k), k)
<1>1. /\ q \in Seq(Steps) /\ Len(q) \in Nat
      /\ \A i, j \in 1 .. Len(q) : q[i] = q[j] => i = j
      /\ \A i \in 1 .. Len(q) : \A m \in Sources(E, q[i]) : \E j \in 1 .. i - 1 : q[j] = m
      /\ \A n \in Steps : (\E i \in 1 .. Len(q) : q[i] = n) <=>
                          (\A m \in Sources(E, n) : \E i \in 1 .. k - 1 : i <= Len(q) /\ q[i] = m)
  BY DEF QueueFits
<1>2. CASE Len(q) < k
  <2>1. Serves(E, q, k) = q
    BY <1>2 DEF Serves
  <2>2. \A m : (\E i \in 1 .. k - 1 : i <= Len(q) /\ q[i] = m) <=> (\E i \in 1 .. k : i <= Len(q) /\ q[i] = m)
    BY <1>1, <1>2
  <2> QED BY <1>1, <2>1, <2>2 DEF QueueFits
<1>3. CASE ~(Len(q) < k)
  <2> DEFINE B == {n \in Targets(E, q[k]) : Sources(E, n) \subseteq {q[i] : i \in 1 .. k}}
             b == Ascending(B)
             p == q \o b
  <2>1. k \in 1 .. Len(q) /\ q[k] \in Steps
    BY <1>1, <1>3
  <2>2. B \in SUBSET Steps
    BY DEF Targets
  <2>3. /\ b \in Seq(Steps) /\ Len(b) \in Nat
        /\ \A i \in 1 .. Len(b) : b[i] \in B
        /\ \A r \in B : \E i \in 1 .. Len(b) : b[i] = r
        /\ \A i, j \in 1 .. Len(b) : b[i] = b[j] => i = j
    <3> HIDE DEF B
    <3>1. b \in Seq(Steps)
      BY <2>2, AscendingLists
    <3> QED BY <2>2, <3>1, AscendingLists
  <2>4. Serves(E, q, k) = p
    BY <1>3 DEF Serves
  <2> HIDE DEF b
  <2>5. /\ p \in Seq(Steps) /\ Len(p) = Len(q) + Len(b)
        /\ \A i \in 1 .. Len(q) : p[i] = q[i]
        /\ \A i \in 1 .. Len(b) : p[Len(q) + i] = b[i]
    <3> HIDE DEF B
    <3> QED BY <1>1, <2>3
  <2> HIDE DEF p
  <2>6. \A n \in B : /\ n \in Steps /\ q[k] \in Sources(E, n)
                     /\ \A m \in Sources(E, n) : \E i \in 1 .. k : q[i] = m
    BY <2>1, <2>2 DEF Targets, Sources
  <2>7. \A n \in B : ~\E i \in 1 .. Len(q) : q[i] = n
    <3> SUFFICES ASSUME NEW n \in B, \E i \in 1 .. Len(q) : q[i] = n PROVE FALSE
      OBVIOUS
    <3>1. n \in Steps /\ q[k] \in Sources(E, n)
      BY <2>6
    <3>2. PICK i \in 1 .. k - 1 : i <= Len(q) /\ q[i] = q[k]
      BY <1>1, <3>1
    <3> HIDE DEF B
    <3> QED BY <1>1, <2>1, <3>2
  <2>8. ASSUME NEW i \in 1 .. Len(p)
        PROVE  \/ i \in 1 .. Len(q) /\ p[i] = q[i]
               \/ i - Len(q) \in 1 .. Len(b) /\ p[i] = b[i - Len(q)] /\ p[i] \in B
    <3> HIDE DEF B
    <3>1. CASE i <= Len(q)
      BY <1>1, <2>5, <3>1
    <3>2. CASE ~(i <= Len(q))
      <4>1. i - Len(q) \in 1 .. Len(b) /\ i = Len(q) + (i - Len(q))
        BY <1>1, <2>3, <2>5, <3>2
      <4>2. p[Len(q) + (i - Len(q))] = b[i - Len(q)]
        BY <2>5, <4>1
      <4> QED BY <2>3, <4>1, <4>2
    <3> QED BY <3>1, <3>2
  <2>9. \A i, j \in 1 .. Len(p) : p[i] = p[j] => i = j
    <3> SUFFICES ASSUME NEW i \in 1 .. Len(p), NEW j \in 1 .. Len(p), p[i] = p[j] PROVE i = j
      OBVIOUS
    <3> HIDE DEF B
    <3>1. CASE i \in 1 .. Len(q) /\ p[i] = q[i]
      <4>1. j \in 1 .. Len(q) /\ p[j] = q[j]
        BY <2>7, <2>8, <3>1
      <4> QED BY <1>1, <3>1, <4>1
    <3>2. CASE i - Len(q) \in 1 .. Len(b) /\ p[i] = b[i - Len(q)] /\ p[i] \in B
      <4>1. j - Len(q) \in 1 .. Len(b) /\ p[j] = b[j - Len(q)]
        BY <2>7, <2>8, <3>2
      <4>2. i - Len(q) = j - Len(q)
        BY <2>3, <3>2, <4>1
      <4> QED BY <1>1, <2>5, <4>2
    <3> QED BY <2>8, <3>1, <3>2
  <2>10. ASSUME NEW i \in 1 .. Len(p), NEW m \in Sources(E, p[i]) PROVE \E j \in 1 .. i - 1 : p[j] = m
    <3>1. CASE i \in 1 .. Len(q) /\ p[i] = q[i]
      <4>1. PICK j \in 1 .. i - 1 : q[j] = m
        BY <1>1, <3>1
      <4>2. j \in 1 .. Len(q)
        BY <1>1, <3>1, <4>1
      <4> QED BY <2>5, <4>1, <4>2
    <3>2. CASE i - Len(q) \in 1 .. Len(b) /\ p[i] \in B
      <4>1. PICK j \in 1 .. k : q[j] = m
        BY <2>6, <3>2
      <4> HIDE DEF B
      <4>2. j \in 1 .. Len(q) /\ j \in 1 .. i - 1
        BY <1>1, <2>1, <2>3, <3>2
      <4> QED BY <2>5, <4>1, <4>2
    <3> QED BY <2>8, <3>1, <3>2
  <2>11. \A m : (\E i \in 1 .. k : i <= Len(p) /\ p[i] = m) <=> (\E i \in 1 .. k : q[i] = m)
    <3>1. \A i \in 1 .. k : i <= Len(p) /\ p[i] = q[i]
      <4> HIDE DEF B
      <4>1. \A i \in 1 .. k : i \in 1 .. Len(q) /\ i <= Len(p)
        BY <1>1, <2>1, <2>3, <2>5
      <4> QED BY <2>5, <4>1
    <3> HIDE DEF B
    <3> QED BY <3>1
  <2>12. ASSUME NEW n \in Steps
         PROVE  (\E i \in 1 .. Len(p) : p[i] = n) <=>
                (\A m \in Sources(E, n) : \E i \in 1 .. k : q[i] = m)
    <3>1. ASSUME \E i \in 1 .. Len(p) : p[i] = n
          PROVE  \A m \in Sources(E, n) : \E i \in 1 .. k : q[i] = m
      <4>1. PICK i \in 1 .. Len(p) : p[i] = n
        BY <3>1
      <4>2. CASE i \in 1 .. Len(q) /\ p[i] = q[i]
        <5>1. \A m \in Sources(E, n) : \E j \in 1 .. k - 1 : j <= Len(q) /\ q[j] = m
          BY <1>1, <4>1, <4>2
        <5> QED BY <5>1
      <4>3. CASE p[i] \in B
        BY <2>6, <4>1, <4>3
      <4> QED BY <2>8, <4>2, <4>3
    <3>2. ASSUME \A m \in Sources(E, n) : \E i \in 1 .. k : q[i] = m
          PROVE  \E i \in 1 .. Len(p) : p[i] = n
      <4>1. CASE q[k] \in Sources(E, n)
        <5>1. n \in B
          BY <2>1, <3>2, <4>1 DEF Targets, Sources
        <5>2. PICK i \in 1 .. Len(b) : b[i] = n
          BY <2>3, <5>1
        <5> HIDE DEF B
        <5>3. Len(q) + i \in 1 .. Len(p) /\ p[Len(q) + i] = n
          BY <1>1, <2>3, <2>5, <5>2
        <5> QED BY <5>3
      <4>2. CASE q[k] \notin Sources(E, n)
        <5> HIDE DEF B
        <5>1. \A m \in Sources(E, n) : \E i \in 1 .. k - 1 : i <= Len(q) /\ q[i] = m
          <6> SUFFICES ASSUME NEW m \in Sources(E, n) PROVE \E i \in 1 .. k - 1 : i <= Len(q) /\ q[i] = m
            OBVIOUS
          <6>1. PICK i \in 1 .. k : q[i] = m
            BY <3>2
          <6>2. i # k
            BY <4>2, <6>1
          <6> QED BY <2>1, <6>1, <6>2
        <5>2. PICK i \in 1 .. Len(q) : q[i] = n
          BY <1>1, <5>1
        <5> QED BY <1>1, <2>3, <2>5, <5>2
      <4> QED BY <4>1, <4>2
    <3> QED BY <3>1, <3>2
  <2> HIDE DEF B
  <2>13. \A n \in Steps : (\E i \in 1 .. Len(p) : p[i] = n) <=>
                          (\A m \in Sources(E, n) : \E i \in 1 .. k : i <= Len(p) /\ p[i] = m)
    <3> SUFFICES ASSUME NEW n \in Steps
                 PROVE  (\E i \in 1 .. Len(p) : p[i] = n) <=>
                        (\A m \in Sources(E, n) : \E i \in 1 .. k : i <= Len(p) /\ p[i] = m)
      OBVIOUS
    <3>1. (\A m \in Sources(E, n) : \E i \in 1 .. k : i <= Len(p) /\ p[i] = m) <=>
          (\A m \in Sources(E, n) : \E i \in 1 .. k : q[i] = m)
      BY <2>11
    <3> QED BY <2>12, <3>1
  <2>14. \A i \in 1 .. Len(p) : \A m \in Sources(E, p[i]) : \E j \in 1 .. i - 1 : p[j] = m
    BY <2>10
  <2> QED BY <2>4, <2>5, <2>9, <2>13, <2>14 DEF QueueFits
<1> QED BY <1>2, <1>3


LEMMA OrderFits ==
    ASSUME NEW E
    PROVE  QueueFits(E, Order(E), NSteps)
<1> DEFINE S == Seq(Steps)
           first == Ascending({n \in Steps : Sources(E, n) = {}})
           \* Sequences that are not queues need no care.
           F == [p \in (1 .. NSteps) \X S |->
                    IF Serves(E, p[2], p[1]) \in S THEN Serves(E, p[2], p[1]) ELSE first]
           R(f) == f = [k \in 0 .. NSteps |-> IF k = 0 THEN first ELSE Serves(E, f[k - 1], k)]
           queue == CHOOSE f : R(f)
<1>1. NSteps \in Nat /\ first \in S /\ QueueFits(E, first, 0)
  <2>1. QueueFits(E, first, 0)
    BY QueueStarts
  <2> HIDE DEF first
  <2> QED BY <2>1, WorkflowGraphAssumption DEF QueueFits
<1> HIDE DEF first
<1>2. F \in [(1 .. NSteps) \X S -> S]
  BY <1>1
<1>3. PICK f : Computes(f, NSteps, S, first, F)
  <2> HIDE DEF F, S
  <2> QED BY <1>1, <1>2, RecursionExists
<1>4. ASSUME NEW k \in 1 .. NSteps, QueueFits(E, f[k - 1], k - 1)
      PROVE  f[k] = Serves(E, f[k - 1], k) /\ QueueFits(E, f[k], k)
  <2>1. QueueFits(E, Serves(E, f[k - 1], k), k)
    BY <1>4, ServesFits
  <2>2. Serves(E, f[k - 1], k) \in S /\ f[k - 1] \in S
    BY <1>4, <2>1 DEF QueueFits
  <2>3. f[k] = F[<<k, f[k - 1]>>]
    BY <1>3 DEF Computes
  <2>4. <<k, f[k - 1]>> \in (1 .. NSteps) \X S
    BY <2>2
  <2> HIDE DEF S
  <2>5. f[k] = Serves(E, f[k - 1], k)
    BY <2>2, <2>3, <2>4
  <2> QED BY <2>1, <2>5
<1> HIDE DEF F
<1>5. \A k \in 0 .. NSteps : QueueFits(E, f[k], k)
  <2> DEFINE T == {k \in 0 .. NSteps : ~QueueFits(E, f[k], k)}
  <2> SUFFICES ASSUME T # {} PROVE FALSE
    OBVIOUS
  <2>1. PICK k \in T : \A y \in T : k <= y
    <3> HIDE DEF T
    <3>1. T \in SUBSET Nat
      BY DEF T
    <3> QED BY <3>1, LeastOf
  <2>2. k # 0
    BY <1>1, <1>3 DEF Computes
  <2>3. k \in 1 .. NSteps /\ k - 1 \in 0 .. NSteps /\ k - 1 \notin T
    BY <1>1, <2>1, <2>2
  <2> QED BY <1>4, <2>1, <2>3
<1>6. R(f)
  <2>1. f = [k \in 0 .. NSteps |-> f[k]] /\ f[0] = first
    BY <1>3 DEF Computes
  <2>2. \A k \in 0 .. NSteps : f[k] = IF k = 0 THEN first ELSE Serves(E, f[k - 1], k)
    <3> SUFFICES ASSUME NEW k \in 0 .. NSteps, k # 0 PROVE f[k] = Serves(E, f[k - 1], k)
      BY <2>1
    <3>1. k \in 1 .. NSteps /\ k - 1 \in 0 .. NSteps
      BY <1>1
    <3> QED BY <1>4, <1>5, <3>1
  <2> QED BY <2>1, <2>2
\* The recursion has one solution.
<1>7. R(queue)
  BY <1>6
<1>8. Order(E) = queue[NSteps]
  BY DEF Order, first
<1> HIDE DEF queue
<1>9. \A k \in 0 .. NSteps : queue[k] = f[k]
  <2> DEFINE T == {k \in 0 .. NSteps : queue[k] # f[k]}
  <2> SUFFICES ASSUME T # {} PROVE FALSE
    OBVIOUS
  <2>1. PICK k \in T : \A y \in T : k <= y
    <3> HIDE DEF T
    <3>1. T \in SUBSET Nat
      BY DEF T
    <3> QED BY <3>1, LeastOf
  <2>2. k # 0
    BY <1>1, <1>6, <1>7
  <2>3. k \in 0 .. NSteps /\ k - 1 \in 0 .. NSteps /\ k - 1 \notin T
    BY <1>1, <2>1, <2>2
  <2>4. queue[k] = Serves(E, queue[k - 1], k) /\ f[k] = Serves(E, f[k - 1], k)
    BY <1>6, <1>7, <2>2, <2>3
  <2> QED BY <2>1, <2>3, <2>4
<1> QED BY <1>1, <1>5, <1>8, <1>9

\* q lists every node once, behind its sources.
Topological(E, q) ==
    /\ q \in [Steps -> Steps]
    /\ \A n \in Steps : \E i \in Steps : \A j \in Steps : q[j] = n <=> j = i
    /\ \A i \in Steps : \A m \in Sources(E, q[i]) : \E j \in Steps : j < i /\ q[j] = m

\* execution_order of a definition that was let through: every node once, behind its sources.
LEMMA OrderIsTopological ==
    ASSUME NEW E, ValidSequence(E)
    PROVE  Topological(E, Order(E))
<1> DEFINE q == Order(E)
<1>1. NSteps \in Nat /\ Steps = 1 .. NSteps /\ IsFiniteSet(Steps) /\ Cardinality(Steps) = NSteps
  BY WorkflowGraphAssumption, StepsAreFinite, FS_Interval DEF Steps
<1>2. QueueFits(E, q, NSteps) /\ Len(q) = NSteps
  BY <1>1, OrderFits DEF ValidSequence
<1> HIDE DEF q
<1>3. q \in [Steps -> Steps] /\ \A i, j \in Steps : q[i] = q[j] => i = j
  BY <1>1, <1>2 DEF QueueFits
<1>4. q \in Injection(Steps, Steps)
  BY <1>3, Fun_IsInj
<1>5. q \in Surjection(Steps, Steps)
  BY <1>1, <1>4, FS_Injection
<1>6. \A n \in Steps : \E i \in Steps : q[i] = n
  BY <1>5 DEF Surjection
<1>7. \A n \in Steps : \E i \in Steps : \A j \in Steps : q[j] = n <=> j = i
  BY <1>3, <1>6
<1>8. \A i \in Steps : \A m \in Sources(E, q[i]) : \E j \in Steps : j < i /\ q[j] = m
  <2> SUFFICES ASSUME NEW i \in Steps, NEW m \in Sources(E, q[i]) PROVE \E j \in Steps : j < i /\ q[j] = m
    OBVIOUS
  <2>1. PICK j \in 1 .. i - 1 : q[j] = m
    BY <1>1, <1>2 DEF QueueFits
  <2> QED BY <1>1, <2>1
<1> QED BY <1>3, <1>7, <1>8 DEF q, Topological

-----------------------------------------------------------------------------
(* What validate_workflow lets through. *)

Ordered == Topological(flow.edges, order)

\* Edges ascend, a node closes one loop at most, the loops share no node, and what a loop has
\* leads to the node that closes it.
PlanFits ==
    /\ flow.edges \in SUBSET Forward /\ flow.loops \in SUBSET Loops
    /\ \A a, b \in flow.loops : a.source = b.source => a = b
    /\ flow.evaluators = {loop.source : loop \in {l \in flow.loops : l.mode = "condition"}}
    /\ Ordered
    /\ loop_scopes \in [Steps -> SUBSET Steps]
    /\ \A s \in Steps :
         /\ loop_scopes[s] = {} <=> ClosedBy(s) = {}
         /\ ClosedBy(s) # {} => s \in loop_scopes[s]
         /\ \A n \in loop_scopes[s] \ {s} : \E m \in loop_scopes[s] : <<n, m>> \in flow.edges
         /\ \A t \in Steps \ {s} : loop_scopes[s] \cap loop_scopes[t] = {}

LEMMA IndexFits ==
    ASSUME Ordered, NEW n \in Steps
    PROVE  Index(n) \in Steps /\ order[Index(n)] = n /\ \A i \in Steps : order[i] = n => i = Index(n)
<1>1. PICK i \in Steps : \A j \in Steps : order[j] = n <=> j = i
  BY DEF Ordered, Topological
<1>2. DOMAIN order = Steps
  BY DEF Ordered, Topological
<1>3. Index(n) = CHOOSE j \in Steps : order[j] = n
  BY <1>2 DEF Index
<1> QED BY <1>1, <1>3

LEMMA IndexAscends ==
    ASSUME Ordered, NEW m \in Steps, NEW n \in Steps, <<m, n>> \in flow.edges
    PROVE  Index(m) < Index(n)
<1>1. m \in Sources(flow.edges, order[Index(n)])
  BY IndexFits DEF Sources
<1>2. PICK j \in Steps : j < Index(n) /\ order[j] = m
  BY <1>1, IndexFits DEF Ordered, Topological
<1> QED BY <1>2, IndexFits

LEMMA ScopeFits ==
    ASSUME Ordered, flow.edges \in SUBSET Forward, NEW loop \in Loops, ReturnsToEarlier(flow.edges, loop)
    PROVE  LET scope == LoopScope(flow.edges, loop) IN
           /\ scope \in SUBSET Steps /\ loop.source \in scope
           /\ \A n \in scope \ {loop.source} : \E m \in scope : <<n, m>> \in flow.edges
           /\ \A n \in scope : Index(loop.target) <= Index(n) /\ Index(n) <= Index(loop.source)
<1> DEFINE E == flow.edges
           F == Backwards(E)
           on == Reachable(E, loop.target)
           back == Reachable(F, loop.source)
<1>1. loop.source \in Steps /\ loop.target \in Steps /\ loop.source \in on
  BY DEF Loops, ReturnsToEarlier
<1>2. \A n \in on : n \in Steps /\ Targets(E, n) \subseteq on
  BY <1>1, ReachableIsClosed
<1>3. \A m, n : m \in Targets(F, n) <=> m \in Steps /\ <<m, n>> \in E
  <2>1. \A m, n : <<n, m>> \in F <=> <<m, n>> \in E
    BY DEF Backwards, Forward
  <2> QED BY <2>1 DEF Targets
<1>4. LoopScope(E, loop) = on \cap back
  BY DEF LoopScope
<1>5. loop.source \in back
  <2>1. PICK f : Rounds(f, F, loop.source) /\ back = f[NSteps]
    BY <1>1, ReachableIsTheLast
  <2>2. NSteps \in Nat
    BY WorkflowGraphAssumption
  <2>3. f[0] = {loop.source}
    BY <2>1, <2>2 DEF Rounds
  <2>4. f[0] \subseteq f[NSteps]
    BY <2>1, <2>2, RoundsGrow
  <2> QED BY <2>1, <2>3, <2>4
<1>6. ASSUME NEW n \in on \cap back, n # loop.source
      PROVE  \E m \in on \cap back : <<n, m>> \in E
  <2>1. PICK m \in back : n \in Targets(F, m)
    BY <1>1, <1>6, ReachedFromOne
  <2>2. <<n, m>> \in E
    BY <1>3, <2>1
  <2>3. m \in Targets(E, n)
    BY <2>2 DEF Targets, Forward
  <2> QED BY <1>2, <2>1, <2>2, <2>3
<1>7. on \subseteq {n \in Steps : Index(loop.target) <= Index(n)}
  <2> DEFINE P == {n \in Steps : Index(loop.target) <= Index(n)}
  <2>1. loop.target \in P
    BY <1>1, IndexFits DEF Steps
  <2>2. ASSUME NEW m \in P, NEW n \in Targets(E, m) PROVE n \in P
    <3>1. n \in Steps /\ m \in Steps /\ <<m, n>> \in E
      BY DEF Targets
    <3>2. Index(m) < Index(n) /\ Index(m) \in Nat /\ Index(n) \in Nat /\ Index(loop.target) \in Nat
      BY <1>1, <3>1, IndexAscends, IndexFits DEF Steps
    <3> QED BY <3>1, <3>2
  <2> HIDE DEF P
  <2> QED BY <1>1, <2>1, <2>2, ReachableIsLeast DEF P
<1>8. back \subseteq {n \in Steps : Index(n) <= Index(loop.source)}
  <2> DEFINE P == {n \in Steps : Index(n) <= Index(loop.source)}
  <2>1. loop.source \in P
    BY <1>1, IndexFits DEF Steps
  <2>2. ASSUME NEW m \in P, NEW n \in Targets(F, m) PROVE n \in P
    <3>1. n \in Steps /\ m \in Steps /\ <<n, m>> \in E
      BY <1>3
    <3>2. Index(n) < Index(m) /\ Index(m) \in Nat /\ Index(n) \in Nat /\ Index(loop.source) \in Nat
      BY <1>1, <3>1, IndexAscends, IndexFits DEF Steps
    <3> QED BY <3>1, <3>2
  <2> HIDE DEF P, F
  <2> QED BY <1>1, <2>1, <2>2, ReachableIsLeast DEF P
<1> HIDE DEF on, back
<1> QED BY <1>1, <1>2, <1>4, <1>5, <1>6, <1>7, <1>8

LEMMA DefinitionFits ==
    ASSUME ValidDefinition
    PROVE  PlanFits
<1>1. PICK E \in {E \in SUBSET Forward : ValidSequence(E)} :
         /\ order = Order(E)
         /\ \E L \in LoopSets : \E V \in SUBSET {l.source : l \in L} :
              /\ ValidEvaluators(L, V) /\ ValidLoops(E, L)
              /\ flow = [edges |-> E, loops |-> L, evaluators |-> V]
              /\ loop_scopes = [n \in Steps |->
                    UNION {LoopScope(E, loop) : loop \in {l \in L : l.source = n}}]
  BY DEF ValidDefinition
<1>2. PICK L \in LoopSets : \E V \in SUBSET {l.source : l \in L} :
              /\ ValidEvaluators(L, V) /\ ValidLoops(E, L)
              /\ flow = [edges |-> E, loops |-> L, evaluators |-> V]
              /\ loop_scopes = [n \in Steps |->
                    UNION {LoopScope(E, loop) : loop \in {l \in L : l.source = n}}]
  BY <1>1
<1>3. PICK V : /\ ValidEvaluators(L, V) /\ ValidLoops(E, L)
               /\ flow = [edges |-> E, loops |-> L, evaluators |-> V]
               /\ loop_scopes = [n \in Steps |->
                    UNION {LoopScope(E, loop) : loop \in {l \in L : l.source = n}}]
  BY <1>2
<1>4. /\ flow.edges = E /\ flow.loops = L /\ flow.evaluators = V
      /\ E \in SUBSET Forward /\ ValidSequence(E) /\ order = Order(E)
  BY <1>1, <1>3
<1>5. L \in SUBSET Loops
  <2> SUFFICES ASSUME NEW loop \in L PROVE loop \in Loops
    OBVIOUS
  <2>1. PICK f \in [1 .. MaxLoops -> Loops] : L = {f[i] : i \in 1 .. MaxLoops}
    BY DEF LoopSets
  <2> QED BY <2>1
<1>6. Ordered
  BY <1>4, OrderIsTopological DEF Ordered
<1>7. \A a, b \in L : a.source = b.source => a = b
  BY <1>3 DEF ValidLoops
<1>8. flow.evaluators = {loop.source : loop \in {l \in flow.loops : l.mode = "condition"}}
  BY <1>3, <1>4 DEF ValidEvaluators
<1>9. ASSUME NEW loop \in L
      PROVE  /\ loop.source \in Steps /\ loop.target \in Steps
             /\ LoopScope(E, loop) \in SUBSET Steps /\ loop.source \in LoopScope(E, loop)
             /\ \A n \in LoopScope(E, loop) \ {loop.source} :
                  \E m \in LoopScope(E, loop) : <<n, m>> \in E
             /\ \A n \in LoopScope(E, loop) :
                  Index(loop.target) <= Index(n) /\ Index(n) <= Index(loop.source)
  <2>1. ReturnsToEarlier(E, loop) /\ loop \in Loops
    BY <1>3, <1>5 DEF ValidLoops
  <2>2. loop.source \in Steps /\ loop.target \in Steps
    BY <2>1 DEF Loops
  <2> QED BY <1>4, <1>6, <2>1, <2>2, ScopeFits
<1>10. \A s \in Steps : ClosedBy(s) = {loop \in L : loop.source = s}
  BY <1>4 DEF ClosedBy
<1>11. ASSUME NEW loop \in L PROVE loop_scopes[loop.source] = LoopScope(E, loop)
  <2>1. {l \in L : l.source = loop.source} = {loop}
    BY <1>7
  <2>2. loop_scopes[loop.source] = UNION {LoopScope(E, l) : l \in {loop}}
    BY <1>3, <1>9, <2>1
  <2> QED BY <2>2
<1>12. ASSUME NEW s \in Steps, ~\E loop \in L : loop.source = s PROVE loop_scopes[s] = {}
  <2>1. {l \in L : l.source = s} = {}
    BY <1>12
  <2>2. loop_scopes[s] = UNION {LoopScope(E, l) : l \in {}}
    BY <1>3, <2>1
  <2> QED BY <2>2
<1>13. loop_scopes \in [Steps -> SUBSET Steps]
  <2>1. \A s \in Steps : loop_scopes[s] \in SUBSET Steps
    BY <1>9, <1>11, <1>12
  <2>2. loop_scopes = [s \in Steps |-> loop_scopes[s]]
    BY <1>3
  <2> QED BY <2>1, <2>2
<1>14. ASSUME NEW s \in Steps, NEW t \in Steps \ {s} PROVE loop_scopes[s] \cap loop_scopes[t] = {}
  <2> SUFFICES ASSUME NEW n \in loop_scopes[s], n \in loop_scopes[t] PROVE FALSE
    OBVIOUS
  <2>1. PICK a \in L : a.source = s
    BY <1>12
  <2>2. PICK b \in L : b.source = t
    BY <1>12
  <2>3. Apart(a, b)
    BY <1>3, <2>1, <2>2 DEF ValidLoops
  <2>4. /\ Index(a.target) <= Index(n) /\ Index(n) <= Index(a.source)
        /\ Index(b.target) <= Index(n) /\ Index(n) <= Index(b.source)
    BY <1>9, <1>11, <2>1, <2>2
  <2>5. n \in Steps
    BY <1>13
  <2>6. {Index(n), Index(a.source), Index(b.source), Index(a.target), Index(b.target)} \subseteq Nat
    BY <1>6, <1>9, <2>1, <2>2, <2>5, IndexFits DEF Steps
  <2> QED BY <2>3, <2>4, <2>6 DEF Apart
<1>15. ASSUME NEW s \in Steps
       PROVE  /\ loop_scopes[s] = {} <=> ClosedBy(s) = {}
              /\ ClosedBy(s) # {} => s \in loop_scopes[s]
              /\ \A n \in loop_scopes[s] \ {s} : \E m \in loop_scopes[s] : <<n, m>> \in E
  <2>1. CASE \E loop \in L : loop.source = s
    <3>1. PICK loop \in L : loop.source = s
      BY <2>1
    <3>2. loop_scopes[s] = LoopScope(E, loop) /\ ClosedBy(s) # {}
      BY <1>10, <1>11, <3>1
    <3> QED BY <1>9, <3>1, <3>2
  <2>2. CASE ~\E loop \in L : loop.source = s
    BY <1>10, <1>12, <2>2
  <2> QED BY <2>1, <2>2
<1> QED BY <1>4, <1>5, <1>6, <1>7, <1>8, <1>13, <1>14, <1>15 DEF PlanFits

-----------------------------------------------------------------------------
(* The inductive invariant. *)

LEMMA MostFits == Most \in Passes /\ Most \in 2 .. 20 /\ \A k \in Passes : k <= Most
<1> DEFINE D == {d \in Nat : 20 - d \in Passes}
<1>1. Passes \subseteq 2 .. 20 /\ Passes # {}
  BY WorkflowGraphAssumption
<1>2. D \in SUBSET Nat /\ D # {}
  <2>1. PICK k \in Passes : k \in 2 .. 20
    BY <1>1
  <2>2. 20 - k \in Nat /\ 20 - (20 - k) = k
    BY <2>1
  <2> QED BY <2>1, <2>2
<1> HIDE DEF D
<1>3. PICK d \in D : \A y \in D : d <= y
  BY <1>2, LeastOf
<1>4. d \in Nat /\ 20 - d \in Passes
  BY <1>3 DEF D
<1>5. ASSUME NEW k \in Passes PROVE 20 - d >= k
  <2>1. k \in 2 .. 20
    BY <1>1
  <2>2. 20 - k \in Nat /\ 20 - (20 - k) = k
    BY <2>1
  <2>3. 20 - k \in D
    BY <2>2 DEF D
  <2> QED BY <1>3, <1>4, <2>1, <2>3
<1>6. Most \in Passes /\ \A k \in Passes : Most >= k
  BY <1>4, <1>5 DEF Most, Max
<1> QED BY <1>1, <1>6

LEMMA IterationFits ==
    ASSUME PlanFits, NEW p \in [Steps -> Nat \ {0}], NEW n \in Steps
    PROVE  /\ \A s \in Steps : n \in loop_scopes[s] => Iteration(p, n) = p[s]
           /\ (\A s \in Steps : n \notin loop_scopes[s]) => Iteration(p, n) = 1
           /\ Iteration(p, n) \in Nat \ {0}
<1> DEFINE S == {p[source] : source \in {m \in Steps : n \in loop_scopes[m]}}
<1>1. Iteration(p, n) = CHOOSE x \in {1} \cup S : \A y \in {1} \cup S : x >= y
  BY DEF Iteration, Max
<1>2. ASSUME NEW s \in Steps, n \in loop_scopes[s] PROVE Iteration(p, n) = p[s]
  <2>1. \A m \in Steps : n \in loop_scopes[m] <=> m = s
    BY <1>2 DEF PlanFits
  <2>2. S = {p[s]}
    BY <2>1
  <2>3. p[s] \in Nat \ {0}
    OBVIOUS
  <2> HIDE DEF S
  <2> QED BY <1>1, <2>2, <2>3
<1>3. ASSUME \A s \in Steps : n \notin loop_scopes[s] PROVE Iteration(p, n) = 1
  <2>1. S = {}
    BY <1>3
  <2> HIDE DEF S
  <2> QED BY <1>1, <2>1
<1> QED BY <1>2, <1>3

\* While a run goes on, a node that is complete has run once in each pass of its loop and one that
\* is not once less; what it said is there, and of this pass.
RunFits ==
    /\ \A loop \in flow.loops : loop_passes[loop.source] <= loop.limit
    /\ \A n \in Steps :
         /\ runs[n] = IF n \in completed THEN Iteration(loop_passes, n)
                                         ELSE Iteration(loop_passes, n) - 1
         /\ outputs[n] = IF n \in completed THEN runs[n] ELSE 0
    /\ \A loop \in flow.loops :
         loop.mode = "fixed" /\ loop.source \in completed => loop_passes[loop.source] = loop.limit
    /\ \A s \in Steps : \A m, n \in loop_scopes[s] :
         <<m, n>> \in flow.edges /\ n \in completed => m \in completed
    /\ SideExits = {} =>
         \A m, n \in Steps : <<m, n>> \in flow.edges /\ n \in completed =>
             m \in completed /\ used[n][m] = outputs[m]

RunShape ==
    /\ completed \in SUBSET Steps /\ loop_passes \in [Steps -> 1 .. Most]
    /\ outputs \in [Steps -> 0 .. Most + 1] /\ runs \in [Steps -> 0 .. Most + 1]
    /\ used \in [Steps -> [Steps -> 0 .. Most + 1]]
    /\ phase \in {"running", "done", "failed", "limit"}

FlowInv ==
    /\ PlanFits /\ RunShape
    /\ phase # "limit" => RunFits
    /\ phase = "done" => completed = Steps

\* Also of a definition that is not run.
LEMMA FlowStarts == ValidDefinition /\ phase \in {"running", "failed"} => FlowInv
<1> SUFFICES ASSUME ValidDefinition, phase \in {"running", "failed"} PROVE FlowInv
  OBVIOUS
<1>1. ValidDefinition /\ phase \in {"running", "failed"}
  OBVIOUS
<1>2. PlanFits
  BY <1>1, DefinitionFits
<1>3. /\ completed = {} /\ outputs = [n \in Steps |-> 0] /\ runs = [n \in Steps |-> 0]
      /\ loop_passes = [n \in Steps |-> 1] /\ used = [n \in Steps |-> [m \in Steps |-> 0]]
  BY <1>1 DEF ValidDefinition
<1>4. RunShape
  BY <1>1, <1>3, MostFits DEF RunShape
<1>5. RunFits
  <2>1. \A loop \in flow.loops : loop.source \in Steps /\ loop.limit \in 2 .. 20
    BY <1>2, WorkflowGraphAssumption DEF PlanFits, Loops
  <2>2. \A n \in Steps : Iteration(loop_passes, n) = 1
    <3> SUFFICES ASSUME NEW n \in Steps PROVE Iteration(loop_passes, n) = 1
      OBVIOUS
    <3>1. loop_passes \in [Steps -> Nat \ {0}]
      BY <1>3
    <3>2. \A s \in Steps : loop_passes[s] = 1
      BY <1>3
    <3>3. CASE \E s \in Steps : n \in loop_scopes[s]
      BY <1>2, <3>1, <3>2, <3>3, IterationFits
    <3>4. CASE \A s \in Steps : n \notin loop_scopes[s]
      BY <1>2, <3>1, <3>4, IterationFits
    <3> QED BY <3>3, <3>4
  <2> QED BY <1>3, <2>1, <2>2 DEF RunFits
<1> QED BY <1>1, <1>2, <1>4, <1>5 DEF FlowInv

-----------------------------------------------------------------------------
(* What a round does. *)

\* When a node that closes a loop is ready, the others of the loop are complete.
LEMMA ReadyCloses ==
    ASSUME PlanFits, RunFits, NEW s \in Ready, ClosedBy(s) # {}
    PROVE  loop_scopes[s] \ {s} \subseteq completed
<1> DEFINE T == (loop_scopes[s] \ {s}) \ completed
<1> SUFFICES ASSUME T # {} PROVE FALSE
  OBVIOUS
<1>1. s \in Steps /\ s \notin completed /\ Sources(flow.edges, s) \subseteq completed
  BY DEF Ready
<1>2. T \in SUBSET Steps
  BY <1>1 DEF PlanFits
<1>3. PICK n \in T : \A y \in T : y <= n
  <2> HIDE DEF T
  <2> QED BY <1>2, GreatestOf
<1>4. PICK m \in loop_scopes[s] : <<n, m>> \in flow.edges
  BY <1>1, <1>3 DEF PlanFits
<1>5. n \in Nat /\ m \in Nat /\ n < m /\ n \in Steps /\ m \in Steps
  BY <1>4 DEF PlanFits, Forward, Steps
<1>6. CASE m = s
  BY <1>1, <1>3, <1>4, <1>5, <1>6 DEF Sources
<1>7. CASE m # s
  <2>1. m \in completed
    BY <1>3, <1>4, <1>5, <1>7
  <2> QED BY <1>1, <1>3, <1>4, <2>1 DEF RunFits
<1> QED BY <1>6, <1>7

\* Nodes that are ready together are not of one loop whose last node is among them.
LEMMA ReadyApart ==
    ASSUME PlanFits, RunFits, NEW s \in Ready, NEW r \in Ready, r \in loop_scopes[s]
    PROVE  r = s
<1>1. ClosedBy(s) # {} /\ r \notin completed
  BY DEF PlanFits, Ready
<1> QED BY <1>1, ReadyCloses

\* The result of s starts its loop again.
Again(approved, s) ==
    \/ s \in flow.evaluators /\ ~approved[s]
    \/ s \notin flow.evaluators /\ \E loop \in ClosedBy(s) : Iteration(loop_passes, s) < loop.limit

\* The nodes a round clears once the results of D are in.
Cleared(approved, D) == {n \in Steps : \E s \in D : Again(approved, s) /\ n \in loop_scopes[s]}

Form(approved, D) ==
    [completed |-> (completed \cup D) \ Cleared(approved, D),
     outputs |-> [n \in Steps |-> IF n \in Cleared(approved, D) THEN 0
                                  ELSE IF n \in D THEN Tally(runs[n]) ELSE outputs[n]],
     passes |-> [n \in Steps |-> IF n \in D /\ Again(approved, n)
                                 THEN Iteration(loop_passes, n) + 1 ELSE loop_passes[n]],
     raised |-> FALSE]

\* A loop starts again within its limit.
Allowed(approved, D) ==
    \A s \in D : Again(approved, s) =>
        \E loop \in ClosedBy(s) : Iteration(loop_passes, s) < loop.limit

LEMMA ClosedByOne ==
    ASSUME PlanFits, NEW s \in Steps
    PROVE  /\ \A loop \in ClosedBy(s) :
                /\ loop \in flow.loops /\ loop.source = s /\ loop.limit \in Passes
                /\ ClosedBy(s) = {loop}
                /\ s \in flow.evaluators <=> loop.mode = "condition"
                /\ loop.mode \in {"fixed", "condition"}
           /\ s \in flow.evaluators => ClosedBy(s) # {}
<1>1. \A loop \in flow.loops : loop.limit \in Passes /\ loop.mode \in {"fixed", "condition"}
  BY DEF PlanFits, Loops
<1>2. \A a, b \in flow.loops : a.source = b.source => a = b
  BY DEF PlanFits
<1>3. s \in flow.evaluators <=> \E loop \in flow.loops : loop.mode = "condition" /\ loop.source = s
  BY DEF PlanFits
<1> QED BY <1>1, <1>2, <1>3 DEF ClosedBy

\* The results of a round, field by field.
No == FALSE
Results(c, o, p) == [completed |-> c, outputs |-> o, passes |-> p, raised |-> No]

LEMMA ResultsAre ==
    ASSUME NEW c, NEW o, NEW p
    PROVE  /\ Results(c, o, p).completed = c /\ Results(c, o, p).outputs = o
           /\ Results(c, o, p).passes = p /\ ~Results(c, o, p).raised
BY DEF Results, No

With(c, r) == c \cup {r}
PutAt(f, a, v) == [f EXCEPT ![a] = v]
Wiped(o, r) == [m \in Steps |-> IF m \in loop_scopes[r] THEN 0 ELSE o[m]]
Raises(s) == [s EXCEPT !.raised = TRUE]

LEMMA FieldsInTurn ==
    ASSUME NEW s, NEW x, NEW y, NEW z, NEW r
    PROVE  /\ [s EXCEPT !.completed = x, !.outputs[r] = y]
                = [[s EXCEPT !.completed = x] EXCEPT !.outputs = [s.outputs EXCEPT ![r] = y]]
           /\ [s EXCEPT !.completed = x, !.outputs = y, !.passes[r] = z]
                = [[[s EXCEPT !.completed = x] EXCEPT !.outputs = y]
                      EXCEPT !.passes = [s.passes EXCEPT ![r] = z]]
OBVIOUS

LEMMA CompletesDoes ==
    ASSUME NEW c, NEW o, NEW p, NEW r
    PROVE  Completes(Results(c, o, p), r)
             = Results(With(c, r), PutAt(o, r, Tally(runs[r])), p)
<1> DEFINE s == Results(c, o, p)
           x == With(c, r)
           y == PutAt(o, r, Tally(runs[r]))
<1>1. s.completed = c /\ s.outputs = o
  BY ResultsAre
<1>2. Completes(s, r) = [[s EXCEPT !.completed = x] EXCEPT !.outputs = y]
  <2>1. Completes(s, r) = [s EXCEPT !.completed = x, !.outputs[r] = Tally(runs[r])]
    BY <1>1 DEF Completes, With
  <2> HIDE DEF s, x
  <2> QED BY <1>1, <2>1, FieldsInTurn DEF PutAt
<1> HIDE DEF x, y
<1>3. [s EXCEPT !.completed = x] = Results(x, o, p)
  BY DEF Results
<1>4. [Results(x, o, p) EXCEPT !.outputs = y] = Results(x, y, p)
  BY DEF Results
<1> HIDE DEF s
<1> QED BY <1>2, <1>3, <1>4 DEF s, x, y

LEMMA RestartsDoes ==
    ASSUME NEW c, NEW o, NEW p, NEW r, NEW i
    PROVE  Restarts(Results(c, o, p), r, i)
             = Results(c \ loop_scopes[r],
                       Wiped(o, r),
                       PutAt(p, r, i + 1))
<1> DEFINE s == Results(c, o, p)
           x == c \ loop_scopes[r]
           y == Wiped(o, r)
           z == PutAt(p, r, i + 1)
<1>1. s.completed = c /\ s.outputs = o /\ s.passes = p
  BY ResultsAre
<1>2. Restarts(s, r, i) = [[[s EXCEPT !.completed = x] EXCEPT !.outputs = y] EXCEPT !.passes = z]
  <2>1. Restarts(s, r, i) = [s EXCEPT !.completed = x, !.outputs = y, !.passes[r] = i + 1]
    BY <1>1 DEF Restarts, Wiped
  <2> HIDE DEF s, x, y
  <2> QED BY <1>1, <2>1, FieldsInTurn DEF PutAt
<1> HIDE DEF x, y, z
<1>3. [s EXCEPT !.completed = x] = Results(x, o, p)
  BY DEF Results
<1>4. [Results(x, o, p) EXCEPT !.outputs = y] = Results(x, y, p)
  BY DEF Results
<1>5. [Results(x, y, p) EXCEPT !.passes = z] = Results(x, y, z)
  BY DEF Results
<1> HIDE DEF s
<1> QED BY <1>2, <1>3, <1>4, <1>5 DEF s, x, y, z

Said(approved, D) ==
    [n \in Steps |-> IF n \in Cleared(approved, D) THEN 0
                     ELSE IF n \in D THEN Tally(runs[n]) ELSE outputs[n]]
Counted(approved, D) ==
    [n \in Steps |-> IF n \in D /\ Again(approved, n)
                     THEN Iteration(loop_passes, n) + 1 ELSE loop_passes[n]]

LEMMA FormIs ==
    ASSUME NEW approved, NEW D
    PROVE  Form(approved, D)
             = Results((completed \cup D) \ Cleared(approved, D), Said(approved, D),
                       Counted(approved, D))
BY DEF Form, Said, Counted, Results, No

LEMMA ResultFits ==
    ASSUME PlanFits, RunShape, RunFits, NEW approved \in [Ready \cap flow.evaluators -> BOOLEAN],
           NEW D \in SUBSET Ready, Allowed(approved, D), NEW r \in Ready \ D
    PROVE  LET st == Result(Form(approved, D), r, Iteration(loop_passes, r),
                            r \in flow.evaluators /\ approved[r])
           IN  \/ st = Form(approved, D \cup {r}) /\ Allowed(approved, D \cup {r})
               \/ st = Raises(Form(approved, D))
<1> DEFINE s == Form(approved, D)
           t == Form(approved, D \cup {r})
           C == Cleared(approved, D)
           C2 == Cleared(approved, D \cup {r})
           i == Iteration(loop_passes, r)
           A == r \in flow.evaluators /\ approved[r]
<1> SUFFICES \/ Result(s, r, i, A) = t /\ Allowed(approved, D \cup {r})
             \/ Result(s, r, i, A) = Raises(Form(approved, D))
  OBVIOUS
<1>1. r \in Steps /\ r \notin completed /\ r \notin D
  BY DEF Ready
<1>2. r \notin C
  BY <1>1, ReadyApart DEF Cleared
<1>3. s = Results((completed \cup D) \ C, Said(approved, D), Counted(approved, D))
  BY FormIs
<1>4. t = Results((completed \cup (D \cup {r})) \ C2, Said(approved, D \cup {r}),
                  Counted(approved, D \cup {r}))
  BY FormIs
<1>5. /\ \A loop \in ClosedBy(r) :
           /\ loop \in flow.loops /\ loop.source = r /\ loop.limit \in Passes
           /\ ClosedBy(r) = {loop}
           /\ r \in flow.evaluators <=> loop.mode = "condition"
      /\ r \in flow.evaluators => ClosedBy(r) # {}
      /\ ClosedBy(r) # {} => r \in loop_scopes[r]
  BY <1>1, ClosedByOne DEF PlanFits
<1>6. i \in Nat \ {0}
  <2>1. loop_passes \in [Steps -> Nat \ {0}]
    BY DEF RunShape
  <2> QED BY <1>1, <2>1, IterationFits
<1>7. C2 = IF Again(approved, r) THEN C \cup loop_scopes[r] ELSE C
  BY <1>1 DEF Cleared, PlanFits
<1>8. ASSUME ~Again(approved, r)
      PROVE  Completes(s, r) = t /\ Allowed(approved, D \cup {r})
  <2>1. C2 = C
    BY <1>7, <1>8
  <2>2. (completed \cup (D \cup {r})) \ C2 = With((completed \cup D) \ C, r)
    <3> HIDE DEF C, C2
    <3> QED BY <1>2, <2>1 DEF With
  <2>3. Said(approved, D \cup {r}) = PutAt(Said(approved, D), r, Tally(runs[r]))
    BY <1>1, <1>2, <2>1 DEF Said, PutAt
  <2>4. Counted(approved, D \cup {r}) = Counted(approved, D)
    BY <1>8 DEF Counted
  <2>5. Completes(s, r)
          = Results(With((completed \cup D) \ C, r),
                    PutAt(Said(approved, D), r, Tally(runs[r])),
                    Counted(approved, D))
    <3> HIDE DEF s, C
    <3> QED BY <1>3, CompletesDoes
  <2>6. Allowed(approved, D \cup {r})
    BY <1>8 DEF Allowed
  <2> HIDE DEF s, t, C, C2
  <2> QED BY <1>4, <2>2, <2>3, <2>4, <2>5, <2>6
<1>9. ASSUME Again(approved, r)
      PROVE  /\ ClosedBy(r) # {}
             /\ Restarts(s, r, i) = t
             /\ Restarts(Completes(s, r), r, i) = t
  <2>1. C2 = C \cup loop_scopes[r]
    BY <1>7, <1>9
  <2>2. ClosedBy(r) # {} /\ r \in loop_scopes[r]
    BY <1>5, <1>9 DEF Again
  <2>3. /\ (completed \cup (D \cup {r})) \ C2 = ((completed \cup D) \ C) \ loop_scopes[r]
        /\ (completed \cup (D \cup {r})) \ C2 = With((completed \cup D) \ C, r) \ loop_scopes[r]
    <3> HIDE DEF C, C2
    <3> QED BY <2>1, <2>2 DEF With
  <2>4. Said(approved, D \cup {r}) = Wiped(Said(approved, D), r)
    BY <2>1, <2>2 DEF Said, Wiped
  <2>5. \A v : Wiped(PutAt(Said(approved, D), r, v), r) = Wiped(Said(approved, D), r)
    BY <2>2 DEF Said, Wiped, PutAt
  <2>6. Counted(approved, D \cup {r}) = PutAt(Counted(approved, D), r, i + 1)
    BY <1>1, <1>9 DEF Counted, PutAt
  <2>7. Completes(s, r)
          = Results(With((completed \cup D) \ C, r),
                    PutAt(Said(approved, D), r, Tally(runs[r])),
                    Counted(approved, D))
    <3> HIDE DEF s, C
    <3> QED BY <1>3, CompletesDoes
  <2>8. Restarts(s, r, i)
          = Results(((completed \cup D) \ C) \ loop_scopes[r],
                    Wiped(Said(approved, D), r),
                    PutAt(Counted(approved, D), r, i + 1))
    <3> HIDE DEF s, C, i
    <3> QED BY <1>3, RestartsDoes
  <2>9. Restarts(Completes(s, r), r, i)
          = Results(With((completed \cup D) \ C, r) \ loop_scopes[r],
                    Wiped(PutAt(Said(approved, D), r, Tally(runs[r])), r),
                    PutAt(Counted(approved, D), r, i + 1))
    <3> DEFINE c == With((completed \cup D) \ C, r)
               o == PutAt(Said(approved, D), r, Tally(runs[r]))
               p == Counted(approved, D)
    <3>1. Completes(s, r) = Results(c, o, p)
      BY <2>7
    <3> HIDE DEF s, C, i, c, o, p
    <3>2. Restarts(Completes(s, r), r, i)
            = Results(c \ loop_scopes[r], Wiped(o, r), PutAt(p, r, i + 1))
      BY <3>1, RestartsDoes
    <3> QED BY <3>2 DEF c, o, p
  <2> HIDE DEF s, t, C, C2, i
  <2> QED BY <1>4, <2>2, <2>3, <2>4, <2>5, <2>6, <2>8, <2>9
<1>10. ASSUME Again(approved, r), NEW loop \in ClosedBy(r), i < loop.limit
       PROVE  Allowed(approved, D \cup {r})
  BY <1>10 DEF Allowed
<1>11. Result(s, r, i, A)
         = IF r \in flow.evaluators
           THEN IF A THEN Completes(s, r)
                ELSE IF \E loop \in ClosedBy(r) : i >= loop.limit THEN Raises(Form(approved, D))
                ELSE Restarts(s, r, i)
           ELSE IF \E loop \in ClosedBy(r) : i < loop.limit
           THEN Restarts(Completes(s, r), r, i) ELSE Completes(s, r)
  <2>1. ~s.raised
    <3> HIDE DEF s, C
    <3> QED BY <1>3, ResultsAre
  <2>2. Raises(s) = Raises(Form(approved, D))
    OBVIOUS
  <2> HIDE DEF s, i, A
  <2> QED BY <2>1, <2>2 DEF Result, Raises
<1> HIDE DEF s, i, t, A
<1>12. CASE r \in flow.evaluators /\ approved[r]
  <2>1. ~Again(approved, r)
    BY <1>12 DEF Again
  <2> QED BY <1>8, <1>11, <1>12, <2>1 DEF A
<1>13. CASE r \in flow.evaluators /\ ~approved[r]
  <2>1. Again(approved, r)
    BY <1>13 DEF Again
  <2>2. CASE \E loop \in ClosedBy(r) : i >= loop.limit
    <3> QED BY <1>11, <1>13, <2>2 DEF A
  <2>3. CASE ~\E loop \in ClosedBy(r) : i >= loop.limit
    <3>1. PICK loop \in ClosedBy(r) : i < loop.limit
      <4>1. PICK loop \in ClosedBy(r) : loop.limit \in 2 .. 20
        BY <1>5, <1>13, WorkflowGraphAssumption
      <4> QED BY <1>6, <2>3, <4>1
    <3>2. Allowed(approved, D \cup {r})
      BY <1>10, <2>1, <3>1
    <3> QED BY <1>9, <1>11, <1>13, <2>1, <2>3, <3>2 DEF A
  <2> QED BY <2>2, <2>3
<1>14. CASE r \notin flow.evaluators
  <2>1. CASE \E loop \in ClosedBy(r) : i < loop.limit
    <3>1. Again(approved, r)
      BY <1>14, <2>1 DEF Again, i
    <3>2. Allowed(approved, D \cup {r})
      BY <1>10, <2>1, <3>1
    <3> QED BY <1>9, <1>11, <1>14, <2>1, <3>1, <3>2 DEF A
  <2>2. CASE ~\E loop \in ClosedBy(r) : i < loop.limit
    <3>1. ~Again(approved, r)
      BY <1>14, <2>2 DEF Again, i
    <3> QED BY <1>8, <1>11, <1>14, <2>2, <3>1 DEF A
  <2> QED BY <2>1, <2>2
<1> QED BY <1>12, <1>13, <1>14

\* The nodes whose results are in when the first i of the order were looked at.
Seen(i) == {n \in Ready : \E j \in 1 .. i : order[j] = n}

\* One of them found its loop at its limit.
Stopped(approved, st) ==
    \E D \in SUBSET Ready : Allowed(approved, D) /\ st = Raises(Form(approved, D))

ResultsIn(approved, i, st) ==
    \/ st = Form(approved, Seen(i)) /\ Allowed(approved, Seen(i))
    \/ Stopped(approved, st)

Handles(approved, i, st) ==
    IF order[i] \in Ready
    THEN Result(st, order[i], Iteration(loop_passes, order[i]),
                order[i] \in flow.evaluators /\ approved[order[i]])
    ELSE st

LEMMA HandlesFits ==
    ASSUME PlanFits, RunShape, RunFits, NEW approved \in [Ready \cap flow.evaluators -> BOOLEAN],
           NEW i \in Steps, NEW st, ResultsIn(approved, i - 1, st)
    PROVE  ResultsIn(approved, i, Handles(approved, i, st))
<1> DEFINE r == order[i]
           A == r \in flow.evaluators /\ approved[r]
<1>1. NSteps \in Nat /\ i \in 1 .. NSteps /\ r \in Steps
  <2>1. r \in Steps
    BY DEF PlanFits, Ordered, Topological
  <2> QED BY <2>1, WorkflowGraphAssumption DEF Steps
<1>2. \A j \in Steps : order[j] = r => j = i
  <2>1. PICK k \in Steps : \A j \in Steps : order[j] = r <=> j = k
    BY <1>1 DEF PlanFits, Ordered, Topological
  <2> QED BY <2>1
<1>3. Seen(i) = IF r \in Ready THEN Seen(i - 1) \cup {r} ELSE Seen(i - 1)
  <2>1. \A j : j \in 1 .. i <=> j \in 1 .. i - 1 \/ j = i
    BY <1>1
  <2> QED BY <2>1 DEF Seen
<1>4. Seen(i - 1) \in SUBSET Ready /\ r \notin Seen(i - 1)
  <2>1. \A j \in 1 .. i - 1 : j \in Steps /\ j # i
    BY <1>1 DEF Steps
  <2> QED BY <1>2, <2>1 DEF Seen
<1>5. CASE r \notin Ready
  BY <1>3, <1>5 DEF Handles, ResultsIn
<1>6. CASE r \in Ready /\ Stopped(approved, st)
  <2>1. st.raised
    <3>1. PICK D \in SUBSET Ready : st = Raises(Form(approved, D))
      BY <1>6 DEF Stopped
    <3> QED BY <3>1 DEF Raises, Form
  <2>2. Handles(approved, i, st) = st
    BY <1>6, <2>1 DEF Handles, Result
  <2> QED BY <1>6, <2>2 DEF ResultsIn
<1>7. CASE r \in Ready /\ st = Form(approved, Seen(i - 1)) /\ Allowed(approved, Seen(i - 1))
  <2>1. r \in Ready \ Seen(i - 1)
    BY <1>4, <1>7
  <2>2. \/ /\ Result(st, r, Iteration(loop_passes, r), A) = Form(approved, Seen(i - 1) \cup {r})
           /\ Allowed(approved, Seen(i - 1) \cup {r})
        \/ Result(st, r, Iteration(loop_passes, r), A) = Raises(Form(approved, Seen(i - 1)))
    BY <1>4, <1>7, <2>1, ResultFits
  <2>3. Handles(approved, i, st) = Result(st, r, Iteration(loop_passes, r), A)
    BY <1>7 DEF Handles
  <2>4. Seen(i) = Seen(i - 1) \cup {r}
    BY <1>3, <1>7
  <2> HIDE DEF r, A
  <2> QED BY <1>4, <1>7, <2>2, <2>3, <2>4 DEF ResultsIn, Stopped
<1> QED BY <1>5, <1>6, <1>7 DEF ResultsIn

LEMMA AfterFits ==
    ASSUME PlanFits, RunShape, RunFits, NEW approved \in [Ready \cap flow.evaluators -> BOOLEAN]
    PROVE  \/ After(approved) = Form(approved, Ready) /\ Allowed(approved, Ready)
           \/ Stopped(approved, After(approved))
<1> DEFINE S == {Form(approved, D) : D \in SUBSET Ready} \cup {Raises(Form(approved, D)) : D \in SUBSET Ready}
           \* Records that are no results of a round need no care.
           F == [p \in (1 .. NSteps) \X S |->
                    IF Handles(approved, p[1], p[2]) \in S THEN Handles(approved, p[1], p[2]) ELSE Now]
           R(f) == f = [i \in 0 .. NSteps |-> IF i = 0 THEN Now ELSE Handles(approved, i, f[i - 1])]
           after == CHOOSE f : R(f)
<1>1. NSteps \in Nat /\ Len(order) = NSteps
  <2>1. NSteps \in Nat
    BY WorkflowGraphAssumption
  <2>2. order \in [1 .. NSteps -> Steps]
    BY DEF PlanFits, Ordered, Topological, Steps
  <2> QED BY <2>1, <2>2
<1>2. ASSUME NEW i, NEW st, ResultsIn(approved, i, st) PROVE st \in S
  BY <1>2 DEF ResultsIn, Stopped, Seen
<1>3. ResultsIn(approved, 0, Now)
  <2>1. Seen(0) = {}
    BY DEF Seen
  <2>2. Cleared(approved, {}) = {} /\ Allowed(approved, {})
    BY DEF Cleared, Allowed
  <2>3. Now = Form(approved, {})
    <3>1. outputs = [n \in Steps |-> outputs[n]] /\ loop_passes = [n \in Steps |-> loop_passes[n]]
      BY DEF RunShape
    <3>2. Form(approved, {}).completed = completed
      BY <2>2 DEF Form
    <3> QED BY <2>2, <3>1 DEF Form, Now
  <2> QED BY <2>1, <2>2, <2>3 DEF ResultsIn
<1>4. F \in [(1 .. NSteps) \X S -> S]
  <2>1. Now \in S
    BY <1>2, <1>3
  <2> HIDE DEF S
  <2> QED BY <2>1
<1>5. PICK f : Computes(f, NSteps, S, Now, F)
  <2>1. Now \in S
    BY <1>2, <1>3
  <2> HIDE DEF F, S
  <2> QED BY <1>1, <1>4, <2>1, RecursionExists
<1>6. ASSUME NEW i \in 1 .. NSteps, ResultsIn(approved, i - 1, f[i - 1])
      PROVE  f[i] = Handles(approved, i, f[i - 1]) /\ ResultsIn(approved, i, f[i])
  <2>1. ResultsIn(approved, i, Handles(approved, i, f[i - 1]))
    BY <1>6, HandlesFits DEF Steps
  <2>2. Handles(approved, i, f[i - 1]) \in S /\ f[i - 1] \in S
    BY <1>2, <1>6, <2>1
  <2>3. f[i] = F[<<i, f[i - 1]>>]
    BY <1>5 DEF Computes
  <2>4. <<i, f[i - 1]>> \in (1 .. NSteps) \X S
    BY <2>2
  <2> HIDE DEF S
  <2>5. f[i] = Handles(approved, i, f[i - 1])
    BY <2>2, <2>3, <2>4
  <2> QED BY <2>1, <2>5
<1> HIDE DEF F
<1>7. \A i \in 0 .. NSteps : ResultsIn(approved, i, f[i])
  <2> DEFINE T == {i \in 0 .. NSteps : ~ResultsIn(approved, i, f[i])}
  <2> SUFFICES ASSUME T # {} PROVE FALSE
    OBVIOUS
  <2>1. PICK i \in T : \A y \in T : i <= y
    <3> HIDE DEF T
    <3>1. T \in SUBSET Nat
      BY DEF T
    <3> QED BY <3>1, LeastOf
  <2>2. i # 0
    BY <1>3, <1>5 DEF Computes
  <2>3. i \in 1 .. NSteps /\ i - 1 \in 0 .. NSteps /\ i - 1 \notin T
    BY <1>1, <2>1, <2>2
  <2> QED BY <1>6, <2>1, <2>3
<1>8. R(f)
  <2>1. f = [i \in 0 .. NSteps |-> f[i]] /\ f[0] = Now
    BY <1>5 DEF Computes
  <2>2. \A i \in 0 .. NSteps : f[i] = IF i = 0 THEN Now ELSE Handles(approved, i, f[i - 1])
    <3> SUFFICES ASSUME NEW i \in 0 .. NSteps, i # 0 PROVE f[i] = Handles(approved, i, f[i - 1])
      BY <2>1
    <3>1. i \in 1 .. NSteps /\ i - 1 \in 0 .. NSteps
      BY <1>1
    <3> QED BY <1>6, <1>7, <3>1
  <2> QED BY <2>1, <2>2
\* The recursion has one solution.
<1>9. R(after)
  BY <1>8
<1>10. After(approved) = after[NSteps]
  BY <1>1 DEF After, Handles
<1> HIDE DEF after
<1>11. \A i \in 0 .. NSteps : after[i] = f[i]
  <2> DEFINE T == {i \in 0 .. NSteps : after[i] # f[i]}
  <2> SUFFICES ASSUME T # {} PROVE FALSE
    OBVIOUS
  <2>1. PICK i \in T : \A y \in T : i <= y
    <3> HIDE DEF T
    <3>1. T \in SUBSET Nat
      BY DEF T
    <3> QED BY <3>1, LeastOf
  <2>2. i # 0
    BY <1>1, <1>8, <1>9
  <2>3. i \in 0 .. NSteps /\ i - 1 \in 0 .. NSteps /\ i - 1 \notin T
    BY <1>1, <2>1, <2>2
  <2>4. after[i] = Handles(approved, i, after[i - 1]) /\ f[i] = Handles(approved, i, f[i - 1])
    BY <1>8, <1>9, <2>2, <2>3
  <2> QED BY <2>1, <2>3, <2>4
<1>12. Seen(NSteps) = Ready
  <2>1. \A n \in Ready : n \in Steps
    BY DEF Ready
  <2> QED BY <2>1 DEF Seen, Steps, PlanFits, Ordered, Topological
<1> QED BY <1>1, <1>7, <1>10, <1>11, <1>12 DEF ResultsIn

-----------------------------------------------------------------------------
(* A round keeps the invariant. *)

\* A loop that starts again is one pass further, within its limit.
LEMMA PassesCounted ==
    ASSUME PlanFits, RunShape, RunFits, NEW approved, NEW D \in SUBSET Ready, Allowed(approved, D)
    PROVE  /\ Counted(approved, D) \in [Steps -> 1 .. Most]
           /\ \A s \in D : Again(approved, s) =>
                /\ Counted(approved, D)[s] = loop_passes[s] + 1
                /\ \A loop \in ClosedBy(s) : Counted(approved, D)[s] <= loop.limit
           /\ \A s \in Steps : ~(s \in D /\ Again(approved, s)) =>
                Counted(approved, D)[s] = loop_passes[s]
<1>1. loop_passes \in [Steps -> 1 .. Most] /\ Most \in Nat
  BY MostFits DEF RunShape
<1>2. ASSUME NEW s \in D, Again(approved, s)
      PROVE  /\ Iteration(loop_passes, s) = loop_passes[s]
             /\ \A loop \in ClosedBy(s) : loop_passes[s] + 1 <= loop.limit /\ loop.limit <= Most
             /\ ClosedBy(s) # {}
  <2>1. s \in Steps /\ loop_passes \in [Steps -> Nat \ {0}]
    BY <1>1 DEF Ready
  <2>2. PICK loop \in ClosedBy(s) : Iteration(loop_passes, s) < loop.limit
    BY <1>2 DEF Allowed
  <2>3. loop.limit \in Passes /\ ClosedBy(s) = {loop}
    BY <2>1, <2>2, ClosedByOne
  <2>4. loop.limit \in Nat /\ loop.limit <= Most
    <3>1. loop.limit \in 2 .. 20
      BY <2>3, WorkflowGraphAssumption
    <3>2. loop.limit <= Most
      BY <2>3, MostFits
    <3> QED BY <3>1, <3>2
  <2>5. s \in loop_scopes[s]
    BY <2>1, <2>2 DEF PlanFits
  <2>6. Iteration(loop_passes, s) = loop_passes[s]
    BY <2>1, <2>5, IterationFits
  <2> QED BY <1>1, <2>1, <2>2, <2>3, <2>4, <2>6
<1>3. ASSUME NEW s \in Steps
      PROVE  /\ Counted(approved, D)[s] = IF s \in D /\ Again(approved, s)
                                         THEN Iteration(loop_passes, s) + 1 ELSE loop_passes[s]
             /\ Counted(approved, D)[s] \in 1 .. Most
  <2>1. Counted(approved, D)[s] = IF s \in D /\ Again(approved, s)
                                  THEN Iteration(loop_passes, s) + 1 ELSE loop_passes[s]
    BY DEF Counted
  <2>2. CASE s \in D /\ Again(approved, s)
    <3>1. PICK loop \in ClosedBy(s) : loop_passes[s] + 1 <= loop.limit /\ loop.limit <= Most
      BY <1>2, <2>2
    <3>2. loop.limit \in 2 .. 20
      BY <3>1, ClosedByOne, WorkflowGraphAssumption
    <3> QED BY <1>1, <1>2, <2>1, <2>2, <3>1, <3>2
  <2>3. CASE ~(s \in D /\ Again(approved, s))
    BY <1>1, <2>1, <2>3
  <2> QED BY <2>1, <2>2, <2>3
<1>4. Counted(approved, D) \in [Steps -> 1 .. Most]
  <2>1. Counted(approved, D) = [n \in Steps |-> Counted(approved, D)[n]]
    BY DEF Counted
  <2> QED BY <1>3, <2>1
<1>5. \A s \in D : s \in Steps
  BY DEF Ready
<1> QED BY <1>2, <1>3, <1>4, <1>5

LEMMA TallyFits ==
    ASSUME NEW k \in 0 .. Most + 1
    PROVE  Tally(k) \in 0 .. Most + 1 /\ (k <= Most => Tally(k) = k + 1)
BY MostFits DEF Tally

LEMMA FormShape ==
    ASSUME PlanFits, RunShape, RunFits, NEW approved, NEW D \in SUBSET Ready, Allowed(approved, D)
    PROVE  /\ Form(approved, D).completed \in SUBSET Steps
           /\ Form(approved, D).passes \in [Steps -> 1 .. Most]
           /\ Form(approved, D).outputs \in [Steps -> 0 .. Most + 1]
<1>1. Form(approved, D).completed = (completed \cup D) \ Cleared(approved, D)
  BY DEF Form
<1>2. Form(approved, D).passes = Counted(approved, D)
  BY DEF Form, Counted
<1>3. Form(approved, D).outputs = Said(approved, D)
  BY DEF Form, Said
<1>4. Said(approved, D) \in [Steps -> 0 .. Most + 1]
  <2>1. \A n \in Steps : Tally(runs[n]) \in 0 .. Most + 1 /\ outputs[n] \in 0 .. Most + 1
    BY TallyFits DEF RunShape
  <2>2. 0 \in 0 .. Most + 1
    BY MostFits
  <2> QED BY <2>1, <2>2 DEF Said
<1>5. D \in SUBSET Steps
  BY DEF Ready
<1> QED BY <1>1, <1>2, <1>3, <1>4, <1>5, PassesCounted DEF RunShape

LEMMA RoundShape ==
    ASSUME RunShape, Round
    PROVE  runs' \in [Steps -> 0 .. Most + 1] /\ used' \in [Steps -> [Steps -> 0 .. Most + 1]]
<1>1. \A n \in Steps : Tally(runs[n]) \in 0 .. Most + 1 /\ runs[n] \in 0 .. Most + 1
  BY TallyFits DEF RunShape
<1> QED BY <1>1 DEF Round, RunShape

LEMMA PlanStays ==
    ASSUME PlanFits, UNCHANGED plan
    PROVE  PlanFits'
BY DEF PlanFits, plan, Ordered, Topological, ClosedBy, Sources

\* What RunFits says, of a state given by its parts.
RunFitsWith(comp, outs, passes, rs, us) ==
    /\ \A loop \in flow.loops : passes[loop.source] <= loop.limit
    /\ \A n \in Steps :
         /\ rs[n] = IF n \in comp THEN Iteration(passes, n) ELSE Iteration(passes, n) - 1
         /\ outs[n] = IF n \in comp THEN rs[n] ELSE 0
    /\ \A loop \in flow.loops :
         loop.mode = "fixed" /\ loop.source \in comp => passes[loop.source] = loop.limit
    /\ \A s \in Steps : \A m, n \in loop_scopes[s] :
         <<m, n>> \in flow.edges /\ n \in comp => m \in comp
    /\ SideExits = {} =>
         \A m, n \in Steps : <<m, n>> \in flow.edges /\ n \in comp =>
             m \in comp /\ us[n][m] = outs[m]

LEMMA RunFitsThen ==
    ASSUME UNCHANGED plan, RunFitsWith(completed', outputs', loop_passes', runs', used')
    PROVE  RunFits'
<1>1. flow' = flow /\ loop_scopes' = loop_scopes
  BY DEF plan
<1>2. SideExits' = SideExits
  BY <1>1 DEF SideExits
<1>3. \A n : Iteration(loop_passes, n)' = Iteration(loop_passes', n)
  BY <1>1 DEF Iteration
<1> QED BY <1>1, <1>2, <1>3 DEF RunFits, RunFitsWith

LEMMA RoundFits ==
    ASSUME PlanFits, RunShape, RunFits, NEW approved \in [Ready \cap flow.evaluators -> BOOLEAN],
           Allowed(approved, Ready), NEW rs, NEW us,
           rs = [n \in Steps |-> IF n \in Ready THEN Tally(runs[n]) ELSE runs[n]],
           us = [n \in Steps |-> IF n \in Ready THEN outputs ELSE used[n]]
    PROVE  RunFitsWith((completed \cup Ready) \ Cleared(approved, Ready), Said(approved, Ready),
                       Counted(approved, Ready), rs, us)
<1> DEFINE C == Cleared(approved, Ready)
           comp == (completed \cup Ready) \ C
           outs == Said(approved, Ready)
           lp == Counted(approved, Ready)
<1>1. /\ lp \in [Steps -> 1 .. Most]
      /\ \A s \in Ready : Again(approved, s) =>
            lp[s] = loop_passes[s] + 1 /\ \A loop \in ClosedBy(s) : lp[s] <= loop.limit
      /\ \A s \in Steps : ~(s \in Ready /\ Again(approved, s)) => lp[s] = loop_passes[s]
  BY PassesCounted
<1>2. loop_passes \in [Steps -> Nat \ {0}] /\ lp \in [Steps -> Nat \ {0}]
  <2> HIDE DEF lp
  <2> QED BY <1>1, MostFits DEF RunShape
<1>3. /\ \A n \in Ready : n \in Steps /\ n \notin completed /\ Sources(flow.edges, n) \subseteq completed
      /\ completed \subseteq Steps
  BY DEF Ready, RunShape
<1>4. \A s \in Ready : Again(approved, s) =>
         ClosedBy(s) # {} /\ s \in loop_scopes[s] /\ loop_scopes[s] \ {s} \subseteq completed
  <2> SUFFICES ASSUME NEW s \in Ready, Again(approved, s)
               PROVE  ClosedBy(s) # {} /\ s \in loop_scopes[s] /\ loop_scopes[s] \ {s} \subseteq completed
    OBVIOUS
  <2>1. ClosedBy(s) # {}
    BY <1>3, ClosedByOne DEF Again
  <2> QED BY <1>3, <2>1, ReadyCloses DEF PlanFits
<1>5. \A n \in C : \E s \in Ready : Again(approved, s) /\ n \in loop_scopes[s]
  BY DEF Cleared
<1>6. \A s \in Ready : \A n \in Steps : Again(approved, s) /\ n \in loop_scopes[s] => n \in C
  BY DEF Cleared
<1>7. C \subseteq Steps
  BY DEF Cleared
<1>8. \A s, t, n \in Steps : n \in loop_scopes[s] /\ n \in loop_scopes[t] => s = t
  BY DEF PlanFits
<1> HIDE DEF lp, C
\* A pass starts for all of a loop or for none of it.
<1>9. \A s \in Steps : \A m, n \in loop_scopes[s] : m \in C => n \in C
  <2> SUFFICES ASSUME NEW s \in Steps, NEW m \in loop_scopes[s], NEW n \in loop_scopes[s], m \in C
               PROVE  n \in C
    OBVIOUS
  <2>1. PICK t \in Ready : Again(approved, t) /\ m \in loop_scopes[t]
    BY <1>5
  <2>2. m \in Steps /\ n \in Steps /\ t = s
    BY <1>3, <1>7, <1>8, <2>1 DEF PlanFits
  <2> QED BY <1>6, <2>1, <2>2
<1>10. ASSUME NEW n \in C
       PROVE  /\ Iteration(lp, n) = Iteration(loop_passes, n) + 1
              /\ n \in completed \/ n \in Ready
  <2>1. PICK s \in Ready : Again(approved, s) /\ n \in loop_scopes[s]
    BY <1>5
  <2>2. Iteration(lp, n) = lp[s] /\ Iteration(loop_passes, n) = loop_passes[s]
    BY <1>2, <1>3, <1>7, <2>1, IterationFits
  <2> QED BY <1>1, <1>4, <2>1, <2>2
<1>11. ASSUME NEW n \in Steps \ C
       PROVE  Iteration(lp, n) = Iteration(loop_passes, n)
  <2>1. CASE \E s \in Steps : n \in loop_scopes[s]
    <3>1. PICK s \in Steps : n \in loop_scopes[s]
      BY <2>1
    <3>2. lp[s] = loop_passes[s]
      BY <1>1, <1>6, <3>1
    <3>3. Iteration(lp, n) = lp[s] /\ Iteration(loop_passes, n) = loop_passes[s]
      BY <1>2, <3>1, IterationFits
    <3> QED BY <3>2, <3>3
  <2>2. CASE ~\E s \in Steps : n \in loop_scopes[s]
    BY <1>2, <2>2, IterationFits
  <2> QED BY <2>1, <2>2
<1>12. \A loop \in flow.loops : loop \in ClosedBy(loop.source) /\ loop.source \in Steps /\ loop.limit \in Nat
  <2> SUFFICES ASSUME NEW loop \in flow.loops
               PROVE  loop \in ClosedBy(loop.source) /\ loop.source \in Steps /\ loop.limit \in Nat
    OBVIOUS
  <2>1. loop.source \in Steps /\ loop.limit \in Passes
    BY DEF PlanFits, Loops
  <2>2. loop.limit \in 2 .. 20
    BY <2>1, WorkflowGraphAssumption
  <2> QED BY <2>1, <2>2 DEF ClosedBy
<1>13. \A loop \in flow.loops : lp[loop.source] <= loop.limit
  BY <1>1, <1>12 DEF RunFits
<1>14. ASSUME NEW n \in Steps
       PROVE  /\ rs[n] = IF n \in comp THEN Iteration(lp, n) ELSE Iteration(lp, n) - 1
              /\ outs[n] = IF n \in comp THEN rs[n] ELSE 0
  <2>1. /\ runs[n] = IF n \in completed THEN Iteration(loop_passes, n) ELSE Iteration(loop_passes, n) - 1
        /\ outputs[n] = IF n \in completed THEN runs[n] ELSE 0
    BY DEF RunFits
  <2>2. Iteration(loop_passes, n) \in 1 .. Most /\ Most \in Nat
    <3>1. CASE \E s \in Steps : n \in loop_scopes[s]
      <4>1. PICK s \in Steps : n \in loop_scopes[s] /\ Iteration(loop_passes, n) = loop_passes[s]
        BY <1>2, <3>1, IterationFits
      <4> QED BY <4>1, MostFits DEF RunShape
    <3>2. CASE ~\E s \in Steps : n \in loop_scopes[s]
      BY <1>2, <3>2, IterationFits, MostFits
    <3> QED BY <3>1, <3>2
  <2>3. n \notin completed => Tally(runs[n]) = Iteration(loop_passes, n)
    <3>1. n \notin completed => runs[n] \in 0 .. Most + 1 /\ runs[n] <= Most
      BY <2>1, <2>2
    <3> QED BY <2>1, <2>2, <3>1, TallyFits
  <2>4. rs[n] = IF n \in Ready THEN Tally(runs[n]) ELSE runs[n]
    OBVIOUS
  <2>5. outs[n] = IF n \in C THEN 0 ELSE IF n \in Ready THEN Tally(runs[n]) ELSE outputs[n]
    BY DEF Said, C
  <2> HIDE DEF outs
  <2>6. CASE n \in C
    <3>1. Iteration(lp, n) = Iteration(loop_passes, n) + 1 /\ (n \in completed \/ n \in Ready)
      BY <1>10, <2>6
    <3>2. rs[n] = Iteration(loop_passes, n)
      BY <1>3, <2>1, <2>3, <2>4, <3>1
    <3> QED BY <2>2, <2>5, <2>6, <3>1, <3>2
  <2>7. CASE n \notin C
    <3>1. Iteration(lp, n) = Iteration(loop_passes, n)
      BY <1>11, <2>7
    <3> QED BY <1>3, <2>1, <2>2, <2>3, <2>4, <2>5, <2>7, <3>1
  <2> QED BY <2>6, <2>7
<1>15. ASSUME NEW loop \in flow.loops, loop.mode = "fixed", loop.source \in comp
       PROVE  lp[loop.source] = loop.limit
  <2> DEFINE s == loop.source
  <2>1. s \in Steps /\ s \notin C /\ s \in loop_scopes[s]
    BY <1>12, <1>15 DEF PlanFits
  <2>2. lp[s] = loop_passes[s] /\ ~(s \in Ready /\ Again(approved, s))
    BY <1>1, <1>6, <2>1
  <2>3. CASE s \in completed
    BY <1>15, <2>2, <2>3 DEF RunFits
  <2>4. CASE s \in Ready
    <3>1. s \notin flow.evaluators
      BY <1>12, <1>15, <2>1, ClosedByOne
    <3>2. ~(Iteration(loop_passes, s) < loop.limit)
      BY <1>12, <2>2, <2>4, <3>1 DEF Again
    <3>3. Iteration(loop_passes, s) = loop_passes[s] /\ loop_passes[s] \in Nat
      BY <1>2, <2>1, IterationFits
    <3>4. loop_passes[s] <= loop.limit
      BY DEF RunFits
    <3> QED BY <1>12, <2>2, <3>2, <3>3, <3>4
  <2> QED BY <1>15, <2>3, <2>4
<1>16. ASSUME NEW m \in Steps, NEW n \in Steps, <<m, n>> \in flow.edges, n \in Ready
       PROVE  m \in completed /\ m \notin Ready
  BY <1>3, <1>16 DEF Sources
<1>17. ASSUME NEW s \in Steps, NEW m \in loop_scopes[s], NEW n \in loop_scopes[s],
              <<m, n>> \in flow.edges, n \in comp
       PROVE  m \in comp
  <2>1. m \in Steps /\ n \in Steps
    BY DEF PlanFits
  <2>2. m \notin C
    BY <1>9, <1>17
  <2>3. m \in completed
    BY <1>16, <1>17, <2>1 DEF RunFits
  <2> QED BY <2>2, <2>3
<1>18. ASSUME SideExits = {}, NEW m \in Steps, NEW n \in Steps, <<m, n>> \in flow.edges, n \in comp
       PROVE  m \in comp /\ us[n][m] = outs[m]
  <2>1. n \in completed => m \in completed /\ used[n][m] = outputs[m]
    BY <1>18 DEF RunFits
  <2>2. m \in completed /\ m \notin Ready /\ n \notin C
    BY <1>3, <1>16, <1>18, <2>1
  <2>3. m \notin C
    <3> SUFFICES ASSUME m \in C PROVE FALSE
      OBVIOUS
    <3>1. PICK s \in Ready : Again(approved, s) /\ m \in loop_scopes[s]
      BY <1>5
    <3>2. n \notin loop_scopes[s] /\ m # s
      BY <1>3, <1>6, <2>2, <3>1
    <3>3. PICK loop \in flow.loops : loop.source = s
      BY <1>4, <3>1 DEF ClosedBy
    <3>4. <<m, n>>[1] = m /\ <<m, n>>[2] = n
      OBVIOUS
    <3>5. <<m, n>> \in SideExits
      BY <1>18, <3>1, <3>2, <3>3, <3>4 DEF SideExits
    <3> QED BY <1>18, <3>5
  <2>4. outs[m] = outputs[m]
    BY <2>2, <2>3 DEF Said, C
  <2>5. us[n][m] = outputs[m]
    BY <1>18, <2>1
  <2> QED BY <2>2, <2>3, <2>4, <2>5
<1> HIDE DEF comp, outs
<1>19. RunFitsWith(comp, outs, lp, rs, us)
  BY <1>13, <1>14, <1>15, <1>17, <1>18 DEF RunFitsWith
<1> QED BY <1>19 DEF comp, outs, lp, C

LEMMA RoundKeeps ==
    ASSUME FlowInv, Round
    PROVE  FlowInv'
<1>1. phase = "running" /\ PlanFits /\ RunShape /\ RunFits
  BY DEF Round, FlowInv
<1>2. PICK approved \in [Ready \cap flow.evaluators -> BOOLEAN] :
         LET end == After(approved)
         IN /\ completed' = end.completed /\ outputs' = end.outputs /\ loop_passes' = end.passes
            /\ phase' = IF end.raised THEN "limit" ELSE "running"
  BY DEF Round
<1> DEFINE end == After(approved)
<1>3. /\ completed' = end.completed /\ outputs' = end.outputs /\ loop_passes' = end.passes
      /\ phase' = IF end.raised THEN "limit" ELSE "running"
  BY <1>2
<1> HIDE DEF end
<1>4. UNCHANGED plan /\ PlanFits'
  BY <1>1, PlanStays DEF Round
<1>5. PICK D \in SUBSET Ready :
         /\ Allowed(approved, D) /\ end.completed = Form(approved, D).completed
         /\ end.outputs = Form(approved, D).outputs /\ end.passes = Form(approved, D).passes
         /\ D = Ready \/ end.raised
  <2>1. CASE After(approved) = Form(approved, Ready) /\ Allowed(approved, Ready)
    BY <2>1 DEF end
  <2>2. CASE Stopped(approved, After(approved))
    <3>1. PICK D \in SUBSET Ready : Allowed(approved, D) /\ end = Raises(Form(approved, D))
      BY <2>2 DEF Stopped, end
    <3>2. /\ Raises(Form(approved, D)).completed = Form(approved, D).completed
          /\ Raises(Form(approved, D)).outputs = Form(approved, D).outputs
          /\ Raises(Form(approved, D)).passes = Form(approved, D).passes
          /\ Raises(Form(approved, D)).raised
      BY DEF Raises, Form
    <3> QED BY <3>1, <3>2
  <2> QED BY <1>1, <2>1, <2>2, AfterFits
<1>6. RunShape'
  <2>1. /\ completed' \in SUBSET Steps /\ loop_passes' \in [Steps -> 1 .. Most]
        /\ outputs' \in [Steps -> 0 .. Most + 1]
    BY <1>1, <1>3, <1>5, FormShape
  <2>2. runs' \in [Steps -> 0 .. Most + 1] /\ used' \in [Steps -> [Steps -> 0 .. Most + 1]]
    BY <1>1, RoundShape
  <2>3. phase' \in {"running", "done", "failed", "limit"}
    BY <1>3
  <2> QED BY <2>1, <2>2, <2>3 DEF RunShape
<1>7. ASSUME phase' # "limit" PROVE RunFits'
  <2>1. D = Ready
    BY <1>3, <1>5, <1>7
  <2>2. /\ completed' = (completed \cup Ready) \ Cleared(approved, Ready)
        /\ outputs' = Said(approved, Ready) /\ loop_passes' = Counted(approved, Ready)
    BY <1>3, <1>5, <2>1 DEF Form, Said, Counted
  <2>3. /\ runs' = [n \in Steps |-> IF n \in Ready THEN Tally(runs[n]) ELSE runs[n]]
        /\ used' = [n \in Steps |-> IF n \in Ready THEN outputs ELSE used[n]]
    BY DEF Round
  <2>4. RunFitsWith((completed \cup Ready) \ Cleared(approved, Ready), Said(approved, Ready),
                    Counted(approved, Ready), runs', used')
    BY <1>1, <1>5, <2>1, <2>3, RoundFits
  <2> QED BY <1>4, <2>2, <2>4, RunFitsThen
<1>8. phase' # "done"
  BY <1>3
<1> QED BY <1>4, <1>6, <1>7, <1>8 DEF FlowInv

\* What leaves the run as it is keeps what is said of it.
LEMMA RunStays ==
    ASSUME RunFits, UNCHANGED <<plan, completed, outputs, loop_passes, runs, used>>
    PROVE  RunFits'
<1>1. RunFitsWith(completed', outputs', loop_passes', runs', used')
  BY DEF RunFits, RunFitsWith
<1> QED BY <1>1, RunFitsThen

LEMMA FlowGoesOn ==
    ASSUME FlowInv, [WorkflowGraphNext]_wgVars
    PROVE  FlowInv'
<1>1. CASE Round
  BY <1>1, RoundKeeps
<1>2. CASE RoundFails \/ Finished
  <2>1. /\ phase = "running" /\ UNCHANGED <<plan, completed, outputs, loop_passes, runs, used>>
        /\ phase' = "failed" \/ (phase' = "done" /\ completed = Steps)
    BY <1>2 DEF RoundFails, Finished
  <2>2. PlanFits' /\ RunFits'
    BY <2>1, PlanStays, RunStays DEF FlowInv
  <2>3. RunShape'
    BY <2>1 DEF FlowInv, RunShape
  <2>4. phase' = "done" => completed' = Steps
    BY <2>1
  <2> QED BY <2>2, <2>3, <2>4 DEF FlowInv
<1>3. CASE UNCHANGED wgVars
  <2>1. UNCHANGED <<plan, completed, outputs, loop_passes, runs, used>> /\ phase' = phase
    BY <1>3 DEF wgVars
  <2>2. PlanFits' /\ (RunFits => RunFits')
    BY <2>1, PlanStays, RunStays DEF FlowInv
  <2>3. RunShape' /\ (phase' = "done" => completed' = Steps)
    BY <2>1 DEF FlowInv, RunShape
  <2> QED BY <2>1, <2>2, <2>3 DEF FlowInv
<1> QED BY <1>1, <1>2, <1>3 DEF WorkflowGraphNext

\* As long as a run has not met a limit, every node ran as often as the pass its loop is in
\* says, what it said is there from the moment it is complete until its loop starts again, and
\* what is complete in a loop reaches back to the target of the loop (run_workflow).
THEOREM FlowInvHolds == WorkflowGraphSpec => []FlowInv
<1>1. WorkflowGraphInit => FlowInv
  BY FlowStarts DEF WorkflowGraphInit
<1> QED BY <1>1, FlowGoesOn, PTL DEF WorkflowGraphSpec

-----------------------------------------------------------------------------
(* The properties. *)

\* The first node that is not complete is ready: its sources come before it.
LEMMA InputsReady == FlowInv => InputsAreThere
<1> SUFFICES ASSUME FlowInv, phase = "running", completed # Steps
             PROVE  Ready # {} /\ \A n \in Ready : \A m \in Sources(flow.edges, n) : outputs[m] # 0
  BY DEF InputsAreThere
<1>1. PlanFits /\ RunShape /\ RunFits
  BY DEF FlowInv
<1>2. Ready # {}
  <2> DEFINE T == Steps \ completed
  <2>1. T \in SUBSET Nat /\ T # {}
    <3>1. completed \in SUBSET Steps
      BY <1>1 DEF RunShape
    <3>2. Steps \in SUBSET Nat
      BY WorkflowGraphAssumption DEF Steps
    <3> QED BY <3>1, <3>2
  <2>2. PICK n \in T : \A y \in T : n <= y
    <3> HIDE DEF T
    <3> QED BY <2>1, LeastOf
  <2>3. \A m \in Sources(flow.edges, n) : m \in completed
    <3> SUFFICES ASSUME NEW m \in Sources(flow.edges, n), m \notin completed PROVE FALSE
      OBVIOUS
    <3>1. m \in T /\ <<m, n>> \in Forward
      BY <1>1 DEF Sources, PlanFits
    <3>2. m < n /\ n <= m /\ m \in Nat /\ n \in Nat
      BY <2>2, <3>1 DEF Forward, Steps
    <3> QED BY <3>2
  <2> QED BY <2>2, <2>3 DEF Ready
<1>3. ASSUME NEW n \in Ready, NEW m \in Sources(flow.edges, n) PROVE outputs[m] # 0
  <2>1. m \in completed /\ m \in Steps
    BY DEF Ready, Sources
  <2>2. outputs[m] = Iteration(loop_passes, m)
    BY <1>1, <2>1 DEF RunFits
  <2>3. loop_passes \in [Steps -> Nat \ {0}]
    BY <1>1, MostFits DEF RunShape
  <2>4. Iteration(loop_passes, m) \in Nat \ {0}
    BY <1>1, <2>1, <2>3, IterationFits
  <2> QED BY <2>2, <2>4
<1> QED BY <1>2, <1>3

LEMMA RunsCounted == FlowInv => RunsAsConfigured
<1> SUFFICES ASSUME FlowInv, phase = "done", NEW n \in Steps
             PROVE  /\ (\A loop \in flow.loops : n \notin loop_scopes[loop.source]) => runs[n] = 1
                    /\ \A loop \in flow.loops : n \in loop_scopes[loop.source] =>
                         IF loop.mode = "fixed" THEN runs[n] = loop.limit ELSE runs[n] \in 1 .. loop.limit
  BY DEF RunsAsConfigured
<1>1. PlanFits /\ RunShape /\ RunFits /\ completed = Steps
  BY DEF FlowInv
<1>2. runs[n] = Iteration(loop_passes, n)
  BY <1>1 DEF RunFits
<1>3. loop_passes \in [Steps -> Nat \ {0}]
  BY <1>1, MostFits DEF RunShape
<1>4. ASSUME \A loop \in flow.loops : n \notin loop_scopes[loop.source] PROVE runs[n] = 1
  <2>1. \A s \in Steps : n \notin loop_scopes[s]
    <3> SUFFICES ASSUME NEW s \in Steps, n \in loop_scopes[s] PROVE FALSE
      OBVIOUS
    <3>1. PICK loop \in flow.loops : loop.source = s
      BY <1>1 DEF PlanFits, ClosedBy
    <3> QED BY <1>4, <3>1
  <2> QED BY <1>1, <1>2, <1>3, <2>1, IterationFits
<1>5. ASSUME NEW loop \in flow.loops, n \in loop_scopes[loop.source]
      PROVE  IF loop.mode = "fixed" THEN runs[n] = loop.limit ELSE runs[n] \in 1 .. loop.limit
  <2>1. loop.source \in Steps /\ loop.limit \in Passes
    BY <1>1 DEF PlanFits, Loops
  <2>2. runs[n] = loop_passes[loop.source]
    BY <1>1, <1>2, <1>3, <1>5, <2>1, IterationFits
  <2>3. loop.limit \in Nat /\ loop_passes[loop.source] \in Nat \ {0}
    BY <1>3, <2>1, WorkflowGraphAssumption
  <2>4. /\ loop_passes[loop.source] <= loop.limit
        /\ loop.mode = "fixed" => loop_passes[loop.source] = loop.limit
    BY <1>1, <2>1 DEF RunFits
  <2> QED BY <2>2, <2>3, <2>4
<1> QED BY <1>4, <1>5

LEMMA LastUsed == FlowInv => LastPassIsUsed
<1> SUFFICES ASSUME FlowInv, phase = "done", SideExits = {}, NEW e \in flow.edges
             PROVE  used[e[2]][e[1]] = outputs[e[1]]
  BY DEF LastPassIsUsed
<1>1. PlanFits /\ RunFits /\ completed = Steps
  BY DEF FlowInv
<1>2. e \in Steps \X Steps /\ e = <<e[1], e[2]>>
  BY <1>1 DEF PlanFits, Forward
<1> QED BY <1>1, <1>2 DEF RunFits

\* A run of a definition the validator lets through never stops for want of a node that is
\* ready, gives no node an input that is missing, runs every node as often as its loop says,
\* and hands on the last pass of a loop (workflow_runner.py, run_workflow).
THEOREM RunsAreAsDrawn == WorkflowGraphSpec => []RunsAsDrawn
<1>1. FlowInv => RunsAsDrawn
  BY InputsReady, RunsCounted, LastUsed DEF RunsAsDrawn
<1> QED BY <1>1, FlowInvHolds, PTL

\* The variables of a run keep their types.
THEOREM WorkflowGraphTypeCorrect == WorkflowGraphSpec => []WorkflowGraphTypeOK
<1>1. FlowInv => WorkflowGraphTypeOK
  BY DEF FlowInv, RunShape, WorkflowGraphTypeOK
<1> QED BY <1>1, FlowInvHolds, PTL
====
