---- MODULE ServicesProofs ----
(***************************************************************************)
(* Proofs about the connection pool of SQLite (SqlitePool): it keeps its    *)
(* size, a connection has one place, and what is handed over unclean is the *)
(* doing of a cancellation that found a write queued.  Workflow definitions *)
(* are in WorkflowGraphProofs.                                              *)
(***************************************************************************)
EXTENDS MCServices, WorkflowGraphProofs, FiniteSetTheorems, SequenceTheorems, TLAPS

-----------------------------------------------------------------------------
(* Sequences of connections, and what they hold. *)

\* A task that takes a connection has it innermost, and keeps the others.
LEMMA TakenFits ==
    ASSUME NEW S, NEW s \in Seq(S), NEW c \in S, c \notin ToSet(s), IsInjective(s)
    PROVE  /\ Append(s, c) \in Seq(S) /\ Append(s, c) # <<>> /\ Last(Append(s, c)) = c
           /\ ToSet(Append(s, c)) = ToSet(s) \cup {c}
           /\ IsInjective(Append(s, c))
<1> DEFINE a == Append(s, c)
<1>1. /\ a \in Seq(S) /\ a # <<>> /\ Len(a) = Len(s) + 1 /\ Len(s) \in Nat
      /\ DOMAIN a = 1 .. Len(s) + 1 /\ DOMAIN s = 1 .. Len(s)
      /\ \A i \in 1 .. Len(s) : a[i] = s[i]
      /\ a[Len(s) + 1] = c
  BY AppendProperties, LenProperties
<1> HIDE DEF a
<1>2. ToSet(a) = ToSet(s) \cup {c}
  BY <1>1 DEF ToSet
<1>3. Last(a) = c
  BY <1>1 DEF Last
<1>4. IsInjective(a)
  <2> SUFFICES ASSUME NEW i \in DOMAIN a, NEW j \in DOMAIN a, a[i] = a[j]
               PROVE  i = j
    BY DEF IsInjective
  <2>1. \A k \in 1 .. Len(s) : s[k] # c
    BY <1>1 DEF ToSet
  <2> QED
    BY <1>1, <2>1 DEF IsInjective
<1> QED
  BY <1>1, <1>2, <1>3, <1>4 DEF a

\* A task that gives its innermost connection back keeps the others.
LEMMA DroppedFits ==
    ASSUME NEW S, NEW s \in Seq(S), s # <<>>, IsInjective(s)
    PROVE  /\ Front(s) \in Seq(S) /\ Last(s) \in ToSet(s) /\ ToSet(s) \subseteq S
           /\ ToSet(Front(s)) = ToSet(s) \ {Last(s)}
           /\ IsInjective(Front(s))
           /\ Front(s) = <<>> <=> Len(s) = 1
<1> DEFINE f == Front(s)
<1>1. /\ DOMAIN s = 1 .. Len(s) /\ Len(s) \in Nat \ {0} /\ \A i \in 1 .. Len(s) : s[i] \in S
  BY LenProperties, EmptySeq
<1>2. /\ f \in Seq(S) /\ Len(f) = Len(s) - 1 /\ \A i \in 1 .. Len(s) - 1 : f[i] = s[i]
  <2>1. /\ f \in Seq(S)
        /\ Len(f) = IF 1 <= Len(s) - 1 THEN (Len(s) - 1) - 1 + 1 ELSE 0
        /\ \A i \in 1 .. (Len(s) - 1) - 1 + 1 : f[i] = s[1 + i - 1]
    <3>1. 1 \in Int /\ Len(s) - 1 \in Int /\ \A i \in 1 .. Len(s) - 1 : s[i] \in S
      BY <1>1
    <3> HIDE DEF f
    <3> QED
      BY <3>1, SubSeqProperties DEF f, Front
  <2> HIDE DEF f
  <2>2. f \in Seq(S) /\ Len(f) = Len(s) - 1
    <3>1. CASE Len(s) = 1
      BY <2>1, <3>1
    <3>2. CASE Len(s) # 1
      <4>1. 1 <= Len(s) - 1 /\ (Len(s) - 1) - 1 + 1 = Len(s) - 1
        BY <1>1, <3>2
      <4> QED
        BY <2>1, <4>1
    <3> QED
      BY <3>1, <3>2
  <2>3. ASSUME NEW i \in 1 .. Len(s) - 1
        PROVE  f[i] = s[i]
    <3>1. i \in 1 .. (Len(s) - 1) - 1 + 1 /\ 1 + i - 1 = i
      BY <1>1
    <3> QED
      BY <2>1, <3>1
  <2> QED
    BY <2>2, <2>3
<1> HIDE DEF f
<1>3. DOMAIN f = 1 .. Len(s) - 1
  BY <1>2, LenProperties
<1>4. Last(s) = s[Len(s)] /\ \A i \in 1 .. Len(s) - 1 : s[i] # s[Len(s)]
  BY <1>1 DEF Last, IsInjective
<1>5. Last(s) \in ToSet(s) /\ ToSet(s) \subseteq S
  BY <1>1, <1>4 DEF ToSet
<1>6. ToSet(f) = ToSet(s) \ {Last(s)}
  <2>1. ASSUME NEW x \in ToSet(f)
        PROVE  x \in ToSet(s) \ {Last(s)}
    BY <1>1, <1>2, <1>3, <1>4 DEF ToSet
  <2>2. ASSUME NEW x \in ToSet(s) \ {Last(s)}
        PROVE  x \in ToSet(f)
    <3>1. PICK i \in 1 .. Len(s) : s[i] = x
      BY <1>1 DEF ToSet
    <3>2. i \in 1 .. Len(s) - 1
      BY <1>1, <1>4, <3>1
    <3> QED
      BY <1>2, <1>3, <3>1, <3>2 DEF ToSet
  <2> QED
    BY <2>1, <2>2
<1>7. IsInjective(f)
  BY <1>1, <1>2, <1>3 DEF IsInjective
<1>8. f = <<>> <=> Len(s) = 1
  BY <1>1, <1>2, EmptySeq
<1> QED
  BY <1>2, <1>5, <1>6, <1>7, <1>8 DEF f

-----------------------------------------------------------------------------
(* The inductive invariant. *)

Held(t) == ToSet(held[t])
Placed == pool \cup UNION {Held(t) : t \in Tasks}
Statements == Tasks \X {"write", "commit", "rollback"}
Points == {"waiting", "using", "writing", "written", "committing", "releasing", "rolling", "putting",
          "closing", "closed", "opening", "done"}

PoolShape ==
    /\ PoolTypeOK
    /\ held \in [Tasks -> Seq(Conns)] /\ thread \in [Conns -> Seq(Statements)]

\* A connection has one place, and a task that is at work has one.
HeldFit ==
    /\ \A t \in Tasks : pc[t] \notin {"waiting", "done"} => held[t] # <<>>
    /\ \A t \in Tasks : IsInjective(held[t]) /\ Held(t) \cap pool = {}
    /\ \A t, u \in Tasks : t # u => Held(t) \cap Held(u) = {}

\* A replacement on its way has no place yet, and one release waits for it.
FreshFit ==
    /\ \A t \in Tasks : pc[t] # "opening" => fresh[t] = {}
    /\ \A t \in Tasks : pc[t] = "opening" => \E c \in Conns : fresh[t] = {c}
    /\ \A t \in Tasks : fresh[t] \cap (pool \cup live) = {}
    /\ \A t, u \in Tasks : fresh[t] \cap Held(u) = {} /\ (t # u => fresh[t] \cap fresh[u] = {})

\* While the pool is up, what has a place runs or is known to be broken.
LiveFit == up => \A c \in Conns \ (live \cup broken) : c \notin pool /\ \A t \in Tasks : c \notin Held(t)

\* Nothing is lost but what failed to be replaced.
SizeFit == IsFiniteSet(Placed) /\ (up => Cardinality(Placed) + lost = Cardinality(Initial))

\* Only a connection that is broken is closed to be replaced.
ClosingFit == up => \A t \in Tasks : pc[t] = "closing" => Conn(t) \in broken

PoolInv == PoolShape /\ HeldFit /\ FreshFit /\ LiveFit /\ ClosingFit /\ SizeFit

\* What is left to prove when every connection keeps its place.
LEMMA PlacesKeep ==
    ASSUME PoolInv, UNCHANGED <<up, pool, lost, held>>, PoolTypeOK',
           thread' \in [Conns -> Seq(Statements)],
           \A t \in Tasks : pc'[t] \notin {"waiting", "done"} => held[t] # <<>>,
           FreshFit', LiveFit', ClosingFit'
    PROVE  PoolInv'
<1>1. PoolShape' /\ HeldFit'
  BY DEF PoolInv, PoolShape, HeldFit, Held
<1>2. SizeFit'
  BY DEF PoolInv, SizeFit, Placed, Held
<1> QED
  BY <1>1, <1>2 DEF PoolInv

\* A task goes on with the connections it has, and sends a statement or none.
LEMMA GoesOnKeeps ==
    ASSUME PoolInv, NEW t \in Tasks, NEW place \in Points \ {"opening"},
           Goto(t, place), held[t] # <<>> \/ place \in {"waiting", "done"},
           UNCHANGED <<places, writes, broken, held>>,
           thread' \in [Conns -> Seq(Statements)],
           cancels' \in [Tasks -> 0 .. MaxCancels], late' \in [Conns -> SUBSET Tasks],
           fresh' = [fresh EXCEPT ![t] = {}],
           up /\ place = "closing" => Conn(t) \in broken
    PROVE  PoolInv'
<1>1. /\ PoolTypeOK /\ pc \in [Tasks -> Points] /\ fresh \in [Tasks -> SUBSET Conns]
      /\ held \in [Tasks -> Seq(Conns)]
  BY DEF PoolInv, PoolShape, PoolTypeOK, Points
<1>2. /\ pc' \in [Tasks -> Points] /\ fresh' \in [Tasks -> SUBSET Conns]
      /\ pc'[t] = place /\ fresh'[t] = {}
      /\ \A u \in Tasks \ {t} : pc'[u] = pc[u] /\ fresh'[u] = fresh[u]
      /\ UNCHANGED <<up, pool, known, live, lost>>
  BY <1>1 DEF Goto, places
<1>3. PoolTypeOK'
  <2>1. \A c \in Conns : \A i \in DOMAIN thread'[c] :
           thread'[c][i] \in Tasks \X {"write", "commit", "rollback"}
    BY LenProperties DEF Statements
  <2>2. DOMAIN thread' = Conns
    OBVIOUS
  <2> QED
    BY <1>1, <1>2, <2>1, <2>2 DEF PoolTypeOK, Points
<1>4. FreshFit'
  BY <1>1, <1>2 DEF PoolInv, FreshFit, Held
<1>5. LiveFit' /\ ClosingFit'
  BY <1>2 DEF PoolInv, LiveFit, ClosingFit, Held, Conn
<1>6. \A u \in Tasks : pc'[u] \notin {"waiting", "done"} => held[u] # <<>>
  BY <1>2 DEF PoolInv, HeldFit
<1> QED
  BY <1>2, <1>3, <1>4, <1>5, <1>6, PlacesKeep

\* What Drop does to the places of a task.
LEMMA DropFits ==
    ASSUME PoolInv, NEW t \in Tasks, pc[t] \notin {"waiting", "done"}, Drop(t)
    PROVE  /\ held' \in [Tasks -> Seq(Conns)] /\ pc' \in [Tasks -> Points]
           /\ Conn(t) \in Held(t) /\ Conn(t) \in Conns
           /\ ToSet(held'[t]) = Held(t) \ {Conn(t)} /\ IsInjective(held'[t])
           /\ pc'[t] \in {"done", "releasing"}
           /\ pc'[t] = "releasing" => held'[t] # <<>>
           /\ \A u \in Tasks \ {t} : pc'[u] = pc[u] /\ held'[u] = held[u]
<1>1. /\ held[t] \in Seq(Conns) /\ held[t] # <<>> /\ IsInjective(held[t])
      /\ held \in [Tasks -> Seq(Conns)] /\ pc \in [Tasks -> Points]
  BY DEF PoolInv, PoolShape, HeldFit, PoolTypeOK, Points
<1>2. /\ Front(held[t]) \in Seq(Conns) /\ Conn(t) \in Held(t) /\ Held(t) \subseteq Conns
      /\ ToSet(Front(held[t])) = Held(t) \ {Conn(t)}
      /\ IsInjective(Front(held[t]))
      /\ Front(held[t]) = <<>> <=> Len(held[t]) = 1
  BY <1>1, DroppedFits DEF Held, Conn
<1>3. held' = [held EXCEPT ![t] = Front(held[t])]
  BY DEF Drop
<1>4. pc' = [pc EXCEPT ![t] = IF Len(held[t]) = 1 THEN "done" ELSE "releasing"]
  BY DEF Drop, Goto
<1>5. /\ held' \in [Tasks -> Seq(Conns)] /\ held'[t] = Front(held[t])
      /\ \A u \in Tasks \ {t} : held'[u] = held[u]
  BY <1>1, <1>2, <1>3
<1>6. /\ pc' \in [Tasks -> Points] /\ pc'[t] \in {"done", "releasing"}
      /\ pc'[t] = "releasing" => Len(held[t]) # 1
      /\ \A u \in Tasks \ {t} : pc'[u] = pc[u]
  BY <1>1, <1>4 DEF Points
<1> QED
  BY <1>2, <1>5, <1>6

\* A connection leaves its task.  It goes back, or is replaced by N, or is lost and counted.
LEMMA GivenBackKeeps ==
    ASSUME PoolInv, NEW t \in Tasks, pc[t] \notin {"waiting", "done"}, Drop(t),
           NEW N \in SUBSET Conns, N = {} \/ N = {Conn(t)} \/ N = fresh[t],
           N = {} \/ \E c : N = {c},
           pool' = pool \cup N, up' = up, UNCHANGED <<work, cancels, late>>,
           fresh' = [fresh EXCEPT ![t] = {}],
           known' \subseteq Conns, live' \subseteq live \cup N, lost' \in 0 .. MaxLost,
           up => live \subseteq live' /\ (N = fresh[t] => N \subseteq live'),
           up => (N = {} /\ lost' = lost + 1) \/ (N # {} /\ lost' = lost)
    PROVE  PoolInv'
<1> DEFINE c == Conn(t)
<1>1. /\ held' \in [Tasks -> Seq(Conns)] /\ pc' \in [Tasks -> Points]
      /\ c \in Held(t) /\ c \in Conns
      /\ ToSet(held'[t]) = Held(t) \ {c} /\ IsInjective(held'[t])
      /\ pc'[t] \in {"done", "releasing"}
      /\ pc'[t] = "releasing" => held'[t] # <<>>
      /\ \A u \in Tasks \ {t} : pc'[u] = pc[u] /\ held'[u] = held[u]
  BY DropFits
<1>2. /\ PoolTypeOK /\ fresh \in [Tasks -> SUBSET Conns] /\ lost \in Nat
      /\ fresh' \in [Tasks -> SUBSET Conns] /\ fresh'[t] = {}
      /\ \A u \in Tasks \ {t} : fresh'[u] = fresh[u]
  BY PoolAssumption DEF PoolInv, PoolShape, PoolTypeOK
<1>3. UNCHANGED <<writes, thread, broken, late>> /\ thread \in [Conns -> Seq(Statements)]
  BY DEF work, PoolInv, PoolShape
<1> HIDE DEF c
<1>4. ASSUME NEW u \in Tasks
      PROVE  /\ Held(u)' \subseteq Held(u) /\ (u = t => Held(u)' = Held(u) \ {c})
             /\ (u # t => Held(u)' = Held(u)) /\ IsInjective(held'[u]) /\ Held(u)' \subseteq Conns
  <2>1. IsInjective(held[u]) /\ ToSet(held[u]) \subseteq Conns
    BY <1>2 DEF PoolTypeOK
  <2> QED
    BY <1>1, <2>1 DEF Held
<1>5. PoolTypeOK'
  BY <1>1, <1>2, <1>3, <1>4 DEF PoolTypeOK, Points, Held
<1>6. PoolShape'
  BY <1>1, <1>3, <1>5 DEF PoolShape
<1>7. HeldFit'
  <2>1. \A u \in Tasks : pc'[u] \notin {"waiting", "done"} => held'[u] # <<>>
    BY <1>1 DEF PoolInv, HeldFit
  <2>2. \A u, v \in Tasks : u # v => Held(u)' \cap Held(v)' = {}
    BY <1>4 DEF PoolInv, HeldFit
  <2>3. ASSUME NEW u \in Tasks
        PROVE  Held(u)' \cap pool' = {}
    <3>1. Held(u)' \cap pool = {} /\ (u # t => c \notin Held(u)') /\ (u = t => c \notin Held(u)')
      BY <1>1, <1>4 DEF PoolInv, HeldFit
    <3>2. Held(u)' \cap fresh[t] = {}
      BY <1>4 DEF PoolInv, FreshFit
    <3> QED
      BY <3>1, <3>2 DEF c
  <2> QED
    BY <1>4, <2>1, <2>2, <2>3 DEF HeldFit
<1>8. FreshFit'
  <2>1. \A u \in Tasks : pc'[u] # "opening" => fresh'[u] = {}
    BY <1>1, <1>2 DEF PoolInv, FreshFit
  <2>2. \A u \in Tasks : pc'[u] = "opening" => \E d \in Conns : fresh'[u] = {d}
    BY <1>1, <1>2 DEF PoolInv, FreshFit
  <2>3. ASSUME NEW u \in Tasks, NEW x \in fresh'[u]
        PROVE  /\ x \notin pool' /\ x \notin live'
               /\ \A v \in Tasks : x \notin Held(v)' /\ (u # v => x \notin fresh'[v])
    <3>1. u # t /\ x \in fresh[u]
      BY <1>2, <2>3
    <3>2. x \notin pool /\ x \notin live /\ x \notin fresh[t] /\ \A v \in Tasks : x \notin Held(v)
      BY <3>1 DEF PoolInv, FreshFit
    <3>3. x # c
      BY <1>1, <3>2
    <3>4. \A v \in Tasks : u # v => x \notin fresh'[v]
      BY <1>2, <3>1 DEF PoolInv, FreshFit
    <3> QED
      BY <1>4, <3>2, <3>3, <3>4 DEF c
  <2> QED
    BY <2>1, <2>2, <2>3 DEF FreshFit
<1>9. LiveFit'
  <2> SUFFICES ASSUME up, NEW x \in Conns \ (live' \cup broken)
               PROVE  x \notin pool' /\ \A u \in Tasks : x \notin Held(u)'
    BY <1>3 DEF LiveFit
  <2>1. x \notin pool /\ \A u \in Tasks : x \notin Held(u)
    BY DEF PoolInv, LiveFit
  <2>2. x # c
    BY <1>1, <2>1
  <2> QED
    BY <1>4, <2>1, <2>2 DEF c
<1>10. ClosingFit'
  BY <1>1, <1>3 DEF PoolInv, ClosingFit, Conn
<1>11. SizeFit'
  <2>1. c \in Placed /\ (N = fresh[t] /\ N # {c} => N \cap Placed = {})
    BY <1>1 DEF Placed, PoolInv, FreshFit
  <2>2. Placed' = (Placed \ {c}) \cup N
    <3>1. ASSUME NEW x \in Placed'
          PROVE  x \in (Placed \ {c}) \cup N
      <4>1. CASE x \in pool'
        BY <1>1, <4>1 DEF Placed, PoolInv, HeldFit
      <4>2. ASSUME NEW u \in Tasks, x \in Held(u)'
            PROVE  x \in Placed \ {c}
        BY <1>1, <1>4, <4>2 DEF Placed, PoolInv, HeldFit
      <4> QED
        BY <3>1, <4>1, <4>2 DEF Placed
    <3>2. ASSUME NEW x \in (Placed \ {c}) \cup N
          PROVE  x \in Placed'
      BY <1>4, <3>2 DEF Placed
    <3> QED
      BY <3>1, <3>2
  <2>3. IsFiniteSet(Placed) /\ Cardinality(Placed) \in Nat
    BY FS_CardinalityType DEF PoolInv, SizeFit
  <2>4. IsFiniteSet(Placed \ {c}) /\ Cardinality(Placed \ {c}) = Cardinality(Placed) - 1
    BY <2>1, <2>3, FS_RemoveElement
  <2>5. CASE N = {}
    BY <1>2, <2>2, <2>3, <2>4, <2>5 DEF PoolInv, SizeFit
  <2>6. CASE N # {}
    <3>1. PICK d : N = {d}
      BY <2>6
    <3>2. d \notin Placed \ {c}
      BY <2>1, <2>6, <3>1 DEF c
    <3>3. /\ IsFiniteSet((Placed \ {c}) \cup {d})
          /\ Cardinality((Placed \ {c}) \cup {d}) = Cardinality(Placed \ {c}) + 1
      BY <2>4, <3>2, FS_AddElement
    <3>4. IsFiniteSet(Placed') /\ Cardinality(Placed') = Cardinality(Placed)
      BY <2>2, <2>3, <2>4, <3>1, <3>3
    <3> QED
      BY <2>6, <3>4 DEF PoolInv, SizeFit
  <2> QED
    BY <2>5, <2>6
<1> QED
  BY <1>6, <1>7, <1>8, <1>9, <1>10, <1>11 DEF PoolInv

\* The task takes a connection of the queue: its place moves.
LEMMA GetKeeps ==
    ASSUME PoolInv, NEW t \in Tasks, Get(t)
    PROVE  PoolInv'
<1>1. PICK c \in pool : pool' = pool \ {c} /\ held' = [held EXCEPT ![t] = Append(@, c)]
  BY DEF Get
<1>2. /\ PoolTypeOK /\ pc \in [Tasks -> Points] /\ held \in [Tasks -> Seq(Conns)] /\ c \in Conns
      /\ pc[t] = "waiting" /\ pc' = [pc EXCEPT ![t] = "using"]
      /\ UNCHANGED <<up, known, live, lost, writes, thread, broken, cancels, fresh, late>>
  BY DEF Get, Goto, work, PoolInv, PoolShape, PoolTypeOK, Points
<1>3. c \notin Held(t) /\ IsInjective(held[t]) /\ held[t] \in Seq(Conns)
  BY <1>2 DEF PoolInv, HeldFit
<1>4. /\ Append(held[t], c) \in Seq(Conns) /\ Append(held[t], c) # <<>>
      /\ ToSet(Append(held[t], c)) = Held(t) \cup {c} /\ IsInjective(Append(held[t], c))
  BY <1>2, <1>3, TakenFits DEF Held
<1>5. /\ held' \in [Tasks -> Seq(Conns)] /\ held'[t] = Append(held[t], c)
      /\ \A u \in Tasks \ {t} : held'[u] = held[u]
  BY <1>1, <1>2, <1>4
<1>6. /\ pc' \in [Tasks -> Points] /\ pc'[t] = "using" /\ \A u \in Tasks \ {t} : pc'[u] = pc[u]
  BY <1>2 DEF Points
<1>7. ASSUME NEW u \in Tasks
      PROVE  /\ (u = t => Held(u)' = Held(u) \cup {c}) /\ (u # t => Held(u)' = Held(u))
             /\ IsInjective(held'[u]) /\ Held(u)' \subseteq Conns
  <2>1. IsInjective(held[u]) /\ ToSet(held[u]) \subseteq Conns
    BY <1>2 DEF PoolTypeOK
  <2> QED
    BY <1>2, <1>4, <1>5, <2>1 DEF Held
<1>8. PoolShape'
  <2>1. PoolTypeOK'
    BY <1>1, <1>2, <1>6, <1>7 DEF PoolTypeOK, Points, Held
  <2> QED
    BY <1>2, <1>5, <2>1 DEF PoolInv, PoolShape
<1>9. HeldFit'
  <2>1. \A u \in Tasks : pc'[u] \notin {"waiting", "done"} => held'[u] # <<>>
    BY <1>4, <1>5, <1>6 DEF PoolInv, HeldFit
  <2>2. \A u \in Tasks : Held(u)' \cap pool' = {}
    BY <1>1, <1>7 DEF PoolInv, HeldFit
  <2>3. \A u, v \in Tasks : u # v => Held(u)' \cap Held(v)' = {}
    BY <1>7 DEF PoolInv, HeldFit
  <2> QED
    BY <1>7, <2>1, <2>2, <2>3 DEF HeldFit
<1>10. FreshFit'
  <2>1. \A u \in Tasks : pc'[u] = "opening" <=> pc[u] = "opening"
    BY <1>2, <1>6
  <2>2. \A u, v \in Tasks : fresh[u] \cap Held(v)' = {}
    BY <1>7 DEF PoolInv, FreshFit
  <2> QED
    BY <1>1, <1>2, <2>1, <2>2 DEF PoolInv, FreshFit
<1>11. LiveFit'
  BY <1>1, <1>2, <1>7 DEF PoolInv, LiveFit
<1>12. ClosingFit'
  BY <1>2, <1>5, <1>6 DEF PoolInv, ClosingFit, Conn
<1>13. SizeFit'
  <2>1. Placed' = Placed
    BY <1>1, <1>7 DEF Placed
  <2> QED
    BY <1>2, <2>1 DEF PoolInv, SizeFit
<1> QED
  BY <1>8, <1>9, <1>10, <1>11, <1>12, <1>13 DEF PoolInv

\* A task has a replacement on its way only while it opens one.
LEMMA NothingFresh ==
    ASSUME PoolInv, NEW t \in Tasks, pc[t] # "opening"
    PROVE  fresh = [fresh EXCEPT ![t] = {}]
<1>1. fresh \in [Tasks -> SUBSET Conns] /\ fresh[t] = {}
  BY DEF PoolInv, PoolShape, PoolTypeOK, FreshFit
<1> QED
  BY <1>1

\* A statement that a task sends is one of its own, in the thread of its connection.
LEMMA SentFits ==
    ASSUME PoolInv, NEW t \in Tasks, NEW what \in {"write", "commit", "rollback"}, Send(t, what)
    PROVE  thread' \in [Conns -> Seq(Statements)]
<1>1. thread \in [Conns -> Seq(Statements)] /\ <<t, what>> \in Statements
  BY DEF PoolInv, PoolShape, Statements
<1>2. \A c \in Conns : Append(thread[c], <<t, what>>) \in Seq(Statements)
  BY <1>1
<1> QED
  BY <1>1, <1>2 DEF Send

\* What a task does inside its block leaves every connection where it is.
LEMMA AtWorkKeeps ==
    ASSUME PoolInv, NEW t \in Tasks,
           OpenInside(t) \/ Write(t) \/ Commit(t) \/ Leave(t) \/ CancelAtWork(t)
    PROVE  PoolInv'
<1>1. /\ cancels \in [Tasks -> 0 .. MaxCancels] /\ thread \in [Conns -> Seq(Statements)]
      /\ MaxCancels \in Nat /\ late \in [Conns -> SUBSET Tasks]
      /\ pc[t] \notin {"waiting", "done"} => held[t] # <<>>
  BY PoolAssumption DEF PoolInv, PoolShape, PoolTypeOK, HeldFit
<1>2. CASE OpenInside(t)
  <2>1. fresh' = [fresh EXCEPT ![t] = {}]
    BY <1>2, NothingFresh DEF OpenInside
  <2> QED
    BY <1>1, <1>2, <2>1, GoesOnKeeps DEF OpenInside, Points, work
<1>3. CASE Write(t)
  <2>1. fresh' = [fresh EXCEPT ![t] = {}] /\ thread' \in [Conns -> Seq(Statements)]
    BY <1>3, NothingFresh, SentFits DEF Write
  <2> QED
    BY <1>1, <1>3, <2>1, GoesOnKeeps DEF Write, Points
<1>4. CASE Commit(t)
  <2>1. fresh' = [fresh EXCEPT ![t] = {}] /\ thread' \in [Conns -> Seq(Statements)]
    BY <1>4, NothingFresh, SentFits DEF Commit
  <2> QED
    BY <1>1, <1>4, <2>1, GoesOnKeeps DEF Commit, Points
<1>5. CASE Leave(t)
  <2>1. fresh' = [fresh EXCEPT ![t] = {}]
    BY <1>5, NothingFresh DEF Leave
  <2> QED
    BY <1>1, <1>5, <2>1, GoesOnKeeps DEF Leave, Points, work
<1>6. CASE CancelAtWork(t)
  <2>1. fresh' = [fresh EXCEPT ![t] = {}] /\ pc[t] \notin {"waiting", "done"}
    BY <1>6, NothingFresh DEF CancelAtWork
  <2>2. cancels' \in [Tasks -> 0 .. MaxCancels]
    BY <1>1, <1>6 DEF CancelAtWork, MayCancel
  <2>3. late' \in [Conns -> SUBSET Tasks]
    <3>1. late' = [late EXCEPT ![Conn(t)] = @ \cup {t}] \/ late' = late
      BY <1>6 DEF CancelAtWork
    <3> QED
      BY <1>1, <3>1
  <2> QED
    BY <1>1, <1>6, <2>1, <2>2, <2>3, GoesOnKeeps DEF CancelAtWork, Points, work
<1> QED
  BY <1>2, <1>3, <1>4, <1>5, <1>6

\* A cancelled get() holds what it held; a cancelled release starts again.
LEMMA CancelKeeps ==
    ASSUME PoolInv, NEW t \in Tasks, CancelInGet(t) \/ CancelInRelease(t)
    PROVE  PoolInv'
<1>1. /\ cancels \in [Tasks -> 0 .. MaxCancels] /\ thread \in [Conns -> Seq(Statements)]
      /\ MaxCancels \in Nat /\ late \in [Conns -> SUBSET Tasks]
      /\ pc[t] \notin {"waiting", "done"} => held[t] # <<>>
  BY PoolAssumption DEF PoolInv, PoolShape, PoolTypeOK, HeldFit
<1>2. CASE CancelInGet(t)
  <2>1. fresh' = [fresh EXCEPT ![t] = {}]
    BY <1>2, NothingFresh DEF CancelInGet
  <2>2. cancels' \in [Tasks -> 0 .. MaxCancels]
    BY <1>1, <1>2 DEF CancelInGet, MayCancel
  <2>3. CASE held[t] = <<>>
    BY <1>1, <1>2, <2>1, <2>2, <2>3, GoesOnKeeps DEF CancelInGet, Points, work
  <2>4. CASE held[t] # <<>>
    BY <1>1, <1>2, <2>1, <2>2, <2>4, GoesOnKeeps DEF CancelInGet, Points, work
  <2> QED
    BY <2>3, <2>4
<1>3. CASE CancelInRelease(t)
  <2>1. cancels' \in [Tasks -> 0 .. MaxCancels] /\ pc[t] \notin {"waiting", "done"}
    BY <1>1, <1>3 DEF CancelInRelease, MayCancel
  <2> QED
    BY <1>1, <1>3, <2>1, GoesOnKeeps DEF CancelInRelease, Points, work
<1> QED
  BY <1>2, <1>3

\* A release: the connection is looked at and goes back, or on to be rolled back or replaced.
LEMMA ReleaseKeeps ==
    ASSUME PoolInv, NEW t \in Tasks, ReleaseClosed(t) \/ ReleaseChecks(t) \/ Put(t)
    PROVE  PoolInv'
<1>1. /\ cancels \in [Tasks -> 0 .. MaxCancels] /\ thread \in [Conns -> Seq(Statements)]
      /\ known \subseteq Conns /\ live \subseteq Conns /\ lost \in 0 .. MaxLost /\ late \in [Conns -> SUBSET Tasks]
      /\ pc[t] \notin {"waiting", "done", "opening"} /\ held[t] # <<>> /\ held[t] \in Seq(Conns)
  BY DEF PoolInv, PoolShape, PoolTypeOK, HeldFit, ReleaseClosed, ReleaseChecks, Put
<1>2. fresh = [fresh EXCEPT ![t] = {}] /\ fresh[t] = {}
  BY <1>1, NothingFresh DEF PoolInv, FreshFit
<1>3. Conn(t) \in Held(t) /\ Conn(t) \in Conns
  BY <1>1, DroppedFits DEF PoolInv, HeldFit, Held, Conn
<1>4. CASE ReleaseClosed(t)
  <2>1. pool' = pool \cup {} /\ ~up
    BY <1>4 DEF ReleaseClosed
  <2> QED
    BY <1>1, <1>2, <1>4, <2>1, GivenBackKeeps DEF ReleaseClosed
<1>5. ASSUME PutBack(t), UNCHANGED <<up, known, live, lost, work, cancels, fresh, late>>
      PROVE  PoolInv'
  <2>1. /\ Drop(t) /\ pool' = pool \cup {Conn(t)} /\ {Conn(t)} \in SUBSET Conns
        /\ {Conn(t)} # {} /\ {Conn(t)} # fresh[t] /\ \E c : {Conn(t)} = {c}
    BY <1>2, <1>3, <1>5 DEF PutBack
  <2>2. /\ UNCHANGED <<work, cancels, late>> /\ up' = up /\ known' = known /\ live' = live /\ lost' = lost
        /\ fresh' = [fresh EXCEPT ![t] = {}]
    BY <1>2, <1>5
  <2> QED
    BY <1>1, <2>1, <2>2, GivenBackKeeps
<1>6. CASE ReleaseChecks(t)
  <2>1. CASE Conn(t) \notin live /\ Goto(t, "closing") /\ UNCHANGED <<pool, thread, held>>
    <3>1. up => Conn(t) \in broken
      BY <1>3, <2>1 DEF PoolInv, LiveFit
    <3> QED
      BY <1>1, <1>2, <1>6, <2>1, <3>1, GoesOnKeeps DEF ReleaseChecks, Points, places
  <2>2. CASE Send(t, "rollback") /\ Goto(t, "rolling") /\ UNCHANGED <<pool, held>>
    <3>1. thread' \in [Conns -> Seq(Statements)]
      BY <2>2, SentFits
    <3> QED
      BY <1>1, <1>2, <1>6, <2>2, <3>1, GoesOnKeeps DEF ReleaseChecks, Points, places
  <2>3. CASE PutBack(t) /\ UNCHANGED thread
    BY <1>5, <1>6, <2>3 DEF ReleaseChecks, work
  <2> QED
    BY <1>6, <2>1, <2>2, <2>3 DEF ReleaseChecks
<1>7. CASE Put(t)
  BY <1>5, <1>7 DEF Put
<1> QED
  BY <1>4, <1>6, <1>7

\* The old connection is closed, and another one is opened in its place.
LEMMA ReplaceKeeps ==
    ASSUME PoolInv, NEW t \in Tasks, Replace(t) \/ OpenOther(t) \/ Opened(t)
    PROVE  PoolInv'
<1>1. /\ PoolTypeOK /\ cancels \in [Tasks -> 0 .. MaxCancels] /\ thread \in [Conns -> Seq(Statements)]
      /\ known \subseteq Conns /\ live \subseteq Conns /\ lost \in 0 .. MaxLost
      /\ pc \in [Tasks -> Points] /\ fresh \in [Tasks -> SUBSET Conns]
      /\ pc[t] \notin {"waiting", "done"} /\ held[t] # <<>> /\ held[t] \in Seq(Conns)
  BY DEF PoolInv, PoolShape, PoolTypeOK, HeldFit, Points, Replace, OpenOther, Opened
<1>2. \A u \in Tasks : pc[u] \notin {"waiting", "done"} => held[u] # <<>>
  BY DEF PoolInv, HeldFit
<1>3. CASE Replace(t)
  <2>1. /\ pc' \in [Tasks -> Points] /\ pc'[t] = "closed" /\ pc[t] = "closing"
        /\ \A u \in Tasks \ {t} : pc'[u] = pc[u]
        /\ UNCHANGED <<up, pool, lost, held, writes, thread, broken, cancels, fresh, late>>
    BY <1>1, <1>3 DEF Replace, Goto, work, Points
  <2>2. live' = live \ {Conn(t)} /\ known' \subseteq known
    BY <1>3 DEF Replace
  <2>3. PoolTypeOK'
    BY <1>1, <2>1, <2>2 DEF PoolTypeOK, Points
  <2>4. FreshFit'
    <3>1. \A u \in Tasks : pc'[u] = "opening" <=> pc[u] = "opening"
      BY <2>1
    <3> QED
      BY <2>1, <2>2, <3>1 DEF PoolInv, FreshFit, Held
  <2>5. LiveFit'
    BY <2>1, <2>2 DEF PoolInv, LiveFit, ClosingFit, Held
  <2>6. ClosingFit'
    BY <2>1 DEF PoolInv, ClosingFit, Conn
  <2> QED
    BY <1>1, <1>2, <2>1, <2>3, <2>4, <2>5, <2>6, PlacesKeep
<1>4. CASE OpenOther(t)
  <2>1. CASE up /\ Goto(t, "opening") /\ UNCHANGED held
    <3>1. PICK c \in Conns \ (Initial \cup live \cup broken \cup UNION Range(fresh)) :
              fresh' = [fresh EXCEPT ![t] = {c}]
      BY <1>1, <1>4, <2>1 DEF OpenOther, Drop, Goto
    <3>2. /\ pc' \in [Tasks -> Points] /\ pc'[t] = "opening"
          /\ \A u \in Tasks \ {t} : pc'[u] = pc[u]
          /\ UNCHANGED <<up, pool, known, live, lost, held, writes, thread, broken, cancels, late>>
      BY <1>1, <1>4, <2>1 DEF OpenOther, Goto, places, work, Points
    <3>3. /\ fresh' \in [Tasks -> SUBSET Conns] /\ fresh'[t] = {c}
          /\ \A u \in Tasks \ {t} : fresh'[u] = fresh[u]
      BY <1>1, <3>1
    <3>4. /\ c \notin live /\ c \notin pool /\ \A u \in Tasks : c \notin Held(u) /\ c \notin fresh[u]
      BY <1>1, <2>1, <3>1 DEF PoolInv, LiveFit, Range
    <3>5. PoolTypeOK'
      BY <1>1, <3>2, <3>3 DEF PoolTypeOK, Points
    <3>6. FreshFit'
      <4>1. \A u \in Tasks : pc'[u] # "opening" => fresh'[u] = {}
        BY <3>2, <3>3 DEF PoolInv, FreshFit
      <4>2. \A u \in Tasks : pc'[u] = "opening" => \E d \in Conns : fresh'[u] = {d}
        BY <3>1, <3>2, <3>3 DEF PoolInv, FreshFit
      <4>3. \A u \in Tasks : fresh'[u] \cap (pool' \cup live') = {}
        BY <3>2, <3>3, <3>4 DEF PoolInv, FreshFit
      <4>4. ASSUME NEW u \in Tasks, NEW v \in Tasks
            PROVE  fresh'[u] \cap Held(v)' = {} /\ (u # v => fresh'[u] \cap fresh'[v] = {})
        BY <3>2, <3>3, <3>4 DEF PoolInv, FreshFit, Held
      <4> QED
        BY <4>1, <4>2, <4>3, <4>4 DEF FreshFit
    <3>7. LiveFit' /\ ClosingFit'
      BY <3>2 DEF PoolInv, LiveFit, ClosingFit, Held, Conn
    <3>8. \A u \in Tasks : pc'[u] \notin {"waiting", "done"} => held[u] # <<>>
      BY <1>1, <1>2, <3>2
    <3> QED
      BY <1>1, <3>2, <3>5, <3>6, <3>7, <3>8, PlacesKeep
  <2>2. CASE ~up /\ Drop(t) /\ UNCHANGED fresh
    <3>1. fresh' = [fresh EXCEPT ![t] = {}] /\ pool' = pool \cup {} /\ UNCHANGED <<known, live, lost, up>>
      BY <1>4, <2>2, NothingFresh DEF OpenOther, places
    <3> QED
      BY <1>1, <1>4, <2>2, <3>1, GivenBackKeeps DEF OpenOther
  <2> QED
    BY <1>4, <2>1, <2>2 DEF OpenOther
<1>5. CASE Opened(t)
  <2>1. PICK c \in Conns : fresh[t] = {c}
    BY <1>5 DEF Opened, PoolInv, FreshFit
  <2>2. CASE known' = known \cup fresh[t] /\ live' = live \cup fresh[t] /\ pool' = pool \cup fresh[t] /\ lost' = lost
    BY <1>1, <1>5, <2>1, <2>2, GivenBackKeeps DEF Opened
  <2>3. CASE lost < MaxLost /\ lost' = lost + 1 /\ UNCHANGED <<pool, known, live>>
    <3>1. pool' = pool \cup {} /\ lost' \in 0 .. MaxLost
      BY <1>1, <2>3, PoolAssumption
    <3>2. /\ Drop(t) /\ fresh' = [fresh EXCEPT ![t] = {}] /\ up' = up /\ UNCHANGED <<work, cancels, late>>
          /\ fresh[t] # {}
      BY <1>5, <2>1 DEF Opened
    <3>3. {} \in SUBSET Conns /\ live' \subseteq live \cup {} /\ live \subseteq live' /\ known' \subseteq Conns
          /\ lost' = lost + 1
      BY <1>1, <2>3
    <3> QED
      BY <1>1, <3>1, <3>2, <3>3, GivenBackKeeps
  <2> QED
    BY <1>5, <2>2, <2>3 DEF Opened
<1> QED
  BY <1>3, <1>4, <1>5

\* A thread runs a statement of its connection, which stays where it is.
LEMMA ThreadKeeps ==
    ASSUME PoolInv, NEW c \in Conns, ThreadRuns(c)
    PROVE  PoolInv'
<1> DEFINE t == Head(thread[c])[1]
           what == Head(thread[c])[2]
           ok == c \in live \ broken
<1>1. /\ PoolTypeOK /\ thread \in [Conns -> Seq(Statements)] /\ thread[c] # <<>>
      /\ pc \in [Tasks -> Points] /\ writes \in [Conns -> SUBSET Tasks]
  BY DEF ThreadRuns, PoolInv, PoolShape, PoolTypeOK, Points
<1>2. t \in Tasks /\ what \in {"write", "commit", "rollback"} /\ Tail(thread[c]) \in Seq(Statements)
  <2>1. Head(thread[c]) \in Statements /\ Tail(thread[c]) \in Seq(Statements)
    BY <1>1, HeadTailProperties
  <2> QED
    BY <2>1 DEF Statements
<1>3. /\ writes' = [writes EXCEPT ![c] =
                      IF ~ok THEN @ ELSE IF what = "write" THEN @ \cup {t} ELSE {}]
      /\ pc' = IF Waits(t, c, what)
               THEN [pc EXCEPT ![t] = IF ok THEN Then[@]
                                      ELSE IF @ = "rolling" THEN "closing"
                                      ELSE "releasing"]
               ELSE pc
      /\ thread' = [thread EXCEPT ![c] = Tail(@)]
      /\ UNCHANGED <<up, pool, known, live, lost, broken, held, cancels, fresh, late>>
  BY DEF ThreadRuns, places
<1> HIDE DEF t, what, ok
<1>4. thread' \in [Conns -> Seq(Statements)]
  BY <1>1, <1>2, <1>3
<1>5. writes' \in [Conns -> SUBSET Tasks]
  BY <1>1, <1>2, <1>3
<1>6. /\ pc' \in [Tasks -> Points]
      /\ \A u \in Tasks : pc'[u] # pc[u] =>
            /\ u = t /\ held[u] # <<>> /\ Conn(u) = c
            /\ pc[u] \in {"writing", "committing", "rolling"}
            /\ pc'[u] \in {"written", "releasing", "putting", "closing"}
            /\ pc'[u] = "closing" => ~ok
  <2>1. CASE Waits(t, c, what)
    <3>1. pc[t] \in {"writing", "committing", "rolling"} /\ held[t] # <<>> /\ Conn(t) = c
      BY <1>2, <2>1 DEF Waits
    <3>2. Then[pc[t]] \in {"written", "releasing", "putting"}
      BY <3>1 DEF Then
    <3> QED
      BY <1>1, <1>2, <1>3, <2>1, <3>1, <3>2 DEF Points
  <2>2. CASE ~Waits(t, c, what)
    BY <1>1, <1>3, <2>2
  <2> QED
    BY <2>1, <2>2
<1>7. PoolTypeOK'
  <2>1. \A d \in Conns : \A i \in DOMAIN thread'[d] :
            thread'[d][i] \in Tasks \X {"write", "commit", "rollback"}
    BY <1>4, LenProperties DEF Statements
  <2>2. DOMAIN thread' = Conns
    BY <1>4
  <2> QED
    BY <1>1, <1>3, <1>5, <1>6, <2>1, <2>2 DEF PoolTypeOK, Points
<1>8. FreshFit'
  <2>1. \A u \in Tasks : pc'[u] = "opening" <=> pc[u] = "opening"
    BY <1>6
  <2> QED
    BY <1>3, <2>1 DEF PoolInv, FreshFit, Held
<1>9. LiveFit'
  BY <1>3 DEF PoolInv, LiveFit, Held
<1>10. ClosingFit'
  <2> SUFFICES ASSUME up, NEW u \in Tasks, pc'[u] = "closing"
               PROVE  Conn(u) \in broken
    BY <1>3 DEF ClosingFit, Conn
  <2>1. CASE pc[u] = "closing"
    BY <2>1 DEF PoolInv, ClosingFit
  <2>2. CASE pc[u] # "closing"
    <3>1. held[u] # <<>> /\ Conn(u) = c /\ c \notin live \ broken
      BY <1>6, <2>2 DEF ok
    <3>2. Conn(u) \in Held(u)
      BY <3>1, DroppedFits DEF PoolInv, PoolShape, HeldFit, Held, Conn
    <3> QED
      BY <3>1, <3>2 DEF PoolInv, LiveFit
  <2> QED
    BY <2>1, <2>2
<1>11. \A u \in Tasks : pc'[u] \notin {"waiting", "done"} => held[u] # <<>>
  BY <1>6 DEF PoolInv, HeldFit
<1> QED
  BY <1>3, <1>4, <1>7, <1>8, <1>9, <1>10, <1>11, PlacesKeep

\* Connections break, and the pool is closed under the tasks.
LEMMA OthersKeep ==
    ASSUME PoolInv, (\E c \in Conns : Break(c)) \/ ClosePool \/ UNCHANGED poolVars
    PROVE  PoolInv'
<1>1. PoolTypeOK /\ held \in [Tasks -> Seq(Conns)] /\ thread \in [Conns -> Seq(Statements)]
  BY DEF PoolInv, PoolShape
<1>2. CASE \E c \in Conns : Break(c)
  <2>1. /\ UNCHANGED <<up, pool, known, live, lost, writes, thread, pc, held, cancels, fresh, late>>
        /\ broken \subseteq broken' /\ broken' \subseteq Conns
    BY <1>1, <1>2 DEF Break, places, PoolTypeOK
  <2>2. PoolTypeOK'
    BY <1>1, <2>1 DEF PoolTypeOK
  <2>3. FreshFit' /\ LiveFit' /\ ClosingFit'
    BY <2>1 DEF PoolInv, FreshFit, LiveFit, ClosingFit, Held, Conn
  <2>4. \A u \in Tasks : pc'[u] \notin {"waiting", "done"} => held[u] # <<>>
    BY <2>1 DEF PoolInv, HeldFit
  <2> QED
    BY <1>1, <2>1, <2>2, <2>3, <2>4, PlacesKeep
<1>3. CASE ClosePool
  <2>1. /\ up' = FALSE /\ live' \subseteq live /\ known' = {} /\ pool' = {}
        /\ writes' = [c \in Conns |-> {}]
        /\ UNCHANGED <<lost, thread, broken, pc, held, cancels, fresh, late>>
    BY <1>3 DEF ClosePool
  <2>2. PoolShape'
    <3>1. PoolTypeOK'
      BY <1>1, <2>1 DEF PoolTypeOK
    <3> QED
      BY <1>1, <2>1, <3>1 DEF PoolShape
  <2>3. HeldFit' /\ FreshFit'
    BY <2>1 DEF PoolInv, HeldFit, FreshFit, Held
  <2>4. LiveFit' /\ ClosingFit'
    BY <2>1 DEF LiveFit, ClosingFit
  <2>5. SizeFit'
    <3>1. Placed' \subseteq Placed /\ IsFiniteSet(Placed)
      BY <2>1 DEF Placed, Held, PoolInv, SizeFit
    <3>2. IsFiniteSet(Placed')
      BY <3>1, FS_Subset
    <3> QED
      BY <2>1, <3>2 DEF SizeFit
  <2> QED
    BY <2>2, <2>3, <2>4, <2>5 DEF PoolInv
<1>4. CASE UNCHANGED poolVars
  BY <1>4 DEF poolVars, places, work, PoolInv, PoolShape, PoolTypeOK, HeldFit, FreshFit, LiveFit,
              ClosingFit, SizeFit, Placed, Held, Conn
<1> QED
  BY <1>2, <1>3, <1>4

LEMMA PoolStarted == PoolStarts /\ pc \in [Tasks -> {"waiting", "done"}] => PoolInv
<1> SUFFICES ASSUME PoolStarts, pc \in [Tasks -> {"waiting", "done"}]
             PROVE  PoolInv
  OBVIOUS
<1>1. /\ up = TRUE /\ pool = Initial /\ known = Initial /\ live = Initial /\ broken = {}
      /\ writes = [c \in Conns |-> {}] /\ thread = [c \in Conns |-> <<>>]
      /\ held = [t \in Tasks |-> <<>>] /\ cancels = [t \in Tasks |-> 0]
      /\ fresh = [t \in Tasks |-> {}] /\ late = [c \in Conns |-> {}]
      /\ lost = 0 /\ \A t \in Tasks : pc[t] \in {"waiting", "done"}
      /\ Initial \subseteq Conns /\ IsFiniteSet(Initial)
      /\ 0 \in 0 .. MaxCancels /\ 0 \in 0 .. MaxLost
  BY PoolAssumption DEF PoolStarts
<1>2. \A t \in Tasks : held[t] = <<>> /\ Held(t) = {} /\ IsInjective(held[t])
  <2>1. ToSet(<<>>) = {} /\ IsInjective(<<>>)
    BY DEF ToSet, IsInjective
  <2> QED
    BY <1>1, <2>1 DEF Held
<1>3. PoolShape
  <2>1. held \in [Tasks -> Seq(Conns)] /\ thread \in [Conns -> Seq(Statements)]
    BY <1>1
  <2>2. \A c \in Conns : thread[c] = <<>>
    BY <1>1
  <2>3. \A c \in Conns : \A i \in DOMAIN thread[c] : thread[c][i] \in Tasks \X {"write", "commit", "rollback"}
    BY <2>2
  <2>4. pc \in [Tasks -> {"waiting", "using", "writing", "written", "committing",
                         "releasing", "rolling", "putting", "closing", "closed",
                         "opening", "done"}]
    BY <1>1
  <2>5. cancels \in [Tasks -> 0 .. MaxCancels]
    BY <1>1
  <2> QED
    BY <1>1, <1>2, <2>1, <2>3, <2>4, <2>5 DEF PoolShape, PoolTypeOK, Held
<1>4. HeldFit /\ FreshFit /\ LiveFit /\ ClosingFit
  BY <1>1, <1>2 DEF HeldFit, FreshFit, LiveFit, ClosingFit
<1>5. SizeFit
  <2>1. Placed = Initial
    BY <1>1, <1>2 DEF Placed
  <2>2. Cardinality(Initial) \in Nat
    BY <1>1, FS_CardinalityType
  <2> QED
    BY <1>1, <2>1, <2>2 DEF SizeFit
<1> QED
  BY <1>3, <1>4, <1>5 DEF PoolInv

LEMMA PoolKept == PoolInv /\ [PoolNext]_poolVars => PoolInv'
<1> SUFFICES ASSUME PoolInv, [PoolNext]_poolVars
             PROVE  PoolInv'
  OBVIOUS
<1>1. ASSUME NEW t \in Tasks, Step(t) \/ CancelAtWork(t) \/ CancelInGet(t) \/ CancelInRelease(t)
      PROVE  PoolInv'
  BY <1>1, GetKeeps, AtWorkKeeps, CancelKeeps, ReleaseKeeps, ReplaceKeeps DEF Step
<1>2. ASSUME NEW c \in Conns, ThreadRuns(c) \/ Break(c)
      PROVE  PoolInv'
  BY <1>2, ThreadKeeps, OthersKeep
<1>3. CASE ClosePool \/ PoolRest \/ UNCHANGED poolVars
  BY <1>3, OthersKeep DEF PoolRest
<1> QED
  BY <1>1, <1>2, <1>3 DEF PoolNext

-----------------------------------------------------------------------------
(* The theorems about the size of the pool. *)

\* Every connection of the pool has one place, in the queue, with one task or on its way,
\* whatever breaks, is cancelled or is closed (open_db, _release_sqlite).
THEOREM PoolInvHolds == PoolSpec => []PoolInv
<1>1. PoolInit => PoolInv
  BY PoolStarted DEF PoolInit
<1> QED
  BY <1>1, PoolKept, PTL DEF PoolSpec

\* The variables of the pool keep their types.
THEOREM PoolTypeCorrect == PoolSpec => []PoolTypeOK
<1>1. PoolInv => PoolTypeOK
  BY DEF PoolInv, PoolShape
<1> QED
  BY <1>1, PoolInvHolds, PTL

\* The pool keeps its size: what is neither in the queue nor held has failed to be
\* replaced, for any number of tasks, connections, breaks and cancellations
\* (_replace_sqlite_connection).
THEOREM CapacityAlwaysKept == PoolSpec => []CapacityKept
<1>1. ASSUME PoolInv
      PROVE  CapacityKept
  <2> DEFINE given == UNION {ToSet(held[t]) : t \in Tasks}
  <2>1. OneHolder
    BY <1>1 DEF PoolInv, HeldFit, OneHolder, Held
  <2>2. Placed = pool \cup given /\ pool \cap given = {} /\ IsFiniteSet(Placed)
    BY <1>1 DEF PoolInv, HeldFit, SizeFit, Placed, Held
  <2> HIDE DEF given
  <2>3. IsFiniteSet(pool) /\ IsFiniteSet(given)
    <3>1. pool \subseteq Placed /\ given \subseteq Placed
      BY <2>2
    <3> QED
      BY <2>2, <3>1, FS_Subset
  <2>4. Cardinality(Placed) = Cardinality(pool) + Cardinality(given)
    <3>1. Cardinality(pool \cup given)
            = Cardinality(pool) + Cardinality(given) - Cardinality(pool \cap given)
      BY <2>3, FS_Union
    <3>2. /\ Cardinality(pool \cap given) = 0
          /\ Cardinality(pool) \in Nat /\ Cardinality(given) \in Nat
      BY <2>2, <2>3, FS_EmptySet, FS_CardinalityType
    <3> QED
      BY <2>2, <3>1, <3>2
  <2> QED
    BY <1>1, <2>1, <2>4 DEF CapacityKept, PoolInv, SizeFit, given
<1> QED
  BY <1>1, PoolInvHolds, PTL

-----------------------------------------------------------------------------
(* Clean connections, but for the writes of tasks cancelled too late.         *)

\* A write is queued once, by the task that waits for it, unless that was cancelled.
StatementsFit ==
    \A c \in Conns : \A i \in DOMAIN thread[c] : thread[c][i][2] = "write" =>
        LET t == thread[c][i][1] IN
        \/ t \in late[c]
        \/ /\ pc[t] = "writing" /\ Conn(t) = c
           /\ \A j \in DOMAIN thread[c] : thread[c][j] = thread[c][i] => j = i

\* What a task gives back without another look has only the writes of others, cancelled late.
WritesFit ==
    /\ CleanButForLate
    /\ \A t \in Tasks : pc[t] = "putting" => writes[Conn(t)] \subseteq late[Conn(t)]
    /\ \A t \in Tasks : \A c \in fresh[t] : writes[c] \subseteq late[c]
    /\ up => \A c \in Conns \ (live \cup broken) : writes[c] \subseteq late[c]

CleanInv == PoolInv /\ StatementsFit /\ WritesFit

LEMMA QueuedFits ==
    ASSUME PoolInv, NEW c \in Conns, NEW i \in DOMAIN thread[c]
    PROVE  thread[c][i] \in Statements /\ thread[c][i][1] \in Tasks
<1>1. thread[c][i] \in Statements
  BY DEF PoolInv, PoolShape, PoolTypeOK, Statements
<1> QED
  BY <1>1 DEF Statements

\* A step of a task that has no write queued, or is cancelled, leaves the queues as they fit.
LEMMA StatementsKeep ==
    ASSUME PoolInv, StatementsFit, UNCHANGED thread, NEW t \in Tasks,
           pc[t] # "writing" \/ t \in late'[Conn(t)],
           \A c \in Conns : late[c] \subseteq late'[c],
           \A u \in Tasks \ {t} : pc'[u] = pc[u] /\ held'[u] = held[u]
    PROVE  StatementsFit'
<1> SUFFICES ASSUME NEW c \in Conns, NEW i \in DOMAIN thread[c], thread[c][i][2] = "write"
             PROVE  LET u == thread[c][i][1] IN
                    \/ u \in late'[c]
                    \/ /\ pc'[u] = "writing" /\ Last(held'[u]) = c
                       /\ \A j \in DOMAIN thread[c] : thread[c][j] = thread[c][i] => j = i
  BY DEF StatementsFit, Conn
<1> DEFINE u == thread[c][i][1]
<1>1. u \in Tasks
  BY QueuedFits
<1>2. \/ u \in late[c]
      \/ /\ pc[u] = "writing" /\ Last(held[u]) = c
         /\ \A j \in DOMAIN thread[c] : thread[c][j] = thread[c][i] => j = i
  BY DEF StatementsFit, Conn
<1> HIDE DEF u
<1>3. CASE u \in late[c] \/ u = t
  <2>1. u \in late'[c]
    BY <1>2, <1>3 DEF Conn
  <2> QED
    BY <2>1 DEF u
<1>4. CASE u \notin late[c] /\ u # t
  <2>1. pc'[u] = pc[u] /\ held'[u] = held[u]
    BY <1>1, <1>4
  <2> QED
    BY <1>2, <1>4, <2>1 DEF u
<1> QED
  BY <1>3, <1>4

\* A task sends one statement at a time.
LEMMA SentKeeps ==
    ASSUME PoolInv, StatementsFit, NEW t \in Tasks, NEW what \in {"write", "commit", "rollback"},
           pc[t] \notin {"writing", "waiting", "done"}, Send(t, what),
           what = "write" => pc'[t] = "writing",
           UNCHANGED <<held, late>>, \A u \in Tasks \ {t} : pc'[u] = pc[u]
    PROVE  StatementsFit'
<1>1. thread \in [Conns -> Seq(Statements)] /\ <<t, what>> \in Statements
  BY DEF PoolInv, PoolShape, Statements
<1> SUFFICES ASSUME NEW c \in Conns, NEW i \in DOMAIN thread'[c], thread'[c][i][2] = "write"
             PROVE  LET u == thread'[c][i][1] IN
                    \/ u \in late[c]
                    \/ /\ pc'[u] = "writing" /\ Conn(u) = c
                       /\ \A j \in DOMAIN thread'[c] : thread'[c][j] = thread'[c][i] => j = i
  BY DEF StatementsFit, Conn
<1>2. CASE c # Conn(t)
  <2>1. thread'[c] = thread[c]
    BY <1>1, <1>2 DEF Send
  <2>2. LET u == thread[c][i][1] IN
        /\ u \in Tasks
        /\ \/ u \in late[c]
           \/ /\ pc[u] = "writing" /\ Conn(u) = c /\ u # t
              /\ \A j \in DOMAIN thread[c] : thread[c][j] = thread[c][i] => j = i
    BY <2>1, QueuedFits DEF StatementsFit
  <2> QED
    BY <2>1, <2>2
<1>3. CASE c = Conn(t)
  <2> DEFINE old == thread[c]
             n == Len(old)
  <2>1. /\ thread'[c] = Append(old, <<t, what>>) /\ old \in Seq(Statements)
    BY <1>1, <1>3 DEF Send
  <2>2. /\ n \in Nat /\ DOMAIN old = 1 .. n /\ DOMAIN thread'[c] = 1 .. n + 1
        /\ \A j \in 1 .. n : thread'[c][j] = old[j]
        /\ thread'[c][n + 1] = <<t, what>>
    BY <1>1, <2>1, AppendProperties, LenProperties
  <2>3. ASSUME NEW j \in 1 .. n, old[j][2] = "write", old[j][1] \notin late[c]
        PROVE  /\ old[j][1] \in Tasks \ {t} /\ pc[old[j][1]] = "writing" /\ Conn(old[j][1]) = c
               /\ \A k \in 1 .. n : old[k] = old[j] => k = j
    BY <2>2, <2>3, QueuedFits DEF StatementsFit
  <2> HIDE DEF old, n
  <2>4. CASE i = n + 1 /\ t \notin late[c]
    <3>1. thread'[c][i] = <<t, "write">> /\ pc'[t] = "writing"
      BY <2>2, <2>4
    <3>2. \A j \in 1 .. n : thread'[c][j] # <<t, "write">>
      <4>1. ASSUME NEW j \in 1 .. n, old[j] = <<t, "write">>
            PROVE  FALSE
        <5>1. old[j][2] = "write" /\ old[j][1] = t
          BY <4>1
        <5> QED
          BY <2>3, <2>4, <5>1
      <4> QED
        BY <2>2, <4>1
    <3> QED
      BY <1>3, <2>2, <2>4, <3>1, <3>2
  <2>5. CASE i \in 1 .. n /\ old[i][1] \notin late[c]
    <3>1. thread'[c][i] = old[i] /\ old[i][2] = "write"
      BY <2>2, <2>5
    <3>2. /\ old[i][1] \in Tasks \ {t} /\ pc[old[i][1]] = "writing" /\ Conn(old[i][1]) = c
          /\ \A k \in 1 .. n : old[k] = old[i] => k = i
      BY <2>3, <2>5, <3>1
    <3>3. thread'[c][n + 1] # old[i]
      BY <2>2, <3>2
    <3> QED
      BY <2>2, <3>1, <3>2, <3>3
  <2>6. CASE (i = n + 1 /\ t \in late[c]) \/ (i \in 1 .. n /\ old[i][1] \in late[c])
    BY <2>2, <2>6
  <2> QED
    BY <2>2, <2>4, <2>5, <2>6
<1> QED
  BY <1>2, <1>3

\* Connections change hands clean.
LEMMA WritesKeep ==
    ASSUME PoolInv, PoolInv', WritesFit, UNCHANGED writes,
           \A c \in Conns : late[c] \subseteq late'[c],
           \A c \in pool' \ pool : writes[c] \subseteq late[c],
           \A u \in Tasks : \A c \in ToSet(held'[u]) \ ToSet(held[u]) : writes[c] \subseteq late[c],
           \A u \in Tasks : pc'[u] = "putting" => pc[u] = "putting" /\ held'[u] = held[u],
           \A u \in Tasks : \A c \in fresh'[u] \ fresh[u] : writes[c] \subseteq late[c],
           up' => up /\ live \subseteq live' \cup broken' /\ broken \subseteq broken'
    PROVE  WritesFit'
<1>a. /\ pool' \subseteq Conns /\ \A u \in Tasks : fresh'[u] \subseteq Conns /\ Held(u)' \subseteq Conns
  BY DEF PoolInv, PoolShape, PoolTypeOK, Held
<1>1. CleanButForLate'
  <2>1. \A c \in pool' : writes'[c] \subseteq late'[c]
    BY <1>a DEF WritesFit, CleanButForLate
  <2>2. ASSUME NEW t \in Tasks, NEW c \in ToSet(held'[t])
        PROVE  writes'[c] \subseteq {t} \cup late'[c]
    <3>1. c \in Conns /\ late[c] \subseteq late'[c]
      BY <1>a DEF Held
    <3>2. writes[c] \subseteq {t} \cup late[c]
      BY DEF WritesFit, CleanButForLate
    <3> QED
      BY <3>1, <3>2
  <2> QED
    BY <2>1, <2>2 DEF CleanButForLate
<1>2. ASSUME NEW t \in Tasks, pc'[t] = "putting"
      PROVE  writes'[Conn(t)'] \subseteq late'[Conn(t)']
  <2>1. pc[t] = "putting" /\ Conn(t)' = Conn(t) /\ Conn(t) \in Conns
    BY <1>2, DroppedFits DEF PoolInv, PoolShape, HeldFit, Held, Conn
  <2> QED
    BY <2>1 DEF WritesFit
<1>3. \A t \in Tasks : \A c \in fresh'[t] : writes'[c] \subseteq late'[c]
  BY <1>a DEF WritesFit
<1>4. up' => \A c \in Conns \ (live' \cup broken') : writes'[c] \subseteq late'[c]
  BY DEF WritesFit
<1> QED
  BY <1>1, <1>2, <1>3, <1>4 DEF WritesFit, Conn

\* A task that takes a connection, works with it or is cancelled.
LEMMA CleanAtWork ==
    ASSUME CleanInv, PoolInv', NEW t \in Tasks,
           Get(t) \/ OpenInside(t) \/ Write(t) \/ Commit(t) \/ Leave(t)
             \/ CancelAtWork(t) \/ CancelInGet(t) \/ CancelInRelease(t)
    PROVE  StatementsFit' /\ WritesFit'
<1>1. /\ PoolInv /\ StatementsFit /\ WritesFit
      /\ pc \in [Tasks -> Points] /\ held \in [Tasks -> Seq(Conns)] /\ fresh \in [Tasks -> SUBSET Conns]
      /\ late \in [Conns -> SUBSET Tasks]
  BY DEF CleanInv, PoolInv, PoolShape, PoolTypeOK, Points
<1>2. /\ \A u \in Tasks \ {t} : pc'[u] = pc[u] /\ held'[u] = held[u]
      /\ pc'[t] # "putting" /\ (pc[t] = "writing" => CancelAtWork(t))
      /\ pool' \subseteq pool /\ UNCHANGED <<up, known, live, broken, writes>>
      /\ \A u \in Tasks : fresh'[u] \subseteq fresh[u]
  BY <1>1 DEF Get, OpenInside, Write, Commit, Leave, CancelAtWork, CancelInGet, CancelInRelease, Goto,
              places, work, Points
<1>a. /\ \A c \in Conns : late[c] \subseteq late'[c]
      /\ pc[t] # "writing" \/ t \in late'[Conn(t)]
  <2>1. CASE CancelAtWork(t) /\ pc[t] = "writing"
    <3>1. late' = [late EXCEPT ![Conn(t)] = @ \cup {t}]
      BY <2>1 DEF CancelAtWork
    <3>2. Conn(t) \in Conns
      BY <1>1, <2>1, DroppedFits DEF PoolInv, PoolShape, HeldFit, Held, Conn
    <3> QED
      BY <1>1, <3>1, <3>2
  <2>2. CASE ~(CancelAtWork(t) /\ pc[t] = "writing")
    <3>1. late' = late
      BY <2>2 DEF Get, OpenInside, Write, Commit, Leave, CancelAtWork, CancelInGet, CancelInRelease
    <3> QED
      BY <1>2, <2>2, <3>1
  <2> QED
    BY <2>1, <2>2
<1>3. StatementsFit'
  <2>1. CASE Write(t)
    <3>1. /\ Send(t, "write") /\ pc'[t] = "writing" /\ held' = held /\ pc[t] = "using"
          /\ UNCHANGED <<held, late>>
      BY <1>1, <2>1 DEF Write, Goto
    <3> QED
      BY <1>1, <1>2, <3>1, SentKeeps
  <2>2. CASE Commit(t)
    <3>1. Send(t, "commit") /\ UNCHANGED <<held, late>> /\ pc[t] = "written"
      BY <2>2 DEF Commit
    <3> QED
      BY <1>1, <1>2, <3>1, SentKeeps
  <2>3. CASE ~Write(t) /\ ~Commit(t)
    <3>1. thread' = thread
      BY <2>3 DEF Get, OpenInside, Leave, CancelAtWork, CancelInGet, CancelInRelease, work
    <3> QED
      BY <1>1, <1>2, <1>a, <3>1, StatementsKeep
  <2> QED
    BY <2>1, <2>2, <2>3
<1>4. \A c \in ToSet(held'[t]) \ ToSet(held[t]) : writes[c] \subseteq late[c]
  <2>1. CASE Get(t)
    <3>1. PICK c \in pool : held' = [held EXCEPT ![t] = Append(@, c)]
      BY <2>1 DEF Get
    <3>2. c \in Conns /\ c \notin ToSet(held[t]) /\ held[t] \in Seq(Conns) /\ IsInjective(held[t])
      BY <1>1 DEF PoolInv, PoolShape, PoolTypeOK, HeldFit, Held
    <3>3. held'[t] = Append(held[t], c) /\ ToSet(Append(held[t], c)) = ToSet(held[t]) \cup {c}
      BY <1>1, <3>1, <3>2, TakenFits
    <3>4. writes[c] \subseteq late[c]
      BY <1>1 DEF WritesFit, CleanButForLate
    <3> QED
      BY <3>3, <3>4
  <2>2. CASE ~Get(t)
    <3>1. held' = held
      BY <2>2 DEF OpenInside, Write, Commit, Leave, CancelAtWork, CancelInGet, CancelInRelease
    <3> QED
      BY <3>1
  <2> QED
    BY <2>1, <2>2
<1>5. WritesFit'
  <2>1. \A u \in Tasks : \A c \in ToSet(held'[u]) \ ToSet(held[u]) : writes[c] \subseteq late[c]
    BY <1>2, <1>4
  <2>2. \A u \in Tasks : pc'[u] = "putting" => pc[u] = "putting" /\ held'[u] = held[u]
    BY <1>2
  <2> QED
    BY <1>1, <1>2, <1>a, <2>1, <2>2, WritesKeep
<1> QED
  BY <1>3, <1>5

\* A connection goes back, or is replaced, without a transaction.
LEMMA CleanRelease ==
    ASSUME CleanInv, PoolInv', NEW t \in Tasks,
           ReleaseClosed(t) \/ ReleaseChecks(t) \/ Put(t) \/ Replace(t) \/ OpenOther(t) \/ Opened(t)
    PROVE  StatementsFit' /\ WritesFit'
<1>1. /\ PoolInv /\ StatementsFit /\ WritesFit
      /\ pc \in [Tasks -> Points] /\ held \in [Tasks -> Seq(Conns)] /\ fresh \in [Tasks -> SUBSET Conns]
      /\ live \subseteq Conns
  BY DEF CleanInv, PoolInv, PoolShape, PoolTypeOK, Points
<1>2. pc[t] \in {"releasing", "putting", "closing", "closed", "opening"}
  BY DEF ReleaseClosed, ReleaseChecks, Put, Replace, OpenOther, Opened
<1>3. Drop(t) => /\ ToSet(held'[t]) \subseteq ToSet(held[t]) /\ pc'[t] # "putting"
                 /\ \A u \in Tasks \ {t} : pc'[u] = pc[u] /\ held'[u] = held[u]
  BY <1>1, <1>2, DropFits DEF Held
<1>4. /\ \A u \in Tasks \ {t} : pc'[u] = pc[u] /\ held'[u] = held[u]
      /\ pc'[t] # "putting" /\ ToSet(held'[t]) \subseteq ToSet(held[t])
  <2>1. CASE Drop(t)
    BY <1>3, <2>1
  <2>2. ASSUME NEW place \in Points \ {"putting"}, Goto(t, place), held' = held
        PROVE  /\ \A u \in Tasks \ {t} : pc'[u] = pc[u] /\ held'[u] = held[u]
               /\ pc'[t] # "putting" /\ ToSet(held'[t]) \subseteq ToSet(held[t])
    BY <1>1, <2>2 DEF Goto
  <2> QED
    BY <2>1, <2>2 DEF ReleaseClosed, ReleaseChecks, Put, PutBack, Replace, OpenOther, Opened, Points
<1>5. UNCHANGED <<up, writes, broken, late>>
  BY DEF ReleaseClosed, ReleaseChecks, Put, Replace, OpenOther, Opened, places, work
<1>6. StatementsFit'
  <2>1. CASE thread' = thread
    BY <1>1, <1>2, <1>4, <1>5, <2>1, StatementsKeep
  <2>2. CASE thread' # thread
    <3>1. Send(t, "rollback") /\ held' = held
      BY <2>2 DEF ReleaseClosed, ReleaseChecks, Put, Replace, OpenOther, Opened, work
    <3> QED
      BY <1>1, <1>2, <1>4, <1>5, <3>1, SentKeeps
  <2> QED
    BY <2>1, <2>2
<1>7. \A c \in pool' \ pool : writes[c] \subseteq late[c]
  <2>1. CASE ReleaseChecks(t)
    BY <2>1 DEF ReleaseChecks, PutBack
  <2>2. CASE Put(t)
    BY <1>1, <2>2 DEF Put, PutBack, WritesFit
  <2>3. CASE Opened(t)
    BY <1>1, <2>3 DEF Opened, WritesFit
  <2>4. CASE ReleaseClosed(t) \/ Replace(t) \/ OpenOther(t)
    BY <2>4 DEF ReleaseClosed, Replace, OpenOther, places
  <2> QED
    BY <2>1, <2>2, <2>3, <2>4
<1>8. \A u \in Tasks : \A c \in fresh'[u] \ fresh[u] : writes[c] \subseteq late[c]
  <2>1. CASE OpenOther(t) /\ up /\ fresh' # fresh
    <3>1. PICK c \in Conns \ (Initial \cup live \cup broken \cup UNION Range(fresh)) :
              fresh' = [fresh EXCEPT ![t] = {c}]
      BY <2>1 DEF OpenOther
    <3>2. writes[c] \subseteq late[c]
      BY <1>1, <2>1, <3>1 DEF WritesFit
    <3> QED
      BY <1>1, <3>1, <3>2
  <2>2. CASE ~(OpenOther(t) /\ up /\ fresh' # fresh)
    <3>1. fresh' = fresh \/ fresh' = [fresh EXCEPT ![t] = {}]
      BY <2>2 DEF ReleaseClosed, ReleaseChecks, Put, Replace, OpenOther, Opened
    <3> QED
      BY <1>1, <3>1
  <2> QED
    BY <2>1, <2>2
<1>9. up => live \subseteq live' \cup broken
  <2>1. CASE Replace(t)
    BY <1>1, <2>1 DEF Replace, PoolInv, ClosingFit
  <2>2. CASE ~Replace(t)
    BY <2>2 DEF ReleaseClosed, ReleaseChecks, Put, OpenOther, Opened, places
  <2> QED
    BY <2>1, <2>2
<1>10. WritesFit'
  <2>1. \A u \in Tasks : \A c \in ToSet(held'[u]) \ ToSet(held[u]) : writes[c] \subseteq late[c]
    BY <1>4
  <2>2. \A u \in Tasks : pc'[u] = "putting" => pc[u] = "putting" /\ held'[u] = held[u]
    BY <1>4
  <2> QED
    BY <1>1, <1>5, <1>7, <1>8, <1>9, <2>1, <2>2, WritesKeep
<1> QED
  BY <1>6, <1>10

\* The thread of a connection runs a statement: the write of the task that has it, or the
\* end of the transaction.
LEMMA CleanThread ==
    ASSUME CleanInv, PoolInv', NEW c \in Conns, ThreadRuns(c)
    PROVE  StatementsFit' /\ WritesFit'
<1> DEFINE q == thread[c]
           t == Head(q)[1]
           what == Head(q)[2]
           ok == c \in live \ broken
<1>1. /\ PoolInv /\ StatementsFit /\ WritesFit /\ PoolTypeOK
      /\ pc \in [Tasks -> Points] /\ held \in [Tasks -> Seq(Conns)] /\ fresh \in [Tasks -> SUBSET Conns]
      /\ thread \in [Conns -> Seq(Statements)] /\ writes \in [Conns -> SUBSET Tasks]
      /\ q \in Seq(Statements) /\ q # <<>>
  BY DEF ThreadRuns, CleanInv, PoolInv, PoolShape, PoolTypeOK, Points
<1>2. /\ Len(q) \in Nat \ {0} /\ DOMAIN q = 1 .. Len(q) /\ Head(q) = q[1]
      /\ Tail(q) \in Seq(Statements) /\ Len(Tail(q)) = Len(q) - 1
      /\ \A i \in 1 .. Len(q) - 1 : Tail(q)[i] = q[i + 1]
      /\ DOMAIN Tail(q) = 1 .. Len(q) - 1
  BY <1>1, HeadTailProperties, LenProperties, EmptySeq
<1>3. t \in Tasks /\ what \in {"write", "commit", "rollback"} /\ q[1] = <<t, what>>
  <2>1. q[1] \in Statements
    BY <1>1, <1>2
  <2> QED
    BY <1>2, <2>1 DEF Statements
<1>4. /\ writes' = [writes EXCEPT ![c] =
                      IF ~ok THEN @ ELSE IF what = "write" THEN @ \cup {t} ELSE {}]
      /\ pc' = IF Waits(t, c, what)
               THEN [pc EXCEPT ![t] = IF ok THEN Then[@]
                                      ELSE IF @ = "rolling" THEN "closing"
                                      ELSE "releasing"]
               ELSE pc
      /\ thread' = [thread EXCEPT ![c] = Tail(q)]
      /\ UNCHANGED <<up, pool, known, live, lost, broken, held, cancels, fresh, late>>
  BY DEF ThreadRuns, places
<1>5. what = "write" /\ t \notin late[c] =>
                        /\ pc[t] = "writing" /\ Conn(t) = c
                        /\ \A j \in 1 .. Len(q) : q[j] = q[1] => j = 1
  <2>1. 1 \in DOMAIN thread[c]
    BY <1>2
  <2>2. q[1][2] = "write" /\ q[1][1] \notin late[c] =>
                            /\ pc[q[1][1]] = "writing" /\ Conn(q[1][1]) = c
                            /\ \A j \in DOMAIN q : q[j] = q[1] => j = 1
    BY <1>1, <2>1 DEF StatementsFit
  <2> HIDE DEF q
  <2> QED
    BY <1>2, <2>2
<1> HIDE DEF t, what, ok
<1>6. \A u \in Tasks : pc'[u] # pc[u] =>
            /\ u = t /\ held[u] # <<>> /\ Conn(u) = c
            /\ pc[u] = "writing" => what = "write"
            /\ pc'[u] = "putting" => ok /\ what = "rollback"
  <2>1. CASE Waits(t, c, what)
    <3>1. /\ held[t] # <<>> /\ Conn(t) = c
          /\ \/ what = "write" /\ pc[t] = "writing"
             \/ what = "commit" /\ pc[t] = "committing"
             \/ what = "rollback" /\ pc[t] = "rolling"
      BY <1>3, <2>1 DEF Waits
    <3>2. Then[pc[t]] = "putting" => what = "rollback"
      BY <3>1 DEF Then
    <3>3. /\ \A u \in Tasks \ {t} : pc'[u] = pc[u]
          /\ pc'[t] = IF ok THEN Then[pc[t]] ELSE IF pc[t] = "rolling" THEN "closing" ELSE "releasing"
      BY <1>1, <1>3, <1>4, <2>1
    <3> QED
      BY <3>1, <3>2, <3>3
  <2>2. CASE ~Waits(t, c, what)
    BY <1>4, <2>2
  <2> QED
    BY <2>1, <2>2
<1>7. StatementsFit'
  <2> SUFFICES ASSUME NEW d \in Conns, NEW i \in DOMAIN thread'[d], thread'[d][i][2] = "write"
               PROVE  LET u == thread'[d][i][1] IN
                      \/ u \in late[d]
                      \/ /\ pc'[u] = "writing" /\ Conn(u) = d
                         /\ \A j \in DOMAIN thread'[d] : thread'[d][j] = thread'[d][i] => j = i
    BY <1>4 DEF StatementsFit, Conn
  <2> SUFFICES ASSUME thread'[d][i][1] \notin late[d]
               PROVE  LET u == thread'[d][i][1] IN
                      /\ pc'[u] = "writing" /\ Conn(u) = d
                      /\ \A j \in DOMAIN thread'[d] : thread'[d][j] = thread'[d][i] => j = i
    OBVIOUS
  <2>1. CASE d # c
    <3>1. thread'[d] = thread[d]
      BY <1>1, <1>4, <2>1
    <3>2. /\ thread[d][i][1] \in Tasks /\ pc[thread[d][i][1]] = "writing" /\ Conn(thread[d][i][1]) = d
          /\ \A j \in DOMAIN thread[d] : thread[d][j] = thread[d][i] => j = i
      BY <1>1, <3>1, QueuedFits DEF StatementsFit
    <3>3. pc'[thread[d][i][1]] = "writing"
      BY <1>6, <2>1, <3>2
    <3> QED
      BY <3>1, <3>2, <3>3
  <2>2. CASE d = c
    <3>1. /\ thread'[d] = Tail(q) /\ i \in 1 .. Len(q) - 1 /\ thread'[d][i] = q[i + 1]
          /\ i + 1 \in 1 .. Len(q)
      BY <1>1, <1>2, <1>4, <2>2
    <3>2. /\ q[i + 1][1] \in Tasks /\ pc[q[i + 1][1]] = "writing" /\ Conn(q[i + 1][1]) = c
          /\ \A j \in 1 .. Len(q) : q[j] = q[i + 1] => j = i + 1
      <4>1. /\ i + 1 \in DOMAIN thread[c] /\ thread[c][i + 1][2] = "write"
            /\ thread[c][i + 1][1] \notin late[c]
        BY <1>2, <2>2, <3>1
      <4> QED
        BY <1>1, <1>2, <4>1, QueuedFits DEF StatementsFit
    <3>3. pc'[q[i + 1][1]] = "writing"
      <4>1. CASE pc'[q[i + 1][1]] # pc[q[i + 1][1]]
        <5>1. q[i + 1][1] = t /\ what = "write"
          BY <1>6, <3>2, <4>1
        <5>2. q[i + 1] \in Statements
          BY <1>1, <3>1
        <5>3. q[i + 1] = <<t, "write">>
          BY <2>2, <3>1, <5>1, <5>2 DEF Statements
        <5>4. i + 1 = 1
          BY <1>3, <1>5, <2>2, <3>1, <5>1, <5>3
        <5> QED
          BY <3>1, <5>4
      <4> QED
        BY <3>2, <4>1
    <3>4. ASSUME NEW j \in 1 .. Len(q) - 1, Tail(q)[j] = q[i + 1]
          PROVE  j = i
      <4>1. q[j + 1] = q[i + 1] /\ j + 1 \in 1 .. Len(q)
        BY <1>2, <3>4
      <4> QED
        BY <3>1, <3>2, <4>1
    <3> QED
      BY <1>2, <2>2, <3>1, <3>2, <3>3, <3>4
  <2> QED
    BY <2>1, <2>2
<1>8. /\ \A d \in Conns \ {c} : writes'[d] = writes[d]
      /\ writes'[c] \subseteq writes[c] \cup {t}
      /\ writes'[c] # writes[c] => writes'[c] = {} \/ (ok /\ what = "write")
      /\ ok /\ what = "rollback" => writes'[c] = {}
  BY <1>1, <1>4
<1>9. WritesFit'
  <2>1. ASSUME what = "write", t \notin late[c]
        PROVE  /\ c \notin pool
               /\ \A u \in Tasks : (c \in Held(u) => u = t) /\ c \notin fresh[u]
    <3>1. held[t] # <<>> /\ pc[t] = "writing" /\ Conn(t) = c
      BY <1>1, <1>3, <1>5, <2>1 DEF PoolInv, HeldFit
    <3>2. c \in Held(t)
      BY <1>1, <1>3, <3>1, DroppedFits DEF PoolInv, HeldFit, Held, Conn
    <3> QED
      BY <1>1, <1>3, <3>2 DEF PoolInv, HeldFit, FreshFit
  <2>2. CleanButForLate'
    <3>1. ASSUME NEW d \in pool
          PROVE  writes'[d] \subseteq late[d]
      <4>1. writes[d] \subseteq late[d] /\ d \in Conns
        BY <1>1 DEF WritesFit, CleanButForLate, PoolTypeOK
      <4>2. CASE d # c
        BY <1>8, <4>1, <4>2
      <4>3. CASE d = c
        BY <1>8, <2>1, <4>1, <4>3
      <4> QED
        BY <4>2, <4>3
    <3>2. ASSUME NEW u \in Tasks, NEW d \in Held(u)
          PROVE  writes'[d] \subseteq {u} \cup late[d]
      <4>1. writes[d] \subseteq {u} \cup late[d] /\ d \in Conns
        BY <1>1 DEF WritesFit, CleanButForLate, PoolTypeOK, Held
      <4> QED
        BY <1>8, <2>1, <4>1
    <3> QED
      BY <1>4, <3>1, <3>2 DEF CleanButForLate, Held
  <2>3. ASSUME NEW u \in Tasks, pc'[u] = "putting"
        PROVE  writes'[Conn(u)] \subseteq late[Conn(u)]
    <3>1. CASE pc[u] = "putting"
      <4>1. held[u] # <<>> /\ writes[Conn(u)] \subseteq late[Conn(u)]
        BY <1>1, <3>1 DEF PoolInv, HeldFit, WritesFit
      <4>2. Conn(u) \in Held(u) /\ Conn(u) \in Conns
        BY <1>1, <4>1, DroppedFits DEF PoolInv, HeldFit, Held, Conn
      <4>3. what = "write" /\ t \notin late[c] => u # t
        BY <1>5, <3>1
      <4> QED
        BY <1>8, <2>1, <4>1, <4>2, <4>3
    <3>2. CASE pc[u] # "putting"
      <4>1. u = t /\ Conn(u) = c /\ ok /\ what = "rollback"
        BY <1>6, <2>3, <3>2
      <4> QED
        BY <1>8, <4>1
    <3> QED
      BY <3>1, <3>2
  <2>4. ASSUME NEW u \in Tasks, NEW d \in fresh[u]
        PROVE  writes'[d] \subseteq late[d]
    <3>1. d \in Conns /\ writes[d] \subseteq late[d]
      BY <1>1 DEF WritesFit
    <3> QED
      BY <1>8, <2>1, <3>1
  <2>5. ASSUME up, NEW d \in Conns \ (live \cup broken)
        PROVE  writes'[d] \subseteq late[d]
    <3>1. writes[d] \subseteq late[d] /\ (d = c => ~ok)
      BY <1>1, <2>5 DEF WritesFit, ok
    <3> QED
      BY <1>8, <3>1
  <2> QED
    BY <1>4, <2>2, <2>3, <2>4, <2>5 DEF WritesFit, Conn
<1> QED
  BY <1>7, <1>9

\* A connection that breaks, a pool that is closed and a pause soil nothing.
LEMMA CleanOthers ==
    ASSUME CleanInv, PoolInv', (\E c \in Conns : Break(c)) \/ ClosePool \/ UNCHANGED poolVars
    PROVE  StatementsFit' /\ WritesFit'
<1>1. StatementsFit /\ WritesFit /\ UNCHANGED <<thread, pc, held, fresh, late>> /\ PoolTypeOK
  BY DEF CleanInv, PoolInv, PoolShape, Break, ClosePool, poolVars, work, places
<1>2. StatementsFit'
  BY <1>1 DEF StatementsFit, Conn
<1>3. WritesFit'
  <2>1. CASE ClosePool
    <3>1. /\ pool' = {} /\ up' = FALSE /\ writes' = [c \in Conns |-> {}]
      BY <2>1 DEF ClosePool
    <3>2. \A t \in Tasks : pc[t] = "putting" => Conn(t) \in Conns
      BY DroppedFits DEF CleanInv, PoolInv, PoolShape, HeldFit, Held, Conn
    <3>3. CleanButForLate'
      BY <1>1, <3>1 DEF CleanButForLate, PoolTypeOK
    <3> QED
      BY <1>1, <3>1, <3>2, <3>3 DEF WritesFit, Conn, PoolTypeOK
  <2>2. CASE (\E c \in Conns : Break(c)) \/ UNCHANGED poolVars
    <3>1. UNCHANGED <<writes, pool, live, up>> /\ broken \subseteq broken'
      BY <2>2 DEF Break, poolVars, work, places
    <3> QED
      BY <1>1, <3>1, WritesKeep DEF CleanInv
  <2> QED
    BY <2>1, <2>2
<1> QED
  BY <1>2, <1>3

\* What is handed over unclean is the doing of a cancellation that found a write queued, for
\* any number of tasks, connections, breaks and cancellations: whatever else is open is rolled
\* back first (_release_sqlite).
THEOREM HandedOverClean == PoolSpec => []CleanButForLate
<1>1. PoolInit => CleanInv
  <2>1. PoolInit => StatementsFit /\ WritesFit
    <3> SUFFICES ASSUME PoolInit
                 PROVE  StatementsFit /\ WritesFit
      OBVIOUS
    <3>1. /\ Initial \subseteq Conns /\ pool = Initial /\ live = Initial
          /\ writes = [c \in Conns |-> {}] /\ thread = [c \in Conns |-> <<>>]
          /\ held = [t \in Tasks |-> <<>>] /\ fresh = [t \in Tasks |-> {}]
          /\ pc = [t \in Tasks |-> "waiting"] /\ late = [c \in Conns |-> {}]
      BY PoolAssumption DEF PoolInit, PoolStarts
    <3>2. \A c \in Conns : DOMAIN thread[c] = {}
      BY <3>1
    <3>3. CleanButForLate
      BY <3>1 DEF CleanButForLate, ToSet
    <3> QED
      BY <3>1, <3>2, <3>3 DEF StatementsFit, WritesFit
  <2> QED
    BY <2>1, PoolStarted DEF CleanInv, PoolInit
<1>2. CleanInv /\ [PoolNext]_poolVars => CleanInv'
  <2> SUFFICES ASSUME CleanInv, [PoolNext]_poolVars
               PROVE  CleanInv'
    OBVIOUS
  <2>1. PoolInv'
    BY PoolKept DEF CleanInv
  <2>2. ASSUME NEW t \in Tasks, Step(t) \/ CancelAtWork(t) \/ CancelInGet(t) \/ CancelInRelease(t)
        PROVE  StatementsFit' /\ WritesFit'
    BY <2>1, <2>2, CleanAtWork, CleanRelease DEF Step
  <2>3. ASSUME NEW c \in Conns, ThreadRuns(c) \/ Break(c)
        PROVE  StatementsFit' /\ WritesFit'
    BY <2>1, <2>3, CleanThread, CleanOthers
  <2>4. CASE ClosePool \/ PoolRest \/ UNCHANGED poolVars
    BY <2>1, <2>4, CleanOthers DEF PoolRest, CleanInv
  <2> QED
    BY <2>1, <2>2, <2>3, <2>4 DEF CleanInv, PoolNext
<1>3. CleanInv => CleanButForLate
  BY DEF CleanInv, WritesFit
<1> QED
  BY <1>1, <1>2, <1>3, PTL DEF PoolSpec

-----------------------------------------------------------------------------
(* The two together. *)

\* The variables of a run and of the pool keep their types, whichever of them moves.
THEOREM ServicesTypeCorrect == ServicesSpec => []ServicesTypeOK
<1> DEFINE Inv == FlowInv /\ PoolInv
<1>1. ServicesInit => Inv
  <2> SUFFICES ASSUME ServicesInit
               PROVE  Inv
    OBVIOUS
  <2>1. phase \in {"running", "failed"} /\ pc \in [Tasks -> {"waiting", "done"}]
    BY DEF ServicesInit
  <2> QED
    BY <2>1, FlowStarts, PoolStarted DEF ServicesInit
<1>2. Inv /\ [ServicesNext]_<<focus, wgVars, poolVars>> => Inv'
  <2> SUFFICES ASSUME Inv, [ServicesNext]_<<focus, wgVars, poolVars>>
               PROVE  Inv'
    OBVIOUS
  <2>1. [WorkflowGraphNext]_wgVars /\ [PoolNext]_poolVars
    BY DEF ServicesNext
  <2> QED
    BY <2>1, FlowGoesOn, PoolKept
<1>3. Inv => ServicesTypeOK
  <2>1. FlowInv => WorkflowGraphTypeOK
    BY DEF FlowInv, RunShape, WorkflowGraphTypeOK
  <2>2. PoolInv => PoolTypeOK
    BY DEF PoolInv, PoolShape
  <2> QED
    BY <2>1, <2>2 DEF ServicesTypeOK
<1> QED
  BY <1>1, <1>2, <1>3, PTL DEF ServicesSpec
====
