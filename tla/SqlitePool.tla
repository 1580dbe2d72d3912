---- MODULE SqlitePool ----
(***************************************************************************)
(* The connection pool of one worker on SQLite (storage/db.py).  A task     *)
(* takes a connection with open_db(), sends it statements and gives it back *)
(* when its block ends, whatever ended it.  Statements run in order in the  *)
(* thread of the connection (aiosqlite); a cancelled task stops waiting for *)
(* its statement, which runs all the same.                                  *)
(***************************************************************************)
EXTENDS Integers, FiniteSets, Sequences, SequencesExt

CONSTANTS Tasks,
          Nested,        \* tasks that open a second connection inside the first
          Conns,         \* identities of connections, the replacements included
          Initial,       \* those that init_db opens
          MayClose,      \* close_db_pool runs while tasks are at work
          MaxCancels,    \* bound: cancellations of one task
          MaxCancelled,  \* bound: tasks that are cancelled
          MaxBroken,     \* bound: connections that break
          MaxLost        \* bound: replacements that cannot be opened

ASSUME PoolAssumption ==
    /\ Nested \subseteq Tasks /\ Initial \subseteq Conns /\ IsFiniteSet(Initial)
    /\ MayClose \in BOOLEAN
    /\ {MaxCancels, MaxCancelled, MaxBroken, MaxLost} \subseteq Nat

VARIABLES
    up,      \* _sqlite_pool is the pool the tasks know
    pool,    \* connections in the queue
    known,   \* _sqlite_connections
    live,    \* connections whose thread runs
    broken,  \* connections whose statements raise
    writes,  \* tasks whose writes are in the open transaction of a connection
    thread,  \* statements queued in the thread of a connection, <<task, what>>
    pc,
    held,    \* connections of a task, the innermost last
    cancels, \* cancellations of a task so far
    fresh,   \* replacement that a release is opening, {} without one
    lost,    \* replacements that failed
    late     \* history: tasks cancelled while a write of theirs was queued in a connection

places == <<up, pool, known, live, lost>>
work == <<writes, thread, broken>>
poolVars == <<places, work, pc, held, cancels, fresh, late>>

PoolStarts ==
    /\ up = TRUE
    /\ pool = Initial /\ known = Initial /\ live = Initial
    /\ broken = {}
    /\ writes = [c \in Conns |-> {}]
    /\ thread = [c \in Conns |-> <<>>]
    /\ held = [t \in Tasks |-> <<>>]
    /\ cancels = [t \in Tasks |-> 0]
    /\ fresh = [t \in Tasks |-> {}]
    /\ lost = 0
    /\ late = [c \in Conns |-> {}]

PoolInit == PoolStarts /\ pc = [t \in Tasks |-> "waiting"]

Conn(t) == Last(held[t])
Goto(t, where) == pc' = [pc EXCEPT ![t] = where]
Send(t, what) == thread' = [thread EXCEPT ![Conn(t)] = Append(@, <<t, what>>)]

-----------------------------------------------------------------------------
(* What a task does with a connection. *)

\* await pool.get()
Get(t) ==
    /\ pc[t] = "waiting"
    /\ \E c \in pool : /\ pool' = pool \ {c}
                       /\ held' = [held EXCEPT ![t] = Append(@, c)]
    /\ Goto(t, "using")
    /\ UNCHANGED <<up, known, live, lost, work, cancels, fresh, late>>

\* A second open_db() inside the block of the first (SessionStorage.rotate, revoke).
OpenInside(t) ==
    /\ pc[t] = "using" /\ t \in Nested /\ Len(held[t]) = 1
    /\ Goto(t, "waiting")
    /\ UNCHANGED <<places, work, held, cancels, fresh, late>>

\* The first write opens a transaction, BEGIN or not.
Write(t) ==
    /\ pc[t] = "using"
    /\ Send(t, "write") /\ Goto(t, "writing")
    /\ UNCHANGED <<places, writes, broken, held, cancels, fresh, late>>

Commit(t) ==
    /\ pc[t] = "written"
    /\ Send(t, "commit") /\ Goto(t, "committing")
    /\ UNCHANGED <<places, writes, broken, held, cancels, fresh, late>>

\* The block ends, with a transaction open when it raised.
Leave(t) ==
    /\ pc[t] \in {"using", "written"}
    /\ Goto(t, "releasing")
    /\ UNCHANGED <<places, work, held, cancels, fresh, late>>

\* Where a task goes when its statement has run, or has raised.
Then == [writing |-> "written", committing |-> "releasing", rolling |-> "putting"]
Waits(t, c, what) ==
    /\ held[t] # <<>> /\ Conn(t) = c
    /\ pc[t] = [write |-> "writing", commit |-> "committing", rollback |-> "rolling"][what]

\* The thread of a connection runs its next statement.
ThreadRuns(c) ==
    /\ thread[c] # <<>>
    /\ LET t == Head(thread[c])[1]
           what == Head(thread[c])[2]
           ok == c \in live \ broken
       IN /\ writes' = [writes EXCEPT ![c] =
                 IF ~ok THEN @ ELSE IF what = "write" THEN @ \cup {t} ELSE {}]
          /\ pc' = IF Waits(t, c, what)
                   THEN [pc EXCEPT ![t] = IF ok THEN Then[@]
                                          ELSE IF @ = "rolling" THEN "closing"
                                          ELSE "releasing"]
                   ELSE pc
    /\ thread' = [thread EXCEPT ![c] = Tail(@)]
    /\ UNCHANGED <<places, broken, held, cancels, fresh, late>>

-----------------------------------------------------------------------------
(* Giving a connection back. *)

\* The connection leaves the task, which goes on in the block outside.
Drop(t) ==
    /\ held' = [held EXCEPT ![t] = Front(@)]
    /\ Goto(t, IF Len(held[t]) = 1 THEN "done" ELSE "releasing")

\* A pool that was closed meanwhile: the connection is closed.
ReleaseClosed(t) ==
    /\ pc[t] = "releasing" /\ ~up
    /\ live' = live \ {Conn(t)}
    /\ Drop(t)
    /\ UNCHANGED <<up, pool, known, lost, work, cancels, fresh, late>>

PutBack(t) == pool' = pool \cup {Conn(t)} /\ Drop(t)

(* A slip: the connection goes back with its transaction. *)
ReleaseUnchecked(t) ==
    /\ pc[t] = "releasing" /\ up
    /\ PutBack(t)
    /\ UNCHANGED <<up, known, live, lost, work, cancels, fresh, late>>

\* conn.in_transaction: roll back, put back, or replace a closed connection.
ReleaseChecks(t) ==
    /\ pc[t] = "releasing" /\ up
    /\ \/ /\ Conn(t) \notin live
          /\ Goto(t, "closing") /\ UNCHANGED <<pool, thread, held>>
       \/ /\ Conn(t) \in live /\ writes[Conn(t)] # {}
          /\ Send(t, "rollback") /\ Goto(t, "rolling") /\ UNCHANGED <<pool, held>>
       \/ /\ Conn(t) \in live /\ writes[Conn(t)] = {}
          /\ PutBack(t) /\ UNCHANGED thread
    /\ UNCHANGED <<up, known, live, lost, writes, broken, cancels, fresh, late>>

\* pool.put_nowait after a rollback, without another look at the pool.
Put(t) ==
    /\ pc[t] = "putting"
    /\ PutBack(t)
    /\ UNCHANGED <<up, known, live, lost, work, cancels, fresh, late>>

\* _replace_sqlite_connection: forget the connection, close it, open another.
Replace(t) ==
    /\ pc[t] = "closing"
    /\ known' = known \ {Conn(t)}
    /\ live' = live \ {Conn(t)}
    /\ Goto(t, "closed")
    /\ UNCHANGED <<up, pool, lost, work, held, cancels, fresh, late>>

\* A new connection: one that is not, and never was, in use.
OpenOther(t) ==
    /\ pc[t] = "closed"
    /\ \/ /\ up
          /\ \E c \in Conns \ (Initial \cup live \cup broken \cup UNION Range(fresh)) :
                 fresh' = [fresh EXCEPT ![t] = {c}]
          /\ Goto(t, "opening") /\ UNCHANGED held
       \/ ~up /\ Drop(t) /\ UNCHANGED fresh
    /\ UNCHANGED <<places, work, cancels, late>>

(* A slip: the replacement is never put in the queue. *)
OpenedKept(t) ==
    /\ pc[t] = "opening"
    /\ fresh' = [fresh EXCEPT ![t] = {}]
    /\ known' = known \cup fresh[t] /\ live' = live \cup fresh[t]
    /\ Drop(t)
    /\ UNCHANGED <<up, pool, lost, work, cancels, late>>

Opened(t) ==
    /\ pc[t] = "opening"
    /\ fresh' = [fresh EXCEPT ![t] = {}]
    /\ \/ /\ known' = known \cup fresh[t] /\ live' = live \cup fresh[t]
          /\ pool' = pool \cup fresh[t] /\ UNCHANGED lost
       \/ /\ lost < MaxLost /\ lost' = lost + 1
          /\ UNCHANGED <<pool, known, live>>
    /\ Drop(t)
    /\ UNCHANGED <<up, work, cancels, late>>

-----------------------------------------------------------------------------
(* What may go wrong. *)

MayCancel(t) ==
    /\ cancels[t] < MaxCancels
    /\ Cardinality({u \in Tasks : cancels[u] > 0} \cup {t}) <= MaxCancelled

\* Cancellation of a task at an await.  In a release it starts the release again
\* in a task of its own, which later cancellations do not reach (shield).
CancelAtWork(t) ==
    /\ MayCancel(t)
    /\ pc[t] \in {"using", "writing", "written", "committing"}
    /\ cancels' = [cancels EXCEPT ![t] = @ + 1]
    /\ late' = IF pc[t] = "writing" THEN [late EXCEPT ![Conn(t)] = @ \cup {t}] ELSE late
    /\ Goto(t, "releasing")
    /\ UNCHANGED <<places, work, held, fresh>>

CancelInGet(t) ==
    /\ MayCancel(t) /\ pc[t] = "waiting"
    /\ cancels' = [cancels EXCEPT ![t] = @ + 1]
    /\ Goto(t, IF held[t] = <<>> THEN "done" ELSE "releasing")
    /\ UNCHANGED <<places, work, held, fresh, late>>

(* A slip: a cancelled release is not finished. *)
CancelInReleaseDrops(t) ==
    /\ MayCancel(t) /\ pc[t] \in {"rolling", "closed", "opening"}
    /\ cancels' = [cancels EXCEPT ![t] = MaxCancels]
    /\ fresh' = [fresh EXCEPT ![t] = {}]
    /\ Drop(t)
    /\ UNCHANGED <<places, work, late>>

CancelInRelease(t) ==
    /\ MayCancel(t) /\ pc[t] \in {"rolling", "closed", "opening"}
    /\ cancels' = [cancels EXCEPT ![t] = MaxCancels]
    /\ fresh' = [fresh EXCEPT ![t] = {}]
    /\ Goto(t, "releasing")
    /\ UNCHANGED <<places, work, held, late>>

Break(c) ==
    /\ c \in live \ broken /\ Cardinality(broken) < MaxBroken
    /\ broken' = broken \cup {c}
    /\ UNCHANGED <<places, writes, thread, pc, held, cancels, fresh, late>>

\* close_db_pool: every known connection is closed, in use or not.
ClosePool ==
    /\ MayClose /\ up
    /\ up' = FALSE
    /\ live' = live \ known /\ known' = {} /\ pool' = {}
    /\ writes' = [c \in Conns |-> {}]
    /\ UNCHANGED <<lost, thread, broken, pc, held, cancels, fresh, late>>

Step(t) ==
    \/ Get(t) \/ OpenInside(t) \/ Write(t) \/ Commit(t) \/ Leave(t)
    \/ ReleaseClosed(t) \/ ReleaseChecks(t) \/ Put(t) \/ Replace(t)
    \/ OpenOther(t) \/ Opened(t)

\* Nothing moves any more: every task is done, or waits for a closed pool.
PoolRest ==
    /\ \A t \in Tasks : pc[t] = "done" \/ (~up /\ pc[t] = "waiting")
    /\ UNCHANGED poolVars

PoolNext ==
    \/ \E t \in Tasks : Step(t) \/ CancelAtWork(t) \/ CancelInGet(t) \/ CancelInRelease(t)
    \/ \E c \in Conns : ThreadRuns(c) \/ Break(c)
    \/ ClosePool \/ PoolRest

PoolSpec == PoolInit /\ [][PoolNext]_poolVars

\* The loop runs what is ready and SQLite ends its statements.
PoolFairness ==
    /\ \A t \in Tasks : WF_poolVars(Step(t))
    /\ \A c \in Conns : WF_poolVars(ThreadRuns(c))
PoolLiveSpec == PoolSpec /\ PoolFairness

-----------------------------------------------------------------------------
(* Properties. *)

PoolTypeOK ==
    /\ up \in BOOLEAN
    /\ pool \subseteq Conns /\ known \subseteq Conns /\ live \subseteq Conns
    /\ broken \subseteq Conns
    /\ writes \in [Conns -> SUBSET Tasks]
    /\ DOMAIN thread = Conns
    /\ \A c \in Conns : \A i \in DOMAIN thread[c] :
           thread[c][i] \in Tasks \X {"write", "commit", "rollback"}
    /\ pc \in [Tasks -> {"waiting", "using", "writing", "written", "committing",
                         "releasing", "rolling", "putting", "closing", "closed",
                         "opening", "done"}]
    /\ \A t \in Tasks : IsInjective(held[t]) /\ ToSet(held[t]) \subseteq Conns
    /\ cancels \in [Tasks -> 0..MaxCancels]
    /\ fresh \in [Tasks -> SUBSET Conns]
    /\ lost \in 0..MaxLost
    /\ late \in [Conns -> SUBSET Tasks]

\* A connection is in the queue or with one task, never both, never two.
OneHolder ==
    /\ \A t \in Tasks : up => ToSet(held[t]) \cap pool = {}
    /\ \A t, u \in Tasks : t # u => ToSet(held[t]) \cap ToSet(held[u]) = {}

\* The pool keeps its size, also when a cancelled release is finished by another task:
\* every connection has one place, and what is neither in the queue, nor held, nor failed
\* to be replaced, does not exist (_replace_sqlite_connection, "repone la capacidad").
CapacityKept ==
    /\ OneHolder
    /\ up => Cardinality(pool) + Cardinality(UNION {ToSet(held[t]) : t \in Tasks}) + lost
             = Cardinality(Initial)

\* A connection is handed over clean: no transaction is open in the pool and a
\* user's transaction holds only its own writes ("Devuelve una conexión limpia o
\* la sustituye", db.py:133).
CleanHandover ==
    /\ \A c \in pool : writes[c] = {}
    /\ \A t \in Tasks : \A c \in ToSet(held[t]) : writes[c] \subseteq {t}

\* What is handed over unclean is the doing of a cancellation that found a write queued
\* (in_transaction is read too early, db.py:143): every other write that is open in the
\* queue, or in the hands of another task, was rolled back first, whatever is cancelled,
\* breaks or is closed.
CleanButForLate ==
    /\ \A c \in pool : writes[c] \subseteq late[c]
    /\ \A t \in Tasks : \A c \in ToSet(held[t]) : writes[c] \subseteq {t} \cup late[c]

\* Everyone waits on everyone: each connection there is is held by a task that waits for
\* a second one (await pool.get() has no timeout).
Knotted ==
    \A c \in known : \E t \in Tasks : pc[t] = "waiting" /\ c \in ToSet(held[t])

\* Every task that asks for a connection of an open pool that lost none gets one, or is
\* cancelled, unless the pool is knotted for ever: the tasks that hold a connection and
\* ask for another (SessionStorage.rotate) are the only reason to wait in vain.
Served ==
    \A t \in Tasks : pc[t] = "waiting" ~> pc[t] # "waiting" \/ ~up \/ lost > 0 \/ []Knotted
====
