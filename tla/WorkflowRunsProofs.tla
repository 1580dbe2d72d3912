------------------------- MODULE WorkflowRunsProofs -------------------------
(***************************************************************************)
(* Theorems about the runs of workflows.  For every value of the constants *)
(* a run ends as its log says and never again, and nobody frees the lease   *)
(* of another.  For those that satisfy Pace, the executions of one key take *)
(* turns: LeaseInv is inductive together with TypeOK, and implies the       *)
(* refinement of OneExecution.  At StreamPace a stream that ended has told  *)
(* every event of its run.                                                  *)
(***************************************************************************)
EXTENDS WorkflowRuns, RunEventStream, TLAPS

(* The exception tables lead from points of the driver to points. *)
LEMMA HandlersType ==
    /\ \A q \in DOMAIN OnError : OnError[q] \in Points
    /\ \A q \in DOMAIN OnShutdown : OnShutdown[q] \in Points
    /\ DOMAIN OnError \subseteq Points
    /\ DOMAIN OnShutdown \subseteq Points
BY DEF OnError, OnShutdown, Points

(* What Heartbeat, SetStatus and AppendEvent write. *)
LEMMA HeartbeatType ==
    ASSUME TypeOK, NEW e \in Execs, Heartbeat(e)
    PROVE  /\ leaseAge' \in [Keys -> 0 .. LeaseStale + 1]
           /\ beat' \in [Execs -> 0 .. HeartbeatEvery]
           /\ faults' \in 0 .. MaxFaults
<1>1. /\ leaseAge \in [Keys -> 0 .. LeaseStale + 1]
      /\ beat \in [Execs -> 0 .. HeartbeatEvery]
      /\ faults \in 0 .. MaxFaults
  BY DEF TypeOK
<1>2. leaseAge' \in [Keys -> 0 .. LeaseStale + 1]
  BY <1>1, BoundAssumption DEF Heartbeat
<1>3. beat' \in [Execs -> 0 .. HeartbeatEvery]
  BY <1>1, BoundAssumption DEF Heartbeat
<1>4. faults' \in 0 .. MaxFaults
  BY <1>1, BoundAssumption DEF Heartbeat
<1> QED
  BY <1>2, <1>3, <1>4

LEMMA SetStatusType ==
    ASSUME TypeOK, NEW r \in Runs, NEW s \in Active \cup Terminal, SetStatus(r, s)
    PROVE  /\ status' \in [Runs -> Active \cup Terminal \cup {"absent"}]
           /\ runAge' \in [Runs -> 0 .. RunStale + 1]
<1>1. /\ status \in [Runs -> Active \cup Terminal \cup {"absent"}]
      /\ runAge \in [Runs -> 0 .. RunStale + 1]
  BY DEF TypeOK
<1>2. status' \in [Runs -> Active \cup Terminal \cup {"absent"}]
  BY <1>1 DEF SetStatus
<1>3. runAge' \in [Runs -> 0 .. RunStale + 1]
  BY <1>1, BoundAssumption DEF SetStatus
<1> QED
  BY <1>2, <1>3

LEMMA AppendEventType ==
    ASSUME TypeOK, NEW r \in Runs, NEW ev \in Events, AppendEvent(r, ev)
    PROVE  /\ log' \in [Runs -> Seq(Events)]
           /\ runAge' \in [Runs -> 0 .. RunStale + 1]
BY BoundAssumption DEF TypeOK, AppendEvent

(* A step of the driver moves between points. *)
LEMMA GotoType ==
    ASSUME TypeOK, NEW r \in Runs, NEW point \in Points, Goto(r, point)
    PROVE  /\ pc' \in [Execs -> Points]
           /\ idle' \in [Execs -> Nat]
           /\ UNCHANGED <<lease, leaseAge, beat, batch, sweepPc, asked>>
BY DEF TypeOK, Goto, sweeper, Execs

(* What the two halves of a purge write. *)
LEMMA PurgeType ==
    ASSUME TypeOK, NEW p \in Purgers
    PROVE  /\ \A old \in SUBSET Runs : PurgeRead(p, old) =>
                  doomed' \in [Purgers -> SUBSET Runs]
           /\ PurgeDelete(p) =>
                  /\ doomed' \in [Purgers -> SUBSET Runs]
                  /\ status' \in [Runs -> Active \cup Terminal \cup {"absent"}]
                  /\ log' \in [Runs -> Seq(Events)]
<1>1. ASSUME NEW old \in SUBSET Runs, PurgeRead(p, old)
      PROVE  doomed' \in [Purgers -> SUBSET Runs]
  BY <1>1 DEF TypeOK, PurgeRead
<1>2. ASSUME PurgeDelete(p)
      PROVE  /\ doomed' \in [Purgers -> SUBSET Runs]
             /\ status' \in [Runs -> Active \cup Terminal \cup {"absent"}]
             /\ log' \in [Runs -> Seq(Events)]
  BY <1>2 DEF TypeOK, PurgeDelete
<1> QED
  BY <1>1, <1>2

(* Every variable keeps its type in every reachable state. *)
THEOREM TypeCorrect == Spec => []TypeOK
<1>1. Init => TypeOK
  BY ExecAssumption, BoundAssumption DEF Init, TypeOK, Points, OnError
<1>2. TypeOK /\ [Next]_vars => TypeOK'
  <2> SUFFICES ASSUME TypeOK, [Next]_vars PROVE TypeOK'
    OBVIOUS
  <2> USE ExecAssumption, BoundAssumption, HandlersType
  <2> USE DEF Execs, store, worker, sweeper
  <2>1. ASSUME NEW e \in Execs, Acquire(e) PROVE TypeOK'
    BY <2>1 DEF TypeOK, Acquire, Points
  <2>2. ASSUME NEW e \in Execs, Release(e) PROVE TypeOK'
    BY <2>2 DEF TypeOK, Release, Drop, Points
  <2>3. ASSUME NEW e \in Execs, Crash(e) PROVE TypeOK'
    BY <2>3 DEF TypeOK, Crash, Points
  <2>4. ASSUME NEW e \in Streams, StreamChunk(e) PROVE TypeOK'
    BY <2>4, HeartbeatType DEF TypeOK, StreamChunk
  <2>5. ASSUME NEW e \in Streams, StreamEnd(e) PROVE TypeOK'
    BY <2>5 DEF TypeOK, StreamEnd, Points, OnError
  <2>6. ASSUME NEW r \in Runs, CreateFault(r) PROVE TypeOK'
    <3>1. /\ status \in [Runs -> Active \cup Terminal \cup {"absent"}]
          /\ status' \in {status, [status EXCEPT ![r] = "queued"]}
      BY <2>6 DEF TypeOK, CreateFault
    <3>2. status' \in [Runs -> Active \cup Terminal \cup {"absent"}]
      BY <3>1 DEF Active
    <3> QED
      BY <2>6, <3>2 DEF TypeOK, CreateFault, Points, OnError
  <2>7. ASSUME NEW r \in Runs, DriverFault(r) PROVE TypeOK'
    BY SMTT(30), <2>7 DEF TypeOK, DriverFault, Goto, Purgers
  <2>8. ASSUME NEW r \in Runs, Shutdown(r) PROVE TypeOK'
    BY <2>8 DEF TypeOK, Shutdown, Goto, Purgers
  <2>9. ASSUME NEW r \in Runs, BodyStep(r) PROVE TypeOK'
    <3>1. CASE BodyHeartbeat(r)
      <4>1. Heartbeat(r) /\ BodyMoves(r)
        BY <3>1 DEF BodyHeartbeat
      <4>2. /\ leaseAge' \in [Keys -> 0 .. LeaseStale + 1]
            /\ beat' \in [Execs -> 0 .. HeartbeatEvery]
            /\ faults' \in 0 .. MaxFaults
        BY <4>1, HeartbeatType
      <4>3. /\ runAge' \in [Runs -> 0 .. RunStale + 1] /\ UNCHANGED <<log, body>>
            /\ idle' \in [Execs -> Nat]
        BY <3>1 DEF TypeOK, BodyHeartbeat, BodyMoves
      <4> QED
        BY <4>1, <4>2, <4>3 DEF TypeOK, BodyMoves
    <3>2. CASE BodyFails(r)
      BY <3>2 DEF TypeOK, BodyFails, BodyMoves
    <3>3. ASSUME NEW ev \in {"step", "done"}, BodyEvent(r, ev) PROVE TypeOK'
      <4>1. Heartbeat(r) /\ BodyMoves(r)
        BY <3>3 DEF BodyEvent
      <4>2. CASE status[r] = "absent"
        <5>1. body' = [body EXCEPT ![r] = "failed"] /\ UNCHANGED <<log, runAge>>
          BY <3>3, <4>2 DEF BodyEvent
        <5> QED
          BY <4>1, <5>1, HeartbeatType DEF TypeOK, BodyMoves
      <4>3. CASE status[r] # "absent"
        <5>1. AppendEvent(r, ev) /\ body' = [body EXCEPT ![r] = IF ev = "done" THEN "done" ELSE @]
          BY <3>3, <4>3 DEF BodyEvent
        <5>2. log' \in [Runs -> Seq(Events)] /\ runAge' \in [Runs -> 0 .. RunStale + 1]
          BY <5>1, AppendEventType DEF Events
        <5> QED
          BY <4>1, <5>1, <5>2, HeartbeatType DEF TypeOK, BodyMoves
      <4> QED
        BY <4>2, <4>3
    <3> QED
      BY <2>9, <3>1, <3>2, <3>3 DEF BodyStep
  <2>10. ASSUME NEW r \in Runs, RunStep(r) PROVE TypeOK'
    <3>1. CASE Create(r)
      BY <3>1 DEF TypeOK, Create, Points, OnError, Active
    <3>2. CASE MarkRunning(r)
      BY SMTT(30), <3>2 DEF TypeOK, MarkRunning, SetStatus, Goto, Points, OnError, Active
    <3>3. CASE CheckRunning(r)
      BY <3>3 DEF TypeOK, CheckRunning, Goto, Points, OnError
    <3>4. CASE Poll(r)
      BY <3>4 DEF TypeOK, Poll, Points
    <3>5. CASE Join(r)
      BY <3>5 DEF TypeOK, Join, Goto, Points, OnError
    <3>6. CASE JoinCancelled(r)
      BY <3>6 DEF TypeOK, JoinCancelled, Goto, Points, OnError
    <3>7. CASE Finish(r)
      <4>1. ASSUME NEW at \in DOMAIN OnError, NEW ev \in Events, NEW then \in Points,
                   LogOutcome(r, at, ev, then)
            PROVE  TypeOK'
        <5>1. CASE status[r] = "absent"
          <6>1. Goto(r, OnError[at]) /\ OnError[at] \in Points
            BY <4>1, <5>1 DEF LogOutcome
          <6> QED
            BY <4>1, <5>1, <6>1, GotoType DEF TypeOK, LogOutcome
        <5>2. CASE status[r] # "absent"
          <6>1. Goto(r, then) /\ AppendEvent(r, ev)
            BY <4>1, <5>2 DEF LogOutcome
          <6> QED
            BY <4>1, <6>1, GotoType, AppendEventType DEF TypeOK, LogOutcome
        <5> QED
          BY <5>1, <5>2
      <4>2. ASSUME NEW at, NEW st \in Active \cup Terminal, NEW then \in Points,
                   WriteOutcome(r, at, st, then)
            PROVE  TypeOK'
        BY <4>2, GotoType, SetStatusType DEF TypeOK, WriteOutcome
      <4>3. {"purging", "cancelStatus", "releasing", "failStatus"} \subseteq Points
        BY DEF Points, OnError
      <4>4. {"cancelEvent", "failEvent"} \subseteq DOMAIN OnError
        BY DEF OnError
      <4>5. {"error", "cancelled"} \subseteq Events
        BY DEF Events
      <4>6. {"completed", "cancelled", "failed"} \subseteq Active \cup Terminal
        BY DEF Terminal
      <4> HIDE DEF Points, OnError, Events, Active, Terminal
      <4>7. CASE WriteOutcome(r, "finishing", "completed", "purging")
        BY <4>2, <4>3, <4>6, <4>7
      <4>8. CASE LogOutcome(r, "cancelEvent", "cancelled", "cancelStatus")
        BY <4>1, <4>3, <4>4, <4>5, <4>8
      <4>9. CASE WriteOutcome(r, "cancelStatus", "cancelled", "releasing")
        BY <4>2, <4>3, <4>6, <4>9
      <4>10. CASE LogOutcome(r, "failEvent", "error", "failStatus")
        BY <4>1, <4>3, <4>4, <4>5, <4>10
      <4>11. CASE WriteOutcome(r, "failStatus", "failed", "releasing")
        BY <4>2, <4>3, <4>6, <4>11
      <4>12. CASE WriteOutcome(r, "stopping", "failed", "releasing")
        BY <4>2, <4>3, <4>6, <4>12
      <4> QED
        BY <3>7, <4>7, <4>8, <4>9, <4>10, <4>11, <4>12 DEF Finish
    <3>8. CASE DriverPurge(r)
      <4>1. r \in Purgers /\ {"deleting", "releasing"} \subseteq Points
        BY DEF Purgers, Points, OnError
      <4>2. CASE pc[r] = "purging"
        <5>1. PICK old \in SUBSET Runs : PurgeRead(r, old) /\ Goto(r, "deleting")
          BY <3>8, <4>2 DEF DriverPurge
        <5>2. doomed' \in [Purgers -> SUBSET Runs]
          BY <4>1, <5>1, PurgeType
        <5> QED
          BY <4>1, <5>1, <5>2, GotoType DEF TypeOK, PurgeRead
      <4>3. CASE pc[r] = "deleting"
        <5>1. PurgeDelete(r) /\ Goto(r, "releasing")
          BY <3>8, <4>3 DEF DriverPurge
        <5> QED
          BY <4>1, <5>1, PurgeType, GotoType DEF TypeOK, PurgeDelete
      <4> QED
        BY <3>8, <4>2, <4>3 DEF DriverPurge
    <3> QED
      BY <2>10, <3>1, <3>2, <3>3, <3>4, <3>5, <3>6, <3>7, <3>8 DEF RunStep
  <2>11. ASSUME NEW c \in Cancels, CancelWrite(c) PROVE TypeOK'
    <3>1. asked[c] \in Runs
      BY <2>11 DEF TypeOK, CancelWrite
    <3>2. /\ status' \in [Runs -> Active \cup Terminal \cup {"absent"}]
          /\ runAge' \in [Runs -> 0 .. RunStale + 1]
      BY <2>11, <3>1, SetStatusType DEF CancelWrite, Active
    <3> QED
      BY <2>11, <3>2 DEF TypeOK, CancelWrite
  <2>12. ASSUME NEW c \in Cancels, NEW r \in Runs, CancelRead(c, r) PROVE TypeOK'
    BY <2>12 DEF TypeOK, CancelRead
  <2>13. ASSUME NEW s \in Sweepers, SweepStep(s) PROVE TypeOK'
    <3>1. CASE SweepRead(s)
      BY <3>1 DEF TypeOK, SweepRead, StaleRuns
    <3>2. CASE SweepMark(s)
      BY <3>2 DEF TypeOK, SweepMark, Terminal
    <3>3. ASSUME NEW r \in Runs, SweepRelease(s, r) PROVE TypeOK'
      <4>1. lease' \in [Keys -> Execs \cup {None}] /\ leaseAge' \in [Keys -> 0 .. LeaseStale + 1]
        BY <3>3 DEF TypeOK, SweepRelease, Drop
      <4>2. batch' \in [Sweepers -> SUBSET Runs]
        BY <3>3 DEF TypeOK, SweepRelease
      <4>3. sweepPc' \in [Sweepers -> {"read", "mark", "release"}]
        BY <3>3 DEF TypeOK, SweepRelease
      <4> QED
        BY <3>3, <4>1, <4>2, <4>3 DEF TypeOK, SweepRelease
    <3> QED
      BY <2>13, <3>1, <3>2, <3>3 DEF SweepStep, SweepReleases
  <2>14. ASSUME NEW s \in Sweepers, SweepAbort(s) PROVE TypeOK'
    BY <2>14 DEF TypeOK, SweepAbort
  <2>15. ASSUME NEW s \in Sweepers, SweepPurge(s) PROVE TypeOK'
    <3>1. s \in Purgers /\ UNCHANGED <<lease, leaseAge, pc, idle, beat, sweeper, asked>>
      BY <2>15 DEF Purgers, SweepPurge
    <3>2. ASSUME NEW old \in SUBSET Runs, PurgeRead(s, old) PROVE TypeOK'
      <4>1. doomed' \in [Purgers -> SUBSET Runs]
        BY <3>1, <3>2, PurgeType
      <4> QED
        BY <3>1, <3>2, <4>1 DEF TypeOK, PurgeRead
    <3>3. CASE PurgeDelete(s)
      BY <3>1, <3>3, PurgeType DEF TypeOK, PurgeDelete
    <3> QED
      BY <2>15, <3>2, <3>3 DEF SweepPurge
  <2>16. CASE PurgeStaleLeases
    BY <2>16 DEF TypeOK, PurgeStaleLeases, Drop
  <2>17. CASE Tick
    BY <2>17 DEF TypeOK, Tick, Older
  <2>18. CASE UNCHANGED vars
    BY <2>18 DEF TypeOK, vars
  <2> QED
    BY <2>1, <2>2, <2>3, <2>4, <2>5, <2>6, <2>7, <2>8, <2>9, <2>10, <2>11, <2>12,
       <2>13, <2>14, <2>15, <2>16, <2>17, <2>18 DEF Next
<1> QED
  BY <1>1, <1>2, PTL DEF Spec

-----------------------------------------------------------------------------
(* The life of a run. *)

Logs(r, ev) ==
    /\ status[r] # "absent" /\ status'[r] = status[r]
    /\ log'[r] = Append(log[r], ev)

StatusMoves(r) ==
    \/ status'[r] \in {status[r], "absent"}
    \/ status'[r] = "queued" /\ pc[r] = "leased" /\ pc'[r] # "leased"
    \/ /\ status[r] # "absent"
       /\ \/ status'[r] \in {"cancelling", "failed"}
          \/ status'[r] = "running" /\ status[r] = "queued"
          \/ status'[r] = "completed" /\ pc[r] = "finishing"
          \/ status'[r] = "cancelled" /\ pc[r] = "cancelStatus"

LogMoves(r) ==
    \/ log'[r] = log[r]
    \/ \E ev \in Events : log'[r] = Append(log[r], ev)
    \/ status'[r] = "absent"

BodyChanges(r) ==
    \/ body'[r] = body[r]
    \/ body[r] = "live" /\ body'[r] \in {"failed", "cancelled"}
    \/ body[r] = "live" /\ body'[r] = "done" /\ Logs(r, "done")
    \/ body'[r] = "live" /\ pc[r] = "marked" /\ status[r] = "running"

PointMoves(r) ==
    \/ pc'[r] = pc[r]
    \/ pc[r] = "idle" /\ pc'[r] = "leased"
    \/ body[r] = "done" /\ pc'[r] = "finishing"
    \/ Logs(r, "cancelled") /\ pc'[r] = "cancelStatus"
    \/ pc'[r] \notin {"idle", "leased", "finishing", "cancelStatus"}

RunMoves(r) == StatusMoves(r) /\ LogMoves(r) /\ BodyChanges(r) /\ PointMoves(r)

(* Neither an exception nor a shutdown leads to where an outcome is written. *)
LEMMA HandlersAvoidOutcomes ==
    /\ \A q \in DOMAIN OnError :
           OnError[q] \notin {"idle", "leased", "finishing", "cancelStatus"}
    /\ \A q \in DOMAIN OnShutdown :
           OnShutdown[q] \notin {"idle", "leased", "finishing", "cancelStatus"}
BY DEF OnError, OnShutdown

(* What one step of anybody may do to a run, its log, its body and its      *)
(* driver.                                                                  *)
LEMMA RunLife ==
    ASSUME TypeOK, NEW r \in Runs, [Next]_vars
    PROVE  RunMoves(r)
<1> USE DEF RunMoves, StatusMoves, LogMoves, BodyChanges, PointMoves, store, worker, sweeper
<1> USE DEF Execs
<1>1. ASSUME NEW e \in Execs, Acquire(e) PROVE RunMoves(r)
  BY <1>1 DEF TypeOK, Acquire
<1>2. ASSUME NEW e \in Execs, Release(e) PROVE RunMoves(r)
  BY <1>2 DEF TypeOK, Release
<1>3. ASSUME NEW e \in Execs, Crash(e) PROVE RunMoves(r)
  BY <1>3 DEF TypeOK, Crash
<1>4. ASSUME NEW e \in Streams, StreamChunk(e) PROVE RunMoves(r)
  BY <1>4 DEF StreamChunk
<1>5. ASSUME NEW e \in Streams, StreamEnd(e) PROVE RunMoves(r)
  BY <1>5 DEF TypeOK, StreamEnd
<1>6. ASSUME NEW q \in Runs, CreateFault(q) PROVE RunMoves(r)
  BY <1>6 DEF TypeOK, CreateFault
<1>7. ASSUME NEW q \in Runs, DriverFault(q) PROVE RunMoves(r)
  BY <1>7, HandlersAvoidOutcomes DEF TypeOK, DriverFault, Goto
<1>8. ASSUME NEW q \in Runs, Shutdown(q) PROVE RunMoves(r)
  BY <1>8, HandlersAvoidOutcomes DEF TypeOK, Shutdown, Goto
<1>9. ASSUME NEW q \in Runs, BodyStep(q) PROVE RunMoves(r)
  <2>1. CASE BodyHeartbeat(q)
    BY <2>1 DEF BodyHeartbeat, BodyMoves
  <2>2. CASE BodyFails(q)
    BY <2>2 DEF TypeOK, BodyFails, BodyMoves
  <2>3. ASSUME NEW ev \in {"step", "done"}, BodyEvent(q, ev) PROVE RunMoves(r)
    BY <2>3 DEF TypeOK, BodyEvent, BodyMoves, AppendEvent, Logs, Events
  <2> QED
    BY <1>9, <2>1, <2>2, <2>3 DEF BodyStep
<1>10. ASSUME NEW q \in Runs, RunStep(q) PROVE RunMoves(r)
  <2>1. CASE Create(q)
    BY <2>1 DEF TypeOK, Create
  <2>2. CASE MarkRunning(q)
    BY <2>2 DEF TypeOK, MarkRunning, SetStatus, Goto
  <2>3. CASE CheckRunning(q)
    BY <2>3 DEF TypeOK, CheckRunning, Goto
  <2>4. CASE Poll(q)
    BY <2>4 DEF TypeOK, Poll
  <2>5. CASE Join(q)
    BY <2>5 DEF TypeOK, Join, Goto
  <2>6. CASE JoinCancelled(q)
    BY <2>6 DEF TypeOK, JoinCancelled, Goto
  <2>7. CASE Finish(q)
    <3>1. ASSUME NEW at, NEW st \in {"completed", "cancelled", "failed"},
                 NEW then \in {"purging", "releasing"}, WriteOutcome(q, at, st, then),
                 st = "completed" => at = "finishing",
                 st = "cancelled" => at = "cancelStatus"
          PROVE  RunMoves(r)
      BY <3>1 DEF TypeOK, WriteOutcome, SetStatus, Goto
    <3>2. CASE LogOutcome(q, "cancelEvent", "cancelled", "cancelStatus")
      BY <3>2, HandlersAvoidOutcomes
         DEF TypeOK, LogOutcome, AppendEvent, Goto, Logs, Events, OnError
    <3>3. CASE LogOutcome(q, "failEvent", "error", "failStatus")
      BY <3>3, HandlersAvoidOutcomes
         DEF TypeOK, LogOutcome, AppendEvent, Goto, Logs, Events, OnError
    <3> QED
      BY <2>7, <3>1, <3>2, <3>3 DEF Finish
  <2>8. CASE DriverPurge(q)
    BY <2>8 DEF TypeOK, DriverPurge, PurgeRead, PurgeDelete, Goto
  <2> QED
    BY <1>10, <2>1, <2>2, <2>3, <2>4, <2>5, <2>6, <2>7, <2>8 DEF RunStep
<1>11. ASSUME NEW c \in Cancels, CancelWrite(c) PROVE RunMoves(r)
  BY <1>11 DEF TypeOK, CancelWrite, SetStatus
<1>12. ASSUME NEW c \in Cancels, NEW q \in Runs, CancelRead(c, q) PROVE RunMoves(r)
  BY <1>12 DEF CancelRead
<1>13. ASSUME NEW s \in Sweepers, SweepStep(s) PROVE RunMoves(r)
  BY <1>13 DEF TypeOK, SweepStep, SweepRead, SweepMark, SweepReleases, SweepRelease
<1>14. ASSUME NEW s \in Sweepers, SweepAbort(s) PROVE RunMoves(r)
  BY <1>14 DEF SweepAbort
<1>15. ASSUME NEW s \in Sweepers, SweepPurge(s) PROVE RunMoves(r)
  BY <1>15 DEF TypeOK, SweepPurge, PurgeRead, PurgeDelete
<1>16. CASE PurgeStaleLeases
  BY <1>16 DEF PurgeStaleLeases
<1>17. CASE Tick
  BY <1>17 DEF Tick
<1>18. CASE UNCHANGED vars
  BY <1>18 DEF vars
<1> QED
  BY <1>1, <1>2, <1>3, <1>4, <1>5, <1>6, <1>7, <1>8, <1>9, <1>10, <1>11, <1>12,
     <1>13, <1>14, <1>15, <1>16, <1>17, <1>18 DEF Next

(* The event is in the log, or the run was purged. *)
Told(r, ev) == status[r] = "absent" \/ \E i \in DOMAIN log[r] : log[r][i] = ev

(* A run has no row and no body before its driver starts, and an outcome is *)
(* about to be written, or is written, only once it was told.               *)
RunsInv ==
    \A r \in Runs :
        /\ pc[r] \in {"idle", "leased"} => status[r] = "absent" /\ body[r] = "none"
        /\ body[r] = "done" \/ pc[r] = "finishing" \/ status[r] = "completed" => Told(r, "done")
        /\ pc[r] = "cancelStatus" \/ status[r] = "cancelled" => Told(r, "cancelled")

(* What was told stays told: the log grows until the purge takes the row    *)
(* with it, and no row is written again.                                    *)
LEMMA ToldStays ==
    ASSUME TypeOK, NEW r \in Runs, RunMoves(r), pc[r] # "leased",
           NEW ev \in Events, Told(r, ev)
    PROVE  Told(r, ev)'
<1>1. CASE status'[r] = "absent"
  BY <1>1 DEF Told
<1>2. CASE status'[r] # "absent"
  <2>1. status[r] # "absent"
    BY <1>2 DEF RunMoves, StatusMoves
  <2>2. PICK i \in DOMAIN log[r] : log[r][i] = ev
    BY <2>1 DEF Told
  <2>3. log[r] \in Seq(Events) /\ i \in 1 .. Len(log[r])
    BY <2>2 DEF TypeOK
  <2>4. CASE log'[r] = log[r]
    BY <2>2, <2>4 DEF Told
  <2>5. ASSUME NEW e \in Events, log'[r] = Append(log[r], e) PROVE Told(r, ev)'
    <3>1. i \in DOMAIN log'[r] /\ log'[r][i] = log[r][i]
      BY <2>3, <2>5
    <3> QED
      BY <2>2, <3>1 DEF Told
  <2> QED
    BY <1>2, <2>4, <2>5 DEF RunMoves, LogMoves
<1> QED
  BY <1>1, <1>2

(* An event that is logged is told. *)
LEMMA LoggedIsTold ==
    ASSUME TypeOK, NEW r \in Runs, NEW ev \in Events, Logs(r, ev)
    PROVE  Told(r, ev)'
<1>1. log[r] \in Seq(Events) /\ log'[r] = Append(log[r], ev)
  BY DEF TypeOK, Logs
<1>2. Len(log[r]) + 1 \in DOMAIN log'[r] /\ log'[r][Len(log[r]) + 1] = ev
  BY <1>1
<1> QED
  BY <1>2 DEF Told

LEMMA RunsInvStep ==
    ASSUME TypeOK, RunsInv, [Next]_vars
    PROVE  RunsInv'
<1> SUFFICES ASSUME NEW r \in Runs
             PROVE  /\ pc'[r] \in {"idle", "leased"} => status'[r] = "absent" /\ body'[r] = "none"
                    /\ body'[r] = "done" \/ pc'[r] = "finishing" \/ status'[r] = "completed"
                           => Told(r, "done")'
                    /\ pc'[r] = "cancelStatus" \/ status'[r] = "cancelled"
                           => Told(r, "cancelled")'
  BY DEF RunsInv
<1>1. RunMoves(r)
  BY RunLife
<1>2. {"done", "cancelled"} \subseteq Events
  BY DEF Events
<1>3. pc[r] = "leased" => status[r] = "absent" /\ body[r] = "none"
  BY DEF RunsInv
<1>4. pc'[r] \in {"idle", "leased"} => status'[r] = "absent" /\ body'[r] = "none"
  BY <1>1 DEF RunsInv, RunMoves, StatusMoves, BodyChanges, PointMoves, Logs
<1>5. ASSUME body'[r] = "done" \/ pc'[r] = "finishing" \/ status'[r] = "completed"
      PROVE  Told(r, "done")'
  <2>1. CASE Logs(r, "done")
    BY <1>2, <2>1, LoggedIsTold
  <2>2. CASE ~Logs(r, "done") /\ status'[r] # "absent"
    <3>1. body[r] = "done" \/ pc[r] = "finishing" \/ status[r] = "completed"
      BY <1>1, <1>5, <2>2 DEF RunMoves, StatusMoves, BodyChanges, PointMoves
    <3>2. Told(r, "done") /\ pc[r] # "leased"
      BY <1>3, <3>1 DEF RunsInv
    <3> QED
      BY <1>1, <1>2, <3>2, ToldStays
  <2>3. CASE status'[r] = "absent"
    BY <2>3 DEF Told
  <2> QED
    BY <2>1, <2>2, <2>3
<1>6. ASSUME pc'[r] = "cancelStatus" \/ status'[r] = "cancelled"
      PROVE  Told(r, "cancelled")'
  <2>1. CASE Logs(r, "cancelled")
    BY <1>2, <2>1, LoggedIsTold
  <2>2. CASE ~Logs(r, "cancelled") /\ status'[r] # "absent"
    <3>1. pc[r] = "cancelStatus" \/ status[r] = "cancelled"
      BY <1>1, <1>6, <2>2 DEF RunMoves, StatusMoves, PointMoves
    <3>2. Told(r, "cancelled") /\ pc[r] # "leased"
      BY <1>3, <3>1 DEF RunsInv
    <3> QED
      BY <1>1, <1>2, <3>2, ToldStays
  <2>3. CASE status'[r] = "absent"
    BY <2>3 DEF Told
  <2> QED
    BY <2>1, <2>2, <2>3
<1> QED
  BY <1>4, <1>5, <1>6

(* A run has no row before its driver starts, and no outcome that was not   *)
(* told.                                                                    *)
THEOREM RunsInvHolds == Spec => []RunsInv
<1>1. Init => RunsInv
  BY DEF Init, RunsInv, Execs
<1>2. TypeOK /\ RunsInv /\ [Next]_vars => RunsInv'
  BY RunsInvStep
<1> QED
  BY <1>1, <1>2, TypeCorrect, PTL DEF Spec

(* A reader that sees how a run ended finds the event that says so,         *)
(* whatever raises, dies, is cancelled or is purged in between.             *)
THEOREM OutcomesAreLogged == Spec => []OutcomeIsLogged
<1>1. RunsInv => OutcomeIsLogged
  BY DEF RunsInv, Told, OutcomeIsLogged
<1> QED
  BY <1>1, RunsInvHolds, PTL

(* mark_running, the cancellation and the sweep commute with every late     *)
(* write: a run that was asked to stop or has ended does not run again.     *)
THEOREM RunsNeverAgain == Spec => NeverRunsAgain
<1>1. ASSUME TypeOK, RunsInv, [Next]_vars,
             NEW r \in Runs, status[r] \in Terminal \cup {"cancelling"}
      PROVE  /\ status'[r] \notin {"queued", "running"}
             /\ body'[r] = "live" => body[r] = "live"
  <2>1. RunMoves(r)
    BY <1>1, RunLife
  <2>2. pc[r] # "leased"
    BY <1>1 DEF RunsInv, Terminal
  <2> QED
    BY <1>1, <2>1, <2>2 DEF RunMoves, StatusMoves, BodyChanges, Terminal
<1>2. TypeOK /\ RunsInv /\ [Next]_vars =>
        [\A r \in Runs : status[r] \in Terminal \cup {"cancelling"} =>
            /\ status'[r] \notin {"queued", "running"}
            /\ body'[r] = "live" => body[r] = "live"]_vars
  BY <1>1
<1> QED
  BY <1>2, TypeCorrect, RunsInvHolds, PTL DEF Spec, NeverRunsAgain

(* No release, purge or sweep deletes the row of an execution that still    *)
(* has a claim to it.                                                       *)
THEOREM OwnLeaseReleased == Spec => OnlyOwnLeaseReleased
<1>1. ASSUME TypeOK, [Next]_vars, NEW k \in Keys, lease[k] \notin {None, lease'[k]}
      PROVE  LeaseLost(k)
  <2> USE ExecAssumption DEF Execs, store, worker, sweeper
  <2>1. ASSUME NEW e \in Execs, Acquire(e) PROVE LeaseLost(k)
    BY <1>1, <2>1 DEF Acquire, TypeOK, LeaseLost
  <2>2. ASSUME NEW e \in Execs, Release(e) PROVE LeaseLost(k)
    BY <1>1, <2>2 DEF Release, Drop, KeysHeldBy, TypeOK, LeaseLost
  <2>3. CASE PurgeStaleLeases
    BY <1>1, <2>3 DEF PurgeStaleLeases, Drop, LeaseLost
  <2>4. ASSUME NEW s \in Sweepers, SweepStep(s) PROVE LeaseLost(k)
    BY <1>1, <2>4 DEF SweepStep, SweepRead, SweepMark, SweepReleases, SweepRelease, Drop,
                      KeysHeldBy, LeaseLost
  <2>5. ASSUME NEW r \in Runs, RunStep(r) PROVE lease' = lease
    BY <2>5 DEF RunStep, Create, MarkRunning, CheckRunning, Poll, Join, JoinCancelled, Finish,
                WriteOutcome, LogOutcome, DriverPurge, Goto
  <2>6. ASSUME NEW r \in Runs, BodyStep(r) PROVE lease' = lease
    BY <2>6 DEF BodyStep, BodyHeartbeat, BodyFails, BodyEvent, BodyMoves
  <2>7. ASSUME NEW r \in Runs, CreateFault(r) \/ DriverFault(r) \/ Shutdown(r) PROVE lease' = lease
    BY <2>7 DEF CreateFault, DriverFault, Shutdown, Goto
  <2>8. ASSUME NEW e \in Execs, Crash(e) PROVE lease' = lease
    BY <2>8 DEF Crash
  <2>9. ASSUME NEW e \in Streams, StreamChunk(e) \/ StreamEnd(e) PROVE lease' = lease
    BY <2>9 DEF StreamChunk, StreamEnd
  <2>10. ASSUME NEW c \in Cancels, CancelWrite(c) \/ \E r \in Runs : CancelRead(c, r)
         PROVE  lease' = lease
    BY <2>10 DEF CancelWrite, CancelRead
  <2>11. ASSUME NEW s \in Sweepers, SweepAbort(s) \/ SweepPurge(s) PROVE lease' = lease
    BY <2>11 DEF SweepAbort, SweepPurge
  <2>12. CASE Tick
    BY <1>1, <2>12 DEF Tick
  <2>13. CASE UNCHANGED vars
    BY <1>1, <2>13 DEF vars
  <2> QED
    BY <1>1, <2>1, <2>2, <2>3, <2>4, <2>5, <2>6, <2>7, <2>8, <2>9, <2>10, <2>11, <2>12, <2>13
       DEF Next
<1>2. TypeOK /\ [Next]_vars =>
        [\A k \in Keys : lease[k] \notin {None, lease'[k]} => LeaseLost(k)]_vars
  BY <1>1
<1> QED
  BY <1>2, TypeCorrect, PTL DEF Spec, OnlyOwnLeaseReleased

-----------------------------------------------------------------------------
(* Leases and streams. *)

(* The part of LeaseInv that concerns one execution. *)
LeaseInvOf(e) ==
    /\ idle[e] <= MaxPause
    /\ Admitted(e) => Fresh(e)
    /\ e \in Runs =>
          /\ Admitted(e) => Unswept(e)
          /\ body[e] = "live" => pc[e] \in {"watching", "joining"}
          /\ pc[e] \in {"idle", "leased"} =>
                status[e] = "absent" /\ \A s \in Sweepers : e \notin batch[s]
          /\ pc[e] = "starting" => status[e] # "running"

(* LeaseInv is a fact about each execution on its own. *)
LEMMA LeaseInvPointwise == LeaseInv <=> \A e \in Execs : LeaseInvOf(e)
BY DEF LeaseInv, LeaseInvOf, Execs

(* An admitted execution holds a lease nobody may take. *)
LEMMA NotStale ==
    ASSUME Pace, TypeOK, NEW e \in Execs, LeaseInvOf(e), Admitted(e)
    PROVE  Holds(e) /\ ~Stale(KeyOf[e])
<1>1. /\ idle[e] \in Nat /\ idle[e] <= MaxPause
      /\ Fresh(e)
      /\ KeyOf[e] \in Keys
      /\ leaseAge[KeyOf[e]] \in Nat
  BY ExecAssumption, BoundAssumption DEF TypeOK, LeaseInvOf
<1>2. Grace(pc[e]) \in Int /\ Grace(pc[e]) <= LeaseStale - MaxPause
  BY BoundAssumption DEF Pace, Grace
<1> QED
  BY <1>1, <1>2, BoundAssumption DEF Fresh, Stale

(* A step of somebody else: e has not moved, though a cancel, fail_stale or *)
(* a purge may have written the row of a run.                               *)
Calm(e) ==
    /\ pc'[e] = pc[e]
    /\ idle'[e] = idle[e]
    /\ beat'[e] = beat[e]
    /\ e \in Runs =>
          /\ body'[e] = body[e]
          /\ \/ status'[e] = status[e]
             \/ status[e] # "absent" /\ status'[e] \notin {"queued", "running"}
          /\ runAge'[e] \in {runAge[e], 0}

SameLease(e) ==
    /\ lease'[KeyOf[e]] = lease[KeyOf[e]]
    /\ leaseAge'[KeyOf[e]] = leaseAge[KeyOf[e]]

NotBatched(e) ==
    (Admitted(e) \/ pc[e] \in {"idle", "leased"}) =>
        \A s \in Sweepers : e \notin batch[s] => e \notin batch'[s]

(* Whoever is calm keeps its part of LeaseInv. *)
LEMMA Frame ==
    ASSUME TypeOK, NEW e \in Execs, LeaseInvOf(e), Calm(e),
           Admitted(e) => SameLease(e), e \in Runs => NotBatched(e)
    PROVE  LeaseInvOf(e)'
<1>1. Admitted(e)' => Admitted(e)
  BY DEF Calm, Admitted, LeaseInvOf
<1>2. Admitted(e) => Fresh(e)'
  BY DEF LeaseInvOf, Calm, SameLease, Fresh, Holds, Grace
<1>3. ASSUME e \in Runs, Admitted(e) PROVE Unswept(e)'
  <2>1. idle[e] \in Nat /\ MaxPause \in Nat /\ runAge[e] \in Nat
    BY <1>3, BoundAssumption DEF TypeOK
  <2>2. \A s \in Sweepers : e \notin batch'[s]
    BY <1>3 DEF LeaseInvOf, Unswept, NotBatched
  <2> QED
    BY <1>3, <2>1, <2>2 DEF LeaseInvOf, Unswept, Calm
<1>4. ASSUME e \in Runs, pc[e] \in {"idle", "leased"}
      PROVE  status'[e] = "absent" /\ \A s \in Sweepers : e \notin batch'[s]
  BY <1>4 DEF LeaseInvOf, Calm, NotBatched
<1> QED
  BY <1>1, <1>2, <1>3, <1>4 DEF LeaseInvOf, Calm

(* A step of e after which it is not executing and no longer may. *)
LEMMA Retired ==
    ASSUME NEW e \in Execs, idle'[e] <= MaxPause,
           pc'[e] \notin {"idle", "leased", "starting", "marked", "streaming"},
           e \in Runs => body'[e] # "live"
    PROVE  LeaseInvOf(e)'
BY DEF LeaseInvOf, Admitted

(* The lemma for a step that moves at most a: the others are framed. *)
LEMMA OnlyMoves ==
    ASSUME TypeOK, LeaseInv, NEW a, a \in Execs => LeaseInvOf(a)',
           \A e \in Execs \ {a} :
              /\ Calm(e)
              /\ Admitted(e) => SameLease(e)
              /\ e \in Runs => NotBatched(e)
    PROVE  LeaseInv'
<1>1. ASSUME NEW e \in Execs, e # a PROVE LeaseInvOf(e)'
  <2>1. LeaseInvOf(e)
    BY LeaseInvPointwise
  <2> QED
    BY <1>1, <2>1, Frame
<1>2. \A e \in Execs : LeaseInvOf(e)'
  BY <1>1
<1>3. LeaseInv' <=> \A e \in Execs : LeaseInvOf(e)'
  BY DEF LeaseInv, LeaseInvOf, Execs
<1> QED
  BY <1>2, <1>3

(* What a step of the driver of r leaves alone. *)
LEMMA GotoFrame ==
    ASSUME TypeOK, NEW r \in Runs, NEW point, Goto(r, point),
           \A f \in Runs \ {r} :
              /\ body'[f] = body[f]
              /\ \/ status'[f] = status[f]
                 \/ status[f] # "absent" /\ status'[f] \notin {"queued", "running"}
              /\ runAge'[f] \in {runAge[f], 0}
    PROVE  \A e \in Execs \ {r} :
              /\ Calm(e)
              /\ Admitted(e) => SameLease(e)
              /\ e \in Runs => NotBatched(e)
BY DEF Goto, Calm, SameLease, NotBatched, TypeOK, sweeper

(* A step of the driver of r after which its body is not running. *)
LEMMA DriverLeaves ==
    ASSUME Pace, TypeOK, LeaseInv, NEW r \in Runs, NEW point, Goto(r, point),
           point \notin {"idle", "leased", "starting", "marked", "streaming"},
           body'[r] # "live",
           \A f \in Runs \ {r} :
              /\ body'[f] = body[f]
              /\ \/ status'[f] = status[f]
                 \/ status[f] # "absent" /\ status'[f] \notin {"queued", "running"}
              /\ runAge'[f] \in {runAge[f], 0}
    PROVE  LeaseInv'
<1>1. r \in Execs
  BY DEF Execs
<1>2. pc'[r] = point /\ idle'[r] = 0
  BY <1>1 DEF Goto, TypeOK
<1>3. LeaseInvOf(r)'
  BY <1>1, <1>2, Retired, BoundAssumption
<1> QED
  BY <1>3, GotoFrame, OnlyMoves

(* acquire gives a fresh lease, and takes none from an admitted execution. *)
LEMMA AcquireKeeps ==
    ASSUME Pace, TypeOK, LeaseInv, NEW a \in Execs, Acquire(a)
    PROVE  LeaseInv'
<1>1. LeaseInvOf(a)
  BY LeaseInvPointwise
<1>2. /\ pc[a] = "idle" /\ KeyOf[a] \in Keys
      /\ a \in Runs => body[a] # "live"
      /\ pc'[a] = IF a \in Runs THEN "leased" ELSE "streaming"
      /\ lease'[KeyOf[a]] = a /\ leaseAge'[KeyOf[a]] = 0
      /\ idle'[a] = 0 /\ beat'[a] = 0
      /\ status' = status /\ body' = body /\ batch' = batch
  BY <1>1, ExecAssumption DEF Acquire, TypeOK, LeaseInvOf, sweeper
<1>3. LeaseInvOf(a)'
  <2>1. Fresh(a)'
    BY <1>2, BoundAssumption DEF Fresh, Holds, Grace, Pace
  <2>2. CASE a \in Runs
    BY <1>1, <1>2, <2>1, <2>2, BoundAssumption DEF LeaseInvOf, Unswept
  <2>3. CASE a \notin Runs
    BY <1>2, <2>1, <2>3, BoundAssumption DEF LeaseInvOf
  <2> QED
    BY <2>2, <2>3
<1>4. ASSUME NEW e \in Execs \ {a}
      PROVE  /\ Calm(e)
             /\ Admitted(e) => SameLease(e)
             /\ e \in Runs => NotBatched(e)
  <2>1. Calm(e) /\ (e \in Runs => NotBatched(e))
    BY <1>2, <1>4 DEF Calm, NotBatched, Acquire, TypeOK
  <2>2. ASSUME Admitted(e) PROVE SameLease(e)
    <3>1. Holds(e) /\ ~Stale(KeyOf[e])
      BY <2>2, NotStale, LeaseInvPointwise
    <3>2. KeyOf[e] # KeyOf[a]
      BY <3>1, ExecAssumption DEF Acquire, Holds
    <3> QED
      BY <3>2, ExecAssumption DEF SameLease, Acquire, TypeOK
  <2> QED
    BY <2>1, <2>2
<1> QED
  BY <1>3, <1>4, OnlyMoves

(* release deletes no row but that of its execution. *)
LEMMA ReleaseKeeps ==
    ASSUME Pace, TypeOK, LeaseInv, NEW a \in Execs, Release(a)
    PROVE  LeaseInv'
<1>1. LeaseInvOf(a)
  BY LeaseInvPointwise
<1>2. /\ pc'[a] = "ended" /\ idle'[a] = 0
      /\ a \in Runs => body'[a] # "live"
  BY <1>1 DEF Release, TypeOK, LeaseInvOf
<1>3. LeaseInvOf(a)'
  BY <1>2, Retired, BoundAssumption
<1>4. ASSUME NEW e \in Execs \ {a}
      PROVE  /\ Calm(e)
             /\ Admitted(e) => SameLease(e)
             /\ e \in Runs => NotBatched(e)
  <2>1. Calm(e) /\ (e \in Runs => NotBatched(e))
    BY <1>4 DEF Calm, NotBatched, Release, TypeOK, sweeper
  <2>2. ASSUME Admitted(e) PROVE SameLease(e)
    <3>1. Holds(e) /\ KeyOf[e] \in Keys
      BY <2>2, NotStale, LeaseInvPointwise, ExecAssumption
    <3> QED
      BY <3>1 DEF SameLease, Release, Drop, KeysHeldBy, Holds
  <2> QED
    BY <2>1, <2>2
<1> QED
  BY <1>3, <1>4, OnlyMoves

(* A dead worker executes nothing. *)
LEMMA CrashKeeps ==
    ASSUME Pace, TypeOK, LeaseInv, NEW a \in Execs, Crash(a)
    PROVE  LeaseInv'
<1>1. pc'[a] = "dead" /\ idle'[a] = 0 /\ (a \in Runs => body'[a] # "live")
  BY DEF Crash, TypeOK
<1>2. LeaseInvOf(a)'
  BY <1>1, Retired, BoundAssumption
<1>3. \A e \in Execs \ {a} :
         /\ Calm(e)
         /\ Admitted(e) => SameLease(e)
         /\ e \in Runs => NotBatched(e)
  BY DEF Crash, Calm, SameLease, NotBatched, TypeOK, store, sweeper
<1> QED
  BY <1>2, <1>3, OnlyMoves

(* The lease of an execution that has just sent a heartbeat. *)
LEMMA HeartbeatFresh ==
    ASSUME Pace, TypeOK, NEW e \in Execs, LeaseInvOf(e), Admitted(e), Heartbeat(e),
           UNCHANGED <<lease, pc>>, idle'[e] = 0,
           pc[e] \notin {"leased", "starting", "marked"}
    PROVE  /\ Fresh(e)'
           /\ \A f \in Execs \ {e} : beat'[f] = beat[f] /\ (Holds(f) => SameLease(f))
<1>1. /\ Fresh(e) /\ Holds(e) /\ KeyOf[e] \in Keys
      /\ leaseAge \in [Keys -> 0 .. LeaseStale + 1]
      /\ beat \in [Execs -> 0 .. HeartbeatEvery]
      /\ faults = 0 /\ MaxFaults = 0
      /\ KeyOf \in [Execs -> Keys]
  BY ExecAssumption DEF LeaseInvOf, Fresh, TypeOK, Pace
<1>2. Grace(pc'[e]) = LeaseStale - MaxPause
  BY DEF Grace
<1>3. /\ leaseAge'[KeyOf[e]] <= LeaseStale - MaxPause
      /\ beat'[e] < HeartbeatEvery => leaseAge'[KeyOf[e]] <= beat'[e]
  BY <1>1, BoundAssumption DEF Heartbeat, Fresh, Pace
<1>4. Fresh(e)'
  BY <1>1, <1>2, <1>3, BoundAssumption DEF Fresh, Holds
<1>5. \A f \in Execs \ {e} : beat'[f] = beat[f] /\ (Holds(f) => SameLease(f))
  BY <1>1 DEF Heartbeat, Holds, SameLease
<1> QED
  BY <1>4, <1>5

(* A chunk renews the lease of its stream, the end gives it up. *)
LEMMA StreamKeeps ==
    ASSUME Pace, TypeOK, LeaseInv, NEW a \in Streams, StreamChunk(a) \/ StreamEnd(a)
    PROVE  LeaseInv'
<1>1. a \in Execs /\ a \notin Runs /\ LeaseInvOf(a)
  BY LeaseInvPointwise, ExecAssumption DEF Execs
<1>2. CASE StreamEnd(a)
  <2>1. LeaseInvOf(a)'
    BY <1>1, <1>2, Retired, BoundAssumption DEF StreamEnd, TypeOK
  <2>2. \A e \in Execs \ {a} :
           /\ Calm(e)
           /\ Admitted(e) => SameLease(e)
           /\ e \in Runs => NotBatched(e)
    BY <1>2 DEF StreamEnd, Calm, SameLease, NotBatched, TypeOK, store, sweeper
  <2> QED
    BY <2>1, <2>2, OnlyMoves
<1>3. CASE StreamChunk(a)
  <2>1. /\ Admitted(a) /\ Heartbeat(a) /\ UNCHANGED <<lease, pc>>
        /\ idle'[a] = 0 /\ pc[a] = "streaming"
    BY <1>1, <1>3 DEF StreamChunk, Admitted, TypeOK
  <2>2. /\ Fresh(a)'
        /\ \A f \in Execs \ {a} : beat'[f] = beat[f] /\ (Holds(f) => SameLease(f))
    BY <1>1, <2>1, HeartbeatFresh
  <2>3. LeaseInvOf(a)'
    BY <1>1, <2>1, <2>2, BoundAssumption DEF LeaseInvOf
  <2>4. \A e \in Execs \ {a} : Admitted(e) => SameLease(e)
    BY <2>2, NotStale, LeaseInvPointwise
  <2>5. \A e \in Execs \ {a} : Calm(e) /\ (e \in Runs => NotBatched(e))
    BY <1>3, <2>2 DEF StreamChunk, Calm, NotBatched, TypeOK, sweeper
  <2> QED
    BY <2>3, <2>4, <2>5, OnlyMoves
<1> QED
  BY <1>2, <1>3

(* The types of what concerns one execution. *)
LEMMA TypedAt ==
    ASSUME TypeOK, NEW e \in Execs
    PROVE  /\ KeyOf[e] \in Keys
           /\ idle[e] \in Nat /\ beat[e] \in Nat /\ leaseAge[KeyOf[e]] \in Nat
           /\ e \in Runs => runAge[e] \in Nat
<1>1. /\ leaseAge \in [Keys -> 0 .. LeaseStale + 1]
      /\ runAge \in [Runs -> 0 .. RunStale + 1]
      /\ idle \in [Execs -> Nat]
      /\ beat \in [Execs -> 0 .. HeartbeatEvery]
      /\ KeyOf \in [Execs -> Keys]
  BY ExecAssumption DEF TypeOK
<1> QED
  BY <1>1

(* The insert of the run spends the first pause of its lease ... *)
LEMMA CreateKeeps ==
    ASSUME Pace, TypeOK, LeaseInv, NEW r \in Runs, Create(r)
    PROVE  LeaseInv'
<1>1. r \in Execs /\ LeaseInvOf(r)
  BY LeaseInvPointwise DEF Execs
<1>2. /\ pc[r] = "leased" /\ pc'[r] = "starting"
      /\ idle'[r] = 0 /\ beat' = beat /\ runAge'[r] = 0
      /\ status'[r] = "queued" /\ body' = body /\ batch' = batch
      /\ lease' = lease /\ leaseAge' = leaseAge
  BY <1>1 DEF Create, TypeOK, sweeper
<1>3. Admitted(r) /\ Fresh(r) /\ Unswept(r) /\ body[r] # "live" /\ idle[r] <= MaxPause
  BY <1>1, <1>2 DEF Admitted, LeaseInvOf
<1>4. Fresh(r)'
  BY <1>1, <1>2, <1>3, TypedAt, BoundAssumption DEF Fresh, Grace, Holds
<1>5. LeaseInvOf(r)'
  BY <1>2, <1>3, <1>4, BoundAssumption DEF LeaseInvOf, Unswept
<1>6. \A e \in Execs \ {r} :
         /\ Calm(e)
         /\ Admitted(e) => SameLease(e)
         /\ e \in Runs => NotBatched(e)
  BY DEF Create, Calm, SameLease, NotBatched, TypeOK, sweeper
<1> QED
  BY <1>5, <1>6, OnlyMoves

(* ... mark_running the second ... *)
LEMMA MarkRunningKeeps ==
    ASSUME Pace, TypeOK, LeaseInv, NEW r \in Runs, MarkRunning(r)
    PROVE  LeaseInv'
<1>1. r \in Execs /\ LeaseInvOf(r)
  BY LeaseInvPointwise DEF Execs
<1>2. /\ pc[r] = "starting" /\ pc'[r] = "marked"
      /\ idle'[r] = 0 /\ beat' = beat /\ body' = body /\ batch' = batch
      /\ lease' = lease /\ leaseAge' = leaseAge
      /\ body[r] # "live" /\ idle[r] <= MaxPause
  BY <1>1 DEF MarkRunning, Goto, TypeOK, sweeper, LeaseInvOf
<1>3. ASSUME status[r] = "queued" PROVE LeaseInvOf(r)'
  <2>1. status'[r] = "running" /\ runAge'[r] = 0
    BY <1>2, <1>3 DEF MarkRunning, SetStatus, TypeOK
  <2>2. Fresh(r) /\ Unswept(r)
    BY <1>1, <1>2, <1>3 DEF Admitted, LeaseInvOf
  <2>3. Fresh(r)'
    BY <1>1, <1>2, <2>2, TypedAt, BoundAssumption DEF Fresh, Grace, Holds
  <2> QED
    BY <1>2, <2>1, <2>2, <2>3, BoundAssumption DEF LeaseInvOf, Unswept
<1>4. ASSUME status[r] # "queued" PROVE LeaseInvOf(r)'
  <2>1. UNCHANGED <<status, runAge>>
    BY <1>4 DEF MarkRunning
  <2>2. status[r] # "running"
    BY <1>1, <1>2 DEF LeaseInvOf
  <2> QED
    BY <1>2, <2>1, <2>2, BoundAssumption DEF LeaseInvOf, Admitted
<1>5. \A f \in Runs \ {r} :
         /\ body'[f] = body[f]
         /\ \/ status'[f] = status[f]
            \/ status[f] # "absent" /\ status'[f] \notin {"queued", "running"}
         /\ runAge'[f] \in {runAge[f], 0}
  BY DEF MarkRunning, SetStatus, TypeOK
<1> QED
  BY <1>3, <1>4, <1>5, GotoFrame, OnlyMoves DEF MarkRunning

(* ... and the read that starts the body the third. *)
LEMMA CheckRunningKeeps ==
    ASSUME Pace, TypeOK, LeaseInv, NEW r \in Runs, CheckRunning(r)
    PROVE  LeaseInv'
<1>1. r \in Execs /\ LeaseInvOf(r)
  BY LeaseInvPointwise DEF Execs
<1>2. /\ pc[r] = "marked" /\ body[r] # "live" /\ idle[r] <= MaxPause
      /\ idle'[r] = 0 /\ beat' = beat /\ batch' = batch
      /\ UNCHANGED <<lease, leaseAge, status, runAge>>
  BY <1>1 DEF CheckRunning, Goto, TypeOK, sweeper, LeaseInvOf
<1>3. \A f \in Runs \ {r} :
         /\ body'[f] = body[f]
         /\ \/ status'[f] = status[f]
            \/ status[f] # "absent" /\ status'[f] \notin {"queued", "running"}
         /\ runAge'[f] \in {runAge[f], 0}
  BY DEF CheckRunning, TypeOK
<1>4. CASE status[r] = "running"
  <2>1. /\ pc'[r] = "watching" /\ body'[r] = "live" /\ Goto(r, "watching")
    BY <1>1, <1>4 DEF CheckRunning, Goto, TypeOK
  <2>2. Fresh(r) /\ Unswept(r)
    BY <1>1, <1>2, <1>4 DEF Admitted, LeaseInvOf
  <2>3. Fresh(r)'
    BY <1>1, <1>2, <2>1, <2>2, TypedAt, BoundAssumption DEF Fresh, Grace, Holds, Pace
  <2>4. Unswept(r)'
    BY <1>1, <1>2, <2>1, <2>2, TypedAt, BoundAssumption DEF Unswept
  <2>5. LeaseInvOf(r)'
    BY <1>2, <2>1, <2>3, <2>4, BoundAssumption DEF LeaseInvOf
  <2> QED
    BY <1>3, <2>1, <2>5, GotoFrame, OnlyMoves
<1>5. CASE status[r] # "running"
  <2>1. body' = body
    BY <1>5 DEF CheckRunning, TypeOK
  <2>2. Goto(r, "cancelEvent") \/ Goto(r, "releasing")
    BY <1>5 DEF CheckRunning
  <2> QED
    BY <1>2, <1>3, <2>1, <2>2, DriverLeaves
<1> QED
  BY <1>4, <1>5

(* The body goes on while it is asked to stop. *)
LEMMA PollKeeps ==
    ASSUME Pace, TypeOK, LeaseInv, NEW r \in Runs, Poll(r)
    PROVE  LeaseInv'
<1>1. r \in Execs /\ LeaseInvOf(r)
  BY LeaseInvPointwise DEF Execs
<1>2. /\ pc[r] = "watching" /\ pc'[r] = "joining"
      /\ UNCHANGED <<lease, leaseAge, status, runAge, body, idle, beat, batch>>
  BY <1>1 DEF Poll, TypeOK, store, sweeper
<1>3. LeaseInvOf(r)'
  BY <1>1, <1>2 DEF LeaseInvOf, Admitted, Fresh, Unswept, Holds, Grace
<1>4. \A e \in Execs \ {r} :
         /\ Calm(e)
         /\ Admitted(e) => SameLease(e)
         /\ e \in Runs => NotBatched(e)
  BY DEF Poll, Calm, SameLease, NotBatched, TypeOK, store, sweeper
<1> QED
  BY <1>3, <1>4, OnlyMoves

(* The steps after which the driver of a run only winds up. *)
LEMMA WindUpKeeps ==
    ASSUME Pace, TypeOK, LeaseInv, NEW r \in Runs,
           \/ Join(r) \/ JoinCancelled(r) \/ Finish(r)
           \/ DriverPurge(r) \/ Shutdown(r)
    PROVE  LeaseInv'
<1>1. r \in Execs /\ LeaseInvOf(r)
  BY LeaseInvPointwise DEF Execs
<1> DEFINE Left == {"idle", "leased", "starting", "marked", "streaming"}
<1>2. pc[r] \notin {"watching", "joining"} => body[r] # "live"
  BY <1>1 DEF LeaseInvOf
<1>3. CASE Join(r)
  <2>1. /\ body[r] # "live" /\ UNCHANGED <<status, runAge, body>>
        /\ Goto(r, "finishing") \/ Goto(r, "failEvent")
    BY <1>3 DEF Join
  <2> QED
    BY <2>1, DriverLeaves
<1>4. CASE JoinCancelled(r)
  <2>1. /\ Goto(r, "cancelEvent") /\ UNCHANGED <<status, runAge>>
        /\ body'[r] # "live" /\ \A f \in Runs \ {r} : body'[f] = body[f]
    BY <1>4 DEF JoinCancelled, TypeOK
  <2> QED
    BY <2>1, DriverLeaves
<1>5. CASE Finish(r)
  <2>1. ASSUME NEW at \in DOMAIN OnError \ {"watching"}, NEW ev, NEW then,
               then \notin Left, OnError[at] \notin Left, LogOutcome(r, at, ev, then)
        PROVE  LeaseInv'
    <3>1. /\ pc[r] = at /\ body' = body /\ status' = status
          /\ \A f \in Runs \ {r} : runAge'[f] = runAge[f]
          /\ Goto(r, then) \/ Goto(r, OnError[at])
      BY <2>1 DEF LogOutcome, AppendEvent, TypeOK
    <3>2. body'[r] # "live"
      BY <1>2, <2>1, <3>1 DEF OnError
    <3> QED
      BY <2>1, <3>1, <3>2, DriverLeaves
  <2>2. ASSUME NEW at, at \notin {"watching", "joining"},
               NEW s, NEW then, then \notin Left, WriteOutcome(r, at, s, then)
        PROVE  LeaseInv'
    <3>1. /\ pc[r] = at /\ body' = body /\ Goto(r, then)
          /\ \A f \in Runs \ {r} : runAge'[f] = runAge[f] /\ status'[f] = status[f]
      BY <2>2 DEF WriteOutcome, SetStatus, TypeOK
    <3> QED
      BY <1>2, <2>2, <3>1, DriverLeaves
  <2>3. {"cancelEvent", "failEvent"} \subseteq DOMAIN OnError \ {"watching"}
    BY DEF OnError
  <2>4. OnError["cancelEvent"] = "failEvent" /\ OnError["failEvent"] = "releasing"
    BY DEF OnError
  <2>5. CASE LogOutcome(r, "cancelEvent", "cancelled", "cancelStatus")
    BY <2>1, <2>3, <2>4, <2>5
  <2>6. CASE LogOutcome(r, "failEvent", "error", "failStatus")
    BY <2>1, <2>3, <2>4, <2>6
  <2>7. CASE \/ WriteOutcome(r, "finishing", "completed", "purging")
             \/ WriteOutcome(r, "cancelStatus", "cancelled", "releasing")
             \/ WriteOutcome(r, "failStatus", "failed", "releasing")
             \/ WriteOutcome(r, "stopping", "failed", "releasing")
    BY <2>2, <2>7
  <2> QED
    BY <1>5, <2>5, <2>6, <2>7 DEF Finish
<1>6. CASE DriverPurge(r)
  <2>1. /\ pc[r] \notin {"watching", "joining"} /\ body' = body /\ runAge' = runAge
        /\ \A f \in Runs : status'[f] = status[f] \/ status'[f] = "absent"
        /\ Goto(r, "deleting") \/ Goto(r, "releasing")
    BY <1>6 DEF DriverPurge, PurgeRead, PurgeDelete
  <2> QED
    BY <1>2, <2>1, DriverLeaves
<1>7. CASE Shutdown(r)
  <2>1. /\ Goto(r, OnShutdown[pc[r]]) /\ UNCHANGED <<status, runAge>>
        /\ body'[r] # "live" /\ \A f \in Runs \ {r} : body'[f] = body[f]
        /\ OnShutdown[pc[r]] \notin Left
    BY <1>7 DEF Shutdown, OnShutdown, TypeOK
  <2> QED
    BY <2>1, DriverLeaves
<1> QED
  BY <1>3, <1>4, <1>5, <1>6, <1>7

(* A body that goes on has renewed its lease and touched its run. *)
LEMMA BodyKeeps ==
    ASSUME Pace, TypeOK, LeaseInv, NEW r \in Runs, BodyStep(r)
    PROVE  LeaseInv'
<1>1. r \in Execs /\ LeaseInvOf(r)
  BY LeaseInvPointwise DEF Execs
<1>2. /\ BodyMoves(r)
      /\ body'[r] \in {"live", "done", "failed"}
      /\ \A f \in Runs \ {r} : body'[f] = body[f] /\ runAge'[f] = runAge[f]
      /\ body'[r] = "live" => Heartbeat(r) /\ runAge'[r] = 0
      /\ Heartbeat(r) \/ UNCHANGED <<leaseAge, beat>>
  BY DEF BodyStep, BodyHeartbeat, BodyFails, BodyEvent, AppendEvent, BodyMoves, TypeOK
<1>3. /\ body[r] = "live" /\ idle'[r] = 0 /\ Admitted(r)
      /\ pc[r] \in {"watching", "joining"}
      /\ UNCHANGED <<lease, pc, status, batch>>
      /\ \A f \in Execs \ {r} : idle'[f] = idle[f]
  BY <1>1, <1>2 DEF BodyMoves, Admitted, LeaseInvOf, TypeOK, sweeper
<1>4. Heartbeat(r) => Fresh(r)'
  BY <1>1, <1>3, HeartbeatFresh
<1>5. \A f \in Execs \ {r} : beat'[f] = beat[f] /\ (Holds(f) => SameLease(f))
  BY <1>1, <1>2, <1>3, HeartbeatFresh DEF SameLease
<1>6. LeaseInvOf(r)'
  <2>1. CASE body'[r] = "live"
    BY <1>1, <1>2, <1>3, <1>4, <2>1, BoundAssumption DEF LeaseInvOf, Admitted, Unswept
  <2>2. CASE body'[r] # "live"
    BY <1>1, <1>3, <2>2, Retired, BoundAssumption
  <2> QED
    BY <2>1, <2>2
<1>7. \A e \in Execs \ {r} : Admitted(e) => SameLease(e)
  BY <1>5, NotStale, LeaseInvPointwise
<1>8. \A e \in Execs \ {r} : Calm(e) /\ (e \in Runs => NotBatched(e))
  BY <1>2, <1>3, <1>5 DEF Calm, NotBatched
<1> QED
  BY <1>6, <1>7, <1>8, OnlyMoves

(* The lemma for a step that moves nobody. *)
LEMMA NobodyMoves ==
    ASSUME TypeOK, LeaseInv,
           \A e \in Execs :
              /\ Calm(e)
              /\ Admitted(e) => SameLease(e)
              /\ e \in Runs => NotBatched(e)
    PROVE  LeaseInv'
<1>1. \A e \in Execs : LeaseInvOf(e)
  BY LeaseInvPointwise
<1> QED
  BY <1>1, Frame, OnlyMoves

(* Requests and sweepers move no execution. *)
LEMMA CancelKeeps ==
    ASSUME Pace, TypeOK, LeaseInv, NEW c \in Cancels,
           CancelWrite(c) \/ \E r \in Runs : CancelRead(c, r)
    PROVE  LeaseInv'
<1>1. CASE \E r \in Runs : CancelRead(c, r)
  BY <1>1 DEF CancelRead, LeaseInv, Admitted, Fresh, Unswept, Holds, store, worker, sweeper
<1>2. CASE CancelWrite(c)
  <2>1. /\ \A f \in Runs : \/ status'[f] = status[f]
                           \/ status[f] # "absent" /\ status'[f] \notin {"queued", "running"}
        /\ \A f \in Runs : runAge'[f] \in {runAge[f], 0}
    BY <1>2 DEF CancelWrite, SetStatus, TypeOK
  <2>2. \A e \in Execs :
           /\ Calm(e)
           /\ Admitted(e) => SameLease(e)
           /\ e \in Runs => NotBatched(e)
    BY <1>2, <2>1 DEF CancelWrite, Calm, SameLease, NotBatched, worker, sweeper
  <2> QED
    BY <2>2, NobodyMoves
<1> QED
  BY <1>1, <1>2

(* fail_stale reads no row of an execution that is moving. *)
LEMMA SweepKeeps ==
    ASSUME Pace, TypeOK, LeaseInv, NEW s \in Sweepers,
           SweepStep(s) \/ SweepAbort(s) \/ SweepPurge(s)
    PROVE  LeaseInv'
<1>1. CASE SweepRead(s)
  <2>1. ASSUME NEW e \in Runs, Admitted(e) \/ pc[e] \in {"idle", "leased"}
        PROVE  e \notin StaleRuns
    <3>1. e \in Execs /\ LeaseInvOf(e) /\ idle[e] <= MaxPause
      BY LeaseInvPointwise DEF Execs, LeaseInvOf
    <3>2. CASE pc[e] \in {"idle", "leased"}
      BY <2>1, <3>1, <3>2 DEF LeaseInvOf, StaleRuns, Active
    <3>3. CASE Admitted(e) /\ pc[e] \notin {"idle", "leased"}
      <4>1. runAge[e] <= MaxPause + idle[e] \/ runAge[e] <= idle[e]
        BY <2>1, <3>1, <3>3, ExecAssumption DEF Admitted, LeaseInvOf, Unswept
      <4> QED
        BY <3>1, <4>1, TypedAt, BoundAssumption DEF Pace, StaleRuns
    <3> QED
      BY <2>1, <3>2, <3>3
  <2>2. \A e \in Execs : e \in Runs => NotBatched(e)
    BY <1>1, <2>1 DEF NotBatched, SweepRead, TypeOK
  <2>3. \A e \in Execs : Calm(e) /\ SameLease(e)
    BY <1>1 DEF SweepRead, Calm, SameLease, store, worker
  <2> QED
    BY <2>2, <2>3, NobodyMoves
<1>2. CASE SweepMark(s)
  <2>1. \A e \in Execs : SameLease(e) /\ NotBatched(e)
    BY <1>2 DEF SweepMark, SameLease, NotBatched
  <2>2. ASSUME NEW e \in Execs PROVE Calm(e)
    BY <1>2 DEF SweepMark, Calm, worker
  <2> QED
    BY <2>1, <2>2, NobodyMoves
<1>3. ASSUME NEW r \in Runs, SweepRelease(s, r) PROVE LeaseInv'
  <2>1. \A e \in Execs : Calm(e) /\ NotBatched(e)
    BY <1>3 DEF SweepRelease, Calm, NotBatched, worker, TypeOK
  <2>2. ASSUME NEW e \in Execs, Admitted(e) PROVE SameLease(e)
    <3>1. Holds(e) /\ LeaseInvOf(e) /\ KeyOf[e] \in Keys
      BY <2>2, NotStale, LeaseInvPointwise, ExecAssumption
    <3>2. e # r
      BY <1>3, <2>2, <3>1 DEF SweepRelease, LeaseInvOf, Unswept
    <3> QED
      BY <1>3, <3>1, <3>2 DEF SweepRelease, SameLease, Drop, KeysHeldBy, Holds
  <2> QED
    BY <2>1, <2>2, NobodyMoves
<1>4. CASE SweepAbort(s)
  <2>1. \A e \in Execs : Calm(e) /\ SameLease(e) /\ NotBatched(e)
    BY <1>4 DEF SweepAbort, Calm, SameLease, NotBatched, store, worker, TypeOK
  <2> QED
    BY <2>1, NobodyMoves
<1>5. CASE SweepPurge(s)
  <2>1. /\ UNCHANGED <<lease, leaseAge, pc, idle, beat, batch, runAge, body>>
        /\ \A f \in Runs : status'[f] = status[f] \/ status'[f] = "absent"
    BY <1>5 DEF SweepPurge, PurgeRead, PurgeDelete, sweeper
  <2>2. \A e \in Execs : Calm(e) /\ SameLease(e) /\ NotBatched(e)
    BY <2>1 DEF Calm, SameLease, NotBatched
  <2> QED
    BY <2>2, NobodyMoves
<1> QED
  BY <1>1, <1>2, <1>3, <1>4, <1>5 DEF SweepStep, SweepReleases

(* purge_stale deletes no lease of an execution that is moving. *)
LEMMA PurgeStaleKeeps ==
    ASSUME Pace, TypeOK, LeaseInv, PurgeStaleLeases
    PROVE  LeaseInv'
<1>1. \A e \in Execs : Calm(e) /\ NotBatched(e)
  BY DEF PurgeStaleLeases, Calm, NotBatched, worker, sweeper
<1>2. ASSUME NEW e \in Execs, Admitted(e) PROVE SameLease(e)
  <2>1. KeyOf[e] \in Keys /\ ~Stale(KeyOf[e])
    BY <1>2, NotStale, LeaseInvPointwise, ExecAssumption
  <2> QED
    BY <2>1 DEF PurgeStaleLeases, SameLease, Drop
<1> QED
  BY <1>1, <1>2, NobodyMoves

(* A tick ages the leases and the pauses together. *)
LEMMA TickKeeps ==
    ASSUME Pace, TypeOK, LeaseInv, Tick
    PROVE  LeaseInv'
<1>1. ASSUME NEW e \in Execs PROVE LeaseInvOf(e)'
  <2>1. LeaseInvOf(e) /\ None # e
    BY LeaseInvPointwise, ExecAssumption
  <2>2. /\ idle[e] \in Nat /\ beat[e] \in Nat /\ leaseAge[KeyOf[e]] \in Nat
        /\ e \in Runs => runAge[e] \in Nat
        /\ KeyOf[e] \in Keys
        /\ Grace(pc[e]) \in Int
    BY TypedAt, BoundAssumption DEF Grace
  <2>3. /\ Alive(e) => idle[e] < MaxPause /\ idle'[e] = idle[e] + 1
        /\ ~Alive(e) => idle'[e] = idle[e]
        /\ Alive(e) /\ beat[e] < HeartbeatEvery => beat'[e] = beat[e] + 1
        /\ Alive(e) /\ ~(beat[e] < HeartbeatEvery) => beat'[e] = beat[e]
        /\ UNCHANGED <<lease, status, pc, body, batch>>
    BY DEF Tick, Pace, sweeper
  <2>4. /\ leaseAge'[KeyOf[e]] \in {leaseAge[KeyOf[e]], leaseAge[KeyOf[e]] + 1}
        /\ e \in Runs => runAge'[e] \in {runAge[e], runAge[e] + 1}
    BY <2>2 DEF Tick, Older
  <2>5. Admitted(e) => Alive(e)
    BY DEF Admitted, Alive
  <2>6. idle'[e] <= MaxPause
    BY <2>1, <2>2, <2>3, BoundAssumption DEF LeaseInvOf
  <2>7. Admitted(e)' <=> Admitted(e)
    BY <2>3 DEF Admitted
  <2>8. ASSUME Admitted(e) PROVE Fresh(e)'
    <3>1. Fresh(e) /\ Alive(e)
      BY <2>1, <2>5, <2>8 DEF LeaseInvOf
    <3>2. leaseAge'[KeyOf[e]] <= Grace(pc[e]) + idle'[e]
      BY <2>2, <2>3, <2>4, <3>1 DEF Fresh
    <3>3. beat'[e] < HeartbeatEvery => leaseAge'[KeyOf[e]] <= beat'[e]
      BY <2>2, <2>3, <2>4, <3>1, BoundAssumption DEF Fresh
    <3> QED
      BY <2>3, <3>1, <3>2, <3>3 DEF Fresh, Holds, Grace
  <2>9. ASSUME e \in Runs, Admitted(e) PROVE Unswept(e)'
    <3>1. Unswept(e) /\ Alive(e)
      BY <2>1, <2>5, <2>9 DEF LeaseInvOf
    <3> QED
      BY <2>2, <2>3, <2>4, <2>9, <3>1, BoundAssumption DEF Unswept
  <2> QED
    BY <2>1, <2>3, <2>6, <2>7, <2>8, <2>9 DEF LeaseInvOf
<1>2. LeaseInv' <=> \A e \in Execs : LeaseInvOf(e)'
  BY DEF LeaseInv, LeaseInvOf, Execs
<1> QED
  BY <1>1, <1>2

(* With prompt workers whoever executes holds a lease that is not stale     *)
(* (acquire, heartbeat, fail_stale, purge_stale).                           *)
THEOREM LeaseInvHolds == ASSUME Pace PROVE Spec => []LeaseInv
<1>1. Init => LeaseInv
  <2> SUFFICES ASSUME Init PROVE LeaseInv
    OBVIOUS
  <2>1. /\ \A e \in Execs : pc[e] = "idle" /\ idle[e] = 0
        /\ \A r \in Runs : status[r] = "absent" /\ body[r] = "none" /\ r \in Execs
        /\ \A s \in Sweepers : batch[s] = {}
    BY DEF Init, Execs
  <2> QED
    BY <2>1, BoundAssumption DEF LeaseInv, Admitted
<1>2. TypeOK /\ LeaseInv /\ [Next]_vars => LeaseInv'
  <2> SUFFICES ASSUME TypeOK, LeaseInv, [Next]_vars PROVE LeaseInv'
    OBVIOUS
  <2>1. CASE \E e \in Execs : Acquire(e) \/ Release(e) \/ Crash(e)
    BY <2>1, AcquireKeeps, ReleaseKeeps, CrashKeeps
  <2>2. CASE \E e \in Streams : StreamChunk(e) \/ StreamEnd(e)
    BY <2>2, StreamKeeps
  <2>3. CASE \E r \in Runs : RunStep(r) \/ BodyStep(r)
    BY <2>3, CreateKeeps, MarkRunningKeeps, CheckRunningKeeps, PollKeeps,
       WindUpKeeps, BodyKeeps DEF RunStep
  <2>4. CASE \E r \in Runs : CreateFault(r) \/ DriverFault(r) \/ Shutdown(r)
    <3>1. ~(faults < MaxFaults)
      BY DEF TypeOK, Pace
    <3> QED
      BY <2>4, <3>1, WindUpKeeps DEF CreateFault, DriverFault
  <2>5. CASE \E c \in Cancels : CancelWrite(c) \/ \E r \in Runs : CancelRead(c, r)
    BY <2>5, CancelKeeps
  <2>6. CASE \E s \in Sweepers : SweepStep(s) \/ SweepAbort(s) \/ SweepPurge(s)
    BY <2>6, SweepKeeps
  <2>7. CASE PurgeStaleLeases
    BY <2>7, PurgeStaleKeeps
  <2>8. CASE Tick
    BY <2>8, TickKeeps
  <2>9. CASE UNCHANGED vars
    BY <2>9 DEF vars, store, worker, sweeper, LeaseInv, Admitted, Fresh, Unswept, Holds
  <2> QED
    BY <2>1, <2>2, <2>3, <2>4, <2>5, <2>6, <2>7, <2>8, <2>9 DEF Next
<1> QED
  BY <1>1, <1>2, TypeCorrect, PTL DEF Spec

(* Whoever executes is admitted, and the row of its key is its own. *)
LEMMA WorkersHold ==
    ASSUME Pace, TypeOK, LeaseInv, NEW e \in Execs, Admitted(e) \/ Executing(e)
    PROVE  Admitted(e) /\ Holds(e) /\ ~Stale(KeyOf[e])
<1>1. Admitted(e)
  BY DEF Admitted, Executing, Execs
<1> QED
  BY <1>1, NotStale, LeaseInvPointwise

(* Two executions at work on one key are the same execution: one per user   *)
(* and resource, whatever the process (resource_executions.py docstring).   *)
THEOREM MutualExclusion ==
    ASSUME Pace
    PROVE  Spec => [](\A e, f \in Execs :
              Executing(e) /\ Executing(f) /\ KeyOf[e] = KeyOf[f] => e = f)
<1>1. TypeOK /\ LeaseInv => \A e, f \in Execs :
         Executing(e) /\ Executing(f) /\ KeyOf[e] = KeyOf[f] => e = f
  BY WorkersHold DEF Holds
<1> QED
  BY <1>1, TypeCorrect, LeaseInvHolds, PTL

(* A step in which at most a starts or stops to execute is a step or a      *)
(* stutter of OneExecution, if a starts only with a lease or a free key.    *)
LEMMA Turn ==
    ASSUME Pace, TypeOK, LeaseInv, NEW a \in Execs,
           \A e \in Execs \ {a} : pc'[e] = pc[e] /\ (e \in Runs => body'[e] = body[e]),
           Executing(a)' => \/ Admitted(a)
                            \/ lease[KeyOf[a]] = None
                            \/ Stale(KeyOf[a])
    PROVE  OE!Next \/ UNCHANGED Working
<1>1. \A e \in Execs \ {a} : Executing(e)' <=> Executing(e)
  BY DEF Executing
<1>2. KeyOf[a] \in Keys
  BY ExecAssumption
<1>3. ASSUME Executing(a) \/ Executing(a)'
      PROVE  \A e \in Execs \ {a} : Executing(e) => KeyOf[e] # KeyOf[a]
  <2> SUFFICES ASSUME NEW e \in Execs \ {a}, Executing(e), KeyOf[e] = KeyOf[a]
               PROVE  FALSE
    OBVIOUS
  <2>1. lease[KeyOf[a]] = e /\ ~Stale(KeyOf[a])
    BY WorkersHold DEF Holds
  <2>2. lease[KeyOf[a]] # a
    BY <2>1
  <2>3. ~Admitted(a) /\ ~Executing(a)
    BY <2>2, WorkersHold DEF Holds
  <2> QED
    BY <1>3, <2>1, <2>3, ExecAssumption
<1>4. CASE Executing(a)' <=> Executing(a)
  BY <1>1, <1>4 DEF Working
<1>5. CASE Executing(a)' /\ ~Executing(a)
  <2>1. Working[KeyOf[a]] = {}
    BY <1>2, <1>3, <1>5 DEF Working
  <2>2. Working' = [Working EXCEPT ![KeyOf[a]] = {a}]
    BY <1>1, <1>2, <1>3, <1>5 DEF Working
  <2> QED
    BY <1>2, <2>1, <2>2 DEF OE!Next, OE!Begin
<1>6. CASE ~Executing(a)' /\ Executing(a)
  <2>1. Working[KeyOf[a]] # {}
    BY <1>2, <1>6 DEF Working
  <2>2. Working' = [Working EXCEPT ![KeyOf[a]] = {}]
    BY <1>1, <1>2, <1>3, <1>6 DEF Working
  <2> QED
    BY <1>2, <2>1, <2>2 DEF OE!Next, OE!End
<1> QED
  BY <1>4, <1>5, <1>6

(* The executions of each key implement OneExecution: every step of the     *)
(* routes, the drivers, the sweeps and the purges is a turn that begins, a  *)
(* turn that ends, or a stutter.                                            *)
THEOREM TakesTurns == ASSUME Pace PROVE Spec => OneExecutionAtATime
<1>1. Init => OE!Init
  BY DEF Init, OE!Init, Working, Executing, Execs
<1>2. TypeOK /\ LeaseInv /\ [Next]_vars => [OE!Next]_Working
  <2> SUFFICES ASSUME TypeOK, LeaseInv, [Next]_vars
               PROVE  OE!Next \/ UNCHANGED Working
    OBVIOUS
  <2> DEFINE Still(a) ==
        \A e \in Execs \ {a} : pc'[e] = pc[e] /\ (e \in Runs => body'[e] = body[e])
  <2>1. ASSUME NEW a \in Execs, Acquire(a) PROVE OE!Next \/ UNCHANGED Working
    BY <2>1, Turn DEF Acquire, TypeOK
  <2>2. ASSUME NEW a \in Execs, Release(a) \/ Crash(a)
        PROVE  OE!Next \/ UNCHANGED Working
    <3>1. Still(a) /\ pc'[a] # "streaming" /\ (Executing(a)' => Executing(a))
      BY <2>2 DEF Release, Crash, TypeOK, Executing
    <3> QED
      BY <3>1, Turn, WorkersHold
  <2>3. ASSUME NEW a \in Streams, StreamChunk(a) \/ StreamEnd(a)
        PROVE  OE!Next \/ UNCHANGED Working
    <3>1. a \in Execs /\ Still(a) /\ (Executing(a)' => Executing(a))
      BY <2>3, ExecAssumption DEF StreamChunk, StreamEnd, TypeOK, Executing, Execs
    <3> QED
      BY <3>1, Turn, WorkersHold
  <2>4. ASSUME NEW a \in Runs, RunStep(a) \/ BodyStep(a) \/ Shutdown(a)
        PROVE  OE!Next \/ UNCHANGED Working
    <3>1. a \in Execs
      BY DEF Execs
    <3>2. Still(a)
      <4>1. \A at, ev, then : LogOutcome(a, at, ev, then) => Still(a)
        BY DEF LogOutcome, Goto, TypeOK
      <4>2. \A at, s, then : WriteOutcome(a, at, s, then) => Still(a)
        BY DEF WriteOutcome, Goto, TypeOK
      <4>3. Finish(a) => Still(a)
        BY <4>1, <4>2 DEF Finish
      <4>4. DriverPurge(a) => Still(a)
        BY DEF DriverPurge, PurgeRead, PurgeDelete, Goto, TypeOK
      <4>5. Create(a) \/ MarkRunning(a) \/ CheckRunning(a) \/ Poll(a) => Still(a)
        BY DEF Create, MarkRunning, CheckRunning, Poll, Goto, TypeOK
      <4>6. Join(a) \/ JoinCancelled(a) \/ Shutdown(a) => Still(a)
        BY DEF Join, JoinCancelled, Shutdown, Goto, TypeOK
      <4>7. BodyStep(a) => Still(a)
        BY DEF BodyStep, BodyHeartbeat, BodyFails, BodyEvent, BodyMoves, TypeOK
      <4> QED
        BY <2>4, <4>3, <4>4, <4>5, <4>6, <4>7 DEF RunStep
    <3>3. Executing(a)' => Admitted(a)
      <4> SUFFICES ASSUME body'[a] = "live", body[a] # "live" PROVE Admitted(a)
        BY DEF Executing, Admitted
      <4>1. ~BodyStep(a) /\ ~Shutdown(a)
        BY DEF BodyStep, BodyHeartbeat, BodyFails, BodyEvent, BodyMoves, Shutdown, TypeOK
      <4>2. ~Create(a) /\ ~MarkRunning(a) /\ ~Poll(a) /\ ~Join(a) /\ ~JoinCancelled(a)
        BY DEF Create, MarkRunning, Poll, Join, JoinCancelled
      <4>3. ~Finish(a) /\ ~DriverPurge(a)
        BY DEF Finish, LogOutcome, WriteOutcome, DriverPurge, PurgeRead, PurgeDelete
      <4>4. CheckRunning(a)
        BY <2>4, <4>1, <4>2, <4>3 DEF RunStep
      <4> QED
        BY <4>4 DEF CheckRunning, TypeOK, Admitted
    <3> QED
      BY <3>1, <3>2, <3>3, Turn
  <2>5. CASE \E r \in Runs : CreateFault(r) \/ DriverFault(r)
    BY <2>5 DEF CreateFault, DriverFault, TypeOK, Pace
  <2>6. ASSUME UNCHANGED <<pc, body>> PROVE UNCHANGED Working
    BY <2>6 DEF Working, Executing
  <2>7. CASE \E c \in Cancels : CancelWrite(c) \/ \E r \in Runs : CancelRead(c, r)
    BY <2>6, <2>7 DEF CancelWrite, CancelRead, worker
  <2>8. ASSUME NEW s \in Sweepers, SweepStep(s) \/ SweepAbort(s)
        PROVE  UNCHANGED Working
    BY <2>6, <2>8 DEF SweepStep, SweepRead, SweepMark, SweepReleases, SweepRelease,
       SweepAbort, worker
  <2>9. ASSUME NEW s \in Sweepers, SweepPurge(s) PROVE UNCHANGED Working
    BY <2>6, <2>9 DEF SweepPurge, PurgeRead, PurgeDelete
  <2>10. CASE PurgeStaleLeases \/ Tick \/ UNCHANGED vars
    BY <2>6, <2>10 DEF PurgeStaleLeases, Tick, vars, worker
  <2> QED
    BY <2>1, <2>2, <2>3, <2>4, <2>5, <2>7, <2>8, <2>9, <2>10 DEF Next
<1> QED
  BY <1>1, <1>2, TypeCorrect, LeaseInvHolds, PTL DEF Spec, OneExecutionAtATime, OE!Spec

-----------------------------------------------------------------------------
(* The event stream of a run.  A driver that may still log is neither failed *)
(* by fail_stale nor purged, because its row is touched often enough; so a   *)
(* run whose status is terminal is past its last event.                      *)

\* The driver may still log an event of its run.
Logging == {"starting", "marked", "watching", "joining", "cancelEvent", "failEvent"}
Before == Logging \cup {"idle", "leased"}

\* How old the row of r may have been when its task last moved.
RunLag(r) ==
    LET atBody == pc[r] \in {"watching", "joining"} IN
    CASE pc[r] = "starting" -> 0
      [] pc[r] = "marked" \/ (atBody /\ body[r] = "live") -> MaxPause
      [] pc[r] = "cancelEvent" \/ (atBody /\ body[r] # "live") -> 2 * MaxPause
      [] OTHER -> 3 * MaxPause

\* While r may log nobody fails or purges it.
InTime(r) ==
    /\ pc[r] \in Before => \A p \in Purgers : r \notin doomed[p]
    /\ pc[r] \in Logging =>
         /\ status[r] \in Active /\ \A s \in Sweepers : r \notin batch[s]
         /\ runAge[r] <= RunLag(r) + idle[r]

EndFits ==
    /\ cursor \in Nat
    /\ reader = "ended" => cursor >= Len(log[Watched]) /\ pc[Watched] \notin Before

LogsInTime == \A r \in Runs : InTime(r)

\* Nobody moves r, fails it or purges it.
LEMMA Undisturbed ==
    ASSUME TypeOK, NEW r \in Runs, InTime(r), pc'[r] = pc[r], body'[r] = body[r], idle'[r] = idle[r],
           pc[r] \in Logging => /\ status'[r] \in Active /\ runAge'[r] \in {runAge[r], 0}
                                /\ \A s \in Sweepers : r \notin batch'[s],
           pc[r] \in Before => \A p \in Purgers : r \notin doomed'[p]
    PROVE  InTime(r)'
<1>1. runAge[r] \in Nat /\ idle[r] \in Nat /\ RunLag(r) \in Nat
  <2>1. r \in Execs
    BY DEF Execs
  <2> QED BY <2>1, TypedAt, BoundAssumption DEF RunLag
<1>2. RunLag(r)' = RunLag(r)
  BY DEF RunLag
<1>3. pc[r] \in Logging => runAge'[r] <= RunLag(r) + idle[r]
  BY <1>1 DEF InTime
<1> QED BY <1>2, <1>3 DEF InTime, Before, Logging, Active

\* A driver that will log no more.
LEMMA NoMore ==
    ASSUME NEW r, pc'[r] \notin Before
    PROVE  InTime(r)'
BY DEF InTime, Before, Logging

LEMMA RunTypes ==
    ASSUME TypeOK, LeaseInv, NEW r \in Runs
    PROVE  /\ r \in Execs /\ runAge[r] \in Nat /\ idle[r] \in Nat /\ idle[r] <= MaxPause
           /\ RunLag(r) \in Nat /\ RunLag(r) <= 3 * MaxPause /\ MaxPause \in Nat
           /\ body[r] = "live" => pc[r] \in {"watching", "joining"}
           /\ pc[r] \in {"idle", "leased"} => status[r] = "absent"
<1>1. r \in Execs
  BY DEF Execs
<1> QED BY <1>1, TypedAt, BoundAssumption DEF RunLag, LeaseInv

\* Acquisitions, releases, streams, requests and leases disturb no run that may log.
LEMMA AroundInTime ==
    ASSUME TypeOK, LeaseInv, LogsInTime, NEW q \in Runs,
           \/ \E e \in Execs : Acquire(e) \/ Release(e) \/ Crash(e)
           \/ \E e \in Streams : StreamChunk(e) \/ StreamEnd(e)
           \/ \E c \in Cancels : CancelWrite(c) \/ \E r \in Runs : CancelRead(c, r)
           \/ PurgeStaleLeases
    PROVE  InTime(q)'
<1> USE DEF LogsInTime, store, worker, sweeper
<1>1. q \in Execs /\ q \notin Streams
  BY ExecAssumption DEF Execs
<1>2. ASSUME NEW e \in Execs, Acquire(e) PROVE InTime(q)'
  <2>1. UNCHANGED <<status, runAge, body, batch, doomed>>
    BY <1>2 DEF Acquire
  <2>2. CASE q = e
    <3>1. pc[q] = "idle" /\ pc'[q] = "leased"
      BY <1>1, <1>2, <2>2 DEF Acquire, TypeOK
    <3> QED BY <2>1, <3>1 DEF InTime, Before, Logging
  <2>3. CASE q # e
    <3>1. pc'[q] = pc[q] /\ idle'[q] = idle[q]
      BY <1>2, <2>3 DEF Acquire, TypeOK
    <3> QED BY <2>1, <3>1, Undisturbed DEF InTime
  <2> QED BY <2>2, <2>3
<1>3. ASSUME NEW e \in Execs, Release(e) PROVE InTime(q)'
  <2>1. UNCHANGED <<status, runAge, body, batch, doomed>>
    BY <1>3 DEF Release
  <2>2. CASE q = e
    <3>1. pc'[q] = "ended"
      BY <1>1, <1>3, <2>2 DEF Release, TypeOK
    <3> QED BY <3>1, NoMore DEF Before, Logging
  <2>3. CASE q # e
    <3>1. pc'[q] = pc[q] /\ idle'[q] = idle[q]
      BY <1>3, <2>3 DEF Release, TypeOK
    <3> QED BY <2>1, <3>1, Undisturbed DEF InTime
  <2> QED BY <2>2, <2>3
<1>4. ASSUME NEW e \in Execs, Crash(e) PROVE InTime(q)'
  <2>1. /\ UNCHANGED <<status, runAge, batch>>
        /\ \A p \in Purgers : doomed'[p] \subseteq doomed[p]
    BY <1>4 DEF Crash
  <2>2. CASE q = e
    <3>1. pc'[q] = "dead"
      BY <1>1, <1>4, <2>2 DEF Crash, TypeOK
    <3> QED BY <3>1, NoMore DEF Before, Logging
  <2>3. CASE q # e
    <3>1. pc'[q] = pc[q] /\ idle'[q] = idle[q] /\ body'[q] = body[q]
      BY <1>4, <2>3 DEF Crash, TypeOK
    <3> QED BY <2>1, <3>1, Undisturbed DEF InTime
  <2> QED BY <2>2, <2>3
<1>5. ASSUME NEW e \in Streams, StreamChunk(e) \/ StreamEnd(e) PROVE InTime(q)'
  <2>1. /\ UNCHANGED <<status, runAge, body, batch, doomed>>
        /\ pc'[q] = pc[q] /\ idle'[q] = idle[q]
    BY <1>1, <1>5 DEF StreamChunk, StreamEnd, TypeOK
  <2> QED BY <2>1, Undisturbed DEF InTime
<1>6. ASSUME NEW c \in Cancels, CancelWrite(c) \/ \E r \in Runs : CancelRead(c, r) PROVE InTime(q)'
  <2>1. /\ UNCHANGED <<pc, idle, body, batch, doomed>>
        /\ status'[q] \in {status[q], "cancelling"} /\ runAge'[q] \in {runAge[q], 0}
    BY <1>6 DEF CancelWrite, CancelRead, SetStatus, TypeOK
  <2> QED BY <2>1, Undisturbed DEF InTime, Active
<1>7. CASE PurgeStaleLeases
  <2>1. UNCHANGED <<pc, idle, body, batch, doomed, status, runAge>>
    BY <1>7 DEF PurgeStaleLeases
  <2> QED BY <2>1, Undisturbed DEF InTime
<1> QED BY <1>2, <1>3, <1>4, <1>5, <1>6, <1>7

\* A run that may log is not old enough for fail_stale, nor finished for a purge.
LEMMA SweepInTime ==
    ASSUME StreamPace, TypeOK, LeaseInv, LogsInTime, NEW q \in Runs, NEW s \in Sweepers,
           SweepStep(s) \/ SweepAbort(s) \/ SweepPurge(s)
    PROVE  InTime(q)'
<1> USE DEF LogsInTime, store, worker, sweeper
<1>0. InTime(q)
  OBVIOUS
<1>1. CASE SweepRead(s)
  <2>1. pc[q] \in Logging => q \notin StaleRuns
    BY RunTypes, BoundAssumption DEF StreamPace, StaleRuns, InTime
  <2>2. /\ UNCHANGED <<pc, idle, body, doomed, status, runAge>>
        /\ \A x \in Sweepers : batch'[x] = batch[x] \/ batch'[x] = StaleRuns
    BY <1>1 DEF SweepRead, TypeOK
  <2> QED BY <1>0, <2>1, <2>2, Undisturbed DEF InTime
<1>2. CASE SweepMark(s)
  <2>1. /\ UNCHANGED <<pc, idle, body, batch, doomed, runAge>>
        /\ q \notin batch[s] => status'[q] = status[q]
    BY <1>2 DEF SweepMark
  <2> QED BY <1>0, <2>1, Undisturbed DEF InTime
<1>3. CASE SweepReleases(s) \/ SweepAbort(s)
  <2>1. /\ UNCHANGED <<pc, idle, body, doomed, status, runAge>>
        /\ \/ batch' = [batch EXCEPT ![s] = {}]
           \/ \E r \in Runs : batch' = [batch EXCEPT ![s] = @ \ {r}]
    BY <1>3 DEF SweepReleases, SweepRelease, SweepAbort
  <2>3. \A x \in Sweepers : batch'[x] \subseteq batch[x]
    BY <2>1 DEF TypeOK
  <2> QED BY <1>0, <2>1, <2>3, Undisturbed DEF InTime
<1>4. CASE SweepPurge(s)
  <2>1. UNCHANGED <<pc, idle, body, batch, runAge>>
    BY <1>4 DEF SweepPurge, PurgeRead, PurgeDelete
  <2>2. \/ /\ status' = status
           /\ \E old \in SUBSET {r \in Runs : status[r] \in Terminal} : doomed' = [doomed EXCEPT ![s] = old]
        \/ /\ status' = [r \in Runs |-> IF r \in doomed[s] THEN "absent" ELSE status[r]]
           /\ doomed' = [doomed EXCEPT ![s] = {}]
    BY <1>4 DEF SweepPurge, PurgeRead, PurgeDelete
  <2>3. pc[q] \in Before => status[q] \notin Terminal
    BY <1>0, RunTypes DEF InTime, Before, Active, Terminal
  <2>4. pc[q] \in Before => \A p \in Purgers : q \notin doomed'[p]
    BY <1>0, <2>2, <2>3 DEF InTime, TypeOK
  <2>5. s \in Purgers
    BY DEF Purgers
  <2>6. pc[q] \in Logging => status'[q] = status[q]
    BY <1>0, <2>2, <2>5 DEF InTime, Before
  <2> QED BY <1>0, <2>1, <2>4, <2>6, Undisturbed DEF InTime
<1> QED BY <1>1, <1>2, <1>3, <1>4 DEF SweepStep

\* A tick ages the row and the pause of the driver together.
LEMMA TickInTime ==
    ASSUME Pace, TypeOK, LeaseInv, LogsInTime, NEW q \in Runs, Tick
    PROVE  InTime(q)'
<1>1. InTime(q)
  BY DEF LogsInTime
<1>2. /\ runAge[q] \in Nat /\ idle[q] \in Nat /\ RunLag(q) \in Nat /\ q \in Execs
  BY RunTypes
<1>3. UNCHANGED <<pc, body, status, batch, doomed>>
  BY DEF Tick, sweeper
<1>4. RunLag(q)' = RunLag(q)
  BY <1>3 DEF RunLag
<1>5. pc[q] \in Logging => idle'[q] = idle[q] + 1
  BY <1>2 DEF Tick, Pace, Alive, Logging
<1>6. runAge'[q] \in {runAge[q], runAge[q] + 1}
  BY <1>2 DEF Tick, Older
<1>7. pc[q] \in Logging => runAge'[q] <= RunLag(q) + idle'[q]
  BY <1>1, <1>2, <1>5, <1>6 DEF InTime
<1> QED BY <1>1, <1>3, <1>4, <1>7 DEF InTime, Active

\* The driver of another run.
LEMMA OtherDriver ==
    ASSUME TypeOK, LogsInTime, NEW q \in Runs, NEW r \in Runs \ {q}, NEW point, Goto(r, point),
           body'[q] = body[q], runAge'[q] \in {runAge[q], 0}, status'[q] = status[q],
           \A p \in Purgers : doomed'[p] \subseteq doomed[p]
    PROVE  InTime(q)'
<1>1. pc'[q] = pc[q] /\ idle'[q] = idle[q] /\ batch' = batch
  BY DEF Goto, TypeOK, sweeper, Execs
<1> QED BY <1>1, Undisturbed DEF LogsInTime, InTime, sweeper

\* Where the driver of q goes.
LEMMA OwnDriver ==
    ASSUME TypeOK, NEW q \in Runs, NEW point, Goto(q, point)
    PROVE  pc'[q] = point /\ idle'[q] = 0 /\ batch' = batch
BY DEF Goto, TypeOK, sweeper, Execs

\* The first steps of a run: insert, mark_running, the start of its body.
LEMMA StartsInTime ==
    ASSUME Pace, TypeOK, LeaseInv, LogsInTime, NEW q \in Runs, NEW r \in Runs,
           Create(r) \/ MarkRunning(r) \/ CheckRunning(r) \/ Poll(r)
    PROVE  InTime(q)'
<1> USE DEF LogsInTime, store, worker, sweeper
<1>0. InTime(q) /\ q \in Execs /\ MaxPause \in Nat
  BY BoundAssumption DEF Execs
<1>1. CASE Create(r)
  <2>1. /\ UNCHANGED <<body, batch, doomed>> /\ pc[r] = "leased"
        /\ pc' = [pc EXCEPT ![r] = "starting"] /\ idle' = [idle EXCEPT ![r] = 0]
        /\ runAge' = [runAge EXCEPT ![r] = 0] /\ status' = [status EXCEPT ![r] = "queued"]
    BY <1>1 DEF Create
  <2>2. CASE q = r
    <3>1. pc'[q] = "starting" /\ runAge'[q] = 0 /\ status'[q] = "queued" /\ idle'[q] = 0
      BY <1>0, <2>1, <2>2 DEF TypeOK
    <3>2. \A s \in Sweepers : q \notin batch[s]
      BY <2>1, <2>2 DEF LeaseInv
    <3> QED BY <1>0, <2>1, <2>2, <3>1, <3>2 DEF InTime, RunLag, Active, Before
  <2>3. CASE q # r
    <3>1. pc'[q] = pc[q] /\ idle'[q] = idle[q] /\ runAge'[q] = runAge[q] /\ status'[q] = status[q]
      BY <2>1, <2>3 DEF TypeOK
    <3> QED BY <1>0, <2>1, <3>1, Undisturbed DEF InTime
  <2> QED BY <2>2, <2>3
<1>2. CASE MarkRunning(r)
  <2>1. /\ pc[r] = "starting" /\ Goto(r, "marked") /\ UNCHANGED <<body, doomed>>
        /\ \/ UNCHANGED <<status, runAge>>
           \/ /\ status' = [status EXCEPT ![r] = "running"] /\ runAge' = [runAge EXCEPT ![r] = 0]
    BY <1>2 DEF MarkRunning, SetStatus
  <2>2. CASE q = r
    <3>1. /\ pc'[q] = "marked" /\ idle'[q] = 0 /\ batch' = batch
      BY <2>1, <2>2, OwnDriver
    <3>2. runAge[q] <= idle[q] /\ idle[q] <= MaxPause /\ runAge[q] \in Nat /\ idle[q] \in Nat
      BY <1>0, <2>1, <2>2, RunTypes DEF InTime, Logging, RunLag
    <3>3. status'[q] \in Active /\ runAge'[q] \in Nat /\ runAge'[q] <= MaxPause
      BY <1>0, <2>1, <2>2, <3>2 DEF InTime, Logging, Active, TypeOK
    <3> QED BY <1>0, <2>1, <2>2, <3>1, <3>3 DEF InTime, RunLag, Active, Before, Logging
  <2>3. CASE q # r
    <3>1. runAge'[q] = runAge[q] /\ status'[q] = status[q]
      BY <2>1, <2>3 DEF TypeOK
    <3> QED BY <1>0, <2>1, <2>3, <3>1, OtherDriver
  <2> QED BY <2>2, <2>3
<1>3. CASE CheckRunning(r)
  <2>1. /\ pc[r] = "marked" /\ UNCHANGED <<status, runAge, doomed>>
        /\ body' = [body EXCEPT ![r] = IF status[r] = "running" THEN "live" ELSE @]
        /\ \/ status[r] = "running" /\ Goto(r, "watching")
           \/ status[r] = "cancelling" /\ Goto(r, "cancelEvent")
           \/ status[r] \notin {"running", "cancelling"} /\ Goto(r, "releasing")
    BY <1>3 DEF CheckRunning
  <2>2. CASE q = r
    <3>1. runAge[q] \in Nat /\ idle[q] \in Nat /\ idle[q] <= MaxPause
      BY RunTypes
    <3>2. CASE status[r] = "running"
      <4>1. Unswept(q) /\ body[q] # "live"
        BY <1>0, <2>1, <2>2, <3>2 DEF LeaseInv, Admitted
      <4>2. runAge[q] <= idle[q]
        BY <2>1, <2>2, <4>1 DEF Unswept
      <4>3. pc'[q] = "watching" /\ idle'[q] = 0 /\ batch' = batch /\ body'[q] = "live"
        BY <2>1, <2>2, <3>2, OwnDriver DEF TypeOK
      <4>4. RunLag(q)' = MaxPause
        BY <4>3 DEF RunLag
      <4>5. runAge'[q] <= RunLag(q)' + idle'[q]
        BY <1>0, <2>1, <3>1, <4>2, <4>3, <4>4
      <4> QED BY <1>0, <2>1, <2>2, <4>3, <4>5 DEF InTime, Before, Logging, Active
    <3>3. CASE status[r] = "cancelling"
      <4>1. pc'[q] = "cancelEvent" /\ idle'[q] = 0 /\ batch' = batch /\ body'[q] = body[q]
        BY <2>1, <2>2, <3>3, OwnDriver DEF TypeOK
      <4>2. body[q] # "live"
        BY <2>1, <2>2 DEF LeaseInv
      <4>3. runAge[q] <= MaxPause + idle[q]
        BY <1>0, <2>1, <2>2 DEF InTime, RunLag, Logging
      <4>4. RunLag(q)' = 2 * MaxPause
        BY <4>1, <4>2 DEF RunLag
      <4>5. runAge'[q] <= RunLag(q)' + idle'[q]
        BY <1>0, <2>1, <3>1, <4>1, <4>3, <4>4
      <4> QED BY <1>0, <2>1, <2>2, <4>1, <4>5 DEF InTime, Before, Logging, Active
    <3>4. CASE status[r] \notin {"running", "cancelling"}
      <4>1. pc'[q] = "releasing"
        BY <2>1, <2>2, <3>4, OwnDriver
      <4> QED BY <4>1, NoMore DEF Before, Logging
    <3> QED BY <3>2, <3>3, <3>4
  <2>3. CASE q # r
    <3>1. body'[q] = body[q]
      BY <2>1, <2>3 DEF TypeOK
    <3> QED BY <1>0, <2>1, <2>3, <3>1, OtherDriver
  <2> QED BY <2>2, <2>3
<1>4. CASE Poll(r)
  <2>1. /\ pc[r] = "watching" /\ pc' = [pc EXCEPT ![r] = "joining"]
        /\ UNCHANGED <<status, runAge, doomed, body, idle, batch>>
    BY <1>4 DEF Poll
  <2>2. CASE q = r
    <3>1. pc'[q] = "joining" /\ pc[q] = "watching"
      BY <1>0, <2>1, <2>2 DEF TypeOK
    <3>2. RunLag(q)' = RunLag(q)
      BY <2>1, <3>1 DEF RunLag
    <3> QED BY <1>0, <2>1, <3>1, <3>2 DEF InTime, Before, Logging, Active
  <2>3. CASE q # r
    <3>1. pc'[q] = pc[q]
      BY <2>1, <2>3 DEF TypeOK
    <3> QED BY <1>0, <2>1, <3>1, Undisturbed DEF InTime
  <2> QED BY <2>2, <2>3
<1> QED BY <1>1, <1>2, <1>3, <1>4

\* The last steps: the end of the body is taken, told and written down.
LEMMA EndsInTime ==
    ASSUME Pace, TypeOK, LeaseInv, LogsInTime, NEW q \in Runs, NEW r \in Runs,
           Join(r) \/ JoinCancelled(r) \/ Finish(r) \/ DriverPurge(r) \/ Shutdown(r)
    PROVE  InTime(q)'
<1> USE DEF LogsInTime
<1>0. InTime(q) /\ q \in Execs /\ MaxPause \in Nat
  BY BoundAssumption DEF Execs
<1>1. CASE Join(r)
  <2>1. /\ pc[r] \in {"watching", "joining"} /\ body[r] \in {"done", "failed"}
        /\ UNCHANGED <<status, runAge, body, doomed>>
        /\ Goto(r, "finishing") \/ Goto(r, "failEvent")
    BY <1>1 DEF Join
  <2>2. CASE q = r
    <3>1. pc'[q] \in {"finishing", "failEvent"} /\ idle'[q] = 0 /\ batch' = batch
      BY <2>1, <2>2, OwnDriver
    <3>2. runAge[q] \in Nat /\ idle[q] \in Nat /\ idle[q] <= MaxPause
      BY RunTypes
    <3>3. pc[q] \in Logging /\ runAge[q] <= 2 * MaxPause + idle[q]
      BY <1>0, <2>1, <2>2 DEF InTime, RunLag, Logging
    <3>4. CASE pc'[q] = "failEvent"
      <4>1. RunLag(q)' = 3 * MaxPause
        BY <2>1, <2>2, <3>4 DEF RunLag
      <4>2. runAge'[q] <= RunLag(q)' + idle'[q]
        BY <1>0, <2>1, <3>1, <3>2, <3>3, <4>1
      <4> QED BY <1>0, <2>1, <3>1, <3>3, <4>2 DEF InTime, Before, Active
    <3>5. CASE pc'[q] = "finishing"
      BY <3>5, NoMore DEF Before, Logging
    <3> QED BY <3>1, <3>4, <3>5
  <2>3. CASE q # r
    BY <1>0, <2>1, <2>3, OtherDriver
  <2> QED BY <2>2, <2>3
<1>2. CASE JoinCancelled(r)
  <2>1. /\ pc[r] = "joining" /\ body[r] = "live" /\ Goto(r, "cancelEvent")
        /\ body' = [body EXCEPT ![r] = "cancelled"] /\ UNCHANGED <<status, runAge, doomed>>
    BY <1>2 DEF JoinCancelled
  <2>2. CASE q = r
    <3>1. pc'[q] = "cancelEvent" /\ idle'[q] = 0 /\ batch' = batch /\ body'[q] = "cancelled"
      BY <2>1, <2>2, OwnDriver DEF TypeOK
    <3>2. runAge[q] \in Nat /\ idle[q] \in Nat /\ idle[q] <= MaxPause
      BY RunTypes
    <3>3. pc[q] \in Logging /\ runAge[q] <= MaxPause + idle[q]
      BY <1>0, <2>1, <2>2 DEF InTime, RunLag, Logging
    <3>4. RunLag(q)' = 2 * MaxPause
      BY <3>1 DEF RunLag
    <3>5. runAge'[q] <= RunLag(q)' + idle'[q]
      BY <1>0, <2>1, <3>1, <3>2, <3>3, <3>4
    <3> QED BY <1>0, <2>1, <3>1, <3>3, <3>5 DEF InTime, Before, Active
  <2>3. CASE q # r
    <3>1. body'[q] = body[q]
      BY <2>1, <2>3 DEF TypeOK
    <3> QED BY <1>0, <2>1, <2>3, <3>1, OtherDriver
  <2> QED BY <2>2, <2>3
<1>3. CASE Finish(r)
  <2>1. /\ UNCHANGED <<body, doomed>>
        /\ \/ Goto(r, "cancelStatus") \/ Goto(r, "failStatus") \/ Goto(r, "purging")
           \/ Goto(r, "releasing") \/ (Goto(r, "failEvent") /\ status[r] = "absent" /\ pc[r] = "cancelEvent")
        /\ q # r => status'[q] = status[q] /\ runAge'[q] = runAge[q]
    BY <1>3 DEF Finish, LogOutcome, WriteOutcome, AppendEvent, SetStatus, OnError, TypeOK
  <2>2. CASE q = r
    <3>1. ~(status[r] = "absent" /\ pc[r] = "cancelEvent")
      BY <1>0, <2>2 DEF InTime, Logging, Active
    <3>2. pc'[q] \in {"cancelStatus", "failStatus", "purging", "releasing"}
      BY <2>1, <2>2, <3>1, OwnDriver
    <3> QED BY <3>2, NoMore DEF Before, Logging
  <2>3. CASE q # r
    BY <1>0, <2>1, <2>3, OtherDriver
  <2> QED BY <2>2, <2>3
<1>4. CASE DriverPurge(r)
  <2>1. /\ Goto(r, "deleting") \/ Goto(r, "releasing")
        /\ UNCHANGED <<body, runAge>>
        /\ \/ /\ status' = status
              /\ \E old \in SUBSET {x \in Runs : status[x] \in Terminal} : doomed' = [doomed EXCEPT ![r] = old]
           \/ /\ status' = [x \in Runs |-> IF x \in doomed[r] THEN "absent" ELSE status[x]]
              /\ doomed' = [doomed EXCEPT ![r] = {}]
    BY <1>4 DEF DriverPurge, PurgeRead, PurgeDelete
  <2>2. CASE q = r
    <3>1. pc'[q] \in {"deleting", "releasing"}
      BY <2>1, <2>2, OwnDriver
    <3> QED BY <3>1, NoMore DEF Before, Logging
  <2>3. CASE q # r
    <3>1. pc'[q] = pc[q] /\ idle'[q] = idle[q] /\ batch' = batch
      BY <2>1, <2>3 DEF Goto, TypeOK, sweeper, Execs
    <3>2. pc[q] \in Before => status[q] \notin Terminal
      BY <1>0, RunTypes DEF InTime, Before, Active, Terminal
    <3>3. pc[q] \in Before => \A p \in Purgers : q \notin doomed'[p]
      BY <1>0, <2>1, <3>2 DEF InTime, TypeOK
    <3>4. pc[q] \in Logging => status'[q] = status[q]
      BY <1>0, <2>1 DEF InTime, Before, Purgers
    <3> QED BY <1>0, <2>1, <3>1, <3>3, <3>4, Undisturbed DEF InTime
  <2> QED BY <2>2, <2>3
<1>5. CASE Shutdown(r)
  <2>1. /\ pc[r] \in DOMAIN OnShutdown /\ Goto(r, OnShutdown[pc[r]]) /\ UNCHANGED <<status, runAge>>
        /\ q # r => body'[q] = body[q]
        /\ \A p \in Purgers : doomed'[p] \subseteq doomed[p]
    BY <1>5 DEF Shutdown, TypeOK
  <2>2. CASE q = r
    <3>1. pc'[q] \in {"stopping", "releasing", "ended"}
      BY <2>1, <2>2, OwnDriver DEF OnShutdown
    <3> QED BY <3>1, NoMore DEF Before, Logging
  <2>3. CASE q # r
    BY <1>0, <2>1, <2>3, OtherDriver
  <2> QED BY <2>2, <2>3
<1> QED BY <1>1, <1>2, <1>3, <1>4, <1>5

\* A body that moves touches its row, or fails and leaves the driver to say so.
LEMMA BodyInTime ==
    ASSUME Pace, TypeOK, LeaseInv, LogsInTime, NEW q \in Runs, NEW r \in Runs, BodyStep(r)
    PROVE  InTime(q)'
<1>1. InTime(q) /\ q \in Execs /\ MaxPause \in Nat
  BY BoundAssumption DEF LogsInTime, Execs
<1>2. /\ body[r] = "live" /\ idle' = [idle EXCEPT ![r] = 0] /\ UNCHANGED <<pc, status, batch, doomed>>
  BY DEF BodyStep, BodyHeartbeat, BodyFails, BodyEvent, BodyMoves, sweeper
<1>3. pc[r] \in {"watching", "joining"} /\ status[r] \in Active
  BY <1>2, RunTypes DEF LogsInTime, InTime, Logging
<1>4. /\ q # r => body'[q] = body[q] /\ runAge'[q] = runAge[q]
      /\ \/ runAge'[r] = 0
         \/ runAge'[r] = runAge[r] /\ body'[r] = "failed"
  BY <1>3 DEF BodyStep, BodyHeartbeat, BodyFails, BodyEvent, AppendEvent, TypeOK, Active
<1>5. CASE q = r
  <2>1. runAge[q] \in Nat /\ idle[q] \in Nat /\ idle[q] <= MaxPause /\ idle'[q] = 0
    BY <1>1, <1>2, <1>5, RunTypes DEF TypeOK
  <2>2. runAge[q] <= MaxPause + idle[q]
    BY <1>1, <1>2, <1>3, <1>5 DEF InTime, RunLag, Logging
  <2>3. /\ RunLag(q)' \in {MaxPause, 2 * MaxPause}
        /\ body'[q] = "failed" => RunLag(q)' = 2 * MaxPause
    BY <1>2, <1>3, <1>5 DEF RunLag
  <2>4. runAge'[q] <= RunLag(q)' + idle'[q]
    BY <1>1, <1>4, <1>5, <2>1, <2>2, <2>3
  <2> QED BY <1>1, <1>2, <2>4 DEF InTime, Active
<1>6. CASE q # r
  <2>1. idle'[q] = idle[q]
    BY <1>2, <1>6 DEF TypeOK
  <2> QED BY <1>1, <1>2, <1>4, <1>6, <2>1, Undisturbed DEF InTime
<1> QED BY <1>5, <1>6

LEMMA LogsInTimeStep ==
    ASSUME StreamPace, TypeOK, LeaseInv, LogsInTime, [Next]_vars
    PROVE  LogsInTime'
<1>1. Pace /\ ~(faults < MaxFaults)
  BY DEF StreamPace, Pace, TypeOK
<1>2. SUFFICES ASSUME NEW q \in Runs PROVE InTime(q)'
  BY DEF LogsInTime
<1>3. CASE UNCHANGED vars
  BY <1>3 DEF vars, store, worker, sweeper, LogsInTime, InTime, RunLag
<1>4. CASE Next
  BY <1>1, <1>4, AroundInTime, SweepInTime, TickInTime, StartsInTime, EndsInTime, BodyInTime
  DEF Next, RunStep, CreateFault, DriverFault
<1> QED BY <1>3, <1>4

\* Nothing is logged of a run once its driver is past the place where it would, and it does not
\* come back there.
LEMMA LogRests ==
    ASSUME StreamPace, TypeOK, LeaseInv, [Next]_vars, NEW q \in Runs, pc[q] \notin Before
    PROVE  pc'[q] \notin Before /\ Len(log'[q]) <= Len(log[q])
<1>1. Pace /\ ~(faults < MaxFaults) /\ q \in Execs /\ q \notin Streams
  BY ExecAssumption DEF StreamPace, Pace, TypeOK, Execs
<1>2. body[q] # "live" /\ Len(<<>>) = 0 /\ Len(log[q]) \in Nat
  BY DEF LeaseInv, Before, Logging, TypeOK
<1> USE DEF store, worker, sweeper
<1>3. ASSUME log' = log \/ log' = [r \in Runs |-> <<>>] \/ log'[q] = log[q] \/ log'[q] = <<>>
      PROVE  Len(log'[q]) <= Len(log[q])
  BY <1>2, <1>3
<1>4. CASE UNCHANGED vars
  BY <1>3, <1>4 DEF vars
<1>5. CASE \E e \in Execs : Acquire(e) \/ Release(e) \/ Crash(e)
  BY <1>1, <1>3, <1>5 DEF Acquire, Release, Crash, TypeOK, Before, Logging
<1>6. CASE \E e \in Streams : StreamChunk(e) \/ StreamEnd(e)
  BY <1>1, <1>3, <1>6 DEF StreamChunk, StreamEnd, TypeOK
<1>7. ASSUME NEW r \in Runs, Create(r) \/ MarkRunning(r) \/ CheckRunning(r) \/ Poll(r) \/ Join(r) \/ JoinCancelled(r)
      PROVE  pc'[q] \notin Before /\ log' = log
  BY <1>1, <1>7 DEF Create, MarkRunning, CheckRunning, Poll, Join, JoinCancelled, Goto, TypeOK, Before, Logging
<1>8. ASSUME NEW r \in Runs, Finish(r) PROVE pc'[q] \notin Before /\ log'[q] = log[q]
  <2>1. CASE q = r
    BY <1>1, <1>8, <2>1 DEF Finish, LogOutcome, WriteOutcome, Goto, TypeOK, Before, Logging
  <2>2. CASE q # r
    BY <1>1, <1>8, <2>2 DEF Finish, LogOutcome, WriteOutcome, AppendEvent, Goto, TypeOK
  <2> QED BY <2>1, <2>2
<1>9. ASSUME NEW r \in Runs, DriverPurge(r) PROVE pc'[q] \notin Before /\ (log'[q] = log[q] \/ log'[q] = <<>>)
  BY <1>1, <1>9 DEF DriverPurge, PurgeRead, PurgeDelete, Goto, TypeOK, Before, Logging
<1>10. ASSUME NEW r \in Runs, Shutdown(r) PROVE pc'[q] \notin Before /\ log' = log
  BY <1>1, <1>10 DEF Shutdown, OnShutdown, Goto, TypeOK, Before, Logging
<1>11. ASSUME NEW r \in Runs, BodyStep(r) PROVE pc'[q] = pc[q] /\ log'[q] = log[q]
  <2>1. r # q /\ pc' = pc
    BY <1>2, <1>11 DEF BodyStep, BodyHeartbeat, BodyFails, BodyEvent, BodyMoves
  <2> QED BY <1>11, <2>1 DEF BodyStep, BodyHeartbeat, BodyFails, BodyEvent, AppendEvent, TypeOK
<1>12. ASSUME NEW c \in Cancels, CancelWrite(c) \/ \E r \in Runs : CancelRead(c, r) PROVE UNCHANGED <<pc, log>>
  BY <1>12 DEF CancelWrite, CancelRead
<1>13. ASSUME NEW s \in Sweepers, SweepStep(s) \/ SweepAbort(s) \/ SweepPurge(s)
       PROVE  pc' = pc /\ (log'[q] = log[q] \/ log'[q] = <<>>)
  BY <1>13 DEF SweepStep, SweepReleases, SweepRead, SweepMark, SweepRelease, SweepAbort, SweepPurge, PurgeRead, PurgeDelete
<1>14. CASE PurgeStaleLeases \/ Tick
  BY <1>3, <1>14 DEF PurgeStaleLeases, Tick
<1> QED BY <1>1, <1>3, <1>4, <1>5, <1>6, <1>7, <1>8, <1>9, <1>10, <1>11, <1>12, <1>13, <1>14
        DEF Next, RunStep, CreateFault, DriverFault

\* A client that saw its stream end has seen every event of its run (events_after and get of
\* routes/resource_management.py beside _drive and fail_stale), for any runs, sweepers and
\* requests, at the pace the executions and the sweep rely on.
THEOREM EndedStreamsAreComplete == ASSUME StreamPace PROVE StreamSpec => []EndedStreamIsComplete
<1>1. StreamInit => Init /\ LogsInTime /\ EndFits
  BY ExecAssumption DEF StreamInit, Init, LogsInTime, InTime, EndFits, Logging, Execs
<1>2. [StreamNext]_streamVars => [Next]_vars
  BY DEF StreamNext, streamVars
<1>3. TypeOK /\ LeaseInv /\ LogsInTime /\ [Next]_vars => LogsInTime'
  BY LogsInTimeStep
<1>4. TypeOK /\ TypeOK' /\ LeaseInv /\ LogsInTime /\ EndFits /\ [StreamNext]_streamVars => EndFits'
  <2> SUFFICES ASSUME TypeOK, TypeOK', LeaseInv, LogsInTime, EndFits, [StreamNext]_streamVars PROVE EndFits'
    OBVIOUS
  <2>1. cursor \in Nat /\ Watched \in Runs /\ Len(log[Watched]) \in Nat /\ Len(log'[Watched]) \in Nat
    BY WatchedAssumption DEF EndFits, TypeOK
  <2>2. CASE UNCHANGED readerVars /\ [Next]_vars
    <3>1. pc[Watched] \notin Before => pc'[Watched] \notin Before /\ Len(log'[Watched]) <= Len(log[Watched])
      BY <2>1, <2>2, LogRests
    <3> QED BY <2>1, <2>2, <3>1 DEF EndFits, readerVars
  <2>3. CASE (Open \/ ReadEvents) /\ UNCHANGED vars
    <3>1. cursor' \in Nat /\ reader' # "ended"
      BY <2>1, <2>3 DEF Open, Afters, ReadEvents
    <3> QED BY <3>1 DEF EndFits
  <2>4. CASE ReadStatus /\ UNCHANGED vars
    <3>1. reader' = "ended" => status[Watched] \in Terminal /\ cursor >= Len(log[Watched])
      BY <2>4 DEF ReadStatus
    <3>2. status[Watched] \in Terminal => pc[Watched] \notin Before
      BY <2>1, RunTypes DEF LogsInTime, InTime, Before, Active, Terminal
    <3> QED BY <2>1, <2>4, <3>1, <3>2 DEF EndFits, ReadStatus, vars, store, worker
  <2> QED BY <2>2, <2>3, <2>4 DEF StreamNext, ReaderStep, streamVars
<1>5. EndFits => EndedStreamIsComplete
  BY DEF EndFits, EndedStreamIsComplete
<1>6. StreamSpec => Spec
  BY <1>1, <1>2, PTL DEF StreamSpec, Spec
<1>7. Spec => []LeaseInv
  BY LeaseInvHolds DEF StreamPace
<1> QED BY <1>1, <1>2, <1>3, <1>4, <1>5, <1>6, <1>7, TypeCorrect, PTL DEF StreamSpec
=============================================================================
