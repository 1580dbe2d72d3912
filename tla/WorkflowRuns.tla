---------------------------- MODULE WorkflowRuns ----------------------------
(***************************************************************************)
(* Executions of agents and workflows: the lease that admits one execution *)
(* per user and resource (storage/resource_executions.py), the persisted   *)
(* workflow runs and their event log (storage/workflow_runs.py), the task  *)
(* that drives a run (services/workflow_run_executor.py), the routes that  *)
(* start and cancel one (routes/resource_management.py) and the background *)
(* sweep that fails the runs of dead workers.                              *)
(*                                                                         *)
(* The database is shared by every worker process; a statement, or a       *)
(* transaction, is one step.  Time is a Tick that ages heartbeats: an age  *)
(* counts the ticks since heartbeat_at and saturates one tick after its    *)
(* limit.                                                                  *)
(***************************************************************************)
EXTENDS Integers, Sequences, FiniteSets

CONSTANTS
    Runs,            \* persisted workflow runs (execution with a run_id)
    Streams,         \* executions bound to one HTTP response: chat, SSE run
    Keys,            \* (user, resource type, canonical owner, canonical id)
    KeyOf,           \* [Runs \cup Streams -> Keys]
    Cancels,         \* concurrent POST /workflow-runs/{id}/cancel requests
    Sweepers,        \* maintenance loops and GET /workflow-runs requests
    None,
    RunStale,        \* fail_stale(seconds=120), in ticks
    LeaseStale,      \* RESOURCE_EXECUTION_STALE_SECONDS, in ticks
    HeartbeatEvery,  \* RESOURCE_EXECUTION_HEARTBEAT_SECONDS, in ticks
    Prompt,          \* TRUE: a live worker never pauses more than MaxPause
    MaxPause,
    MaxSteps,        \* bound on the events a workflow body logs
    MaxFaults        \* bound on the database calls that raise

Execs == Runs \cup Streams

ASSUME ExecAssumption ==
    /\ Runs \cap Streams = {}
    /\ None \notin Execs
    /\ KeyOf \in [Execs -> Keys]
    /\ Prompt \in BOOLEAN

ASSUME BoundAssumption ==
    /\ RunStale \in Nat
    /\ LeaseStale \in Nat
    /\ HeartbeatEvery \in Nat
    /\ MaxPause \in Nat
    /\ MaxSteps \in Nat
    /\ MaxFaults \in Nat

VARIABLES
    lease,     \* execution_id of the row of each key, None without a row
    leaseAge,  \* age of its heartbeat_at, 0 without a row
    status,    \* workflow_runs.status, "absent" without a row
    runAge,    \* age of its heartbeat_at
    log,       \* workflow_run_events, by sequence
    pc,        \* next step of the request and task that own an execution
    body,      \* the task that consumes run_workflow
    idle,      \* ticks since the execution last made progress
    beat,      \* ticks since its last lease heartbeat attempt, saturated
    batch,     \* [Sweepers -> SUBSET Runs] rows fail_stale has read
    sweepPc,
    doomed,    \* run ids a purge has read and will delete
    asked,     \* [Cancels -> Runs \cup {None}] cancel about to be written
    faults     \* database errors so far

store   == <<lease, leaseAge, status, runAge, log>>
worker  == <<pc, body, idle, beat>>
sweeper == <<batch, sweepPc>>
vars    == <<store, worker, sweeper, doomed, asked, faults>>

Active   == {"queued", "running", "cancelling"}
Terminal == {"cancelled", "completed", "failed"}
Events   == {"step", "done", "error", "cancelled"}
Purgers  == Runs \cup Sweepers

(* Where an exception raised by the call at each point of _drive goes: to   *)
(* the last-resort handler, or past it to the finally clause.               *)
OnError ==
    [starting |-> "failEvent", marked |-> "failEvent", watching |-> "failEvent",
     finishing |-> "failEvent", purging |-> "failEvent", deleting |-> "failEvent",
     cancelEvent |-> "failEvent", cancelStatus |-> "failEvent",
     failEvent |-> "releasing", failStatus |-> "releasing",
     stopping |-> "releasing", releasing |-> "ended"]

(* Where the CancelledError of a worker shutdown goes: the handlers of a    *)
(* try statement do not cover each other, nor the finally clause.           *)
OnShutdown ==
    [starting |-> "stopping", marked |-> "stopping", watching |-> "stopping",
     finishing |-> "stopping", purging |-> "stopping", deleting |-> "stopping",
     cancelEvent |-> "stopping", cancelStatus |-> "stopping",
     failEvent |-> "releasing", failStatus |-> "releasing",
     releasing |-> "ended"]

Points == DOMAIN OnError \cup
          {"idle", "leased", "joining", "streaming", "ended", "dead"}

TypeOK ==
    /\ lease \in [Keys -> Execs \cup {None}]
    /\ leaseAge \in [Keys -> 0 .. LeaseStale + 1]
    /\ status \in [Runs -> Active \cup Terminal \cup {"absent"}]
    /\ runAge \in [Runs -> 0 .. RunStale + 1]
    /\ log \in [Runs -> Seq(Events)]
    /\ pc \in [Execs -> Points]
    /\ body \in [Runs -> {"none", "live", "done", "failed", "cancelled"}]
    /\ idle \in [Execs -> Nat]
    /\ beat \in [Execs -> 0 .. HeartbeatEvery]
    /\ batch \in [Sweepers -> SUBSET Runs]
    /\ sweepPc \in [Sweepers -> {"read", "mark", "release"}]
    /\ doomed \in [Purgers -> SUBSET Runs]
    /\ asked \in [Cancels -> Runs \cup {None}]
    /\ faults \in 0 .. MaxFaults

Init ==
    /\ lease = [k \in Keys |-> None]
    /\ leaseAge = [k \in Keys |-> 0]
    /\ status = [r \in Runs |-> "absent"]
    /\ runAge = [r \in Runs |-> 0]
    /\ log = [r \in Runs |-> <<>>]
    /\ pc = [e \in Execs |-> "idle"]
    /\ body = [r \in Runs |-> "none"]
    /\ idle = [e \in Execs |-> 0]
    /\ beat = [e \in Execs |-> 0]
    /\ batch = [s \in Sweepers |-> {}]
    /\ sweepPc = [s \in Sweepers |-> "read"]
    /\ doomed = [p \in Purgers |-> {}]
    /\ asked = [c \in Cancels |-> None]
    /\ faults = 0

-----------------------------------------------------------------------------
(* Leases *)

Stale(k) == leaseAge[k] > LeaseStale

Holds(e) == lease[KeyOf[e]] = e

(* DELETE of the rows of some keys. *)
Drop(keys) ==
    /\ lease' = [k \in Keys |-> IF k \in keys THEN None ELSE lease[k]]
    /\ leaseAge' = [k \in Keys |-> IF k \in keys THEN 0 ELSE leaseAge[k]]

KeysHeldBy(e) == {k \in Keys : lease[k] = e}

(* acquire: drop the conflicting row if it is stale, INSERT OR IGNORE, and  *)
(* read back; a live row of somebody else answers 409 and changes nothing.  *)
Acquire(e) ==
    /\ pc[e] = "idle"
    /\ lease[KeyOf[e]] = None \/ Stale(KeyOf[e])
    /\ lease' = [lease EXCEPT ![KeyOf[e]] = e]
    /\ leaseAge' = [leaseAge EXCEPT ![KeyOf[e]] = 0]
    /\ pc' = [pc EXCEPT ![e] = IF e \in Runs THEN "leased" ELSE "streaming"]
    /\ idle' = [idle EXCEPT ![e] = 0]
    /\ beat' = [beat EXCEPT ![e] = 0]
    /\ UNCHANGED <<status, runAge, log, body, sweeper, doomed, asked, faults>>

(* A slip: the attempt is noted and the row is never written. *)
HeartbeatForgotten(e) ==
    /\ beat' = [beat EXCEPT ![e] = 0]
    /\ UNCHANGED <<leaseAge, faults>>

(* heartbeat: throttled by the clock of the process; the attempt is noted   *)
(* before the write, whose failure is only logged.                          *)
Heartbeat(e) ==
    IF beat[e] < HeartbeatEvery
    THEN UNCHANGED <<leaseAge, beat, faults>>
    ELSE /\ beat' = [beat EXCEPT ![e] = 0]
         /\ \/ /\ leaseAge' = IF Holds(e)
                              THEN [leaseAge EXCEPT ![KeyOf[e]] = 0]
                              ELSE leaseAge
               /\ UNCHANGED faults
            \/ /\ faults < MaxFaults
               /\ faults' = faults + 1
               /\ UNCHANGED leaseAge

(* A slip: DELETE ... WHERE execution_key alone. *)
ReleaseByKey(e) ==
    /\ pc[e] = "releasing"
    /\ Drop({KeyOf[e]})
    /\ pc' = [pc EXCEPT ![e] = "ended"]
    /\ idle' = [idle EXCEPT ![e] = 0]
    /\ UNCHANGED <<status, runAge, log, body, beat, sweeper, doomed, asked, faults>>

(* release: DELETE ... WHERE execution_key AND execution_id. *)
Release(e) ==
    /\ pc[e] = "releasing"
    /\ Drop(KeysHeldBy(e))
    /\ pc' = [pc EXCEPT ![e] = "ended"]
    /\ idle' = [idle EXCEPT ![e] = 0]
    /\ UNCHANGED <<status, runAge, log, body, beat,
                   sweeper, doomed, asked, faults>>

(* purge_stale, from the hourly round of the maintenance loop. *)
PurgeStaleLeases ==
    /\ \E k \in Keys : Stale(k)
    /\ Drop({k \in Keys : Stale(k)})
    /\ UNCHANGED <<status, runAge, log, worker, sweeper, doomed, asked, faults>>

-----------------------------------------------------------------------------
(* Executions bound to a response: run_saved_workflow and the agent chat.   *)

StreamChunk(e) ==
    /\ pc[e] = "streaming"
    /\ Heartbeat(e)
    /\ idle' = [idle EXCEPT ![e] = 0]
    /\ UNCHANGED <<lease, status, runAge, log, pc, body, sweeper, doomed, asked>>

StreamEnd(e) ==
    /\ pc[e] = "streaming"
    /\ pc' = [pc EXCEPT ![e] = "releasing"]
    /\ idle' = [idle EXCEPT ![e] = 0]
    /\ UNCHANGED <<store, body, beat, sweeper, doomed, asked, faults>>

-----------------------------------------------------------------------------
(* Persisted runs: the tables *)

(* set_status: UPDATE ... WHERE id=?, whatever the status was. *)
SetStatus(r, s) ==
    IF status[r] = "absent"
    THEN UNCHANGED <<status, runAge>>
    ELSE /\ status' = [status EXCEPT ![r] = s]
         /\ runAge' = [runAge EXCEPT ![r] = 0]

(* append_event on a run that exists; without a row it raises KeyError. *)
AppendEvent(r, ev) ==
    /\ log' = [log EXCEPT ![r] = Append(@, ev)]
    /\ runAge' = [runAge EXCEPT ![r] = 0]

(* The route start_saved_workflow_run: insert the run, start the task. *)
Create(r) ==
    /\ pc[r] = "leased"
    /\ status' = [status EXCEPT ![r] = "queued"]
    /\ runAge' = [runAge EXCEPT ![r] = 0]
    /\ pc' = [pc EXCEPT ![r] = "starting"]
    /\ idle' = [idle EXCEPT ![r] = 0]
    /\ UNCHANGED <<lease, leaseAge, log, body, beat, sweeper, doomed, asked, faults>>

(* create raises: before the insert, or when it reads the row back. *)
CreateFault(r) ==
    /\ pc[r] = "leased"
    /\ faults < MaxFaults
    /\ faults' = faults + 1
    /\ status' \in {status, [status EXCEPT ![r] = "queued"]}
    /\ pc' = [pc EXCEPT ![r] = "releasing"]
    /\ idle' = [idle EXCEPT ![r] = 0]
    /\ UNCHANGED <<lease, leaseAge, runAge, log, body, beat, sweeper, doomed, asked>>

-----------------------------------------------------------------------------
(* Persisted runs: the driver task, _drive *)

(* A step of the driver that moves to a point and touches no lease. *)
Goto(r, point) ==
    /\ pc' = [pc EXCEPT ![r] = point]
    /\ idle' = [idle EXCEPT ![r] = 0]
    /\ UNCHANGED <<lease, leaseAge, beat, sweeper, asked>>

(* A slip: UPDATE ... WHERE id=?, without the status. *)
MarkRunningAlways(r) ==
    /\ pc[r] = "starting"
    /\ SetStatus(r, "running")
    /\ Goto(r, "marked")
    /\ UNCHANGED <<log, body, doomed, faults>>

(* mark_running: UPDATE ... WHERE status='queued'. *)
MarkRunning(r) ==
    /\ pc[r] = "starting"
    /\ IF status[r] = "queued"
       THEN SetStatus(r, "running")
       ELSE UNCHANGED <<status, runAge>>
    /\ Goto(r, "marked")
    /\ UNCHANGED <<log, body, doomed, faults>>

(* ... and the read that decides whether the body starts. *)
CheckRunning(r) ==
    /\ pc[r] = "marked"
    /\ body' = [body EXCEPT ![r] = IF status[r] = "running" THEN "live" ELSE @]
    /\ Goto(r, CASE status[r] = "running"    -> "watching"
                 [] status[r] = "cancelling" -> "cancelEvent"
                 [] OTHER                    -> "releasing")
    /\ UNCHANGED <<status, runAge, log, doomed, faults>>

(* The poll after a second without an answer asks the body to stop. *)
Poll(r) ==
    /\ pc[r] = "watching"
    /\ status[r] \in {"absent", "cancelling"}
    /\ pc' = [pc EXCEPT ![r] = "joining"]
    /\ UNCHANGED <<store, body, idle, beat, sweeper, doomed, asked, faults>>

(* await execution, once the body has finished by itself. *)
Join(r) ==
    /\ pc[r] \in {"watching", "joining"}
    /\ body[r] \in {"done", "failed"}
    /\ Goto(r, IF body[r] = "done" THEN "finishing" ELSE "failEvent")
    /\ UNCHANGED <<status, runAge, log, body, doomed, faults>>

(* await execution, ended by the cancellation. *)
JoinCancelled(r) ==
    /\ pc[r] = "joining"
    /\ body[r] = "live"
    /\ body' = [body EXCEPT ![r] = "cancelled"]
    /\ Goto(r, "cancelEvent")
    /\ UNCHANGED <<status, runAge, log, doomed, faults>>

(* The two handlers that log an event and then write the status. *)
LogOutcome(r, at, ev, then) ==
    /\ pc[r] = at
    /\ IF status[r] = "absent"
       THEN Goto(r, OnError[at]) /\ UNCHANGED <<log, runAge>>
       ELSE Goto(r, then) /\ AppendEvent(r, ev)
    /\ UNCHANGED <<status, body, doomed, faults>>

WriteOutcome(r, at, s, then) ==
    /\ pc[r] = at
    /\ SetStatus(r, s)
    /\ Goto(r, then)
    /\ UNCHANGED <<log, body, doomed, faults>>

(* A slip: the status is written before the event that explains it. *)
FinishStatusFirst(r) ==
    \/ WriteOutcome(r, "finishing", "completed", "purging")
    \/ WriteOutcome(r, "cancelEvent", "cancelled", "cancelStatus")
    \/ LogOutcome(r, "cancelStatus", "cancelled", "releasing")
    \/ WriteOutcome(r, "failEvent", "failed", "failStatus")
    \/ LogOutcome(r, "failStatus", "error", "releasing")
    \/ WriteOutcome(r, "stopping", "failed", "releasing")

Finish(r) ==
    \/ WriteOutcome(r, "finishing", "completed", "purging")
    \/ LogOutcome(r, "cancelEvent", "cancelled", "cancelStatus")
    \/ WriteOutcome(r, "cancelStatus", "cancelled", "releasing")
    \/ LogOutcome(r, "failEvent", "error", "failStatus")
    \/ WriteOutcome(r, "failStatus", "failed", "releasing")
    \/ WriteOutcome(r, "stopping", "failed", "releasing")

(* A database call of the driver raises.  When it is the poll, the body     *)
(* task is left running.                                                    *)
DriverFault(r) ==
    /\ pc[r] \in DOMAIN OnError
    /\ faults < MaxFaults
    /\ faults' = faults + 1
    /\ doomed' = [doomed EXCEPT ![r] = {}]
    /\ Goto(r, OnError[pc[r]])
    /\ UNCHANGED <<status, runAge, log, body>>

(* stop_workflow_runs cancels the task.  The body is cancelled and awaited; *)
(* one that was left running ends with the event loop.                      *)
Shutdown(r) ==
    /\ pc[r] \in DOMAIN OnShutdown
    /\ body' = [body EXCEPT ![r] = IF @ = "live" THEN "cancelled" ELSE @]
    /\ doomed' = [doomed EXCEPT ![r] = {}]
    /\ Goto(r, OnShutdown[pc[r]])
    /\ UNCHANGED <<status, runAge, log, faults>>

(* The worker process dies, or the response that would have released the    *)
(* lease is never iterated.                                                 *)
Crash(e) ==
    /\ pc[e] \notin {"idle", "dead"}
    /\ pc[e] = "ended" => e \in Runs /\ body[e] = "live"
    /\ pc' = [pc EXCEPT ![e] = "dead"]
    /\ idle' = [idle EXCEPT ![e] = 0]
    /\ body' = [r \in Runs |->
                   IF r = e /\ body[r] = "live" THEN "cancelled" ELSE body[r]]
    /\ doomed' = [p \in Purgers |-> IF p = e THEN {} ELSE doomed[p]]
    /\ UNCHANGED <<store, beat, sweeper, asked, faults>>

-----------------------------------------------------------------------------
(* Persisted runs: the body task, _consume over run_workflow *)

BodyMoves(r) ==
    /\ body[r] = "live"
    /\ idle' = [idle EXCEPT ![r] = 0]
    /\ UNCHANGED <<lease, status, pc, sweeper, doomed, asked>>

(* A heartbeat event: touch the run, renew the lease. *)
BodyHeartbeat(r) ==
    /\ BodyMoves(r)
    /\ Heartbeat(r)
    /\ runAge' = [runAge EXCEPT ![r] = 0]
    /\ UNCHANGED <<log, body>>

(* Any other event: renew the lease, append; workflow_done ends the body.   *)
BodyEvent(r, ev) ==
    /\ BodyMoves(r)
    /\ Heartbeat(r)
    /\ ev = "step" => Len(log[r]) < MaxSteps
    /\ IF status[r] = "absent"
       THEN /\ body' = [body EXCEPT ![r] = "failed"]
            /\ UNCHANGED <<log, runAge>>
       ELSE /\ body' = [body EXCEPT ![r] = IF ev = "done" THEN "done" ELSE @]
            /\ AppendEvent(r, ev)

(* An agent, the quota or a write of the event log raises. *)
BodyFails(r) ==
    /\ BodyMoves(r)
    /\ body' = [body EXCEPT ![r] = "failed"]
    /\ UNCHANGED <<leaseAge, runAge, log, beat, faults>>

-----------------------------------------------------------------------------
(* Cancel requests *)

(* request_cancel reads the row ... *)
CancelRead(c, r) ==
    /\ asked[c] = None
    /\ status[r] \in {"queued", "running"}
    /\ asked' = [asked EXCEPT ![c] = r]
    /\ UNCHANGED <<store, worker, sweeper, doomed, faults>>

(* ... and then writes 'cancelling' over whatever it has become. *)
CancelWrite(c) ==
    /\ asked[c] # None
    /\ SetStatus(asked[c], "cancelling")
    /\ asked' = [asked EXCEPT ![c] = None]
    /\ UNCHANGED <<lease, leaseAge, log, worker, sweeper, doomed, faults>>

-----------------------------------------------------------------------------
(* fail_stale and purge *)

(* A slip: only running rows are looked at. *)
StaleRunningRuns == {r \in Runs : status[r] = "running" /\ runAge[r] > RunStale}

StaleRuns == {r \in Runs : status[r] \in Active /\ runAge[r] > RunStale}

SweepRead(s) ==
    /\ sweepPc[s] = "read"
    /\ StaleRuns # {}
    /\ batch' = [batch EXCEPT ![s] = StaleRuns]
    /\ sweepPc' = [sweepPc EXCEPT ![s] = "mark"]
    /\ UNCHANGED <<store, worker, doomed, asked, faults>>

(* mark_failed: UPDATE ... WHERE id=? for each row read, one commit. *)
SweepMark(s) ==
    /\ sweepPc[s] = "mark"
    /\ status' = [r \in Runs |->
                     IF r \in batch[s] /\ status[r] # "absent"
                     THEN "failed" ELSE status[r]]
    /\ sweepPc' = [sweepPc EXCEPT ![s] = "release"]
    /\ UNCHANGED <<lease, leaseAge, runAge, log, worker, batch, doomed, asked, faults>>

(* safe_release_run: DELETE ... WHERE run_id=?. *)
SweepRelease(s, r) ==
    /\ sweepPc[s] = "release"
    /\ r \in batch[s]
    /\ Drop(KeysHeldBy(r))
    /\ batch' = [batch EXCEPT ![s] = @ \ {r}]
    /\ sweepPc' = [sweepPc EXCEPT ![s] = IF batch[s] = {r} THEN "read" ELSE @]
    /\ UNCHANGED <<status, runAge, log, worker, doomed, asked, faults>>

(* The round dies with its worker, or its error is logged by the loop. *)
SweepAbort(s) ==
    /\ sweepPc[s] # "read"
    /\ batch' = [batch EXCEPT ![s] = {}]
    /\ sweepPc' = [sweepPc EXCEPT ![s] = "read"]
    /\ UNCHANGED <<store, worker, doomed, asked, faults>>

(* purge: read the finished runs past the retention or the history limit    *)
(* (any of them: neither the calendar nor other runs are modelled) ...      *)
PurgeRead(p, old) ==
    /\ old \subseteq {r \in Runs : status[r] \in Terminal}
    /\ doomed' = [doomed EXCEPT ![p] = old]
    /\ UNCHANGED <<status, runAge, log, body, faults>>

(* ... and delete them, events first, in one transaction. *)
PurgeDelete(p) ==
    /\ status' = [r \in Runs |-> IF r \in doomed[p] THEN "absent" ELSE status[r]]
    /\ log' = [r \in Runs |-> IF r \in doomed[p] THEN <<>> ELSE log[r]]
    /\ doomed' = [doomed EXCEPT ![p] = {}]
    /\ UNCHANGED <<runAge, body, faults>>

(* The driver purges once its run is completed ... *)
DriverPurge(r) ==
    \/ /\ pc[r] = "purging"
       /\ \E old \in SUBSET Runs : PurgeRead(r, old)
       /\ Goto(r, "deleting")
    \/ /\ pc[r] = "deleting"
       /\ PurgeDelete(r)
       /\ Goto(r, "releasing")

(* ... and the maintenance loop every hour. *)
SweepPurge(s) ==
    /\ \/ doomed[s] = {} /\ \E old \in SUBSET Runs \ {{}} : PurgeRead(s, old)
       \/ doomed[s] # {} /\ PurgeDelete(s)
    /\ UNCHANGED <<lease, leaseAge, pc, idle, beat, sweeper, asked>>

-----------------------------------------------------------------------------
(* Time *)

(* The execution has code running in some worker. *)
Alive(e) ==
    \/ pc[e] \notin {"idle", "ended", "dead"}
    \/ e \in Runs /\ body[e] = "live"

(* A slip: saturates one tick too late. *)
OlderByOne(age, limit) == IF age > limit + 1 THEN age ELSE age + 1

Older(age, limit) == IF age > limit THEN age ELSE age + 1

Tick ==
    /\ Prompt => \A e \in Execs : Alive(e) => idle[e] < MaxPause
    /\ leaseAge' = [k \in Keys |->
                       IF lease[k] = None THEN leaseAge[k]
                       ELSE Older(leaseAge[k], LeaseStale)]
    /\ runAge' = [r \in Runs |->
                     IF status[r] \in Active THEN Older(runAge[r], RunStale)
                     ELSE runAge[r]]
    /\ idle' = [e \in Execs |->
                   IF Prompt /\ Alive(e) THEN idle[e] + 1 ELSE idle[e]]
    /\ beat' = [e \in Execs |->
                   IF Alive(e) /\ beat[e] < HeartbeatEvery
                   THEN beat[e] + 1 ELSE beat[e]]
    /\ UNCHANGED <<lease, status, log, pc, body, sweeper, doomed, asked, faults>>

-----------------------------------------------------------------------------
RunStep(r) ==
    \/ Create(r) \/ MarkRunning(r) \/ CheckRunning(r) \/ Poll(r)
    \/ Join(r) \/ JoinCancelled(r) \/ Finish(r) \/ DriverPurge(r)

BodyStep(r) ==
    \/ BodyHeartbeat(r)
    \/ BodyFails(r)
    \/ \E ev \in {"step", "done"} : BodyEvent(r, ev)

SweepReleases(s) == \E r \in Runs : SweepRelease(s, r)

SweepStep(s) == SweepRead(s) \/ SweepMark(s) \/ SweepReleases(s)

Next ==
    \/ \E e \in Execs : Acquire(e) \/ Release(e) \/ Crash(e)
    \/ \E e \in Streams : StreamChunk(e) \/ StreamEnd(e)
    \/ \E r \in Runs : RunStep(r) \/ BodyStep(r)
    \/ \E r \in Runs : CreateFault(r) \/ DriverFault(r) \/ Shutdown(r)
    \/ \E c \in Cancels : CancelWrite(c) \/ \E r \in Runs : CancelRead(c, r)
    \/ \E s \in Sweepers : SweepStep(s) \/ SweepAbort(s) \/ SweepPurge(s)
    \/ PurgeStaleLeases
    \/ Tick

Spec == Init /\ [][Next]_vars

(* What the event loops and the maintenance loops guarantee: tasks that can *)
(* run do run, agents answer or time out, clocks advance, a maintenance     *)
(* round that keeps being due is not interrupted for ever.  Nobody has to   *)
(* start, cancel or kill anything.                                          *)
Fairness ==
    /\ \A r \in Runs : /\ WF_vars(RunStep(r))
                       /\ WF_vars(BodyFails(r) \/ BodyEvent(r, "done"))
    /\ \A e \in Streams : WF_vars(StreamEnd(e))
    /\ \A e \in Execs : WF_vars(Release(e))
    /\ \A c \in Cancels : WF_vars(CancelWrite(c))
    /\ \A s \in Sweepers : /\ WF_vars(SweepRead(s))
                           /\ SF_vars(SweepMark(s))
                           /\ WF_vars(SweepReleases(s))
    /\ WF_vars(PurgeStaleLeases)
    /\ WF_vars(Tick)

FairSpec == Spec /\ Fairness

-----------------------------------------------------------------------------
(* Properties *)

Executing(e) == IF e \in Runs THEN body[e] = "live" ELSE pc[e] = "streaming"

Working == [k \in Keys |-> {e \in Execs : KeyOf[e] = k /\ Executing(e)}]

(* The executions at work on each key take turns: acquire admits nobody     *)
(* while the body of a run or the generator of a stream is still going      *)
(* (resource_executions.py docstring).  It needs prompt workers.            *)
OE == INSTANCE OneExecution WITH working <- Working

OneExecutionAtATime == OE!Spec

(* A row of resource_executions disappears or changes hands only when its   *)
(* execution releases it, when it is stale, or when fail_stale has given    *)
(* the run up: no release of an execution that lost its lease deletes the   *)
(* row of the next one.                                                     *)
LeaseLost(k) ==
    \/ Stale(k)
    \/ pc[lease[k]] = "releasing"
    \/ \E s \in Sweepers : sweepPc[s] = "release" /\ lease[k] \in batch[s]

OnlyOwnLeaseReleased ==
    [][\A k \in Keys : lease[k] \notin {None, lease'[k]} => LeaseLost(k)]_vars

(* A run that was asked to stop, failed by the sweep or finished is never   *)
(* queued or running again, and its body does not start (mark_running).     *)
NeverRunsAgain ==
    [][\A r \in Runs : status[r] \in Terminal \cup {"cancelling"} =>
          /\ status'[r] \notin {"queued", "running"}
          /\ body'[r] = "live" => body[r] = "live"]_vars

(* A reader that sees 'completed' or 'cancelled' finds the event that says  *)
(* so in the log: events are appended before the status is written.         *)
OutcomeIsLogged ==
    \A r \in Runs :
        /\ status[r] = "completed" => \E i \in DOMAIN log[r] : log[r][i] = "done"
        /\ status[r] = "cancelled" => \E i \in DOMAIN log[r] : log[r][i] = "cancelled"

(* Whatever dies, no run stays active and no lease is kept for ever          *)
(* (workflow_run_maintenance_loop).                                         *)
EverythingEnds ==
    /\ \A r \in Runs : status[r] \in Active ~> status[r] \notin Active
    /\ \A e \in Execs : Holds(e) ~> ~Holds(e)

-----------------------------------------------------------------------------
(* Why turns are taken: the strengthening of OneExecutionAtATime that every *)
(* step preserves.                                                          *)

(* The pace the leases rely on.  Three statements separate the acquisition  *)
(* from the first event of a body, two the row from its first heartbeat,    *)
(* and the throttle may add HeartbeatEvery - 1 to the age of a lease.       *)
Pace ==
    /\ Prompt
    /\ MaxFaults = 0
    /\ 4 * MaxPause <= LeaseStale
    /\ HeartbeatEvery + MaxPause <= LeaseStale + 1
    /\ 2 * MaxPause <= RunStale

(* e is executing, or may still become so: no request to stop has come.     *)
Admitted(e) ==
    \/ e \in Streams /\ pc[e] = "streaming"
    \/ /\ e \in Runs
       /\ \/ pc[e] = "leased"
          \/ pc[e] = "starting" /\ status[e] = "queued"
          \/ pc[e] = "marked" /\ status[e] = "running"
          \/ body[e] = "live"

(* How old the lease may have been when e last moved. *)
Grace(point) ==
    CASE point = "leased"   -> 0
      [] point = "starting" -> MaxPause
      [] point = "marked"   -> 2 * MaxPause
      [] OTHER              -> LeaseStale - MaxPause

(* e holds its lease, whose age its throttle does not underestimate. *)
Fresh(e) ==
    /\ Holds(e)
    /\ leaseAge[KeyOf[e]] <= Grace(pc[e]) + idle[e]
    /\ beat[e] < HeartbeatEvery => leaseAge[KeyOf[e]] <= beat[e]

(* fail_stale has not read the row of r, and will not while r moves. *)
Unswept(r) ==
    /\ \A s \in Sweepers : r \notin batch[s]
    /\ IF body[r] = "live" THEN runAge[r] <= MaxPause + idle[r]
       ELSE pc[r] \in {"starting", "marked"} => runAge[r] <= idle[r]

(* Whoever is executing holds a lease that is not stale. *)
LeaseInv ==
    /\ \A e \in Execs : idle[e] <= MaxPause
    /\ \A e \in Execs : Admitted(e) => Fresh(e)
    /\ \A r \in Runs : Admitted(r) => Unswept(r)
    /\ \A r \in Runs : body[r] = "live" => pc[r] \in {"watching", "joining"}
    /\ \A r \in Runs : pc[r] \in {"idle", "leased"} =>
          status[r] = "absent" /\ \A s \in Sweepers : r \notin batch[s]
    /\ \A r \in Runs : pc[r] = "starting" => status[r] # "running"
=============================================================================
