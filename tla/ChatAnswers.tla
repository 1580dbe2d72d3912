---- MODULE ChatAnswers ----
(***************************************************************************)
(* Streamed answers of an agent and the bounded executor that calls the     *)
(* LLM providers: one uvicorn worker, its event loop and its LLM threads.   *)
(* An answer is a response generator (_gen) that calls providers one after  *)
(* the other (the router of a balanced orchestration, then its candidates   *)
(* until one answers).  A call is a task of the loop that submits a job to  *)
(* the thread pool; the job returns its slot when the provider returns.     *)
(***************************************************************************)
EXTENDS Integers, FiniteSets

CONSTANTS Answers,        \* requests to chat with an agent
          Orchestrated,   \* those whose agent names an orchestration
          Balanced,       \* the orchestrations that ask a router LLM first
          Candidates,     \* connections of an orchestration
          MaxWorkers,     \* GAIA_LLM_MAX_THREADS
          MaxTokens,      \* bound: tokens of one answer
          Renewing        \* those with frames whose lease heartbeat goes to the database

ASSUME ChatAssumption ==
    /\ Balanced \subseteq Orchestrated /\ Orchestrated \subseteq Answers
    /\ Candidates \in Nat \ {0} /\ MaxWorkers \in Nat \ {0} /\ MaxTokens \in Nat
    /\ Renewing \subseteq Answers

VARIABLES free,      \* _slots: the semaphore of the executor
          llm_lease, \* LLMLease of the answer: none, held, used
          gen,       \* where _gen and the generators it iterates are
          call,      \* call of the answer: 0 the router, 1.. a candidate
          stream,    \* _stream_tokens of the call: none, open, closing, closed
          task,      \* provider_task of the call
          job,       \* its work item in the thread pool
          queue,     \* tokens posted to token_queue and not taken
          shown,     \* candidates whose tokens went to the client
          completed, \* ChatStreamState.completed
          interrupted, \* ChatStreamState.interrupted
          doneEvent, \* what done_event holds: none, done, error
          left,      \* the client closed the connection before the last frame
          saved      \* what _on_done recorded: none, done, interrupted

executor == <<free, llm_lease, task, job, queue>>
state == <<completed, interrupted, doneEvent, left, shown>>
vars == <<executor, state, gen, call, stream, saved>>

Calls(a) == 1..(IF a \in Orchestrated THEN Candidates ELSE 1)
Working == {"queued", "running"}          \* the job will still run its finally
Awaits(a) == {"preparing", "streaming"} \cup
             (IF a \in Renewing THEN {"answered"} ELSE {}) \cup
             (IF a \in Renewing \cap Orchestrated THEN {"choosing"} ELSE {})
Finished == {"done", "failed", "cancelled"}

Init ==
    /\ free = MaxWorkers
    /\ llm_lease = [a \in Answers |-> "none"]
    /\ gen = [a \in Answers |-> "idle"]
    /\ call = [a \in Answers |-> IF a \in Balanced THEN 0 ELSE 1]
    /\ stream = [a \in Answers |-> "none"]
    /\ task = [a \in Answers |-> "none"]
    /\ job = [a \in Answers |-> "none"]
    /\ queue = [a \in Answers |-> 0]
    /\ shown = [a \in Answers |-> {}]
    /\ completed = [a \in Answers |-> FALSE]
    /\ interrupted = [a \in Answers |-> FALSE]
    /\ doneEvent = [a \in Answers |-> "none"]
    /\ left = [a \in Answers |-> FALSE]
    /\ saved = [a \in Answers |-> "none"]

-----------------------------------------------------------------------------
(* The executor. *)

\* The route reserves a slot before it answers 200; without one it answers 429.
Reserve(a) ==
    /\ gen[a] = "idle" /\ free > 0
    /\ free' = free - 1
    /\ llm_lease' = [llm_lease EXCEPT ![a] = "held"]
    /\ gen' = [gen EXCEPT ![a] = "choosing"]
    /\ UNCHANGED <<state, call, stream, task, job, queue, saved>>

\* LLMExecutor.run takes the slot of the lease, or a new one; the job is queued.
Submit(a) ==
    /\ task[a] = "created"
    /\ \/ /\ llm_lease[a] = "held"
          /\ llm_lease' = [llm_lease EXCEPT ![a] = "used"]
          /\ free' = free
       \/ /\ llm_lease[a] = "used" /\ free > 0
          /\ free' = free - 1
          /\ llm_lease' = llm_lease
    /\ task' = [task EXCEPT ![a] = "waiting"]
    /\ job' = [job EXCEPT ![a] = "queued"]
    /\ UNCHANGED <<state, gen, call, stream, queue, saved>>

(* A slip: run() waits for a slot while the answer that asks holds none. *)
NoCapacityWaits(a) == FALSE

\* ... and LLMCapacityError without either.
NoCapacity(a) ==
    /\ task[a] = "created" /\ llm_lease[a] = "used" /\ free = 0
    /\ task' = [task EXCEPT ![a] = "failed"]
    /\ UNCHANGED <<free, llm_lease, job, queue, state, gen, call, stream, saved>>

JobStarts(a) ==
    /\ job[a] = "queued"
    /\ job' = [job EXCEPT ![a] = "running"]
    /\ UNCHANGED <<free, llm_lease, task, queue, state, gen, call, stream, saved>>

JobToken(a) ==
    /\ job[a] = "running" /\ queue[a] < MaxTokens
    /\ queue' = [queue EXCEPT ![a] = @ + 1]
    /\ UNCHANGED <<free, llm_lease, task, job, state, gen, call, stream, saved>>

(* A slip: the thread gives its slot back twice. *)
JobEndsTwice(a) ==
    /\ job[a] = "running"
    /\ free' = free + 2
    /\ \E outcome \in {"returned", "raised"} : job' = [job EXCEPT ![a] = outcome]
    /\ UNCHANGED <<llm_lease, task, queue, state, gen, call, stream, saved>>

\* invoke's finally returns the slot, then the future gets its outcome.
JobEnds(a) ==
    /\ job[a] = "running"
    /\ free' = free + 1
    /\ \E outcome \in {"returned", "raised"} : job' = [job EXCEPT ![a] = outcome]
    /\ UNCHANGED <<llm_lease, task, queue, state, gen, call, stream, saved>>

TaskEnds(a) ==
    /\ task[a] = "waiting" /\ job[a] \in {"returned", "raised"}
    /\ task' = [task EXCEPT ![a] = IF job[a] = "returned" THEN "done" ELSE "failed"]
    /\ UNCHANGED <<free, llm_lease, job, queue, state, gen, call, stream, saved>>

\* provider_task.cancel(): a queued job is dropped with its future.
CancelTask(a) ==
    /\ task' = [task EXCEPT ![a] = "cancelled"]
    /\ job' = [job EXCEPT ![a] = IF @ = "queued" THEN "dropped" ELSE @]

-----------------------------------------------------------------------------
(* The generators: _gen > stream_orchestrated_chat > stream_chat >
   _stream_tokens. *)

\* The next connection of the ranking is missing or inactive.
Skip(a) ==
    /\ gen[a] = "choosing" /\ a \in Orchestrated /\ call[a] \in Calls(a)
    /\ call' = [call EXCEPT ![a] = @ + 1]
    /\ UNCHANGED <<executor, state, gen, stream, saved>>

Choose(a) ==
    /\ gen[a] = "choosing" /\ call[a] \in Calls(a) \cup {0}
    /\ gen' = [gen EXCEPT ![a] = "preparing"]
    /\ UNCHANGED <<executor, state, call, stream, saved>>

\* No candidate is left: the last frame is an error.
Exhausted(a) ==
    /\ gen[a] = "choosing" /\ call[a] \notin Calls(a) \cup {0}
    /\ gen' = [gen EXCEPT ![a] = "closing"]
    /\ UNCHANGED <<executor, state, call, stream, saved>>

(* A slip: failover without `if emitted: return`. *)
CallFailsOver(a) ==
    IF call[a] = 0 \/ a \notin Orchestrated
    THEN gen' = [gen EXCEPT ![a] = "closing"] /\ UNCHANGED call
    ELSE /\ gen' = [gen EXCEPT ![a] = "choosing"]
         /\ call' = [call EXCEPT ![a] = @ + 1]

\* An error of the call in progress: fatal for a router, a plain answer and once
\* the client has tokens of this candidate; else the next candidate is tried.
CallFails(a) ==
    IF call[a] = 0 \/ a \notin Orchestrated \/ call[a] \in shown[a]
    THEN gen' = [gen EXCEPT ![a] = "closing"] /\ UNCHANGED call
    ELSE /\ gen' = [gen EXCEPT ![a] = "choosing"]
         /\ call' = [call EXCEPT ![a] = @ + 1]

\* stream_chat stops before it calls the provider (no credential, no model, ...).
PrepareFails(a) ==
    /\ gen[a] = "preparing"
    /\ CallFails(a)
    /\ UNCHANGED <<executor, state, stream, saved>>

OpenStream(a) ==
    /\ gen[a] = "preparing"
    /\ gen' = [gen EXCEPT ![a] = "streaming"]
    /\ stream' = [stream EXCEPT ![a] = "open"]
    /\ task' = [task EXCEPT ![a] = "created"]
    /\ job' = [job EXCEPT ![a] = "none"]
    /\ UNCHANGED <<free, llm_lease, queue, state, call, saved>>

\* A token goes to ChatStreamState and to the client; the router's to neither.
TakeToken(a) ==
    /\ gen[a] = "streaming" /\ stream[a] = "open" /\ queue[a] > 0
    /\ queue' = [queue EXCEPT ![a] = @ - 1]
    /\ shown' = [shown EXCEPT ![a] = @ \cup ({call[a]} \ {0})]
    /\ UNCHANGED <<free, llm_lease, task, job, completed, interrupted, doneEvent, left,
                   gen, call, stream, saved>>

(* A slip: `while not provider_task.done()`, without the tokens still queued. *)
LoopOverEarly(a) == gen[a] = "streaming" /\ stream[a] = "open" /\ task[a] \in Finished

\* The loop of _stream_tokens is over: every token taken and the task finished.
LoopOver(a) ==
    gen[a] = "streaming" /\ stream[a] = "open" /\ task[a] \in Finished /\ queue[a] = 0

StreamFails(a) ==
    /\ LoopOver(a) /\ task[a] = "failed"
    /\ stream' = [stream EXCEPT ![a] = "closed"]
    /\ CallFails(a)
    /\ UNCHANGED <<executor, state, saved>>

\* The router answered: its ranking is valid, or the answer ends with an error
\* frame that carries the usage of the router.
Ranked(a) ==
    /\ LoopOver(a) /\ task[a] = "done" /\ call[a] = 0
    /\ stream' = [stream EXCEPT ![a] = "closed"]
    /\ \/ /\ call' = [call EXCEPT ![a] = 1]
          /\ gen' = [gen EXCEPT ![a] = "choosing"]
          /\ UNCHANGED doneEvent
       \/ /\ gen' = [gen EXCEPT ![a] = "closing"]
          /\ doneEvent' = [doneEvent EXCEPT ![a] = "error"]
          /\ UNCHANGED call
    /\ UNCHANGED <<executor, completed, interrupted, left, shown, saved>>

\* ChatStreamState.finish; an orchestration retries an empty reply elsewhere.
StreamDone(a) ==
    /\ LoopOver(a) /\ task[a] = "done" /\ call[a] # 0
    /\ stream' = [stream EXCEPT ![a] = "closed"]
    /\ completed' = [completed EXCEPT ![a] = TRUE]
    /\ \/ /\ gen' = [gen EXCEPT ![a] = "answered"]
          /\ UNCHANGED call
       \/ /\ a \in Orchestrated /\ call[a] \notin shown[a]
          /\ call' = [call EXCEPT ![a] = @ + 1]
          /\ gen' = [gen EXCEPT ![a] = "choosing"]
    /\ UNCHANGED <<executor, interrupted, doneEvent, left, shown, saved>>

\* The done frame passes _gen, after the heartbeat of the execution lease.
DoneFrame(a) ==
    /\ gen[a] = "answered"
    /\ doneEvent' = [doneEvent EXCEPT ![a] = "done"]
    /\ gen' = [gen EXCEPT ![a] = "closing"]
    /\ UNCHANGED <<executor, completed, interrupted, left, shown, call, stream, saved>>

\* The client closes the connection: CancelledError where the response waits.
\* Inside _stream_tokens the generators unwind in order; at the heartbeat of a
\* frame (the router's never reach it) _gen ends first and the inner generator is
\* closed afterwards.
Disconnect(a) ==
    /\ gen[a] \in Awaits(a)
    /\ left' = [left EXCEPT ![a] = TRUE]
    /\ interrupted' = [interrupted EXCEPT ![a] = ~completed[a]]
    /\ IF stream[a] = "open"
       THEN /\ stream' = [stream EXCEPT ![a] = "closing"]
            /\ \/ gen' = [gen EXCEPT ![a] = "unwinding"]
               \/ a \in Renewing /\ call[a] # 0 /\ gen' = [gen EXCEPT ![a] = "closing"]
       ELSE /\ gen' = [gen EXCEPT ![a] = "closing"]
            /\ UNCHANGED stream
    /\ UNCHANGED <<executor, completed, doneEvent, shown, call, saved>>

\* finally of _stream_tokens: the provider ends within a second or is cancelled
\* (by the timeout, or at once by a second cancellation).
StreamCloses(a) ==
    /\ stream[a] = "closing"
    /\ stream' = [stream EXCEPT ![a] = "closed"]
    /\ \/ task[a] \in Finished /\ UNCHANGED <<task, job>>
       \/ task[a] \notin Finished /\ CancelTask(a)
    /\ UNCHANGED <<free, llm_lease, queue, state, gen, call, saved>>

Unwound(a) ==
    /\ gen[a] = "unwinding" /\ stream[a] = "closed"
    /\ gen' = [gen EXCEPT ![a] = "closing"]
    /\ UNCHANGED <<executor, state, call, stream, saved>>

(* A slip: release_if_unused without _consume. *)
CloseAlways(a) ==
    /\ gen[a] = "closing"
    /\ free' = IF free < MaxWorkers THEN free + 1 ELSE free
    /\ llm_lease' = [llm_lease EXCEPT ![a] = "used"]
    /\ gen' = [gen EXCEPT ![a] = "over"]
    /\ UNCHANGED <<task, job, queue, state, call, stream, saved>>

\* finally of _gen: LLMLease.release_if_unused.
Close(a) ==
    /\ gen[a] = "closing"
    /\ free' = free + (IF llm_lease[a] = "held" THEN 1 ELSE 0)
    /\ llm_lease' = [llm_lease EXCEPT ![a] = "used"]
    /\ gen' = [gen EXCEPT ![a] = "over"]
    /\ UNCHANGED <<task, job, queue, state, call, stream, saved>>

(* A slip: _on_done forgets interrupted answers. *)
OnDoneOnlyDone(a) ==
    /\ gen[a] = "over"
    /\ saved' = [saved EXCEPT ![a] = IF doneEvent[a] = "done" THEN "done" ELSE "none"]
    /\ gen' = [gen EXCEPT ![a] = "recorded"]
    /\ UNCHANGED <<executor, state, call, stream>>

\* The background task of the response records the answer and its usage.
OnDone(a) ==
    /\ gen[a] = "over"
    /\ saved' = [saved EXCEPT ![a] = IF doneEvent[a] = "done" THEN "done"
                                     ELSE IF doneEvent[a] = "none" /\ interrupted[a]
                                          THEN "interrupted" ELSE "none"]
    /\ gen' = [gen EXCEPT ![a] = "recorded"]
    /\ UNCHANGED <<executor, state, call, stream>>

Provider(a) == JobStarts(a) \/ JobToken(a) \/ JobEnds(a)
Task(a) == Submit(a) \/ NoCapacity(a) \/ TaskEnds(a)
Generator(a) ==
    \/ Skip(a) \/ Choose(a) \/ Exhausted(a) \/ PrepareFails(a) \/ OpenStream(a)
    \/ TakeToken(a) \/ StreamFails(a) \/ Ranked(a) \/ StreamDone(a) \/ DoneFrame(a)
    \/ Unwound(a) \/ Close(a) \/ OnDone(a)

\* Every answer is recorded, every thread idle and every task gone.
Rest == /\ \A a \in Answers : gen[a] \in {"idle", "recorded"} /\ job[a] \notin Working
                              /\ stream[a] # "closing"
        /\ UNCHANGED vars

Next == \/ \E a \in Answers : \/ Reserve(a) \/ Generator(a) \/ StreamCloses(a)
                              \/ Disconnect(a) \/ Task(a) \/ Provider(a)
        \/ Rest

Spec == Init /\ [][Next]_vars

\* Providers answer or time out, the loop runs what is ready.
Fairness == \A a \in Answers : /\ WF_vars(Generator(a)) /\ WF_vars(StreamCloses(a))
                               /\ WF_vars(Task(a))
                               /\ WF_vars(JobStarts(a) \/ JobEnds(a))
LiveSpec == Spec /\ Fairness

-----------------------------------------------------------------------------
(* Properties. *)

TypeOK ==
    /\ free \in 0..MaxWorkers
    /\ llm_lease \in [Answers -> {"none", "held", "used"}]
    /\ gen \in [Answers -> {"idle", "choosing", "preparing", "streaming", "answered",
                            "unwinding", "closing", "over", "recorded"}]
    /\ call \in [Answers -> 0..Candidates + 1]
    /\ stream \in [Answers -> {"none", "open", "closing", "closed"}]
    /\ task \in [Answers -> {"none", "created", "waiting"} \cup Finished]
    /\ job \in [Answers -> {"none", "returned", "raised", "dropped"} \cup Working]
    /\ queue \in [Answers -> 0..MaxTokens]
    /\ shown \in [Answers -> SUBSET (1..Candidates)]
    /\ completed \in [Answers -> BOOLEAN]
    /\ interrupted \in [Answers -> BOOLEAN]
    /\ doneEvent \in [Answers -> {"none", "done", "error"}]
    /\ left \in [Answers -> BOOLEAN]
    /\ saved \in [Answers -> {"none", "done", "interrupted"}]

Held == {a \in Answers : llm_lease[a] = "held"}
Busy == {a \in Answers : job[a] \in Working}

Dropped == {a \in Answers : job[a] = "dropped"}

\* Every slot is free, reserved, in use or lost with a job that was dropped from
\* the queue: whatever is cancelled, and whichever of release_if_unused, run and
\* invoke comes first, no slot is returned twice and none disappears otherwise
\* (LLMLease._consume, BoundedSemaphore).
SlotsAccounted ==
    free + Cardinality(Held) + Cardinality(Busy) + Cardinality(Dropped) = MaxWorkers

\* The slot of an accepted job is in use until invoke() ends, and then free: no
\* cancelled caller takes capacity with it (llm_executor.py:121-123).
NoSlotLost == free + Cardinality(Held) + Cardinality(Busy) = MaxWorkers

\* The client never receives tokens of two candidates: failover stops with the
\* first token (llm_routing.py:302-309, 340-348).
OneVoice == \A a \in Answers : Cardinality(shown[a]) <= 1

\* The done frame closes the stream: no token of the answer is still queued, and
\* its provider call is over.
DoneIsLast ==
    \A a \in Answers : doneEvent[a] = "done" => queue[a] = 0 /\ job[a] = "returned"

\* An answer is the voice of one candidate, heard to its last token.
OneWholeVoice == OneVoice /\ DoneIsLast

\* A client that leaves with part of an answer none of whose candidates ended finds
\* that part in the conversation (ChatStreamState, _streaming.py:35-36), however the
\* generators unwound and whichever await the disconnection reached, those inside send()
\* aside.
InterruptedKept ==
    \A a \in Answers :
        gen[a] = "recorded" /\ left[a] /\ shown[a] # {} /\ ~completed[a]
            => saved[a] = "interrupted"

\* Every answer ends, whatever fails and whenever the client leaves, and its
\* reservation has then been consumed or returned.
AnswersEnd ==
    \A a \in Answers : gen[a] = "choosing" ~> gen[a] = "recorded" /\ llm_lease[a] = "used"
====
