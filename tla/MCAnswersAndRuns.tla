---- MODULE MCAnswersAndRuns ----
(***************************************************************************)
(* What must end: two answers, one of them orchestrated, and the slots they *)
(* compete for; and one workflow run whose worker may die.  They share no   *)
(* variable: a behaviour is one of either while the other rests.            *)
(***************************************************************************)
EXTENDS MCChatAnswers

CONSTANTS Runs, Streams, Keys, KeyOf, Cancels, Sweepers, None, RunStale, LeaseStale,
          HeartbeatEvery, Prompt, MaxPause, MaxSteps, MaxFaults, key

\* Every execution competes for one key: rows of other keys never interact.
MCKeys == {key}
MCKeyOf == [e \in Runs \cup Streams |-> key]

VARIABLES focus, lease, leaseAge, status, runAge, log, pc, body, idle, beat, batch,
          sweepPc, doomed, asked, faults

runVars == <<lease, leaseAge, status, runAge, log, pc, body, idle, beat, batch, sweepPc,
             doomed, asked, faults>>

Workflow == INSTANCE WorkflowRuns

EndingsInit == focus \in {"answers", "run"} /\ Init /\ Workflow!Init

EndingsNext ==
    /\ UNCHANGED focus
    /\ \/ focus = "answers" /\ Next /\ UNCHANGED runVars
       \/ focus = "run" /\ Workflow!Next /\ UNCHANGED vars

EndingsSpec ==
    /\ EndingsInit /\ [][EndingsNext]_<<focus, vars, runVars>>
    /\ \/ focus = "answers" /\ Fairness
       \/ focus = "run" /\ Workflow!Fairness

\* Whatever dies, no run stays active and no lease is kept for ever
\* (workflow_run_maintenance_loop).
EverythingEnds == Workflow!EverythingEnds
====
