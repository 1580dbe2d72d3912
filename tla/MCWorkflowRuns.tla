--------------------------- MODULE MCWorkflowRuns ---------------------------
(* Instances of WorkflowRuns for TLC. *)
EXTENDS WorkflowRuns, TLC

CONSTANT key

(* Every execution competes for one key: rows of other keys never interact. *)
MCKeys == {key}
MCKeyOf == [e \in Execs |-> key]
=============================================================================
