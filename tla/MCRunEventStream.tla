--------------------------- MODULE MCRunEventStream ------------------------
(* Instances of RunEventStream for TLC. *)
EXTENDS RunEventStream, TLC

CONSTANT key

(* Every execution competes for one key: rows of other keys never interact. *)
MCKeys == {key}
MCKeyOf == [e \in Execs |-> key]
=============================================================================
