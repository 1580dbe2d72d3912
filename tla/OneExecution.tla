---------------------------- MODULE OneExecution ----------------------------
(***************************************************************************)
(* What the execution leases of app/storage/resource_executions.py promise *)
(* (its docstring): one execution per user and canonical resource.  A key  *)
(* stands for such a pair; working gives the executions at work on it.     *)
(***************************************************************************)
CONSTANTS Keys, Execs

VARIABLE working

Init == working = [k \in Keys |-> {}]

(* An execution starts to work on a key nobody works on. *)
Begin(k, e) ==
    /\ working[k] = {}
    /\ working' = [working EXCEPT ![k] = {e}]

(* The execution at work on a key finishes, is cancelled or dies. *)
End(k) ==
    /\ working[k] # {}
    /\ working' = [working EXCEPT ![k] = {}]

Next == \E k \in Keys : End(k) \/ \E e \in Execs : Begin(k, e)

Spec == Init /\ [][Next]_working
=============================================================================
