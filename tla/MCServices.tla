---- MODULE MCServices ----
(***************************************************************************)
(* Instances of the modules about the definitions of workflows and about    *)
(* the connections of the database.  They share no variable: a behaviour is *)
(* one of either while the other rests.                                     *)
(***************************************************************************)
EXTENDS WorkflowGraph, SqlitePool

CONSTANTS t1, t2, t3, k1, k2, k3

MCPasses == {2, 3}

\* Two connections, a replacement, and more tasks than connections, each of which may ask for
\* a second one, so that the pool can be knotted.
MCTasks == {t1, t2, t3}
MCConns == {k1, k2, k3}
MCInitial == {k1, k2}

VARIABLE focus

\* The definition whose run is over while the others move.
Chain == [edges |-> {<<n, n + 1>> : n \in 1 .. NSteps - 1}, loops |-> {}, evaluators |-> {}]

ServicesInit ==
    /\ focus \in {"workflow", "pool"}
    /\ ValidDefinition /\ PoolStarts
    /\ IF focus = "workflow" THEN phase = "running" ELSE flow = Chain /\ phase = "failed"
    /\ pc = [t \in Tasks |-> IF focus = "pool" THEN "waiting" ELSE "done"]

ServicesNext ==
    /\ UNCHANGED focus
    /\ \/ focus = "workflow" /\ WorkflowGraphNext /\ UNCHANGED poolVars
       \/ focus = "pool" /\ PoolNext /\ UNCHANGED wgVars

ServicesSpec ==
    /\ ServicesInit /\ [][ServicesNext]_<<focus, wgVars, poolVars>>
    /\ WorkflowGraphFairness /\ PoolFairness

\* The type invariants of both.
ServicesTypeOK == WorkflowGraphTypeOK /\ PoolTypeOK
====
