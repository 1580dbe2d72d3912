---- MODULE WorkflowGraph ----
(***************************************************************************)
(* What a run of a workflow executes: the rules a definition has to meet    *)
(* (workflow_validator.py) and the rounds of workflow_runner.py, where the  *)
(* nodes whose inputs are ready run together and the closing node of a loop *)
(* clears the nodes of the loop to run them again.                          *)
(***************************************************************************)
EXTENDS Integers, Sequences, FiniteSets, FiniteSetsExt

CONSTANTS NSteps,    \* nodes of a definition
          Passes,    \* iterations and max_iterations to choose from
          MaxLoops   \* bound: loops of a definition

ASSUME WorkflowGraphAssumption ==
    /\ NSteps \in Nat /\ Passes \subseteq 2 .. 20 /\ Passes # {} /\ MaxLoops \in Nat

VARIABLES
    flow,     \* the definition: edges, loops, evaluators
    order,    \* ordered_nodes
    loop_scopes, \* by the node that closes the loop, {} for the others
    phase,    \* "running", "done", or how it failed
    completed, outputs, loop_passes,
    runs,     \* history: executions of a node; an output is known by its number
    used      \* history: the outputs a node last ran with

plan == <<flow, order, loop_scopes>>
wgVars == <<plan, phase, completed, outputs, loop_passes, runs, used>>

Steps == 1 .. NSteps
Most == Max(Passes)
\* Bound: the history counts one execution more than a loop allows.
Tally(k) == IF k <= Most THEN k + 1 ELSE k

-----------------------------------------------------------------------------
(* Graphs. *)

Sources(E, n) == {m \in Steps : <<m, n>> \in E}
Targets(E, n) == {m \in Steps : <<n, m>> \in E}

\* _reachable, _has_path
Reachable(E, n) ==
    LET within[k \in 0 .. NSteps] ==
          IF k = 0 THEN {n}
          ELSE within[k - 1] \cup UNION {Targets(E, m) : m \in within[k - 1]}
    IN within[NSteps]
Backwards(E) == {<<e[2], e[1]>> : e \in E}

(* A slip: the loop is everything its target reaches. *)
LoopScopeForward(E, loop) == Reachable(E, loop.target)

\* _loop_scope
LoopScope(E, loop) == Reachable(E, loop.target) \cap Reachable(Backwards(E), loop.source)

\* The edges of a node are in the order of their targets.
Ascending(S) ==
    CHOOSE s \in Bijection(1 .. Cardinality(S), S) : \A i, j \in DOMAIN s : i < j => s[i] < s[j]

\* execution_order, _sequence_order: first in, first out; a node enters with its last edge.
Serves(E, q, k) ==
    IF Len(q) < k THEN q
    ELSE q \o Ascending({n \in Targets(E, q[k]) : Sources(E, n) \subseteq {q[i] : i \in 1 .. k}})
Order(E) ==
    LET queue[k \in 0 .. NSteps] ==
          IF k = 0 THEN Ascending({n \in Steps : Sources(E, n) = {}})
          ELSE Serves(E, queue[k - 1], k)
    IN queue[NSteps]
Index(n) == CHOOSE i \in DOMAIN order : order[i] = n

-----------------------------------------------------------------------------
(* validate_workflow *)

\* _sequence_order
ValidSequence(E) ==
    /\ Cardinality(E) >= Cardinality(Steps) - 1
    /\ Cardinality({n \in Steps : Sources(E, n) = {}}) = 1
    /\ Cardinality({n \in Steps : Targets(E, n) = {}}) = 1
    /\ Len(Order(E)) = Cardinality(Steps)

ReturnsToEarlier(E, loop) ==
    /\ Index(loop.target) < Index(loop.source)
    /\ loop.source \in Reachable(E, loop.target)

\* The intervals of the order the loops span.
Apart(a, b) ==
    \/ Index(a.source) < Index(b.target)
    \/ Index(b.source) < Index(a.target)

ValidLoops(E, loops) ==
    /\ \A loop \in loops : ReturnsToEarlier(E, loop)
    /\ \A a, b \in loops : a # b => a.source # b.source /\ Apart(a, b)

\* Every evaluator closes one loop by condition, and nothing else does.
ValidEvaluators(loops, evaluators) ==
    evaluators = {loop.source : loop \in {l \in loops : l.mode = "condition"}}

Loops == {l \in [source : Steps, target : Steps, mode : {"fixed", "condition"}, limit : Passes] :
             l.target < l.source}
LoopSets == {{}} \cup {{f[i] : i \in 1 .. MaxLoops} : f \in [1 .. MaxLoops -> Loops]}
Forward == {e \in Steps \X Steps : e[1] < e[2]}

ValidDefinition ==
    /\ \E E \in {E \in SUBSET Forward : ValidSequence(E)} :
         /\ order = Order(E)
         /\ \E L \in LoopSets : \E V \in SUBSET {l.source : l \in L} :
              /\ ValidEvaluators(L, V) /\ ValidLoops(E, L)
              /\ flow = [edges |-> E, loops |-> L, evaluators |-> V]
              /\ loop_scopes = [n \in Steps |->
                    UNION {LoopScope(E, loop) : loop \in {l \in L : l.source = n}}]
    /\ completed = {}
    /\ outputs = [n \in Steps |-> 0] /\ runs = [n \in Steps |-> 0]
    /\ loop_passes = [n \in Steps |-> 1]
    /\ used = [n \in Steps |-> [m \in Steps |-> 0]]

WorkflowGraphInit == ValidDefinition /\ phase = "running"

-----------------------------------------------------------------------------
(* run_workflow *)

ClosedBy(n) == {loop \in flow.loops : loop.source = n}

\* iteration_for
Iteration(passes, n) ==
    Max({1} \cup {passes[source] : source \in {m \in Steps : n \in loop_scopes[m]}})

Ready == {n \in Steps \ completed : Sources(flow.edges, n) \subseteq completed}

\* What the results of a round change, one node after another.
Now == [completed |-> completed, outputs |-> outputs, passes |-> loop_passes, raised |-> FALSE]

Completes(s, n) == [s EXCEPT !.completed = @ \cup {n}, !.outputs[n] = Tally(runs[n])]

(* A slip: the pass is not counted. *)
RestartsUncounted(s, n, iteration) ==
    [s EXCEPT !.completed = @ \ loop_scopes[n],
              !.outputs = [m \in Steps |-> IF m \in loop_scopes[n] THEN 0 ELSE @[m]]]

\* reset_scope
Restarts(s, n, iteration) ==
    [s EXCEPT !.completed = @ \ loop_scopes[n],
              !.outputs = [m \in Steps |-> IF m \in loop_scopes[n] THEN 0 ELSE @[m]],
              !.passes[n] = iteration + 1]

(* A slip: a loop of so many passes begins one more. *)
ResultOneMore(s, n, iteration, approved) ==
    IF s.raised THEN s
    ELSE IF \E loop \in ClosedBy(n) : iteration <= loop.limit /\ ~approved
    THEN Restarts(Completes(s, n), n, iteration)
    ELSE Completes(s, n)

Result(s, n, iteration, approved) ==
    IF s.raised THEN s
    ELSE IF n \in flow.evaluators
    THEN IF approved THEN Completes(s, n)
         ELSE IF \E loop \in ClosedBy(n) : iteration >= loop.limit THEN [s EXCEPT !.raised = TRUE]
         ELSE Restarts(s, n, iteration)
    ELSE IF \E loop \in ClosedBy(n) : iteration < loop.limit
    THEN Restarts(Completes(s, n), n, iteration)
    ELSE Completes(s, n)

\* No node ready, no quota left for the round, or an agent that fails.
RoundFails ==
    /\ phase = "running" /\ completed # Steps
    /\ phase' = "failed"
    /\ UNCHANGED <<plan, completed, outputs, loop_passes, runs, used>>

\* The results of a round, in the order of the nodes.
After(approved) ==
    LET after[i \in 0 .. Len(order)] ==
          IF i = 0 THEN Now
          ELSE IF order[i] \in Ready
          THEN Result(after[i - 1], order[i], Iteration(loop_passes, order[i]),
                      order[i] \in flow.evaluators /\ approved[order[i]])
          ELSE after[i - 1]
    IN after[Len(order)]

Round ==
    /\ phase = "running" /\ completed # Steps /\ Ready # {}
    /\ \E approved \in [Ready \cap flow.evaluators -> BOOLEAN] :
         LET end == After(approved)
         IN /\ completed' = end.completed /\ outputs' = end.outputs /\ loop_passes' = end.passes
            /\ phase' = IF end.raised THEN "limit" ELSE "running"
    /\ runs' = [n \in Steps |-> IF n \in Ready THEN Tally(runs[n]) ELSE runs[n]]
    /\ used' = [n \in Steps |-> IF n \in Ready THEN outputs ELSE used[n]]
    /\ UNCHANGED plan

\* workflow_done
Finished ==
    /\ phase = "running" /\ completed = Steps
    /\ phase' = "done"
    /\ UNCHANGED <<plan, completed, outputs, loop_passes, runs, used>>

WorkflowGraphNext == Round \/ RoundFails \/ Finished

WorkflowGraphSpec == WorkflowGraphInit /\ [][WorkflowGraphNext]_wgVars

\* Agents answer or time out, and the run goes on to its next round.
WorkflowGraphFairness == WF_wgVars(WorkflowGraphNext)

-----------------------------------------------------------------------------
(* Properties. *)

\* Every variable keeps the shape Init gives it.
WorkflowGraphTypeOK ==
    /\ phase \in {"running", "done", "failed", "limit"}
    /\ completed \subseteq Steps /\ {outputs, runs} \subseteq [Steps -> 0 .. Most + 1]
    /\ loop_passes \in [Steps -> 1 .. Most] /\ used \in [Steps -> [Steps -> 0 .. Most + 1]]

\* Whatever the validator lets through and however its loops restart, a run that is not
\* complete has a node ready (the error of workflow_runner.py:312 is not raised), and no
\* node runs without the outputs it reads.
InputsAreThere ==
    phase = "running" /\ completed # Steps =>
       /\ Ready # {}
       /\ \A n \in Ready : \A m \in Sources(flow.edges, n) : outputs[m] # 0

\* In a run that ends well a node of a fixed loop ran as often as the loop says, a node of a
\* loop by condition at most, and any other node once.
RunsAsConfigured ==
    phase = "done" =>
       \A n \in Steps :
          /\ (\A loop \in flow.loops : n \notin loop_scopes[loop.source]) => runs[n] = 1
          /\ \A loop \in flow.loops : n \in loop_scopes[loop.source] =>
                IF loop.mode = "fixed" THEN runs[n] = loop.limit ELSE runs[n] \in 1 .. loop.limit

\* A loop whose inner nodes feed nothing outside it hands on the outputs of its last pass:
\* every node of the run worked on what its sources last said.
SideExits == {e \in flow.edges : \E loop \in flow.loops :
                 /\ e[1] \in loop_scopes[loop.source] \ {loop.source}
                 /\ e[2] \notin loop_scopes[loop.source]}
LastPassIsUsed ==
    phase = "done" /\ SideExits = {} =>
       \A e \in flow.edges : used[e[2]][e[1]] = outputs[e[1]]

\* A definition with loops runs as it is drawn: nothing on what is missing or belongs to an
\* earlier pass, nothing too often or too seldom.
RunsAsDrawn == InputsAreThere /\ LastPassIsUsed /\ RunsAsConfigured

\* A run the agents let go on comes to an end, of one kind or another.
RunComesToEnd == <>(phase # "running")
====
