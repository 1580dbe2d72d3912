---- MODULE GroupSharing ----
(***************************************************************************)
(* What one team sees because somebody shared it: api/routes/sharing.py and *)
(* storage/group_shares.py.  A workflow brings its agents and an agent its  *)
(* skills, prompts, tools and knowledge (pieces); each of them is a row of  *)
(* its own, committed by itself, so a request may end after any of them.    *)
(* Requests come one after another, and definitions change between them.    *)
(* Connections and orchestrations bring nothing: they behave as pieces do.  *)
(***************************************************************************)
EXTENDS Naturals

CONSTANTS
    Workflows, Agents, Pieces,
    Own,        \* the private resources of whoever shares: a cascade takes no others
    MayFail     \* a request may end halfway

ASSUME SharingAssumption ==
    /\ Workflows \cap (Agents \cup Pieces) = {} /\ Agents \cap Pieces = {}
    /\ Own \subseteq Workflows \cup Agents \cup Pieces /\ MayFail \in BOOLEAN

Resources == Workflows \cup Agents \cup Pieces

VARIABLES
    agentsOf,   \* the agents of the nodes of each workflow
    needs,      \* the pieces each agent refers to
    shares,     \* resource_group_shares of the team: by hand, via_cascade or no row
    request     \* the request being served and the rows it still has to look at

gsVars == <<agentsOf, needs, shares, request>>

NoRequest == [op |-> "none", todo |-> {}]

Brings(r) == IF r \in Workflows THEN agentsOf[r] ELSE IF r \in Agents THEN needs[r] ELSE {}

Shared(s) == {r \in Resources : s[r] # "no"}

Came(r) == {x \in Brings(r) : shares[x] = "cascade"}

\* What the agents the team can run still need, but for one of them.
StillNeeded(s, skip) ==
    LET inGroup == (Shared(s) \cap Agents) \cup UNION {agentsOf[w] : w \in Shared(s) \cap Workflows}
    IN  UNION {needs[a] : a \in inGroup \ skip}

\* What leaves with an agent: what came in a cascade and nobody else needs.
LeavesWith(s, a) == {p \in needs[a] : s[p] = "cascade"} \ StillNeeded(s, {a})

Elsewhere(a, w) == \E v \in (Shared(shares) \cap Workflows) \ {w} : a \in agentsOf[v]

GroupSharingInit ==
    /\ agentsOf \in [Workflows -> SUBSET Agents]
    /\ needs \in [Agents -> SUBSET Pieces]
    /\ shares = [r \in Resources |-> "no"]
    /\ request = NoRequest

NothingShared ==
    /\ agentsOf = [w \in Workflows |-> {}] /\ needs = [a \in Agents |-> {}]
    /\ shares = [r \in Resources |-> "no"] /\ request = NoRequest

\* The request goes on with what is left to do, and ends when there is nothing.
Going(op, of, came, todo) ==
    /\ request' = IF todo = {} THEN NoRequest ELSE [op |-> op, of |-> of, came |-> came, todo |-> todo]
    /\ UNCHANGED <<agentsOf, needs>>

\* An agent is followed by its pieces before the next agent.
Turn(op, r) ==
    /\ request.op = op /\ r \in request.todo
    /\ r \in Pieces \/ request.todo \cap Pieces = {}

\* share_resource_with_group: by hand wins over a cascade.
Share(r) ==
    /\ request = NoRequest /\ r \in Own
    /\ shares' = [shares EXCEPT ![r] = "hand"]
    /\ Going("share", r, {}, Brings(r) \cap Own)

\* _cascade_share_workflow, _cascade_share_agent: only own private resources.
ShareNext(r) ==
    /\ Turn("share", r)
    /\ shares' = [shares EXCEPT ![r] = IF @ = "no" THEN "cascade" ELSE @]
    /\ Going("share", request.of, {}, (request.todo \ {r}) \cup (Brings(r) \cap Own))

\* unshare_resource_from_group: the row first, then what came with it.
Unshare(r) ==
    /\ request = NoRequest
    /\ shares' = [shares EXCEPT ![r] = "no"]
    /\ Going("unshare", r, Came(r) \cup UNION {Came(a) : a \in Came(r) \cap Agents},
             IF r \in Agents THEN LeavesWith(shares', r) ELSE Came(r))

(* A slip: what is still needed is decided once, before any row goes. *)
UnshareNextEarly(r) ==
    /\ Turn("unshare", r)
    /\ LET kept == r \in Agents /\ Elsewhere(r, request.of) IN
       /\ shares' = [shares EXCEPT ![r] = IF kept THEN @ ELSE "no"]
       /\ Going("unshare", request.of, request.came,
                (request.todo \ {r})
                    \cup (IF r \in Agents /\ ~kept
                          THEN {p \in needs[r] : shares[p] = "cascade"}
                                 \ StillNeeded([x \in Resources |->
                                      IF x \in request.came THEN "cascade" ELSE shares[x]], {r})
                          ELSE {}))

\* _cascade_unshare_workflow, _cascade_unshare_agent: an agent another shared workflow
\* uses stays; what an agent brought leaves when its row has gone.
UnshareNext(r) ==
    /\ Turn("unshare", r)
    /\ LET kept == r \in Agents /\ Elsewhere(r, request.of) IN
       /\ shares' = [shares EXCEPT ![r] = IF kept THEN @ ELSE "no"]
       /\ Going("unshare", request.of, request.came,
                (request.todo \ {r})
                    \cup (IF r \in Agents /\ ~kept THEN LeavesWith(shares', r) ELSE {}))

\* An error, a tool that may not be distributed or the end of the worker: what
\* was written stays.
CutShort ==
    /\ MayFail /\ request # NoRequest
    /\ request' = NoRequest
    /\ UNCHANGED <<agentsOf, needs, shares>>

\* save_agent and save_workflow, and the deletion of an agent: the rows of
\* resource_group_shares stay as they were.
Define ==
    /\ request = NoRequest
    /\ \/ \E a \in Agents, ps \in SUBSET Pieces :
            needs' = [needs EXCEPT ![a] = ps] /\ UNCHANGED agentsOf
       \/ \E w \in Workflows, as \in SUBSET Agents :
            agentsOf' = [agentsOf EXCEPT ![w] = as] /\ UNCHANGED needs
    /\ UNCHANGED <<shares, request>>

\* WorkflowStorage.delete takes the shares of the workflow, and not of what it brought.
DeletesWorkflow(w) ==
    /\ request = NoRequest
    /\ agentsOf' = [agentsOf EXCEPT ![w] = {}]
    /\ shares' = [shares EXCEPT ![w] = "no"]
    /\ UNCHANGED <<needs, request>>

GroupSharingNext ==
    \/ \E r \in Resources : Share(r) \/ ShareNext(r) \/ Unshare(r) \/ UnshareNext(r)
    \/ CutShort
    \/ Define
    \/ \E w \in Workflows : DeletesWorkflow(w)

GroupSharingSpec == GroupSharingInit /\ [][GroupSharingNext]_gsVars

-----------------------------------------------------------------------------
(* Properties. *)

GroupSharingTypeOK ==
    /\ agentsOf \in [Workflows -> SUBSET Agents]
    /\ needs \in [Agents -> SUBSET Pieces]
    /\ shares \in [Resources -> {"no", "cascade", "hand"}]
    /\ request = NoRequest \/ (request.todo \subseteq Resources /\ request.todo # {})

\* A withdrawal that reaches its end takes all that came with it, but for what the
\* team still needs (sharing.py:293, :496), whatever the order of its rows.
WithdrawalIsWhole ==
    [][(request.op = "unshare" /\ request' = NoRequest /\ ~CutShort) =>
          \A r \in request.came : shares'[r] = "cascade" =>
              IF r \in Agents THEN Elsewhere(r, request.of) ELSE r \in StillNeeded(shares', {})]_gsVars

\* Nothing leaves with something else while what brought it is still there, and what
\* was shared by hand leaves by hand (group_shares.py:31-36, sharing.py:269-273).
OnlyWhatCameLeaves ==
    [][\A r \in Resources :
          /\ shares[r] = "hand" => shares'[r] = "hand" \/ request = NoRequest
          /\ shares[r] = "cascade" /\ shares'[r] = "no" /\ request # NoRequest =>
                \A x \in Resources : r \in Brings(x) => shares'[x] = "no"]_gsVars

\* What was shared is withdrawn whole, and nothing else with it.
SharingIsUndone == WithdrawalIsWhole /\ OnlyWhatCameLeaves

\* "Lo que entró con el recurso sale con él" (sharing.py:496-498): once everything shared
\* by hand has been withdrawn, the team sees nothing that came with it.
NothingLeft ==
    (request = NoRequest /\ \A r \in Resources : shares[r] # "hand") => Shared(shares) = {}
====
