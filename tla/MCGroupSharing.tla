---- MODULE MCGroupSharing ----
(* An agent and a piece it may refer to, both of whoever shares them: no    *)
(* workflow, whose deletion leaves its agents shared too.                   *)
EXTENDS GroupSharing

CONSTANTS a1, p

MCWorkflows == {}
MCAgents == {a1}
MCPieces == {p}
MCOwn == Resources
====
