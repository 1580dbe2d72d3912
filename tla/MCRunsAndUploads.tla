---- MODULE MCRunsAndUploads ----
(***************************************************************************)
(* Instances of WorkflowRuns, of the modules about what users upload and    *)
(* what administrators bring from a repository, and of the one about how    *)
(* they are listed.  They share no variable: a behaviour is one of any of   *)
(* them while the others rest.                                              *)
(***************************************************************************)
EXTENDS MCWorkflowRuns, KnowledgePacks, AgentImports, OfficialSources, CursorPages

CONSTANTS upload, sync, path1, path2, thing1, thing2, ed1, ed2, adm1, adm2, agentPart, toolPart

\* The modules never meet, so they may share the identities that are interchangeable.
MCThings == {thing1, thing2}  \* texts, drafts
MCCallers == {ed1, ed2}     \* requests
Symmetry == Permutations(MCThings) \cup Permutations(MCCallers)

\* Both requests do everything; one of them sends only the first path.
MCRequests == {upload, sync}
MCPaths == {path1, path2}
MCAbout == [q \in MCRequests |-> IF q = sync THEN MCPaths ELSE {path1}]

MCSizes == {1, 2}

\* An agent and the tool it needs; the second commit changes the tool.
MCAdmins == {adm1, adm2}
MCReviewers == {adm1}
MCComponents == {agentPart, toolPart}
MCNeeds == (agentPart :> {toolPart}) @@ (toolPart :> {})
MCTools == {toolPart}
MCTree == <<(agentPart :> 1) @@ (toolPart :> 1), (agentPart :> 1) @@ (toolPart :> 2)>>

VARIABLE focus

RunsInit ==
    /\ focus \in {"runs", "packs", "imports", "sources", "listing"}
    /\ Init /\ PackRests /\ ImportsRest /\ OfficialRests
    /\ IF focus = "listing" THEN CursorPagesInit ELSE NothingListed

RunsNext ==
    /\ UNCHANGED focus
    /\ \/ focus = "runs" /\ Next /\ UNCHANGED <<packVars, iVars, oVars, pVars>>
       \/ focus = "packs" /\ PackNext /\ UNCHANGED <<vars, iVars, oVars, pVars>>
       \/ focus = "imports" /\ ImportsNext /\ UNCHANGED <<vars, packVars, oVars, pVars>>
       \/ focus = "sources" /\ OfficialNext /\ UNCHANGED <<vars, packVars, iVars, pVars>>
       \/ focus = "listing" /\ CursorPagesNext /\ UNCHANGED <<vars, packVars, iVars, oVars>>

RunsSpec == RunsInit /\ [][RunsNext]_<<focus, vars, packVars, iVars, oVars, pVars>>

\* The type invariants of the modules about uploads, sources and listings; event_stream has
\* the one of runs.
UploadsTypeOK == PackTypeOK /\ ImportsTypeOK /\ OfficialTypeOK /\ CursorPagesTypeOK
====
