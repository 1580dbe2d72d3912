---- MODULE MCAccounts ----
(***************************************************************************)
(* Instances of the four modules about accounts, of the one about the       *)
(* quotas of their routes, of what an account shares and of what it pays    *)
(* for.  They share no variable: a behaviour is one of any of them while    *)
(* the others rest.                                                         *)
(***************************************************************************)
EXTENDS Sessions, Credentials, Registrations, EditorCodes, RateLimits, GroupSharing, Billing, TLC

CONSTANTS id1, id2, h1, h2, c1, c2, wk, n1, t1, short, long, someone
CONSTANTS wf1, wf2, ag1, ag2, pc1, pc2

\* The modules never meet, so they may share the identities that are interchangeable.
MCRows == {id1, id2}    \* sessions, accounts, codes
MCHolding == {h1, h2}   \* browsers, addresses
MCCalls == {c1, c2}     \* requests
Symmetry == Permutations(MCRows) \cup Permutations(MCHolding) \cup Permutations(MCCalls)

MCWorkers == {wk}
MCCreds == {t1}
MCNames == {<<n1, 1>>, <<n1, 2>>}
MCLong == {}

MCLimiters == {short, long}
MCWindow == [l \in MCLimiters |-> IF l = short THEN 3 ELSE 4]
MCPrincipals == {someone}
MCOne == {1}

\* Two workflows, two agents, a piece of the sharer's and one that is not.
MCWorkflows == {wf1, wf2}
MCAgents == {ag1, ag2}
MCPieces == {pc1, pc2}
MCOwn == MCWorkflows \cup MCAgents \cup {pc1}

\* One seat for the owner and one to give.
MCTwo == {2}

VARIABLE focus

accountVars == <<sVars, cVars, rVars, eVars, rateVars, bVars>>

AccountsInit ==
    /\ focus \in {"sessions", "credentials", "registrations", "codes", "shared quotas",
                  "quotas", "billing", "sharing"}
    /\ SessionsInit /\ CredentialsInit /\ RegistrationsInit /\ EditorCodesInit /\ RatesRest
    /\ BillingInit
    /\ IF focus = "sharing" THEN GroupSharingInit ELSE NothingShared

AccountsNext ==
    /\ UNCHANGED focus
    /\ \/ /\ UNCHANGED <<gsVars, bVars>>
          /\ \/ focus = "sessions" /\ SessionsNext /\ UNCHANGED <<cVars, rVars, eVars, rateVars>>
             \/ focus = "credentials" /\ CredentialsNext
                /\ UNCHANGED <<sVars, rVars, eVars, rateVars>>
             \/ focus = "registrations" /\ RegistrationsNext
                /\ UNCHANGED <<sVars, cVars, eVars, rateVars>>
             \/ focus = "codes" /\ EditorCodesNext /\ UNCHANGED <<sVars, cVars, rVars, rateVars>>
             \/ focus = "shared quotas" /\ SharedNext /\ UNCHANGED <<sVars, cVars, rVars, eVars>>
             \/ focus = "quotas" /\ LocalNext /\ UNCHANGED <<sVars, cVars, rVars, eVars>>
       \/ focus = "billing" /\ BillingNext
          /\ UNCHANGED <<sVars, cVars, rVars, eVars, rateVars, gsVars>>
       \/ focus = "sharing" /\ GroupSharingNext /\ UNCHANGED accountVars

AccountsSpec == AccountsInit /\ [][AccountsNext]_<<focus, accountVars, gsVars>>

\* The type invariants of them all.
AccountsTypeOK ==
    /\ SessionsTypeOK /\ CredentialsTypeOK /\ RegistrationsTypeOK /\ EditorCodesTypeOK
    /\ RatesTypeOK /\ GroupSharingTypeOK /\ BillingTypeOK

\* A link or a code that was mailed, or given to an editor, works once.
WorkOnce == [][CodeIsSpent']_eVars /\ ResetOnce
====
