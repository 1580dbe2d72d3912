---- MODULE MCPopulation ----
(***************************************************************************)
(* Instances of the modules about teams and about guests.  They share no    *)
(* variable: a behaviour is one of either while the other rests.  Bound: a  *)
(* behaviour of teams has two requests at a time, or invitations, or        *)
(* erasures that fail and teams that change their status; in the last two   *)
(* one request at a time overlaps the erasures.                             *)
(***************************************************************************)
EXTENDS Groups, Guests

CONSTANTS u1, u2, t1, q1, q2, g1, g2, v1, c1, c2

MCUsers == {u1, u2}
MCTeams == {t1}
MCRequests == {q1, q2}
MCAdmins == {}
MCGuests == {g1, g2}
MCVisitors == {v1}
MCCalls == {c1, c2}

VARIABLE focus

PopulationInit == focus \in {"overlap", "teams", "erasures", "guests"} /\ GroupsInit /\ GuestsInit

\* Bound: no erasure comes; the requests write the team or its members.
Overlapping == \A q \in GReqs : gPc'[q] \notin {"status", "schedule"}

\* Bound: one request at a time, beside the erasures.
OneRequest == gPc'[q2] = "idle"

PopulationNext ==
    /\ UNCHANGED focus
    /\ \/ focus = "overlap" /\ GroupsNext /\ Overlapping /\ UNCHANGED <<invites, accounts, guVars>>
       \/ /\ focus = "teams" /\ GroupsNext /\ OneRequest /\ gPc'[q1] # "status"
          /\ UNCHANGED <<failures, guVars>>
       \/ focus = "erasures" /\ GroupsNext /\ OneRequest /\ UNCHANGED <<invites, guVars>>
       \/ focus = "guests" /\ GuestsNext /\ UNCHANGED gVars

PopulationSpec ==
    /\ PopulationInit /\ [][PopulationNext]_<<focus, gVars, guVars>>
    \* of GuestsFairness what holds while guests move; nothing of GroupsFairness is enabled then
    /\ GroupsFairness /\ WF_guVars(focus = "guests" /\ Sweep(Loop))

\* The type invariants of both.
PopulationTypeOK == GroupsTypeOK /\ GuestsTypeOK

\* Whoever is due to go goes in the end: an account whose grace has passed, and a guest nobody
\* uses, also when an attempt to erase them fails.
ErasuresArrive == DueIsErased /\ AbandonedGoes
====
