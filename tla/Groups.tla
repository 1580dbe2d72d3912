---- MODULE Groups ----
(***************************************************************************)
(* Teams, their members and invitations (storage/groups.py, routes/groups), *)
(* and the erasure of an account after its grace period (auth/gdpr.py).     *)
(* A handler reads what it needs to decide and writes in a later            *)
(* transaction; the reads of a handler are one step here.  overtaken and    *)
(* crossed are history: they tell which reads were out of date when used.   *)
(***************************************************************************)
EXTENDS Integers, FiniteSets

CONSTANTS Users, Teams, GReqs, None,
          Admins,      \* users with the platform role admin
          MaxInvites,  \* bound: invitations
          MaxFailures  \* bound: erasures that fail

ASSUME GroupsAssumption ==
    /\ Admins \subseteq Users /\ None \notin Users
    /\ {MaxInvites, MaxFailures} \subseteq Nat

VARIABLES
    creator,  \* groups.created_by, None without a row
    made,     \* teams created so far
    enabled,  \* groups.is_active
    role,     \* group_members, "none" without a row
    inv,      \* id of the pending invitation of a user, 0 without one
    invites,  \* ids given so far
    leaving,  \* an account: "here", "scheduled", "due" or "gone"
    doomed,   \* accounts the sweep has listed
    failures, \* erasures that failed so far
    gPc, gJob,
    overtaken, \* requests in whose team the owner, or the user's role, changed since they read
    crossed    \* teams whose owner or members an overtaken transfer or removal wrote

members == <<creator, made, enabled, role>>
accounts == <<leaving, doomed, failures>>
gPast == <<overtaken, crossed>>
gVars == <<members, inv, invites, accounts, gPc, gJob, gPast>>

NoWork == [g |-> None, u |-> None, r |-> "none", id |-> 0]
Handlers == {"create", "transfer", "remove", "add", "role", "invite", "cancel", "accept",
             "delete", "status", "reject", "schedule"}

GroupsInit ==
    /\ creator = [g \in Teams |-> None] /\ made = {} /\ enabled = {}
    /\ role = [g \in Teams |-> [u \in Users |-> "none"]]
    /\ inv = [g \in Teams |-> [u \in Users |-> 0]] /\ invites = 0
    /\ leaving = [u \in Users |-> "here"] /\ doomed = {} /\ failures = 0
    /\ gPc = [q \in GReqs |-> "idle"] /\ gJob = [q \in GReqs |-> NoWork]
    /\ overtaken = {} /\ crossed = {}

-----------------------------------------------------------------------------
(* What the handlers read. *)

\* can_manage, or get_user_role = admin
Manages(who, g) == role[g][who] \in {"owner", "admin"} \/ who \in Admins
\* created_by = who, or admin
Owns(who, g) == creator[g] # None /\ (creator[g] = who \/ who \in Admins)

(* A slip: an owner may be removed too. *)
MayIgnoringCreator(what, who, g, u) ==
    CASE what = "remove" -> (Manages(who, g) \/ u = who) /\ creator[g] # None
      [] what = "transfer" -> Owns(who, g) /\ u # who /\ role[g][u] # "none"
      [] what = "create" -> g \notin made
      [] OTHER -> TRUE

\* Guards of the handlers, from their checks and early errors.
May(what, who, g, u) ==
    CASE what = "create" -> g \notin made /\ u = who
      [] what = "transfer" -> Owns(who, g) /\ u # who /\ role[g][u] # "none"
      [] what \in {"delete", "status"} -> Owns(who, g) /\ u = who
      [] what = "remove" -> /\ Manages(who, g) \/ u = who
                            /\ creator[g] \notin {None, u}
      [] what = "add" -> Manages(who, g) /\ creator[g] # None /\ leaving[u] # "gone"
      [] what = "role" -> Manages(who, g) /\ leaving[u] # "gone"
      [] what = "invite" -> /\ Manages(who, g) /\ creator[g] # None
                            /\ leaving[u] # "gone" /\ role[g][u] = "none"
                            /\ invites < MaxInvites
      [] what = "cancel" -> Manages(who, g) /\ inv[g][u] # 0
      [] what \in {"accept", "reject"} -> inv[g][u] # 0 /\ u = who
      [] what = "schedule" -> u = who /\ \A h \in Teams : creator[h] # who

Begins(q, what, who, g, u, r) ==
    /\ gPc[q] = "idle" /\ leaving[who] # "gone"
    /\ May(what, who, g, u)
    /\ gPc' = [gPc EXCEPT ![q] = what]
    /\ gJob' = [gJob EXCEPT ![q] = [g |-> g, u |-> u, r |-> r, id |-> inv[g][u]]]
    /\ UNCHANGED <<members, inv, invites, accounts>>

-----------------------------------------------------------------------------
(* What they write. *)

\* The request writes and answers.
Writes(q, what) ==
    /\ gPc[q] = what
    /\ gPc' = [gPc EXCEPT ![q] = "idle"] /\ gJob' = [gJob EXCEPT ![q] = NoWork]
SetRole(g, u, r) == role' = [role EXCEPT ![g][u] = r]

Creates(q) ==
    /\ Writes(q, "create") /\ gJob[q].g \notin made
    /\ LET g == gJob[q].g IN
       /\ creator' = [creator EXCEPT ![g] = gJob[q].u]
       /\ made' = made \cup {g} /\ enabled' = enabled \cup {g}
       /\ SetRole(g, gJob[q].u, "owner")
    /\ UNCHANGED <<inv, invites, accounts>>

\* Another request took the identity the instance gives this one.
CreatesNothing(q) ==
    /\ Writes(q, "create") /\ gJob[q].g \in made
    /\ UNCHANGED <<members, inv, invites, accounts>>

\* set_created_by and set_member_role: the former owner keeps its role.
Transfers(q) ==
    /\ Writes(q, "transfer")
    /\ LET g == gJob[q].g  u == gJob[q].u IN
       /\ creator' = IF creator[g] = None THEN creator ELSE [creator EXCEPT ![g] = u]
       /\ IF role[g][u] = "none" THEN UNCHANGED role ELSE SetRole(g, u, "owner")
    /\ UNCHANGED <<made, enabled, inv, invites, accounts>>

\* The members go in the same transaction as the team and its resources.
Deletes(q) ==
    /\ Writes(q, "delete")
    /\ LET g == gJob[q].g IN
       /\ creator' = [creator EXCEPT ![g] = None]
       /\ enabled' = enabled \ {g}
       /\ role' = [role EXCEPT ![g] = [u \in Users |-> "none"]]
       /\ inv' = [inv EXCEPT ![g] = [u \in Users |-> 0]]
    /\ UNCHANGED <<made, invites, accounts>>

SetsStatus(q) ==
    /\ Writes(q, "status")
    /\ enabled' \in {enabled \cup ({gJob[q].g} \cap {g \in Teams : creator[g] # None}),
                     enabled \ {gJob[q].g}}
    /\ UNCHANGED <<creator, made, role, inv, invites, accounts>>

Removes(q) ==
    /\ Writes(q, "remove")
    /\ SetRole(gJob[q].g, gJob[q].u, "none")
    /\ UNCHANGED <<creator, made, enabled, inv, invites, accounts>>

\* add_member is an upsert.
Adds(q) ==
    /\ Writes(q, "add")
    /\ SetRole(gJob[q].g, gJob[q].u, gJob[q].r)
    /\ UNCHANGED <<creator, made, enabled, inv, invites, accounts>>

UpdatesRole(q) ==
    /\ Writes(q, "role")
    /\ IF role[gJob[q].g][gJob[q].u] = "none" THEN UNCHANGED role
       ELSE SetRole(gJob[q].g, gJob[q].u, gJob[q].r)
    /\ UNCHANGED <<creator, made, enabled, inv, invites, accounts>>

\* INSERT OR IGNORE: one invitation per team and user
Invites(q) ==
    /\ Writes(q, "invite") /\ invites < MaxInvites
    /\ invites' = invites + 1
    /\ inv' = IF inv[gJob[q].g][gJob[q].u] # 0 THEN inv
              ELSE [inv EXCEPT ![gJob[q].g][gJob[q].u] = invites + 1]
    /\ UNCHANGED <<members, accounts>>

DropInvitation(q) ==
    inv' = IF inv[gJob[q].g][gJob[q].u] # gJob[q].id THEN inv
           ELSE [inv EXCEPT ![gJob[q].g][gJob[q].u] = 0]

\* cancel_invitation, reject_invitation
Withdraws(q) ==
    /\ Writes(q, "cancel") \/ Writes(q, "reject")
    /\ DropInvitation(q)
    /\ UNCHANGED <<members, invites, accounts>>

\* add_member_ignore, whether or not the invitation is still there
Accepts(q) ==
    /\ Writes(q, "accept")
    /\ IF role[gJob[q].g][gJob[q].u] # "none" THEN UNCHANGED role
       ELSE SetRole(gJob[q].g, gJob[q].u, "member")
    /\ DropInvitation(q)
    /\ UNCHANGED <<creator, made, enabled, invites, accounts>>

-----------------------------------------------------------------------------
(* The erasure of an account. *)

Schedules(q) ==
    /\ Writes(q, "schedule")
    /\ leaving' = [leaving EXCEPT ![gJob[q].u] =
                     IF @ = "gone" THEN "gone" ELSE "scheduled"]
    /\ UNCHANGED <<members, inv, invites, doomed, failures>>

\* cancel_user_deletion with the link of the mail; a second later or at the last minute
CancelsDeletion(u) ==
    /\ leaving[u] \in {"scheduled", "due"}
    /\ leaving' = [leaving EXCEPT ![u] = "here"]
    /\ UNCHANGED <<members, inv, invites, doomed, failures, gPc, gJob>>

GracePasses(u) ==
    /\ leaving[u] = "scheduled"
    /\ leaving' = [leaving EXCEPT ![u] = "due"]
    /\ UNCHANGED <<members, inv, invites, doomed, failures, gPc, gJob>>

\* purge_expired_deletions: the list
ListsDue ==
    /\ doomed = {}
    /\ doomed' = {u \in Users : leaving[u] = "due"} /\ doomed' # {}
    /\ UNCHANGED <<members, inv, invites, leaving, failures, gPc, gJob>>

(* A slip: a team without its row stays enabled. *)
ErasesRowOnly(u) ==
    /\ u \in doomed /\ doomed' = doomed \ {u}
    /\ leaving' = [leaving EXCEPT ![u] = "gone"]
    /\ role' = [g \in Teams |-> [role[g] EXCEPT ![u] = "none"]]
    /\ inv' = [g \in Teams |-> [inv[g] EXCEPT ![u] = 0]]
    /\ creator' = [g \in Teams |-> IF creator[g] = u THEN None ELSE creator[g]]
    /\ UNCHANGED <<made, enabled, invites, failures, gPc, gJob>>

\* purge_user_data: the rows of the user; of a team it deletes only the row of groups.
Erases(u) ==
    /\ u \in doomed /\ doomed' = doomed \ {u}
    /\ leaving' = [leaving EXCEPT ![u] = "gone"]
    /\ role' = [g \in Teams |-> [role[g] EXCEPT ![u] = "none"]]
    /\ inv' = [g \in Teams |-> [inv[g] EXCEPT ![u] = 0]]
    /\ creator' = [g \in Teams |-> IF creator[g] = u THEN None ELSE creator[g]]
    /\ enabled' = enabled \ {g \in Teams : creator[g] = u}
    /\ UNCHANGED <<made, invites, failures, gPc, gJob>>

\* The transaction rolls back; the sweep goes on and the next one lists the account again.
EraseFails(u) ==
    /\ u \in doomed /\ failures < MaxFailures
    /\ failures' = failures + 1 /\ doomed' = doomed \ {u}
    /\ UNCHANGED <<members, inv, invites, leaving, gPc, gJob>>

Answers(q) ==
    \/ Creates(q) \/ CreatesNothing(q) \/ Transfers(q) \/ Deletes(q) \/ SetsStatus(q)
    \/ Removes(q) \/ Adds(q) \/ UpdatesRole(q)
    \/ Invites(q) \/ Withdraws(q) \/ Accepts(q) \/ Schedules(q)

\* History: what other steps do to what a request has read.
Overtakes ==
    overtaken' = {q \in GReqs :
        /\ gPc[q] # "idle" /\ gPc'[q] # "idle"
        /\ \/ q \in overtaken
           \/ creator'[gJob[q].g] # creator[gJob[q].g]
           \/ role'[gJob[q].g][gJob[q].u] # role[gJob[q].g][gJob[q].u]}
Crosses ==
    crossed' = crossed \cup
        {gJob[q].g : q \in {p \in overtaken : gPc[p] \in {"remove", "transfer"} /\ gPc'[p] = "idle"}}

GroupsMoves ==
    \/ \E q \in GReqs, what \in Handlers, who, u \in Users, g \in Teams :
         \E r \in IF what \in {"add", "role"} THEN {"owner", "admin", "member"} ELSE {"none"} :
            Begins(q, what, who, g, u, r)
    \/ \E q \in GReqs : Answers(q)
    \/ \E u \in Users : CancelsDeletion(u) \/ GracePasses(u) \/ Erases(u) \/ EraseFails(u)
    \/ ListsDue

GroupsNext == GroupsMoves /\ Overtakes /\ Crosses

\* Requests end; _gdpr_purge_loop runs while the process does.
GroupsFairness ==
    /\ \A q \in GReqs : WF_gVars(Answers(q) /\ Overtakes /\ Crosses)
    /\ WF_gVars(ListsDue /\ Overtakes /\ Crosses)
    /\ \A u \in Users : WF_gVars(Erases(u) /\ Overtakes /\ Crosses)

GroupsSpec == GroupsInit /\ [][GroupsNext]_gVars

-----------------------------------------------------------------------------
(* Properties. *)

\* Every variable keeps the shape Init gives it.
GroupsTypeOK ==
    /\ creator \in [Teams -> Users \cup {None}] /\ made \subseteq Teams
    /\ enabled \subseteq {g \in made : creator[g] # None}
    /\ role \in [Teams -> [Users -> {"none", "member", "admin", "owner"}]]
    /\ inv \in [Teams -> [Users -> 0 .. MaxInvites]] /\ invites \in 0 .. MaxInvites
    /\ leaving \in [Users -> {"here", "scheduled", "due", "gone"}]
    /\ doomed \subseteq Users /\ failures \in 0 .. MaxFailures
    /\ gPc \in [GReqs -> Handlers \cup {"idle"}]
    /\ gJob \in [GReqs -> [g : Teams \cup {None}, u : Users \cup {None},
                           r : {"none", "member", "admin", "owner"}, id : 0 .. MaxInvites]]
    /\ overtaken \subseteq {q \in GReqs : gPc[q] # "idle"} /\ crossed \subseteq Teams

\* Through transfers, removals, role changes and erasures that overlap in any way the owner
\* of a team is one of its members (members.py:126, "No puedes eliminar al creador del
\* grupo"), until a removal or a transfer writes after the owner or the user's own role
\* changed behind what it had read.
CreatorIsMember ==
    \A g \in Teams \ crossed : creator[g] # None => role[g][creator[g]] # "none"

\* gdpr.py refuses to schedule the erasure of an account that owns teams
\* (routes/auth/gdpr.py:42): erasing an account never deletes a team others use.
TeamsOutliveTheirOwner ==
    [][\A g \in Teams, u \in Users :
          creator[g] = u /\ leaving[u] # "gone" /\ leaving'[u] = "gone" =>
             \A v \in Users \ {u} : role[g][v] = "none"]_gVars

\* An account whose grace has passed is erased unless its owner cancels, also when an
\* attempt fails.
DueIsErased == \A u \in Users : leaving[u] = "due" ~> leaving[u] # "due"
====
