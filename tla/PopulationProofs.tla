---- MODULE PopulationProofs ----
(***************************************************************************)
(* Proofs about teams (Groups) and guests (Guests): the creator of a team   *)
(* is one of its members while no removal or transfer writes on an outdated *)
(* reading, and nobody erases a guest that was not abandoned.               *)
(***************************************************************************)
EXTENDS MCPopulation, TLAPS

-----------------------------------------------------------------------------
(* Teams. *)

\* What a request holds between its reads and its write.
JobFits ==
    \A q \in GReqs : gPc[q] # "idle" =>
       /\ gJob[q].g \in Teams /\ gJob[q].u \in Users
       /\ gPc[q] \in {"add", "role"} => gJob[q].r # "none"

\* A team has a row only once it was made.
RowsWereMade == \A g \in Teams : creator[g] # None => g \in made

\* GroupsTypeOK of the variables the code has.
RowsTypeOK ==
    /\ creator \in [Teams -> Users \cup {None}] /\ made \subseteq Teams
    /\ enabled \subseteq {g \in made : creator[g] # None}
    /\ role \in [Teams -> [Users -> {"none", "member", "admin", "owner"}]]
    /\ inv \in [Teams -> [Users -> 0 .. MaxInvites]] /\ invites \in 0 .. MaxInvites
    /\ leaving \in [Users -> {"here", "scheduled", "due", "gone"}]
    /\ doomed \subseteq Users /\ failures \in 0 .. MaxFailures
    /\ gPc \in [GReqs -> Handlers \cup {"idle"}]
    /\ gJob \in [GReqs -> [g : Teams \cup {None}, u : Users \cup {None},
                           r : {"none", "member", "admin", "owner"}, id : 0 .. MaxInvites]]

RowsInv == RowsTypeOK /\ JobFits /\ RowsWereMade

\* The requests that something has overtaken are at work.
PastFits == overtaken \subseteq {q \in GReqs : gPc[q] # "idle"} /\ crossed \subseteq Teams

GroupsInv == RowsInv /\ PastFits

\* What a request read is still so, unless something has overtaken it.
StillSo ==
    \A q \in GReqs \ overtaken :
       /\ gPc[q] = "remove" => creator[gJob[q].g] # gJob[q].u
       /\ gPc[q] = "transfer" => role[gJob[q].g][gJob[q].u] # "none"

OwnersInv == GroupsInv /\ StillSo /\ CreatorIsMember

Roles == {"none", "member", "admin", "owner"}
Requests == [g : Teams \cup {None}, u : Users \cup {None}, r : Roles, id : 0 .. MaxInvites]

\* A write ends its request and no other; the request it ends named a team and a user.
LEMMA WriteEnds ==
    ASSUME RowsInv, NEW q \in GReqs, NEW what \in Handlers, Writes(q, what)
    PROVE  /\ gPc[q] = what /\ gPc[q] # "idle"
           /\ gJob[q].g \in Teams /\ gJob[q].u \in Users
           /\ gJob[q].r \in Roles /\ gJob[q].id \in 0 .. MaxInvites
           /\ what \in {"add", "role"} => gJob[q].r # "none"
           /\ gPc' \in [GReqs -> Handlers \cup {"idle"}] /\ gJob' \in [GReqs -> Requests]
           /\ gPc'[q] = "idle"
           /\ \A p \in GReqs \ {q} : gPc'[p] = gPc[p] /\ gJob'[p] = gJob[p]
           /\ JobFits'
<1>1. /\ gPc \in [GReqs -> Handlers \cup {"idle"}] /\ gJob \in [GReqs -> Requests]
      BY DEF RowsInv, RowsTypeOK, Requests, Roles
<1>2. gPc[q] = what /\ what # "idle"
      BY DEF Writes, Handlers
<1>3. /\ gJob[q].g \in Teams /\ gJob[q].u \in Users
      /\ what \in {"add", "role"} => gJob[q].r # "none"
      BY <1>2 DEF RowsInv, JobFits
<1>4. gJob[q].r \in Roles /\ gJob[q].id \in 0 .. MaxInvites
      BY <1>1 DEF Requests
<1>5. 0 \in 0 .. MaxInvites
      BY GroupsAssumption
<1>6. NoWork \in Requests
      BY <1>5 DEF NoWork, Requests, Roles
<1>7. /\ gPc' \in [GReqs -> Handlers \cup {"idle"}] /\ gPc'[q] = "idle"
      /\ \A p \in GReqs \ {q} : gPc'[p] = gPc[p]
      BY <1>1 DEF Writes
<1>8. /\ gJob' \in [GReqs -> Requests]
      /\ \A p \in GReqs \ {q} : gJob'[p] = gJob[p]
      BY <1>1, <1>6 DEF Writes
<1>9. JobFits'
      BY <1>7, <1>8 DEF RowsInv, JobFits
<1>10. QED
      BY <1>2, <1>3, <1>4, <1>7, <1>8, <1>9

\* A matrix over teams and users keeps its type when one entry changes.
LEMMA EntryType ==
    ASSUME NEW V, NEW m \in [Teams -> [Users -> V]], NEW g \in Teams, NEW u \in Users,
           NEW x \in V
    PROVE  [m EXCEPT ![g][u] = x] \in [Teams -> [Users -> V]]
    OBVIOUS

LEMMA RowsInitially == GroupsInit => RowsInv
<1> SUFFICES ASSUME GroupsInit PROVE RowsInv
    OBVIOUS
<1>1. 0 \in 0 .. MaxInvites /\ 0 \in 0 .. MaxFailures
      BY GroupsAssumption
<1>2. NoWork \in Requests
      BY <1>1 DEF NoWork, Requests, Roles
<1>3. gJob \in [GReqs -> Requests] /\ gPc \in [GReqs -> Handlers \cup {"idle"}]
      BY <1>2 DEF GroupsInit
<1>4. JobFits
      BY DEF GroupsInit, JobFits
<1>m. RowsWereMade
      BY DEF GroupsInit, RowsWereMade
<1>5. RowsTypeOK
      BY <1>1, <1>3 DEF GroupsInit, RowsTypeOK, Requests, Roles
<1>6. QED
      BY <1>4, <1>5, <1>m DEF RowsInv

\* What a write leaves of the type: the rows it may have changed are given.
LEMMA WriteKeepsInv ==
    ASSUME RowsInv, NEW q \in GReqs, NEW what \in Handlers, Writes(q, what),
           creator' \in [Teams -> Users \cup {None}], made' \subseteq Teams,
           RowsWereMade', enabled' \subseteq {g \in made' : creator'[g] # None},
           role' \in [Teams -> [Users -> Roles]],
           inv' \in [Teams -> [Users -> 0 .. MaxInvites]], invites' \in 0 .. MaxInvites,
           leaving' \in [Users -> {"here", "scheduled", "due", "gone"}],
           UNCHANGED <<doomed, failures>>
    PROVE  RowsInv'
<1>1. doomed' \subseteq Users /\ failures' \in 0 .. MaxFailures
      BY DEF RowsInv, RowsTypeOK
<1>2. /\ gPc' \in [GReqs -> Handlers \cup {"idle"}] /\ gJob' \in [GReqs -> Requests]
      /\ JobFits'
      BY WriteEnds
<1>3. QED
      BY <1>1, <1>2 DEF RowsInv, RowsTypeOK, Roles, Requests

LEMMA AnswerKeepsInv ==
    ASSUME RowsInv, NEW q \in GReqs, Answers(q)
    PROVE  RowsInv'
<1> DEFINE g == gJob[q].g
           u == gJob[q].u
<1>0. /\ creator \in [Teams -> Users \cup {None}] /\ made \subseteq Teams
      /\ enabled \subseteq {h \in made : creator[h] # None}
      /\ role \in [Teams -> [Users -> Roles]]
      /\ inv \in [Teams -> [Users -> 0 .. MaxInvites]] /\ invites \in 0 .. MaxInvites
      /\ leaving \in [Users -> {"here", "scheduled", "due", "gone"}]
      BY DEF RowsInv, RowsTypeOK, Roles
<1>m. \A h \in Teams : creator[h] # None => h \in made
      BY DEF RowsInv, RowsWereMade
<1>h. {"create", "transfer", "remove", "add", "role", "invite", "cancel", "accept",
       "delete", "status", "reject", "schedule"} \subseteq Handlers
      BY DEF Handlers
<1>n. None \notin Users /\ MaxInvites \in Nat
      BY GroupsAssumption
<1>r. "none" \in Roles /\ "member" \in Roles /\ "owner" \in Roles
      BY DEF Roles
<1>z. 0 \in 0 .. MaxInvites
      BY <1>n
<1>e. \A h \in Teams, v \in Users :
         /\ \A x \in Roles : [role EXCEPT ![h][v] = x] \in [Teams -> [Users -> Roles]]
         /\ \A x \in 0 .. MaxInvites :
               [inv EXCEPT ![h][v] = x] \in [Teams -> [Users -> 0 .. MaxInvites]]
  <2> SUFFICES ASSUME NEW h \in Teams, NEW v \in Users
               PROVE  /\ \A x \in Roles : [role EXCEPT ![h][v] = x] \in [Teams -> [Users -> Roles]]
                      /\ \A x \in 0 .. MaxInvites :
                            [inv EXCEPT ![h][v] = x] \in [Teams -> [Users -> 0 .. MaxInvites]]
      OBVIOUS
  <2>1. ASSUME NEW x \in Roles PROVE [role EXCEPT ![h][v] = x] \in [Teams -> [Users -> Roles]]
        BY <1>0, EntryType
  <2>2. ASSUME NEW x \in 0 .. MaxInvites
        PROVE  [inv EXCEPT ![h][v] = x] \in [Teams -> [Users -> 0 .. MaxInvites]]
        BY <1>0, EntryType
  <2>3. QED
        BY <2>1, <2>2
<1>1. ASSUME Creates(q) PROVE RowsInv'
  <2>1. Writes(q, "create") /\ UNCHANGED <<inv, invites, accounts>>
        BY <1>1 DEF Creates
  <2>2. g \in Teams /\ u \in Users
        BY <2>1, <1>h, WriteEnds
  <2>3. /\ creator' = [creator EXCEPT ![g] = u] /\ made' = made \cup {g}
        /\ enabled' = enabled \cup {g} /\ role' = [role EXCEPT ![g][u] = "owner"]
        BY <1>1 DEF Creates, SetRole
  <2>4. /\ creator' \in [Teams -> Users \cup {None}] /\ made' \subseteq Teams
        /\ enabled' \subseteq {h \in made' : creator'[h] # None}
        /\ \A h \in Teams : creator'[h] # None => h \in made'
        BY <1>0, <1>m, <1>n, <2>2, <2>3
  <2>5. role' \in [Teams -> [Users -> Roles]]
        BY <1>0, <1>e, <1>r, <2>2, <2>3
  <2>6. QED
        BY <1>0, <1>h, <2>1, <2>4, <2>5, WriteKeepsInv DEF RowsWereMade, accounts
<1>2. ASSUME CreatesNothing(q) PROVE RowsInv'
      BY <1>0, <1>2, <1>h, <1>m, WriteKeepsInv DEF CreatesNothing, RowsWereMade, members, accounts
<1>3. ASSUME Transfers(q) PROVE RowsInv'
  <2>1. Writes(q, "transfer") /\ UNCHANGED <<made, enabled, inv, invites, accounts>>
        BY <1>3 DEF Transfers
  <2>2. g \in Teams /\ u \in Users
        BY <2>1, <1>h, WriteEnds
  <2>3. /\ creator' = IF creator[g] = None THEN creator ELSE [creator EXCEPT ![g] = u]
        /\ role' = role \/ role' = [role EXCEPT ![g][u] = "owner"]
        BY <1>3 DEF Transfers, SetRole
  <2>4. /\ creator' \in [Teams -> Users \cup {None}] /\ made' \subseteq Teams
        /\ enabled' \subseteq {h \in made' : creator'[h] # None}
        /\ \A h \in Teams : creator'[h] # None => h \in made'
        BY <1>0, <1>m, <1>n, <2>1, <2>2, <2>3
  <2>5. [role EXCEPT ![g][u] = "owner"] \in [Teams -> [Users -> Roles]]
        BY <1>e, <1>r, <2>2
  <2>6. role' \in [Teams -> [Users -> Roles]]
        BY <1>0, <2>3, <2>5
  <2>7. QED
        BY <1>0, <1>h, <2>1, <2>4, <2>6, WriteKeepsInv DEF RowsWereMade, accounts
<1>4. ASSUME Deletes(q) PROVE RowsInv'
  <2>1. Writes(q, "delete") /\ UNCHANGED <<made, invites, accounts>>
        BY <1>4 DEF Deletes
  <2>2. g \in Teams
        BY <2>1, <1>h, WriteEnds
  <2>3. /\ creator' = [creator EXCEPT ![g] = None] /\ enabled' = enabled \ {g}
        /\ role' = [role EXCEPT ![g] = [v \in Users |-> "none"]]
        /\ inv' = [inv EXCEPT ![g] = [v \in Users |-> 0]]
        BY <1>4 DEF Deletes
  <2>4. /\ creator' \in [Teams -> Users \cup {None}] /\ made' \subseteq Teams
        /\ enabled' \subseteq {h \in made' : creator'[h] # None}
        /\ \A h \in Teams : creator'[h] # None => h \in made'
        BY <1>0, <1>m, <2>1, <2>2, <2>3
  <2>5. [v \in Users |-> "none"] \in [Users -> Roles]
        BY <1>r
  <2>6. [v \in Users |-> 0] \in [Users -> 0 .. MaxInvites]
        BY <1>z
  <2>7. role' \in [Teams -> [Users -> Roles]]
        BY <1>0, <2>3, <2>5
  <2>8. inv' \in [Teams -> [Users -> 0 .. MaxInvites]]
        BY <1>0, <2>3, <2>6
  <2>9. QED
        BY <1>0, <1>h, <2>1, <2>4, <2>7, <2>8, WriteKeepsInv DEF RowsWereMade, accounts
<1>5. ASSUME SetsStatus(q) PROVE RowsInv'
  <2>1. Writes(q, "status") /\ UNCHANGED <<creator, made, role, inv, invites, accounts>>
        BY <1>5 DEF SetsStatus
  <2>2. g \in Teams
        BY <2>1, <1>h, WriteEnds
  <2>3. enabled' \subseteq enabled \cup ({g} \cap {h \in Teams : creator[h] # None})
    <3>1. enabled' \in {enabled \cup ({g} \cap {h \in Teams : creator[h] # None}), enabled \ {g}}
          BY <1>5 DEF SetsStatus
    <3>2. QED
          BY <3>1, <2>2
  <2>4. enabled' \subseteq {h \in made' : creator'[h] # None}
        BY <1>0, <1>m, <2>1, <2>3
  <2>5. QED
        BY <1>0, <1>h, <1>m, <2>1, <2>4, WriteKeepsInv DEF RowsWereMade, accounts
<1>6. ASSUME Removes(q) \/ Adds(q) \/ UpdatesRole(q) \/ Accepts(q) PROVE RowsInv'
  <2>1. PICK what \in {"remove", "add", "role", "accept"} :
           Writes(q, what) /\ UNCHANGED <<creator, made, enabled, invites, accounts>>
        BY <1>6 DEF Removes, Adds, UpdatesRole, Accepts
  <2>2. g \in Teams /\ u \in Users /\ gJob[q].r \in Roles
        BY <2>1, <1>h, WriteEnds
  <2>3. role' = role \/ \E r \in Roles : role' = [role EXCEPT ![g][u] = r]
        BY <1>6, <1>r, <2>2 DEF Removes, Adds, UpdatesRole, Accepts, SetRole
  <2>4. role' \in [Teams -> [Users -> Roles]]
    <3>1. CASE role' = role
          BY <1>0, <3>1
    <3>2. ASSUME NEW r \in Roles, role' = [role EXCEPT ![g][u] = r]
          PROVE  role' \in [Teams -> [Users -> Roles]]
          BY <1>e, <2>2, <3>2
    <3>3. QED
          BY <2>3, <3>1, <3>2
  <2>5. inv' = inv \/ inv' = [inv EXCEPT ![g][u] = 0]
        BY <1>6 DEF Removes, Adds, UpdatesRole, Accepts, DropInvitation
  <2>6. [inv EXCEPT ![g][u] = 0] \in [Teams -> [Users -> 0 .. MaxInvites]]
        BY <1>e, <1>z, <2>2
  <2>7. inv' \in [Teams -> [Users -> 0 .. MaxInvites]]
        BY <1>0, <2>5, <2>6
  <2>8. QED
        BY <1>0, <1>h, <1>m, <2>1, <2>4, <2>7, WriteKeepsInv DEF RowsWereMade, accounts
<1>7. ASSUME Invites(q) PROVE RowsInv'
  <2>1. Writes(q, "invite") /\ UNCHANGED <<members, accounts>>
        BY <1>7 DEF Invites
  <2>2. g \in Teams /\ u \in Users
        BY <2>1, <1>h, WriteEnds
  <2>3. /\ invites < MaxInvites /\ invites' = invites + 1
        /\ inv' = inv \/ inv' = [inv EXCEPT ![g][u] = invites + 1]
        BY <1>7 DEF Invites
  <2>4. invites' \in 0 .. MaxInvites /\ invites + 1 \in 0 .. MaxInvites
        BY <1>0, <1>n, <2>3
  <2>5. [inv EXCEPT ![g][u] = invites + 1] \in [Teams -> [Users -> 0 .. MaxInvites]]
        BY <1>e, <2>2, <2>4
  <2>6. inv' \in [Teams -> [Users -> 0 .. MaxInvites]]
        BY <1>0, <2>3, <2>5
  <2>7. QED
        BY <1>0, <1>h, <1>m, <2>1, <2>4, <2>6, WriteKeepsInv DEF RowsWereMade, members, accounts
<1>8. ASSUME Withdraws(q) PROVE RowsInv'
  <2>1. PICK what \in {"cancel", "reject"} :
           Writes(q, what) /\ UNCHANGED <<members, invites, accounts>>
        BY <1>8 DEF Withdraws
  <2>2. g \in Teams /\ u \in Users
        BY <2>1, <1>h, WriteEnds
  <2>3. inv' = inv \/ inv' = [inv EXCEPT ![g][u] = 0]
        BY <1>8 DEF Withdraws, DropInvitation
  <2>4. [inv EXCEPT ![g][u] = 0] \in [Teams -> [Users -> 0 .. MaxInvites]]
        BY <1>e, <1>z, <2>2
  <2>5. inv' \in [Teams -> [Users -> 0 .. MaxInvites]]
        BY <1>0, <2>3, <2>4
  <2>6. QED
        BY <1>0, <1>h, <1>m, <2>1, <2>5, WriteKeepsInv DEF RowsWereMade, members, accounts
<1>9. ASSUME Schedules(q) PROVE RowsInv'
  <2>1. Writes(q, "schedule") /\ UNCHANGED <<members, inv, invites, doomed, failures>>
        BY <1>9 DEF Schedules
  <2>2. u \in Users
        BY <2>1, <1>h, WriteEnds
  <2>3. leaving' \in [Users -> {"here", "scheduled", "due", "gone"}]
        BY <1>0, <1>9, <2>2 DEF Schedules
  <2>4. QED
        BY <1>0, <1>h, <1>m, <2>1, <2>3, WriteKeepsInv DEF RowsWereMade, members
<1>10. QED
       BY <1>1, <1>2, <1>3, <1>4, <1>5, <1>6, <1>7, <1>8, <1>9 DEF Answers

\* A request begins, an account goes, or the sweep lists.
LEMMA BeginKeepsInv ==
    ASSUME RowsInv, NEW q \in GReqs, NEW what \in Handlers,
           NEW who \in Users, NEW u \in Users, NEW g \in Teams,
           NEW r \in IF what \in {"add", "role"} THEN {"owner", "admin", "member"} ELSE {"none"},
           Begins(q, what, who, g, u, r)
    PROVE  RowsInv'
<1>1. /\ gPc \in [GReqs -> Handlers \cup {"idle"}] /\ gJob \in [GReqs -> Requests]
      /\ inv[g][u] \in 0 .. MaxInvites
      BY DEF RowsInv, RowsTypeOK, Requests, Roles
<1>2. r \in Roles /\ (what \in {"add", "role"} => r # "none")
      BY DEF Roles
<1>3. /\ gPc' = [gPc EXCEPT ![q] = what]
      /\ gJob' = [gJob EXCEPT ![q] = [g |-> g, u |-> u, r |-> r, id |-> inv[g][u]]]
      /\ UNCHANGED <<members, inv, invites, accounts>>
      BY DEF Begins
<1>4. [g |-> g, u |-> u, r |-> r, id |-> inv[g][u]] \in Requests
      BY <1>1, <1>2 DEF Requests
<1>5. gPc' \in [GReqs -> Handlers \cup {"idle"}] /\ gJob' \in [GReqs -> Requests]
      BY <1>1, <1>3, <1>4
<1>6. JobFits'
      BY <1>1, <1>2, <1>3 DEF RowsInv, JobFits
<1>7. RowsWereMade'
      BY <1>3 DEF RowsInv, RowsWereMade, members
<1>8. RowsTypeOK'
      BY <1>3, <1>5 DEF RowsInv, RowsTypeOK, Requests, Roles, members, accounts
<1>9. QED
      BY <1>6, <1>7, <1>8 DEF RowsInv

LEMMA EraseKeepsInv ==
    ASSUME RowsInv, NEW u \in Users, Erases(u)
    PROVE  RowsInv'
<1>0. /\ creator \in [Teams -> Users \cup {None}] /\ made \subseteq Teams
      /\ enabled \subseteq {h \in made : creator[h] # None}
      /\ role \in [Teams -> [Users -> Roles]]
      /\ inv \in [Teams -> [Users -> 0 .. MaxInvites]]
      /\ leaving \in [Users -> {"here", "scheduled", "due", "gone"}] /\ doomed \subseteq Users
      BY DEF RowsInv, RowsTypeOK, Roles
<1>1. /\ doomed' = doomed \ {u} /\ leaving' = [leaving EXCEPT ![u] = "gone"]
      /\ role' = [g \in Teams |-> [role[g] EXCEPT ![u] = "none"]]
      /\ inv' = [g \in Teams |-> [inv[g] EXCEPT ![u] = 0]]
      /\ creator' = [g \in Teams |-> IF creator[g] = u THEN None ELSE creator[g]]
      /\ enabled' = enabled \ {g \in Teams : creator[g] = u}
      /\ UNCHANGED <<made, invites, failures, gPc, gJob>>
      BY DEF Erases
<1>2. 0 \in 0 .. MaxInvites
      BY GroupsAssumption
<1>3. /\ creator' \in [Teams -> Users \cup {None}] /\ made' \subseteq Teams
      /\ enabled' \subseteq {h \in made' : creator'[h] # None}
      BY <1>0, <1>1
<1>4. role' \in [Teams -> [Users -> Roles]]
  <2>1. ASSUME NEW g \in Teams PROVE [role[g] EXCEPT ![u] = "none"] \in [Users -> Roles]
        BY <1>0 DEF Roles
  <2>2. QED
        BY <1>1, <2>1
<1>5. inv' \in [Teams -> [Users -> 0 .. MaxInvites]]
  <2>1. ASSUME NEW g \in Teams PROVE [inv[g] EXCEPT ![u] = 0] \in [Users -> 0 .. MaxInvites]
        BY <1>0, <1>2
  <2>2. QED
        BY <1>1, <2>1
<1>6. leaving' \in [Users -> {"here", "scheduled", "due", "gone"}] /\ doomed' \subseteq Users
      BY <1>0, <1>1
<1>7. RowsWereMade'
      BY <1>0, <1>1 DEF RowsInv, RowsWereMade
<1>8. JobFits'
      BY <1>1 DEF RowsInv, JobFits
<1>9. RowsTypeOK'
      BY <1>1, <1>3, <1>4, <1>5, <1>6 DEF RowsInv, RowsTypeOK, Roles
<1>10. QED
       BY <1>7, <1>8, <1>9 DEF RowsInv

LEMMA RowsStep == RowsInv /\ [GroupsNext]_gVars => RowsInv'
<1> SUFFICES ASSUME RowsInv, [GroupsNext]_gVars PROVE RowsInv'
    OBVIOUS
<1>1. ASSUME NEW u \in Users, CancelsDeletion(u) \/ GracePasses(u) PROVE RowsInv'
  <2>1. /\ leaving' \in [Users -> {"here", "scheduled", "due", "gone"}]
        /\ UNCHANGED <<members, inv, invites, doomed, failures, gPc, gJob>>
        BY <1>1 DEF CancelsDeletion, GracePasses, RowsInv, RowsTypeOK
  <2>2. QED
        BY <2>1 DEF RowsInv, RowsTypeOK, JobFits, RowsWereMade, members
<1>2. ASSUME NEW u \in Users, EraseFails(u) PROVE RowsInv'
  <2>1. MaxFailures \in Nat
        BY GroupsAssumption
  <2>2. /\ failures < MaxFailures /\ failures' = failures + 1 /\ doomed' = doomed \ {u}
        /\ UNCHANGED <<members, inv, invites, leaving, gPc, gJob>>
        BY <1>2 DEF EraseFails
  <2>3. failures \in 0 .. MaxFailures /\ doomed \subseteq Users
        BY DEF RowsInv, RowsTypeOK
  <2>4. failures' \in 0 .. MaxFailures /\ doomed' \subseteq Users
        BY <2>1, <2>2, <2>3
  <2>5. QED
        BY <2>2, <2>4 DEF RowsInv, RowsTypeOK, JobFits, RowsWereMade, members
<1>3. ASSUME ListsDue PROVE RowsInv'
  <2>1. /\ doomed' \subseteq Users
        /\ UNCHANGED <<members, inv, invites, leaving, failures, gPc, gJob>>
        BY <1>3 DEF ListsDue
  <2>2. QED
        BY <2>1 DEF RowsInv, RowsTypeOK, JobFits, RowsWereMade, members
<1>4. CASE UNCHANGED gVars
      BY <1>4 DEF gVars, members, accounts, RowsInv, RowsTypeOK, JobFits, RowsWereMade
<1>5. QED
      BY <1>1, <1>2, <1>3, <1>4, AnswerKeepsInv, BeginKeepsInv, EraseKeepsInv DEF GroupsNext, GroupsMoves

LEMMA GroupsInitially == GroupsInit => GroupsInv
<1>1. GroupsInit => PastFits
      BY DEF GroupsInit, PastFits
<1>2. QED
      BY <1>1, RowsInitially DEF GroupsInv

LEMMA GroupsStep == GroupsInv /\ [GroupsNext]_gVars => GroupsInv'
<1> SUFFICES ASSUME GroupsInv, [GroupsNext]_gVars PROVE GroupsInv'
    OBVIOUS
<1>1. RowsInv'
      BY RowsStep DEF GroupsInv
<1>2. ASSUME Overtakes, Crosses PROVE PastFits'
  <2>1. \A q \in overtaken : gJob[q].g \in Teams
        BY DEF GroupsInv, PastFits, RowsInv, JobFits
  <2>2. crossed' \subseteq Teams
        BY <1>2, <2>1 DEF Crosses, GroupsInv, PastFits
  <2>3. QED
        BY <1>2, <2>2 DEF Overtakes, PastFits
<1>3. CASE UNCHANGED gVars
      BY <1>1, <1>3 DEF GroupsInv, PastFits, gVars, gPast
<1>4. QED
      BY <1>1, <1>2, <1>3 DEF GroupsNext, GroupsInv

\* The rows of teams, members and invitations keep their shape, and a request is about a team
\* and a user: what the handlers of routes/groups rely on.
THEOREM GroupsInvHolds == GroupsSpec => []GroupsInv
<1>1. QED
      BY GroupsInitially, GroupsStep, PTL DEF GroupsSpec

\* Every variable of Groups keeps the shape Init gives it.
THEOREM GroupsTypeCorrect == GroupsSpec => []GroupsTypeOK
<1>1. GroupsInv => GroupsTypeOK
      BY DEF GroupsInv, RowsInv, RowsTypeOK, PastFits, GroupsTypeOK
<1>2. QED
      BY <1>1, GroupsInvHolds, PTL

\* A request nothing has overtaken still finds what it read.
LEMMA ReadStillSo ==
    ASSUME StillSo, Overtakes, NEW q \in GReqs \ overtaken', gPc[q] # "idle",
           gPc'[q] = gPc[q], gJob'[q] = gJob[q]
    PROVE  /\ gPc'[q] = "remove" => creator'[gJob'[q].g] # gJob'[q].u
           /\ gPc'[q] = "transfer" => role'[gJob'[q].g][gJob'[q].u] # "none"
<1>1. /\ q \notin overtaken
      /\ creator'[gJob[q].g] = creator[gJob[q].g]
      /\ role'[gJob[q].g][gJob[q].u] = role[gJob[q].g][gJob[q].u]
      BY DEF Overtakes
<1>2. QED
      BY <1>1 DEF StillSo

\* A write leaves the other requests what they read, or overtakes them.
LEMMA WriteKeepsReads ==
    ASSUME OwnersInv, NEW q \in GReqs, NEW what \in Handlers, Writes(q, what), Overtakes
    PROVE  StillSo'
<1>1. /\ gPc'[q] = "idle"
      /\ \A p \in GReqs \ {q} : gPc'[p] = gPc[p] /\ gJob'[p] = gJob[p]
      BY WriteEnds DEF OwnersInv, GroupsInv
<1>2. ASSUME NEW p \in GReqs \ overtaken', gPc'[p] # "idle"
      PROVE  /\ gPc'[p] = "remove" => creator'[gJob'[p].g] # gJob'[p].u
             /\ gPc'[p] = "transfer" => role'[gJob'[p].g][gJob'[p].u] # "none"
      BY <1>1, <1>2, ReadStillSo DEF OwnersInv
<1>3. QED
      BY <1>2 DEF StillSo

\* Whatever an answer writes, the creator of a team keeps a role in it, or the team is crossed.
LEMMA AnswerKeepsCreator ==
    ASSUME OwnersInv, NEW q \in GReqs, Answers(q), Crosses
    PROVE  CreatorIsMember' /\ \E what \in Handlers : Writes(q, what)
<1> DEFINE g == gJob[q].g
           u == gJob[q].u
<1>0. /\ creator \in [Teams -> Users \cup {None}]
      /\ role \in [Teams -> [Users -> Roles]]
      /\ \A h \in Teams \ crossed : creator[h] # None => role[h][creator[h]] # "none"
      /\ crossed \subseteq crossed'
      BY DEF OwnersInv, GroupsInv, RowsInv, RowsTypeOK, Roles, CreatorIsMember, Crosses
<1>h. {"create", "transfer", "remove", "add", "role", "invite", "cancel", "accept",
       "delete", "status", "reject", "schedule"} \subseteq Handlers
      BY DEF Handlers
<1>i. RowsInv
      BY DEF OwnersInv, GroupsInv
<1>n. None \notin Users
      BY GroupsAssumption
<1>1. ASSUME Creates(q) PROVE CreatorIsMember' /\ Writes(q, "create")
  <2>1. g \in Teams /\ u \in Users
        BY <1>1, <1>h, <1>i, WriteEnds DEF Creates
  <2>2. creator' = [creator EXCEPT ![g] = u] /\ role' = [role EXCEPT ![g][u] = "owner"]
        BY <1>1 DEF Creates, SetRole
  <2>3. CreatorIsMember'
        BY <1>0, <2>1, <2>2 DEF CreatorIsMember
  <2>4. QED
        BY <1>1, <2>3 DEF Creates
<1>2. ASSUME Transfers(q) PROVE CreatorIsMember' /\ Writes(q, "transfer")
  <2>1. g \in Teams /\ u \in Users /\ gPc[q] = "transfer" /\ gPc'[q] = "idle"
        BY <1>2, <1>h, <1>i, WriteEnds DEF Transfers
  <2>2. /\ creator' = IF creator[g] = None THEN creator ELSE [creator EXCEPT ![g] = u]
        /\ role' = IF role[g][u] = "none" THEN role ELSE [role EXCEPT ![g][u] = "owner"]
        BY <1>2 DEF Transfers, SetRole
  <2>3. g \in crossed' \/ role[g][u] # "none"
        BY <2>1 DEF OwnersInv, StillSo, Crosses
  <2>4. CreatorIsMember'
    <3> SUFFICES ASSUME NEW h \in Teams \ crossed', creator'[h] # None
                 PROVE  role'[h][creator'[h]] # "none"
        BY DEF CreatorIsMember
    <3>1. CASE h = g
          BY <1>0, <2>1, <2>2, <2>3, <3>1
    <3>2. CASE h # g
          BY <1>0, <2>1, <2>2, <3>2
    <3>3. QED
          BY <3>1, <3>2
  <2>5. QED
        BY <1>2, <2>4 DEF Transfers
<1>3. ASSUME Deletes(q) PROVE CreatorIsMember' /\ Writes(q, "delete")
  <2>1. g \in Teams
        BY <1>3, <1>h, <1>i, WriteEnds DEF Deletes
  <2>2. /\ creator' = [creator EXCEPT ![g] = None]
        /\ role' = [role EXCEPT ![g] = [v \in Users |-> "none"]]
        BY <1>3 DEF Deletes
  <2>3. CreatorIsMember'
        BY <1>0, <2>1, <2>2 DEF CreatorIsMember
  <2>4. QED
        BY <1>3, <2>3 DEF Deletes
<1>4. ASSUME Removes(q) PROVE CreatorIsMember' /\ Writes(q, "remove")
  <2>1. g \in Teams /\ u \in Users /\ gPc[q] = "remove" /\ gPc'[q] = "idle"
        BY <1>4, <1>h, <1>i, WriteEnds DEF Removes
  <2>2. g \in crossed' \/ creator[g] # u
        BY <2>1 DEF OwnersInv, StillSo, Crosses
  <2>3. role' = [role EXCEPT ![g][u] = "none"] /\ creator' = creator
        BY <1>4 DEF Removes, SetRole
  <2>4. CreatorIsMember'
        BY <1>0, <2>1, <2>2, <2>3 DEF CreatorIsMember
  <2>5. QED
        BY <1>4, <2>4 DEF Removes
<1>5. ASSUME Adds(q) \/ UpdatesRole(q) \/ Accepts(q)
      PROVE  CreatorIsMember' /\ \E what \in Handlers : Writes(q, what)
  <2>1. PICK what \in {"add", "role", "accept"} : Writes(q, what) /\ creator' = creator
        BY <1>5 DEF Adds, UpdatesRole, Accepts
  <2>2. /\ g \in Teams /\ u \in Users
        /\ gPc[q] = what /\ (what \in {"add", "role"} => gJob[q].r # "none")
        BY <2>1, <1>h, <1>i, WriteEnds
  <2>3. \/ role' = role
        \/ role' = [role EXCEPT ![g][u] = gJob[q].r] /\ gJob[q].r # "none"
        \/ role' = [role EXCEPT ![g][u] = "member"]
    <3>1. CASE Adds(q)
          BY <2>2, <3>1 DEF Adds, SetRole, Writes
    <3>2. CASE UpdatesRole(q)
          BY <2>2, <3>2 DEF UpdatesRole, SetRole, Writes
    <3>3. CASE Accepts(q)
          BY <3>3 DEF Accepts, SetRole
    <3>4. QED
          BY <1>5, <3>1, <3>2, <3>3
  <2>4. ASSUME NEW h \in Teams \ crossed', creator'[h] # None PROVE role'[h][creator'[h]] # "none"
    <3>1. creator[h] \in Users /\ role[h][creator[h]] # "none" /\ creator' = creator
          BY <1>0, <2>1, <2>4
    <3>2. QED
          BY <1>0, <2>2, <2>3, <3>1
  <2>5. QED
        BY <1>h, <2>1, <2>4 DEF CreatorIsMember
<1>6. ASSUME CreatesNothing(q) \/ SetsStatus(q) \/ Invites(q) \/ Withdraws(q) \/ Schedules(q)
      PROVE  CreatorIsMember' /\ \E what \in Handlers : Writes(q, what)
  <2>1. UNCHANGED <<creator, role>>
        BY <1>6 DEF CreatesNothing, SetsStatus, Invites, Withdraws, Schedules, members
  <2>2. \E what \in Handlers : Writes(q, what)
        BY <1>6, <1>h DEF CreatesNothing, SetsStatus, Invites, Withdraws, Schedules
  <2>3. QED
        BY <1>0, <2>1, <2>2 DEF CreatorIsMember
<1>7. QED
      BY <1>1, <1>2, <1>3, <1>4, <1>5, <1>6, <1>h DEF Answers

LEMMA BeginKeepsOwners ==
    ASSUME OwnersInv, Overtakes, Crosses, NEW q \in GReqs, NEW what \in Handlers,
           NEW who \in Users, NEW u \in Users, NEW g \in Teams,
           NEW r \in IF what \in {"add", "role"} THEN {"owner", "admin", "member"} ELSE {"none"},
           Begins(q, what, who, g, u, r)
    PROVE  StillSo' /\ CreatorIsMember'
<1>1. /\ gPc \in [GReqs -> Handlers \cup {"idle"}] /\ gJob \in [GReqs -> Requests]
      BY DEF OwnersInv, GroupsInv, RowsInv, RowsTypeOK, Requests, Roles
<1>2. /\ gPc' = [gPc EXCEPT ![q] = what]
      /\ gJob' = [gJob EXCEPT ![q] = [g |-> g, u |-> u, r |-> r, id |-> inv[g][u]]]
      /\ UNCHANGED members
      BY DEF Begins
<1>3. /\ what = "remove" => creator[g] # u
      /\ what = "transfer" => role[g][u] # "none"
      BY DEF Begins, May
<1>4. gPc'[q] = what /\ gJob'[q].g = g /\ gJob'[q].u = u
      BY <1>1, <1>2
<1>5. \A p \in GReqs \ {q} : gPc'[p] = gPc[p] /\ gJob'[p] = gJob[p]
      BY <1>1, <1>2
<1>6. ASSUME NEW p \in GReqs \ overtaken', gPc'[p] # "idle"
      PROVE  /\ gPc'[p] = "remove" => creator'[gJob'[p].g] # gJob'[p].u
             /\ gPc'[p] = "transfer" => role'[gJob'[p].g][gJob'[p].u] # "none"
  <2>1. CASE p = q
        BY <1>2, <1>3, <1>4, <2>1 DEF members
  <2>2. CASE p # q
        BY <1>5, <1>6, <2>2, ReadStillSo DEF OwnersInv
  <2>3. QED
        BY <2>1, <2>2
<1>7. StillSo'
      BY <1>6 DEF StillSo
<1>8. CreatorIsMember'
      BY <1>2 DEF OwnersInv, CreatorIsMember, Crosses, members
<1>9. QED
      BY <1>7, <1>8

\* An erasure takes the rows of its user, the teams it created among them.
LEMMA EraseKeepsCreator ==
    ASSUME OwnersInv, Crosses, NEW u \in Users, Erases(u)
    PROVE  CreatorIsMember'
<1>1. /\ creator \in [Teams -> Users \cup {None}] /\ role \in [Teams -> [Users -> Roles]]
      /\ \A h \in Teams \ crossed : creator[h] # None => role[h][creator[h]] # "none"
      /\ crossed \subseteq crossed'
      BY DEF OwnersInv, GroupsInv, RowsInv, RowsTypeOK, Roles, CreatorIsMember, Crosses
<1>2. /\ role' = [g \in Teams |-> [role[g] EXCEPT ![u] = "none"]]
      /\ creator' = [g \in Teams |-> IF creator[g] = u THEN None ELSE creator[g]]
      BY DEF Erases
<1> SUFFICES ASSUME NEW g \in Teams \ crossed', creator'[g] # None
             PROVE  role'[g][creator'[g]] # "none"
    BY DEF CreatorIsMember
<1>3. creator'[g] = creator[g] /\ creator[g] # u /\ creator[g] \in Users
      BY <1>1, <1>2
<1>4. role'[g][creator[g]] = role[g][creator[g]]
      BY <1>1, <1>2, <1>3
<1>5. QED
      BY <1>1, <1>3, <1>4

LEMMA OwnersStep == OwnersInv /\ [GroupsNext]_gVars => OwnersInv'
<1> SUFFICES ASSUME OwnersInv, [GroupsNext]_gVars PROVE StillSo' /\ CreatorIsMember'
    BY GroupsStep DEF OwnersInv
<1>1. CASE UNCHANGED gVars
      BY <1>1 DEF OwnersInv, StillSo, CreatorIsMember, gVars, gPast, members
<1>2. ASSUME Overtakes, Crosses, GroupsMoves PROVE StillSo' /\ CreatorIsMember'
  <2>1. ASSUME NEW q \in GReqs, Answers(q) PROVE StillSo' /\ CreatorIsMember'
        BY <1>2, <2>1, AnswerKeepsCreator, WriteKeepsReads
  <2>2. ASSUME UNCHANGED <<gPc, gJob>> PROVE StillSo'
    <3>1. ASSUME NEW q \in GReqs \ overtaken', gPc'[q] # "idle"
          PROVE  /\ gPc'[q] = "remove" => creator'[gJob'[q].g] # gJob'[q].u
                 /\ gPc'[q] = "transfer" => role'[gJob'[q].g][gJob'[q].u] # "none"
          BY <1>2, <2>2, <3>1, ReadStillSo DEF OwnersInv
    <3>2. QED
          BY <3>1 DEF StillSo
  <2>3. ASSUME UNCHANGED <<creator, role>> PROVE CreatorIsMember'
        BY <1>2, <2>3 DEF OwnersInv, CreatorIsMember, Crosses
  <2>4. ASSUME NEW u \in Users, CancelsDeletion(u) \/ GracePasses(u) \/ EraseFails(u)
        PROVE  StillSo' /\ CreatorIsMember'
        BY <2>2, <2>3, <2>4 DEF CancelsDeletion, GracePasses, EraseFails, members
  <2>5. ASSUME NEW u \in Users, Erases(u) PROVE StillSo' /\ CreatorIsMember'
        BY <1>2, <2>2, <2>5, EraseKeepsCreator DEF Erases
  <2>6. ASSUME ListsDue PROVE StillSo' /\ CreatorIsMember'
        BY <2>2, <2>3, <2>6 DEF ListsDue, members
  <2>7. QED
        BY <1>2, <2>1, <2>4, <2>5, <2>6, BeginKeepsOwners DEF GroupsMoves
<1>3. QED
      BY <1>1, <1>2 DEF GroupsNext

\* However many requests and erasures overlap, the creator of a team stays one of its members
\* (members.py:126 refuses to remove it), unless a removal or a transfer wrote after the owner
\* or the user's own role had changed behind its reading.
THEOREM CreatorStaysMember == GroupsSpec => []CreatorIsMember
<1>1. GroupsInit => OwnersInv
      BY GroupsInitially DEF GroupsInit, OwnersInv, StillSo, CreatorIsMember
<1>2. OwnersInv => CreatorIsMember
      BY DEF OwnersInv
<1>3. QED
      BY <1>1, <1>2, OwnersStep, PTL DEF GroupsSpec

-----------------------------------------------------------------------------
(* Guests. *)

\* No call is between the insert of g and its session.
Unopened(g) == \A c \in Calls : at[c] = "open" => task[c].g # g

\* The sweep or a purge may take g: it is gone already, or nobody uses it.
Disposable(g) ==
    \/ guest[g] = "gone"
    \/ /\ guest[g] = "here"
       /\ g \in lapsed \/ visit[g] = "revoked" \/ (visit[g] = "none" /\ Unopened(g))

\* A browser or a call knows g by a session it once had.
Known(g) == guest[g] # "none" /\ (guest[g] = "here" => visit[g] # "none")

\* Only a guest with a row is old or has a session; an expired one has lapsed.
RowsFit ==
    \A g \in Guests :
       /\ guest[g] # "here" => visit[g] = "none" /\ g \notin grown
       /\ guest[g] = "none" => g \notin lapsed
       /\ visit[g] = "expired" => g \in lapsed

\* A guest between its insert and its session is one call's alone, and newborn.
NewbornFit ==
    \A c \in Calls : at[c] = "open" =>
       /\ task[c].g \in Guests
       /\ guest[task[c].g] = "here" /\ visit[task[c].g] = "none"
       /\ task[c].g \notin grown /\ task[c].g \notin lapsed
       /\ \A d \in Calls : at[d] = "open" /\ task[d].g = task[c].g => d = c

\* What a browser holds.
CookieFits == \A v \in Visitors : cookie[v] # NoGuest => Known(cookie[v])

\* What a call holds at each place.
TaskFits ==
    /\ \A c \in Calls :
          /\ at[c] = "answer" => task[c].g \in Guests /\ Known(task[c].g)
          /\ at[c] \in {"purge to enter", "purge to leave"} =>
                task[c].g \in Guests /\ Disposable(task[c].g)
    /\ \A c \in Sweepers : at[c] = "sweeping" => \A g \in task[c].todo : Disposable(g)

GuestsInv == GuestsTypeOK /\ RowsFit /\ NewbornFit /\ CookieFits /\ TaskFits

Rows == {"none", "here", "gone"}
Sessions == {"none", "live", "expired", "revoked"}
Places == {"idle", "purge to enter", "purge to leave", "create", "sweep", "sweeping",
           "retry", "open", "answer", "clear", "renew"}
Tasks == [v : Visitors \cup {NoGuest}, g : Guests \cup {NoGuest}, todo : SUBSET Guests]

\* GuestsTypeOK, in one place for the steps to cite.
LEMMA GuestsShape ==
    GuestsTypeOK <=>
       /\ guest \in [Guests -> Rows] /\ grown \subseteq Guests
       /\ visit \in [Guests -> Sessions] /\ cookie \in [Visitors -> Guests \cup {NoGuest}]
       /\ at \in [Sweepers -> Places] /\ task \in [Sweepers -> Tasks]
       /\ stumbles \in 0 .. MaxStumbles /\ lapsed \subseteq Guests
      BY DEF GuestsTypeOK, Rows, Sessions, Places, Tasks

\* A call that takes its next step, and what it takes with it.
LEMMA MoveEffect ==
    ASSUME GuestsTypeOK, NEW c \in Sweepers, NEW from \in Places, NEW to \in Places,
           Moves(c, from, to)
    PROVE  /\ at[c] = from /\ at' \in [Sweepers -> Places] /\ at'[c] = to
           /\ \A d \in Sweepers \ {c} : at'[d] = at[d]
      BY GuestsShape DEF Moves

LEMMA HoldEffect ==
    ASSUME GuestsTypeOK, NEW c \in Sweepers, NEW w \in Visitors \cup {NoGuest},
           NEW g \in Guests \cup {NoGuest}, Holds(c, w, g)
    PROVE  /\ task' \in [Sweepers -> Tasks] /\ task'[c].g = g /\ task'[c].todo = {}
           /\ \A d \in Sweepers \ {c} : task'[d] = task[d]
<1> DEFINE held == [Nil EXCEPT !.v = w, !.g = g]
<1>1. Nil \in Tasks /\ Nil.todo = {}
      BY DEF Nil, Tasks
<1>2. held \in Tasks /\ held.g = g /\ held.todo = {}
      BY <1>1 DEF Tasks
<1>3. task' = [task EXCEPT ![c] = held]
      BY DEF Holds
<1> HIDE DEF held
<1>4. QED
      BY <1>2, <1>3, GuestsShape

LEMMA FinishEffect ==
    ASSUME GuestsTypeOK, NEW c \in Sweepers, Finishes(c)
    PROVE  /\ at' \in [Sweepers -> Places] /\ task' \in [Sweepers -> Tasks]
           /\ at'[c] = "idle" /\ \A d \in Sweepers \ {c} : at'[d] = at[d] /\ task'[d] = task[d]
<1>1. Nil \in Tasks
      BY DEF Nil, Tasks
<1>2. QED
      BY <1>1, GuestsShape DEF Finishes, Places

LEMMA GuestsInitially == GuestsInit => GuestsInv
<1> SUFFICES ASSUME GuestsInit PROVE GuestsInv
    OBVIOUS
<1>1. 0 \in 0 .. MaxStumbles
      BY GuestsAssumption
<1>2. Nil \in Tasks
      BY DEF Nil, Tasks
<1>3. GuestsTypeOK
      BY <1>1, <1>2, GuestsShape DEF GuestsInit, Rows, Sessions, Places
<1>4. RowsFit /\ NewbornFit /\ CookieFits
      BY DEF GuestsInit, RowsFit, NewbornFit, CookieFits, Sweepers
<1>5. TaskFits
      BY DEF GuestsInit, TaskFits, Sweepers
<1>6. QED
      BY <1>3, <1>4, <1>5 DEF GuestsInv

\* Erasing a guest no call is opening leaves the others and the rest of the invariant alone.
LEMMA EraseEffect ==
    ASSUME GuestsInv, NEW g \in Guests, Erase(g), Disposable(g)
    PROVE  /\ guest' \in [Guests -> Rows] /\ grown' \subseteq Guests
           /\ visit' \in [Guests -> Sessions]
           /\ guest'[g] # "here"
           /\ \A h \in Guests \ {g} : /\ guest'[h] = guest[h] /\ visit'[h] = visit[h]
                                      /\ (h \in grown' <=> h \in grown)
           /\ guest[g] # "none" => guest'[g] = "gone"
           /\ visit'[g] = "none" /\ g \notin grown'
           /\ Unopened(g)
<1>1. /\ guest \in [Guests -> Rows] /\ grown \subseteq Guests /\ visit \in [Guests -> Sessions]
      BY GuestsShape DEF GuestsInv
<1>2. guest[g] # "here" => visit[g] = "none" /\ g \notin grown
      BY DEF GuestsInv, RowsFit
<1>3. Unopened(g)
  <2> SUFFICES ASSUME NEW c \in Calls, at[c] = "open", task[c].g = g PROVE FALSE
      BY DEF Unopened
  <2>1. guest[g] = "here" /\ visit[g] = "none" /\ g \notin lapsed
        BY DEF GuestsInv, NewbornFit
  <2>2. QED
        BY <2>1 DEF Disposable, Unopened
<1>4. CASE guest[g] # "here"
      BY <1>1, <1>2, <1>3, <1>4 DEF Erase, guestRows, Rows
<1>5. CASE guest[g] = "here"
  <2>1. /\ guest' = [guest EXCEPT ![g] = "gone"] /\ visit' = [visit EXCEPT ![g] = "none"]
        /\ grown' = grown \ {g}
        BY <1>5 DEF Erase
  <2>2. QED
        BY <1>1, <1>3, <1>5, <2>1 DEF Rows, Sessions
<1>6. QED
      BY <1>4, <1>5

\* A step that inserts no guest and opens no session keeps what the rows promise, and whoever
\* was disposable or known is so still.
LEMMA RowsKept ==
    ASSUME GuestsInv, GuestsTypeOK', lapsed \subseteq lapsed',
           \A g \in Guests :
              /\ guest'[g] # guest[g] =>
                    guest[g] = "here" /\ guest'[g] = "gone" /\ Unopened(g)
              /\ guest'[g] # "here" => visit'[g] = "none" /\ g \notin grown'
              /\ visit'[g] # visit[g] =>
                    \/ guest'[g] = "gone"
                    \/ /\ visit[g] \in {"live", "expired"} /\ visit'[g] # "none"
                       /\ visit'[g] = "expired" => g \in lapsed'
              /\ g \in grown' => g \in grown \/ Unopened(g)
              /\ g \in lapsed' => g \in lapsed \/ visit[g] = "live",
           \A c \in Calls : at'[c] = "open" => at[c] = "open" /\ task'[c].g = task[c].g
    PROVE  /\ RowsFit' /\ NewbornFit'
           /\ \A g \in Guests : Disposable(g) => Disposable(g)'
           /\ \A g \in Guests : Known(g) => Known(g)'
<1>0. /\ guest \in [Guests -> Rows] /\ visit \in [Guests -> Sessions]
      /\ guest' \in [Guests -> Rows] /\ visit' \in [Guests -> Sessions]
      BY GuestsShape DEF GuestsInv, GuestsTypeOK, Rows, Sessions
<1>1. ASSUME NEW g \in Guests
      PROVE  /\ guest[g] # "here" => visit[g] = "none" /\ g \notin grown
             /\ guest[g] = "none" => g \notin lapsed
             /\ visit[g] = "expired" => g \in lapsed
      BY DEF GuestsInv, RowsFit
<1>2. ASSUME NEW g \in Guests
      PROVE  /\ guest'[g] = "none" => g \notin lapsed'
             /\ visit'[g] = "expired" => g \in lapsed'
      BY <1>1
<1>3. RowsFit'
      BY <1>2 DEF RowsFit
<1>4. ASSUME NEW c \in Calls, at'[c] = "open"
      PROVE  /\ task'[c].g \in Guests
             /\ guest'[task'[c].g] = "here" /\ visit'[task'[c].g] = "none"
             /\ task'[c].g \notin grown' /\ task'[c].g \notin lapsed'
             /\ \A d \in Calls : at'[d] = "open" /\ task'[d].g = task'[c].g => d = c
  <2>1. at[c] = "open" /\ task'[c].g = task[c].g
        BY <1>4
  <2>2. /\ task[c].g \in Guests
        /\ guest[task[c].g] = "here" /\ visit[task[c].g] = "none"
        /\ task[c].g \notin grown /\ task[c].g \notin lapsed
        /\ \A d \in Calls : at[d] = "open" /\ task[d].g = task[c].g => d = c
        BY <2>1 DEF GuestsInv, NewbornFit
  <2>3. ~Unopened(task[c].g)
        BY <2>1 DEF Unopened
  <2>4. QED
        BY <2>1, <2>2, <2>3
<1>5. NewbornFit'
      BY <1>4 DEF NewbornFit
<1>6. ASSUME NEW g \in Guests PROVE Unopened(g) => Unopened(g)'
      BY DEF Unopened
<1>7. ASSUME NEW g \in Guests, Disposable(g) PROVE Disposable(g)'
      BY <1>0, <1>1, <1>6, <1>7 DEF Disposable, Rows, Sessions
<1>8. ASSUME NEW g \in Guests, Known(g) PROVE Known(g)'
      BY <1>0, <1>8 DEF Known
<1>9. QED
      BY <1>3, <1>5, <1>7, <1>8

\* Closing the session of a known guest makes it disposable; whoever was so is so still.
LEMMA CloseEffect ==
    ASSUME GuestsInv, NEW g \in Guests, CloseVisit(g)
    PROVE  /\ visit' \in [Guests -> Sessions]
           /\ \A h \in Guests \ {g} : visit'[h] = visit[h]
           /\ visit'[g] # visit[g] => visit[g] \in {"live", "expired"} /\ visit'[g] = "revoked"
           /\ visit[g] # "none" => visit'[g] = "revoked"
      BY GuestsShape DEF GuestsInv, CloseVisit, Sessions

\* Only c takes a step: the others hold what they held.
LEMMA TasksKept ==
    ASSUME GuestsInv, GuestsTypeOK', NEW c \in Sweepers,
           \A g \in Guests : Disposable(g) => Disposable(g)',
           \A g \in Guests : Known(g) => Known(g)',
           \A d \in Sweepers \ {c} : at'[d] = at[d] /\ task'[d] = task[d],
           at'[c] = "answer" => \E g \in Guests : task'[c].g = g /\ Known(g)',
           at'[c] \in {"purge to enter", "purge to leave"} =>
              \E g \in Guests : task'[c].g = g /\ Disposable(g)',
           at'[c] = "sweeping" => \A g \in task'[c].todo : Disposable(g)'
    PROVE  TaskFits'
<1>1. \A d \in Sweepers : task[d].todo \subseteq Guests
      BY GuestsShape DEF GuestsInv, Tasks
<1>2. ASSUME NEW d \in Calls, at'[d] = "answer"
      PROVE  \E g \in Guests : task'[d].g = g /\ Known(g)'
      BY <1>2 DEF GuestsInv, TaskFits, Sweepers
<1>3. ASSUME NEW d \in Calls, at'[d] \in {"purge to enter", "purge to leave"}
      PROVE  \E g \in Guests : task'[d].g = g /\ Disposable(g)'
      BY <1>3 DEF GuestsInv, TaskFits, Sweepers
<1>4. ASSUME NEW d \in Sweepers, at'[d] = "sweeping", NEW g \in task'[d].todo
      PROVE  Disposable(g)'
      BY <1>1, <1>4 DEF GuestsInv, TaskFits
<1>5. QED
      BY <1>2, <1>3, <1>4 DEF TaskFits

LEMMA EnterKeepsInv ==
    ASSUME GuestsInv, NEW c \in Calls, NEW w \in Visitors, Enters(c, w) \/ Leaves(c, w)
    PROVE  GuestsInv'
<1>0. GuestsTypeOK /\ c \in Sweepers /\ {"idle", "create", "purge to enter", "purge to leave"} \subseteq Places
      BY DEF GuestsInv, Sweepers, Places
<1>1. /\ guest \in [Guests -> Rows] /\ visit \in [Guests -> Sessions]
      /\ cookie[w] \in Guests \cup {NoGuest}
      BY <1>0, GuestsShape
<1>2. /\ UNCHANGED <<guest, grown, cookie, stumbles, lapsed>>
      /\ Holds(c, w, cookie[w])
      BY DEF Enters, Leaves
<1>3. \/ Moves(c, "idle", "create") /\ visit' = visit
      \/ /\ cookie[w] # NoGuest /\ CloseVisit(cookie[w])
         /\ Moves(c, "idle", "purge to enter") \/ Moves(c, "idle", "purge to leave")
      BY DEF Enters, Leaves
<1>4. PICK to \in {"create", "purge to enter", "purge to leave"} : Moves(c, "idle", to)
      BY <1>3
<1>5. /\ at[c] = "idle" /\ at' \in [Sweepers -> Places] /\ at'[c] = to
      /\ \A d \in Sweepers \ {c} : at'[d] = at[d]
      BY <1>0, <1>4, MoveEffect
<1>6. /\ task' \in [Sweepers -> Tasks] /\ task'[c].g = cookie[w]
      /\ \A d \in Sweepers \ {c} : task'[d] = task[d]
      BY <1>0, <1>1, <1>2, HoldEffect
<1>7. visit' \in [Guests -> Sessions]
      /\ \A g \in Guests : visit'[g] # visit[g] =>
            visit[g] \in {"live", "expired"} /\ visit'[g] = "revoked"
      BY <1>1, <1>3, CloseEffect
<1>8. GuestsTypeOK'
      BY <1>0, <1>2, <1>5, <1>6, <1>7 DEF GuestsTypeOK, Places, Sessions, Tasks
<1>9. \A d \in Calls : d \in Sweepers /\ (at'[d] = "open" => at[d] = "open" /\ task'[d].g = task[d].g)
      BY <1>5, <1>6 DEF Sweepers
<1>10. \A g \in Guests : guest[g] # "here" => visit[g] = "none" /\ g \notin grown
       BY DEF GuestsInv, RowsFit
<1>11. /\ RowsFit' /\ NewbornFit'
       /\ \A g \in Guests : Disposable(g) => Disposable(g)'
       /\ \A g \in Guests : Known(g) => Known(g)'
       BY <1>1, <1>2, <1>7, <1>8, <1>9, <1>10, RowsKept
<1>12. CookieFits'
       BY <1>0, <1>2, <1>11, GuestsShape DEF GuestsInv, CookieFits
<1>13. at'[c] \in {"purge to enter", "purge to leave"} =>
          \E g \in Guests : task'[c].g = g /\ Disposable(g)'
  <2> SUFFICES ASSUME at'[c] \in {"purge to enter", "purge to leave"}, NEW g, g = cookie[w]
               PROVE  g \in Guests /\ Disposable(g)'
      BY <1>6
  <2>1. g \in Guests /\ CloseVisit(g)
        BY <1>1, <1>3, <1>5, <1>0, MoveEffect
  <2>2. Known(g)
        BY <2>1, GuestsAssumption DEF GuestsInv, CookieFits
  <2>3. guest[g] = "here" => visit'[g] = "revoked"
        BY <2>1, <2>2, CloseEffect DEF Known
  <2>4. QED
        BY <1>1, <1>2, <2>1, <2>2, <2>3 DEF Known, Disposable, Rows
<1>14. TaskFits'
  <2>1. at'[c] # "answer" /\ at'[c] # "sweeping"
        BY <1>4, <1>5
  <2>2. QED
        BY <1>0, <1>5, <1>6, <1>8, <1>11, <1>13, <2>1, TasksKept
<1>15. QED
       BY <1>8, <1>11, <1>12, <1>14 DEF GuestsInv

\* Rows stay as they are: what they promise stays, and the calls that open nothing new.
LEMMA RowsRest ==
    ASSUME GuestsInv, GuestsTypeOK', UNCHANGED <<guestRows, lapsed>>,
           \A c \in Calls : at'[c] = "open" => at[c] = "open" /\ task'[c].g = task[c].g
    PROVE  /\ RowsFit' /\ NewbornFit'
           /\ \A g \in Guests : Disposable(g) => Disposable(g)'
           /\ \A g \in Guests : Known(g) => Known(g)'
<1>1. UNCHANGED <<guest, grown, visit, lapsed>>
      BY DEF guestRows
<1>2. \A g \in Guests : guest[g] # "here" => visit[g] = "none" /\ g \notin grown
      BY DEF GuestsInv, RowsFit
<1>3. QED
      BY <1>1, <1>2, RowsKept

LEMMA PurgeKeepsInv ==
    ASSUME GuestsInv, NEW c \in Calls, Purges(c)
    PROVE  GuestsInv'
<1>0. GuestsTypeOK /\ c \in Sweepers /\ {"create", "clear", "purge to enter", "purge to leave"} \subseteq Places
      BY DEF GuestsInv, Sweepers, Places
<1>1. PICK from \in {"purge to enter", "purge to leave"}, to \in {"create", "clear"} :
         Moves(c, from, to)
      BY DEF Purges
<1>2. /\ at[c] = from /\ at' \in [Sweepers -> Places] /\ at'[c] = to
      /\ \A d \in Sweepers \ {c} : at'[d] = at[d]
      BY <1>0, <1>1, MoveEffect
<1>3. PICK g \in Guests : g = task[c].g /\ Disposable(g)
      BY <1>2 DEF GuestsInv, TaskFits
<1>4. Erase(g) /\ UNCHANGED <<cookie, task, stumbles, lapsed>>
      BY <1>3 DEF Purges
<1>5. /\ guest' \in [Guests -> Rows] /\ grown' \subseteq Guests /\ visit' \in [Guests -> Sessions]
      /\ guest'[g] # "here" /\ visit'[g] = "none" /\ g \notin grown' /\ Unopened(g)
      /\ guest[g] # "none" => guest'[g] = "gone"
      /\ \A h \in Guests \ {g} : /\ guest'[h] = guest[h] /\ visit'[h] = visit[h]
                                 /\ (h \in grown' <=> h \in grown)
      BY <1>3, <1>4, EraseEffect
<1>6. GuestsTypeOK'
      BY <1>0, <1>2, <1>4, <1>5 DEF GuestsTypeOK, Places, Rows, Sessions
<1>7. guest[g] # "none" /\ (guest[g] # "here" => guest[g] = "gone")
      BY <1>0, <1>3, GuestsShape DEF Disposable, Rows
<1>8. \A d \in Calls : d \in Sweepers /\ (at'[d] = "open" => at[d] = "open" /\ task'[d].g = task[d].g)
      BY <1>1, <1>2, <1>4 DEF Sweepers
<1>9. \A h \in Guests : guest[h] # "here" => visit[h] = "none" /\ h \notin grown
      BY DEF GuestsInv, RowsFit
<1>10. /\ RowsFit' /\ NewbornFit'
       /\ \A h \in Guests : Disposable(h) => Disposable(h)'
       /\ \A h \in Guests : Known(h) => Known(h)'
       BY <1>4, <1>5, <1>6, <1>7, <1>8, <1>9, RowsKept
<1>11. CookieFits'
       BY <1>0, <1>4, <1>10, GuestsShape DEF GuestsInv, CookieFits
<1>12. TaskFits'
  <2>1. at'[c] \notin {"answer", "purge to enter", "purge to leave", "sweeping"}
        BY <1>1, <1>2
  <2>2. QED
        BY <1>0, <1>2, <1>4, <1>6, <1>10, <2>1, TasksKept
<1>13. QED
       BY <1>6, <1>10, <1>11, <1>12 DEF GuestsInv

\* A call that ends, in error or not, holds nothing.
LEMMA EndKeepsInv ==
    ASSUME GuestsInv, NEW c \in Calls, CallDies(c) \/ Replies(c)
    PROVE  GuestsInv'
<1>0. GuestsTypeOK /\ c \in Sweepers
      BY DEF GuestsInv, Sweepers
<1>1. Finishes(c) /\ UNCHANGED <<guestRows, lapsed>>
      BY DEF CallDies, Replies
<1>2. /\ at' \in [Sweepers -> Places] /\ task' \in [Sweepers -> Tasks]
      /\ at'[c] = "idle" /\ \A d \in Sweepers \ {c} : at'[d] = at[d] /\ task'[d] = task[d]
      BY <1>0, <1>1, FinishEffect
<1>3. /\ task[c].g \in Guests \cup {NoGuest} /\ stumbles \in 0 .. MaxStumbles
      /\ cookie \in [Visitors -> Guests \cup {NoGuest}] /\ MaxStumbles \in Nat
      BY <1>0, GuestsShape, GuestsAssumption DEF Tasks
<1>4. /\ cookie' \in [Visitors -> Guests \cup {NoGuest}]
      /\ \A w \in Visitors : \/ cookie'[w] = cookie[w]
                             \/ at[c] = "answer" /\ cookie'[w] = task[c].g
                             \/ cookie'[w] = NoGuest
  <2>1. CASE CallDies(c)
        BY <1>3, <2>1 DEF CallDies
  <2>2. CASE Replies(c)
    <3>1. \/ cookie' = cookie
          \/ at[c] = "answer" /\ cookie' = [cookie EXCEPT ![task[c].v] = task[c].g]
          \/ cookie' = [cookie EXCEPT ![task[c].v] = NoGuest]
          BY <2>2 DEF Replies
    <3>2. QED
          BY <1>3, <3>1
  <2>3. QED
        BY <2>1, <2>2
<1>5. stumbles' \in 0 .. MaxStumbles
      BY <1>3 DEF CallDies, Replies
<1>6. GuestsTypeOK'
      BY <1>0, <1>1, <1>2, <1>4, <1>5 DEF GuestsTypeOK, Places, Tasks, guestRows
<1>7. \A d \in Calls : d \in Sweepers /\ (at'[d] = "open" => at[d] = "open" /\ task'[d].g = task[d].g)
      BY <1>2 DEF Sweepers
<1>8. /\ RowsFit' /\ NewbornFit'
      /\ \A g \in Guests : Disposable(g) => Disposable(g)'
      /\ \A g \in Guests : Known(g) => Known(g)'
      BY <1>1, <1>6, <1>7, RowsRest
<1>9. CookieFits'
  <2> SUFFICES ASSUME NEW w \in Visitors, NEW g, g = cookie'[w], g # NoGuest
               PROVE  Known(g)'
      BY DEF CookieFits
  <2>1. CASE cookie'[w] = cookie[w]
        BY <1>3, <1>8, <2>1 DEF GuestsInv, CookieFits
  <2>2. CASE at[c] = "answer" /\ cookie'[w] = task[c].g
        BY <1>8, <2>2 DEF GuestsInv, TaskFits
  <2>3. QED
        BY <1>4, <2>1, <2>2
<1>10. TaskFits'
       BY <1>0, <1>2, <1>6, <1>8, TasksKept
<1>11. QED
       BY <1>6, <1>8, <1>9, <1>10 DEF GuestsInv

\* The insert of a guest: a newborn only its call opens.
LEMMA AltaKeepsInv ==
    ASSUME GuestsInv, NEW c \in Calls, Alta(c),
           at[c] \in {"create", "retry"}, Moves(c, at[c], "open"),
           UNCHANGED <<grown, visit, cookie, stumbles, lapsed>>
    PROVE  GuestsInv'
<1>0. GuestsTypeOK /\ c \in Sweepers /\ {"open", "create", "retry"} \subseteq Places
      BY DEF GuestsInv, Sweepers, Places
<1>1. /\ at[c] # "open" /\ at' \in [Sweepers -> Places] /\ at'[c] = "open"
      /\ \A d \in Sweepers \ {c} : at'[d] = at[d]
      BY <1>0, MoveEffect
<1>2. PICK g \in Guests : /\ guest[g] = "none" /\ guest' = [guest EXCEPT ![g] = "here"]
                          /\ Holds(c, task[c].v, g)
      BY DEF Alta
<1>3. task[c].v \in Visitors \cup {NoGuest}
      BY <1>0, GuestsShape DEF Tasks
<1>4. /\ task' \in [Sweepers -> Tasks] /\ task'[c].g = g
      /\ \A d \in Sweepers \ {c} : task'[d] = task[d]
      BY <1>0, <1>2, <1>3, HoldEffect
<1>5. /\ guest \in [Guests -> Rows] /\ guest' \in [Guests -> Rows]
      /\ guest'[g] = "here" /\ \A h \in Guests \ {g} : guest'[h] = guest[h]
      BY <1>0, <1>2, GuestsShape DEF Rows
<1>6. GuestsTypeOK'
      BY <1>0, <1>1, <1>4, <1>5 DEF GuestsTypeOK, Places, Rows, Tasks
<1>7. visit[g] = "none" /\ g \notin grown /\ g \notin lapsed
      BY <1>2 DEF GuestsInv, RowsFit
<1>8. RowsFit'
      BY <1>5, <1>7 DEF GuestsInv, RowsFit
<1>9. \A d \in Calls \ {c} : /\ d \in Sweepers /\ at'[d] = at[d] /\ task'[d] = task[d]
                             /\ at[d] = "open" => task[d].g # g
      BY <1>1, <1>2, <1>4 DEF GuestsInv, NewbornFit, Sweepers
<1>10. NewbornFit'
  <2>1. ASSUME NEW d \in Calls \ {c}, at'[d] = "open"
        PROVE  /\ task'[d].g \in Guests \ {g}
               /\ guest'[task'[d].g] = "here" /\ visit'[task'[d].g] = "none"
               /\ task'[d].g \notin grown' /\ task'[d].g \notin lapsed'
               /\ \A e \in Calls : at'[e] = "open" /\ task'[e].g = task'[d].g => e = d
        BY <1>4, <1>5, <1>9, <2>1 DEF GuestsInv, NewbornFit
  <2>2. \A e \in Calls : at'[e] = "open" /\ task'[e].g = g => e = c
        BY <1>9
  <2>3. QED
        BY <1>4, <1>5, <1>7, <2>1, <2>2 DEF NewbornFit
<1>11. ASSUME NEW h \in Guests, Disposable(h) PROVE Disposable(h)'
  <2>1. h # g
        BY <1>2, <1>11 DEF Disposable
  <2>2. Unopened(h) => Unopened(h)'
        BY <1>4, <1>9, <2>1 DEF Unopened
  <2>3. QED
        BY <1>5, <1>11, <2>1, <2>2 DEF Disposable
<1>12. ASSUME NEW h \in Guests, Known(h) PROVE Known(h)'
       BY <1>2, <1>5, <1>12 DEF Known
<1>13. CookieFits'
       BY <1>0, <1>12, GuestsShape DEF GuestsInv, CookieFits
<1>14. TaskFits'
       BY <1>0, <1>1, <1>4, <1>6, <1>11, <1>12, TasksKept
<1>15. QED
       BY <1>6, <1>8, <1>10, <1>13, <1>14 DEF GuestsInv

LEMMA CreateKeepsInv ==
    ASSUME GuestsInv, NEW c \in Calls, CreatesGuest(c) \/ RetriesGuest(c)
    PROVE  GuestsInv'
<1>0. GuestsTypeOK /\ c \in Sweepers /\ {"open", "create", "retry", "sweep"} \subseteq Places
      BY DEF GuestsInv, Sweepers, Places
<1>1. UNCHANGED <<grown, visit, cookie, stumbles, lapsed>>
      BY DEF CreatesGuest, RetriesGuest
<1>2. CASE Alta(c) /\ at[c] \in {"create", "retry"} /\ Moves(c, at[c], "open")
      BY <1>1, <1>2, AltaKeepsInv
<1>3. ASSUME UNCHANGED guest, at'[c] \in {"sweep", "idle"},
             at' \in [Sweepers -> Places], task' \in [Sweepers -> Tasks],
             \A d \in Sweepers \ {c} : at'[d] = at[d] /\ task'[d] = task[d]
      PROVE  GuestsInv'
  <2>1. GuestsTypeOK'
        BY <1>0, <1>1, <1>3 DEF GuestsTypeOK, Places, Tasks
  <2>2. \A d \in Calls : d \in Sweepers /\ (at'[d] = "open" => at[d] = "open" /\ task'[d].g = task[d].g)
        BY <1>3 DEF Sweepers
  <2>3. /\ RowsFit' /\ NewbornFit'
        /\ \A g \in Guests : Disposable(g) => Disposable(g)'
        /\ \A g \in Guests : Known(g) => Known(g)'
        BY <1>1, <1>3, <2>1, <2>2, RowsRest DEF guestRows
  <2>4. CookieFits'
        BY <1>0, <1>1, <2>3, GuestsShape DEF GuestsInv, CookieFits
  <2>5. TaskFits'
        BY <1>0, <1>3, <2>1, <2>3, TasksKept
  <2>6. QED
        BY <2>1, <2>3, <2>4, <2>5 DEF GuestsInv
<1>4. CASE Moves(c, "create", "sweep") /\ UNCHANGED <<guest, task>>
      BY <1>0, <1>3, <1>4, MoveEffect, GuestsShape
<1>5. CASE Finishes(c) /\ UNCHANGED guest
      BY <1>0, <1>3, <1>5, FinishEffect
<1>6. QED
      BY <1>2, <1>4, <1>5 DEF CreatesGuest, RetriesGuest, Moves

\* The login opens the session of its newborn: from then on the guest is known.
LEMMA OpenKeepsInv ==
    ASSUME GuestsInv, NEW c \in Calls, OpensVisit(c)
    PROVE  GuestsInv'
<1>0. GuestsTypeOK /\ c \in Sweepers /\ {"open", "answer"} \subseteq Places
      BY DEF GuestsInv, Sweepers, Places
<1>1. /\ at[c] = "open" /\ at' \in [Sweepers -> Places] /\ at'[c] = "answer"
      /\ \A d \in Sweepers \ {c} : at'[d] = at[d]
      BY <1>0, MoveEffect DEF OpensVisit
<1>2. /\ visit' = [visit EXCEPT ![task[c].g] = "live"]
      /\ UNCHANGED <<guest, grown, cookie, task, stumbles, lapsed>>
      BY DEF OpensVisit
<1>3. PICK g \in Guests :
         /\ g = task[c].g /\ guest[g] = "here" /\ visit[g] = "none"
         /\ g \notin grown /\ g \notin lapsed
         /\ \A d \in Calls : at[d] = "open" /\ task[d].g = g => d = c
      BY <1>1 DEF GuestsInv, NewbornFit
<1>4. /\ visit' \in [Guests -> Sessions] /\ visit'[g] = "live"
      /\ \A h \in Guests \ {g} : visit'[h] = visit[h]
      BY <1>0, <1>2, <1>3, GuestsShape DEF Sessions
<1>5. GuestsTypeOK'
      BY <1>0, <1>1, <1>2, <1>4 DEF GuestsTypeOK, Places, Sessions
<1>6. RowsFit'
      BY <1>2, <1>3, <1>4 DEF GuestsInv, RowsFit
<1>7. \A d \in Calls : /\ d \in Sweepers
                       /\ at'[d] = "open" => d # c /\ at[d] = "open" /\ task[d].g # g
      BY <1>1, <1>3 DEF Sweepers
<1>8. NewbornFit'
      BY <1>2, <1>4, <1>7 DEF GuestsInv, NewbornFit
<1>9. ASSUME NEW h \in Guests, Disposable(h) PROVE Disposable(h)'
  <2>1. h # g
        BY <1>1, <1>3, <1>9 DEF Disposable, Unopened
  <2>2. Unopened(h) => Unopened(h)'
        BY <1>2, <1>7 DEF Unopened
  <2>3. QED
        BY <1>2, <1>4, <1>9, <2>1, <2>2 DEF Disposable
<1>10. ASSUME NEW h \in Guests, Known(h) PROVE Known(h)'
       BY <1>2, <1>4, <1>10 DEF Known
<1>11. CookieFits'
       BY <1>0, <1>2, <1>10, GuestsShape DEF GuestsInv, CookieFits
<1>12. task'[c].g = g /\ Known(g)'
       BY <1>2, <1>3, <1>4 DEF Known
<1>13. TaskFits'
       BY <1>0, <1>1, <1>2, <1>5, <1>9, <1>10, <1>12, TasksKept
<1>14. QED
       BY <1>5, <1>6, <1>8, <1>11, <1>13 DEF GuestsInv

\* A renewal revives a session that expired under it, and no other.
LEMMA RenewKeepsInv ==
    ASSUME GuestsInv, NEW c \in Calls, Renews(c)
    PROVE  GuestsInv'
<1>0. GuestsTypeOK /\ c \in Sweepers
      BY DEF GuestsInv, Sweepers
<1>1. /\ Finishes(c) /\ UNCHANGED <<guest, grown, cookie, stumbles, lapsed>>
      /\ visit' = [visit EXCEPT ![task[c].g] = IF @ = "expired" THEN "live" ELSE @]
      BY DEF Renews
<1>2. /\ at' \in [Sweepers -> Places] /\ task' \in [Sweepers -> Tasks]
      /\ at'[c] = "idle" /\ \A d \in Sweepers \ {c} : at'[d] = at[d] /\ task'[d] = task[d]
      BY <1>0, <1>1, FinishEffect
<1>3. /\ visit' \in [Guests -> Sessions]
      /\ \A g \in Guests : visit'[g] # visit[g] => visit[g] = "expired" /\ visit'[g] = "live"
      BY <1>0, <1>1, GuestsShape DEF Sessions
<1>4. GuestsTypeOK'
      BY <1>0, <1>1, <1>2, <1>3 DEF GuestsTypeOK, Places, Sessions, Tasks
<1>5. \A d \in Calls : d \in Sweepers /\ (at'[d] = "open" => at[d] = "open" /\ task'[d].g = task[d].g)
      BY <1>2 DEF Sweepers
<1>6. \A g \in Guests : guest[g] # "here" => visit[g] = "none" /\ g \notin grown
      BY DEF GuestsInv, RowsFit
<1>7. /\ RowsFit' /\ NewbornFit'
      /\ \A g \in Guests : Disposable(g) => Disposable(g)'
      /\ \A g \in Guests : Known(g) => Known(g)'
      BY <1>1, <1>3, <1>4, <1>5, <1>6, RowsKept
<1>8. CookieFits'
      BY <1>0, <1>1, <1>7, GuestsShape DEF GuestsInv, CookieFits
<1>9. TaskFits'
      BY <1>0, <1>2, <1>4, <1>7, TasksKept
<1>10. QED
       BY <1>4, <1>7, <1>8, <1>9 DEF GuestsInv

LEMMA RotateKeepsInv ==
    ASSUME GuestsInv, NEW c \in Calls, NEW w \in Visitors, Rotates(c, w)
    PROVE  GuestsInv'
<1>0. GuestsTypeOK /\ c \in Sweepers /\ {"idle", "renew"} \subseteq Places
      BY DEF GuestsInv, Sweepers, Places
<1>1. UNCHANGED <<guestRows, cookie, stumbles, lapsed>>
      BY DEF Rotates
<1>2. /\ at' \in [Sweepers -> Places] /\ at'[c] = "renew"
      /\ \A d \in Sweepers \ {c} : at'[d] = at[d]
      BY <1>0, MoveEffect DEF Rotates
<1>3. cookie[w] \in Guests \cup {NoGuest}
      BY <1>0, GuestsShape
<1>4. /\ task' \in [Sweepers -> Tasks] /\ \A d \in Sweepers \ {c} : task'[d] = task[d]
      BY <1>0, <1>3, HoldEffect DEF Rotates
<1>5. GuestsTypeOK'
      BY <1>0, <1>1, <1>2, <1>4 DEF GuestsTypeOK, Places, Tasks, guestRows
<1>6. \A d \in Calls : d \in Sweepers /\ (at'[d] = "open" => at[d] = "open" /\ task'[d].g = task[d].g)
      BY <1>2, <1>4 DEF Sweepers
<1>7. /\ RowsFit' /\ NewbornFit'
      /\ \A g \in Guests : Disposable(g) => Disposable(g)'
      /\ \A g \in Guests : Known(g) => Known(g)'
      BY <1>1, <1>5, <1>6, RowsRest
<1>8. CookieFits'
      BY <1>0, <1>1, <1>7, GuestsShape DEF GuestsInv, CookieFits
<1>9. TaskFits'
      BY <1>0, <1>2, <1>4, <1>5, <1>7, TasksKept
<1>10. QED
       BY <1>5, <1>7, <1>8, <1>9 DEF GuestsInv

\* Time passes for a session or for a guest.
LEMMA AgeKeepsInv ==
    ASSUME GuestsInv, NEW g \in Guests, VisitExpires(g) \/ GuestGrows(g)
    PROVE  GuestsInv'
<1>0. GuestsTypeOK
      BY DEF GuestsInv
<1>1. UNCHANGED <<guest, cookie, at, task, stumbles>>
      BY DEF VisitExpires, GuestGrows
<1>2. /\ visit' \in [Guests -> Sessions] /\ grown' \subseteq Guests /\ lapsed' \subseteq Guests
      /\ lapsed \subseteq lapsed'
      /\ \A h \in Guests :
            /\ visit'[h] # visit[h] => visit[h] = "live" /\ visit'[h] = "expired" /\ h \in lapsed'
            /\ h \in grown' /\ h \notin grown => guest[h] = "here" /\ Unopened(h)
            /\ h \in lapsed' => h \in lapsed \/ visit[h] = "live"
  <2>1. CASE VisitExpires(g)
        BY <1>0, <2>1, GuestsShape DEF VisitExpires, Sessions
  <2>2. CASE GuestGrows(g)
        BY <1>0, <2>2, GuestsShape DEF GuestGrows, Unopened
  <2>3. QED
        BY <2>1, <2>2
<1>3. GuestsTypeOK'
      BY <1>0, <1>1, <1>2 DEF GuestsTypeOK, Sessions
<1>4. \A h \in Guests : guest[h] # "here" => visit[h] = "none" /\ h \notin grown
      BY DEF GuestsInv, RowsFit
<1>5. /\ RowsFit' /\ NewbornFit'
      /\ \A h \in Guests : Disposable(h) => Disposable(h)'
      /\ \A h \in Guests : Known(h) => Known(h)'
      BY <1>1, <1>2, <1>3, <1>4, RowsKept
<1>6. CookieFits'
      BY <1>0, <1>1, <1>5, GuestsShape DEF GuestsInv, CookieFits
<1>7. \A d \in Sweepers : task[d].todo \subseteq Guests
      BY <1>0, GuestsShape DEF Tasks
<1>8. TaskFits'
  <2>1. ASSUME NEW d \in Calls, at'[d] = "answer"
        PROVE  \E h \in Guests : task'[d].g = h /\ Known(h)'
        BY <1>1, <1>5, <2>1 DEF GuestsInv, TaskFits
  <2>2. ASSUME NEW d \in Calls, at'[d] \in {"purge to enter", "purge to leave"}
        PROVE  \E h \in Guests : task'[d].g = h /\ Disposable(h)'
        BY <1>1, <1>5, <2>2 DEF GuestsInv, TaskFits
  <2>3. ASSUME NEW d \in Sweepers, at'[d] = "sweeping", NEW h \in task'[d].todo
        PROVE  Disposable(h)'
        BY <1>1, <1>5, <1>7, <2>3 DEF GuestsInv, TaskFits
  <2>4. QED
        BY <2>1, <2>2, <2>3 DEF TaskFits
<1>9. QED
      BY <1>3, <1>5, <1>6, <1>8 DEF GuestsInv

\* The list of the sweep holds only guests nobody uses.
LEMMA ListsDisposable ==
    ASSUME GuestsInv
    PROVE  Abandoned \subseteq Guests /\ \A g \in Abandoned : Disposable(g)
<1> SUFFICES ASSUME NEW g \in Abandoned PROVE g \in Guests /\ Disposable(g)
    OBVIOUS
<1>1. /\ grown \subseteq Guests /\ visit \in [Guests -> Sessions]
      BY GuestsShape DEF GuestsInv
<1>2. g \in Guests /\ g \in grown /\ guest[g] = "here" /\ visit[g] \in {"none", "expired", "revoked"}
      BY <1>1 DEF Abandoned, Sessions
<1>3. Unopened(g)
      BY <1>2 DEF Unopened, GuestsInv, NewbornFit
<1>4. visit[g] = "expired" => g \in lapsed
      BY <1>2 DEF GuestsInv, RowsFit
<1>5. QED
      BY <1>2, <1>3, <1>4 DEF Disposable

LEMMA ListKeepsInv ==
    ASSUME GuestsInv, NEW c \in Sweepers, Lists(c) \/ SweepEnds(c) \/ \E g \in Guests : SweepSkips(c, g)
    PROVE  GuestsInv'
<1>0. GuestsTypeOK /\ {"idle", "sweep", "sweeping", "retry"} \subseteq Places
      BY DEF GuestsInv, Places
<1>1. UNCHANGED <<guestRows, cookie, lapsed>>
      BY DEF Lists, SweepEnds, SweepSkips
<1>2. PICK to \in {"idle", "retry", "sweeping"} :
         /\ at' \in [Sweepers -> Places] /\ at'[c] = to
         /\ \A d \in Sweepers \ {c} : at'[d] = at[d]
  <2>1. CASE Lists(c)
        BY <1>0, <2>1, MoveEffect DEF Lists
  <2>2. CASE SweepEnds(c)
    <3>1. PICK to \in {"idle", "retry"} : Moves(c, "sweeping", to)
          BY <2>2 DEF SweepEnds
    <3>2. QED
          BY <1>0, <3>1, MoveEffect
  <2>3. CASE \E g \in Guests : SweepSkips(c, g)
        BY <1>0, <2>3, GuestsShape DEF SweepSkips
  <2>4. QED
        BY <2>1, <2>2, <2>3
<1>3. /\ Abandoned \subseteq Guests /\ \A g \in Abandoned : Disposable(g)
      /\ task[c] \in Tasks
      /\ at[c] = "sweeping" => \A g \in task[c].todo : Disposable(g)
      BY <1>0, ListsDisposable, GuestsShape DEF GuestsInv, TaskFits
<1>4. /\ task' \in [Sweepers -> Tasks] /\ \A d \in Sweepers \ {c} : task'[d] = task[d]
      /\ task'[c].g = task[c].g
      /\ to = "sweeping" => \A g \in task'[c].todo : Disposable(g)
  <2>0. task \in [Sweepers -> Tasks]
        BY <1>0, GuestsShape
  <2>1. CASE Lists(c)
    <3>1. task' = [task EXCEPT ![c].todo = Abandoned]
          BY <2>1 DEF Lists
    <3>2. [task[c] EXCEPT !.todo = Abandoned] \in Tasks
          BY <1>3 DEF Tasks
    <3>3. QED
          BY <1>3, <2>0, <3>1, <3>2
  <2>2. CASE SweepEnds(c)
    <3>1. task' = task /\ task[c].todo = {}
          BY <2>2 DEF SweepEnds
    <3>2. QED
          BY <2>0, <3>1
  <2>3. ASSUME NEW g \in Guests, SweepSkips(c, g)
        PROVE  /\ task' \in [Sweepers -> Tasks] /\ \A d \in Sweepers \ {c} : task'[d] = task[d]
               /\ task'[c].g = task[c].g /\ task'[c].todo \subseteq task[c].todo
               /\ at[c] = "sweeping"
    <3>1. at[c] = "sweeping" /\ task' = [task EXCEPT ![c].todo = task[c].todo \ {g}]
          BY <2>3 DEF SweepSkips
    <3>2. [task[c] EXCEPT !.todo = task[c].todo \ {g}] \in Tasks
          BY <1>3 DEF Tasks
    <3>3. QED
          BY <1>3, <2>0, <3>1, <3>2
  <2>4. QED
        BY <1>3, <2>1, <2>2, <2>3
<1>5. stumbles' \in 0 .. MaxStumbles
  <2>1. stumbles \in 0 .. MaxStumbles /\ MaxStumbles \in Nat
        BY <1>0, GuestsShape, GuestsAssumption
  <2>2. stumbles' = stumbles \/ (stumbles < MaxStumbles /\ stumbles' = stumbles + 1)
        BY DEF Lists, SweepEnds, SweepSkips
  <2>3. QED
        BY <2>1, <2>2
<1>6. GuestsTypeOK'
      BY <1>0, <1>1, <1>2, <1>4, <1>5 DEF GuestsTypeOK, Places, Tasks, guestRows
<1>7. \A d \in Calls : d \in Sweepers /\ (at'[d] = "open" => at[d] = "open" /\ task'[d].g = task[d].g)
      BY <1>2, <1>4 DEF Sweepers
<1>8. /\ RowsFit' /\ NewbornFit'
      /\ \A g \in Guests : Disposable(g) => Disposable(g)'
      /\ \A g \in Guests : Known(g) => Known(g)'
      BY <1>1, <1>6, <1>7, RowsRest
<1>9. CookieFits'
      BY <1>0, <1>1, <1>8, GuestsShape DEF GuestsInv, CookieFits
<1>10. at'[c] = "sweeping" => \A g \in task'[c].todo : Disposable(g)'
  <2>1. task'[c].todo \subseteq Guests
        BY <1>4 DEF Tasks
  <2>2. QED
        BY <1>2, <1>4, <1>8, <2>1
<1>11. TaskFits'
       BY <1>2, <1>4, <1>6, <1>8, <1>10, TasksKept
<1>12. QED
       BY <1>6, <1>8, <1>9, <1>11 DEF GuestsInv

LEMMA SweepKeepsInv ==
    ASSUME GuestsInv, NEW c \in Sweepers, NEW g \in Guests, SweepsOne(c, g)
    PROVE  GuestsInv'
<1>0. GuestsTypeOK
      BY DEF GuestsInv
<1>1. /\ at[c] = "sweeping" /\ g \in task[c].todo /\ Erase(g)
      /\ task' = [task EXCEPT ![c].todo = task[c].todo \ {g}]
      /\ UNCHANGED <<cookie, at, stumbles, lapsed>>
      BY DEF SweepsOne
<1>2. Disposable(g)
      BY <1>1 DEF GuestsInv, TaskFits
<1>3. /\ guest' \in [Guests -> Rows] /\ grown' \subseteq Guests /\ visit' \in [Guests -> Sessions]
      /\ guest'[g] # "here" /\ visit'[g] = "none" /\ g \notin grown' /\ Unopened(g)
      /\ guest[g] # "none" => guest'[g] = "gone"
      /\ \A h \in Guests \ {g} : /\ guest'[h] = guest[h] /\ visit'[h] = visit[h]
                                 /\ (h \in grown' <=> h \in grown)
      BY <1>1, <1>2, EraseEffect
<1>4. /\ task' \in [Sweepers -> Tasks] /\ \A d \in Sweepers \ {c} : task'[d] = task[d]
      /\ task'[c].g = task[c].g /\ task'[c].todo \subseteq task[c].todo
      /\ task[c].todo \subseteq Guests
  <2>1. task \in [Sweepers -> Tasks]
        BY <1>0, GuestsShape
  <2>2. [task[c] EXCEPT !.todo = task[c].todo \ {g}] \in Tasks /\ task[c].todo \subseteq Guests
        BY <2>1 DEF Tasks
  <2>3. QED
        BY <1>1, <2>1, <2>2
<1>5. GuestsTypeOK'
      BY <1>0, <1>1, <1>3, <1>4 DEF GuestsTypeOK, Rows, Sessions, Tasks
<1>6. guest[g] # "none" /\ (guest[g] # "here" => guest[g] = "gone")
      BY <1>0, <1>2, GuestsShape DEF Disposable, Rows
<1>7. \A d \in Calls : d \in Sweepers /\ (at'[d] = "open" => at[d] = "open" /\ task'[d].g = task[d].g)
      BY <1>1, <1>4 DEF Sweepers
<1>8. \A h \in Guests : guest[h] # "here" => visit[h] = "none" /\ h \notin grown
      BY DEF GuestsInv, RowsFit
<1>9. /\ RowsFit' /\ NewbornFit'
      /\ \A h \in Guests : Disposable(h) => Disposable(h)'
      /\ \A h \in Guests : Known(h) => Known(h)'
      BY <1>1, <1>3, <1>5, <1>6, <1>7, <1>8, RowsKept
<1>10. CookieFits'
       BY <1>0, <1>1, <1>9, GuestsShape DEF GuestsInv, CookieFits
<1>11. \A h \in task'[c].todo : Disposable(h)'
       BY <1>1, <1>4, <1>9 DEF GuestsInv, TaskFits
<1>12. TaskFits'
       BY <1>1, <1>4, <1>5, <1>9, <1>11, TasksKept
<1>13. QED
       BY <1>5, <1>9, <1>10, <1>12 DEF GuestsInv

LEMMA GuestsStep == GuestsInv /\ [GuestsNext]_guVars => GuestsInv'
<1> SUFFICES ASSUME GuestsInv, [GuestsNext]_guVars PROVE GuestsInv'
    OBVIOUS
<1>1. ASSUME NEW c \in Calls, NEW w \in Visitors, Enters(c, w) \/ Leaves(c, w) \/ Rotates(c, w)
      PROVE  GuestsInv'
      BY <1>1, EnterKeepsInv, RotateKeepsInv
<1>2. ASSUME NEW c \in Calls,
             \/ Purges(c) \/ CreatesGuest(c) \/ RetriesGuest(c) \/ OpensVisit(c)
             \/ Replies(c) \/ Renews(c) \/ CallDies(c)
      PROVE  GuestsInv'
      BY <1>2, PurgeKeepsInv, CreateKeepsInv, OpenKeepsInv, EndKeepsInv, RenewKeepsInv
<1>3. ASSUME NEW c \in Sweepers, Sweep(c) PROVE GuestsInv'
      BY <1>3, ListKeepsInv, SweepKeepsInv DEF Sweep
<1>4. ASSUME NEW g \in Guests, VisitExpires(g) \/ GuestGrows(g) PROVE GuestsInv'
      BY <1>4, AgeKeepsInv
<1>5. CASE UNCHANGED guVars
  <2>1. UNCHANGED <<guest, grown, visit, cookie, at, task, stumbles, lapsed>>
        BY <1>5 DEF guVars, guestRows
  <2>2. GuestsTypeOK'
        BY <2>1 DEF GuestsInv, GuestsTypeOK
  <2>3. RowsFit' /\ NewbornFit'
        BY <2>1 DEF GuestsInv, RowsFit, NewbornFit
  <2>4. CookieFits'
        BY <2>1 DEF GuestsInv, CookieFits, Known
  <2>5. ASSUME NEW c \in Calls
        PROVE  /\ at'[c] = "answer" => task'[c].g \in Guests /\ Known(task[c].g)'
               /\ at'[c] \in {"purge to enter", "purge to leave"} =>
                     task'[c].g \in Guests /\ Disposable(task[c].g)'
        BY <2>1 DEF GuestsInv, TaskFits, Known, Disposable, Unopened
  <2>6. ASSUME NEW c \in Sweepers, at'[c] = "sweeping", NEW g \in task'[c].todo
        PROVE  Disposable(g)'
        BY <2>1, <2>6 DEF GuestsInv, TaskFits, Disposable, Unopened
  <2>7. TaskFits'
        BY <2>5, <2>6 DEF TaskFits
  <2>8. QED
        BY <2>2, <2>3, <2>4, <2>7 DEF GuestsInv
<1>6. QED
      BY <1>1, <1>2, <1>3, <1>4, <1>5 DEF GuestsNext

\* Rows, sessions, cookies and the calls between them fit together: a call or the sweep that may
\* erase a guest holds one nobody uses, and a login has its newborn to itself.
THEOREM GuestsInvHolds == GuestsSpec => []GuestsInv
<1>1. QED
      BY GuestsInitially, GuestsStep, PTL DEF GuestsSpec

\* Only a purge or the sweep erases a guest, and either holds one that is disposable.
LEMMA OnlyDisposableGoes ==
    ASSUME GuestsInv, [GuestsNext]_guVars, NEW g \in Guests, guest[g] = "here", guest'[g] = "gone"
    PROVE  Disposable(g)
<1>0. guest \in [Guests -> Rows]
      BY GuestsShape DEF GuestsInv
<1>1. ASSUME NEW h, Erase(h) PROVE g = h
      BY <1>0, <1>1 DEF Erase, guestRows
<1>2. ASSUME NEW c \in Calls, Purges(c) PROVE Disposable(g)
  <2>1. /\ at[c] \in {"purge to enter", "purge to leave"} /\ Erase(task[c].g)
        BY <1>2 DEF Purges, Moves
  <2>2. QED
        BY <1>1, <2>1 DEF GuestsInv, TaskFits
<1>3. ASSUME NEW c \in Sweepers, NEW h \in Guests, SweepsOne(c, h) PROVE Disposable(g)
      BY <1>1, <1>3 DEF SweepsOne, GuestsInv, TaskFits
<1>4. ASSUME guest' = guest \/ \E h \in Guests : guest' = [guest EXCEPT ![h] = "here"]
      PROVE  FALSE
      BY <1>0, <1>4
<1>5. ASSUME NEW c \in Calls, NEW w \in Visitors, Enters(c, w) \/ Leaves(c, w) \/ Rotates(c, w)
      PROVE  FALSE
      BY <1>4, <1>5 DEF Enters, Leaves, Rotates, guestRows
<1>6. ASSUME NEW c \in Calls,
             \/ CreatesGuest(c) \/ RetriesGuest(c) \/ OpensVisit(c)
             \/ Replies(c) \/ Renews(c) \/ CallDies(c)
      PROVE  FALSE
      BY <1>4, <1>6 DEF CreatesGuest, RetriesGuest, Alta, OpensVisit, Replies, Renews, CallDies,
                        guestRows
<1>7. ASSUME NEW c \in Sweepers, Lists(c) \/ SweepEnds(c) \/ \E h \in Guests : SweepSkips(c, h)
      PROVE  FALSE
      BY <1>4, <1>7 DEF Lists, SweepEnds, SweepSkips, guestRows
<1>8. ASSUME NEW h \in Guests, VisitExpires(h) \/ GuestGrows(h) PROVE FALSE
      BY <1>4, <1>8 DEF VisitExpires, GuestGrows
<1>9. CASE UNCHANGED guVars
      BY <1>4, <1>9 DEF guVars, guestRows
<1>10. QED
       BY <1>2, <1>3, <1>5, <1>6, <1>7, <1>8, <1>9 DEF GuestsNext, Sweep

\* A guest is erased only after its session was closed or once expired, or when its login died
\* before opening one: neither the sweep of another login nor the loop takes a newborn guest.
THEOREM OnlyAbandonedGoes == GuestsSpec => OnlyAbandonedIsErased
<1>1. ASSUME GuestsInv, [GuestsNext]_guVars
      PROVE  \A g \in Guests : guest[g] = "here" /\ guest'[g] = "gone" =>
                \/ g \in lapsed \/ visit[g] = "revoked"
                \/ visit[g] = "none" /\ \A c \in Calls : at[c] = "open" => task[c].g # g
      BY <1>1, OnlyDisposableGoes DEF Disposable, Unopened
<1>2. QED
      BY <1>1, GuestsInvHolds, PTL DEF GuestsSpec, OnlyAbandonedIsErased

\* Every variable of Guests keeps the shape Init gives it.
THEOREM GuestsTypeCorrect == GuestsSpec => []GuestsTypeOK
<1>1. GuestsInv => GuestsTypeOK
      BY DEF GuestsInv
<1>2. QED
      BY <1>1, GuestsInvHolds, PTL

-----------------------------------------------------------------------------
(* Teams and guests together. *)

PopulationInv == GroupsInv /\ GuestsInv

LEMMA PopulationStep == PopulationInv /\ [PopulationNext]_<<focus, gVars, guVars>> => PopulationInv'
<1> SUFFICES ASSUME PopulationInv, [PopulationNext]_<<focus, gVars, guVars>> PROVE PopulationInv'
    OBVIOUS
<1>1. [GroupsNext]_gVars /\ [GuestsNext]_guVars
      BY DEF PopulationNext
<1>2. QED
      BY <1>1, GroupsStep, GuestsStep DEF PopulationInv

\* In a population of teams and guests, whichever of them acts, what the requests about teams hold
\* and what the calls and the sweep of guests hold keeps fitting the rows.
THEOREM PopulationInvHolds == PopulationSpec => []PopulationInv
<1>1. PopulationInit => PopulationInv
      BY GroupsInitially, GuestsInitially DEF PopulationInit, PopulationInv
<1>2. QED
      BY <1>1, PopulationStep, PTL DEF PopulationSpec

\* Every variable of teams and of guests keeps the shape Init gives it, for any users, teams,
\* guests and calls, and however many requests about teams overlap.
THEOREM PopulationTypeCorrect == PopulationSpec => []PopulationTypeOK
<1>1. PopulationInv => PopulationTypeOK
      BY DEF PopulationInv, GroupsInv, RowsInv, RowsTypeOK, PastFits, GroupsTypeOK, GuestsInv,
             PopulationTypeOK
<1>2. QED
      BY <1>1, PopulationInvHolds, PTL
====
