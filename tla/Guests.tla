---- MODULE Guests ----
(***************************************************************************)
(* Guests: a row of users that lives as long as one of its sessions         *)
(* (storage/guest.py, the guest half of routes/auth/session.py and the      *)
(* sweep of auth/gdpr.py).  Entering, leaving, renewing and the sweep are   *)
(* sequences of transactions, so each can meet the others half way.         *)
(***************************************************************************)
EXTENDS Integers, FiniteSets

CONSTANTS Guests, Visitors, Calls,
          Loop,        \* _gdpr_purge_loop
          NoGuest,
          Cap,         \* MAX_SESSIONS
          MaxStumbles  \* bound: purges that fail and workers that die

ASSUME GuestsAssumption ==
    /\ Loop \notin Calls /\ NoGuest \notin Guests
    /\ {Cap, MaxStumbles} \subseteq Nat

VARIABLES
    guest,    \* row of users: "none", "here" or "gone"
    grown,    \* guests older than GUEST_GRACE_SECONDS
    visit,    \* session of a guest: "none", "live", "expired" or "revoked"
    cookie,   \* ga_token of a browser
    at, task, \* where a call or the loop is, and what it holds
    stumbles,
    lapsed    \* history: guests whose session has once expired

guestRows == <<guest, grown, visit>>
guVars == <<guestRows, cookie, at, task, stumbles, lapsed>>

Sweepers == Calls \cup {Loop}
Nil == [v |-> NoGuest, g |-> NoGuest, todo |-> {}]

GuestsInit ==
    /\ guest = [g \in Guests |-> "none"] /\ grown = {}
    /\ visit = [g \in Guests |-> "none"]
    /\ cookie = [v \in Visitors |-> NoGuest]
    /\ at = [c \in Sweepers |-> "idle"] /\ task = [c \in Sweepers |-> Nil]
    /\ stumbles = 0 /\ lapsed = {}

Moves(c, from, to) == at[c] = from /\ at' = [at EXCEPT ![c] = to]
Finishes(c) == at' = [at EXCEPT ![c] = "idle"] /\ task' = [task EXCEPT ![c] = Nil]
Holds(c, v, g) == task' = [task EXCEPT ![c] = [Nil EXCEPT !.v = v, !.g = g]]

\* SessionStorage.revoke(session, logout)
CloseVisit(g) ==
    visit' = [visit EXCEPT ![g] = IF @ \in {"live", "expired"} THEN "revoked" ELSE @]

\* purge_user_data: one transaction, nothing for a user that is not there.
Erase(g) ==
    IF guest[g] # "here" THEN UNCHANGED guestRows
    ELSE /\ guest' = [guest EXCEPT ![g] = "gone"]
         /\ visit' = [visit EXCEPT ![g] = "none"]
         /\ grown' = grown \ {g}

(* A slip: the grace is forgotten. *)
AbandonedFromBirth == {g \in Guests : guest[g] = "here" /\ visit[g] # "live"}

\* expired_guests
Abandoned == {g \in grown : guest[g] = "here" /\ visit[g] # "live"}

Room == Cardinality({g \in Guests : guest[g] = "here"}) < Cap

-----------------------------------------------------------------------------
(* guest_login *)

\* _cerrar_invitado_previo revokes the session of the guest the cookie names.
Enters(c, v) ==
    /\ IF cookie[v] = NoGuest
       THEN Moves(c, "idle", "create") /\ UNCHANGED visit
       ELSE Moves(c, "idle", "purge to enter") /\ CloseVisit(cookie[v])
    /\ Holds(c, v, cookie[v])
    /\ UNCHANGED <<guest, grown, cookie, stumbles, lapsed>>

\* ... and purges it, as logout does.
Purges(c) ==
    /\ Moves(c, "purge to enter", "create") \/ Moves(c, "purge to leave", "clear")
    /\ Erase(task[c].g)
    /\ UNCHANGED <<cookie, task, stumbles, lapsed>>

\* An error of the purge, or the worker dies: no step of the request follows.
CallDies(c) ==
    /\ at[c] # "idle" /\ stumbles < MaxStumbles
    /\ stumbles' = stumbles + 1
    /\ Finishes(c)
    /\ UNCHANGED <<guestRows, cookie, lapsed>>

\* _alta: the insert is its own check of the limit.
Alta(c) ==
    \E g \in Guests :
       /\ guest[g] = "none"
       /\ guest' = [guest EXCEPT ![g] = "here"]
       /\ Holds(c, task[c].v, g)

CreatesGuest(c) ==
    /\ \/ Room /\ Moves(c, "create", "open") /\ Alta(c)
       \/ ~Room /\ Moves(c, "create", "sweep") /\ UNCHANGED <<guest, task>>
    /\ UNCHANGED <<grown, visit, cookie, stumbles, lapsed>>

\* The second try; 503 server_busy without room.
RetriesGuest(c) ==
    /\ at[c] = "retry"
    /\ \/ Room /\ Moves(c, "retry", "open") /\ Alta(c)
       \/ ~Room /\ Finishes(c) /\ UNCHANGED guest
    /\ UNCHANGED <<grown, visit, cookie, stumbles, lapsed>>

OpensVisit(c) ==
    /\ Moves(c, "open", "answer")
    /\ visit' = [visit EXCEPT ![task[c].g] = "live"]
    /\ UNCHANGED <<guest, grown, cookie, task, stumbles, lapsed>>

\* The answer of a login or a logout reaches the browser, or does not.
Replies(c) ==
    /\ at[c] \in {"answer", "clear"}
    /\ LET token == IF at[c] = "answer" THEN task[c].g ELSE NoGuest IN
       cookie' \in {cookie, [cookie EXCEPT ![task[c].v] = token]}
    /\ Finishes(c)
    /\ UNCHANGED <<guestRows, stumbles, lapsed>>

-----------------------------------------------------------------------------
(* logout and renewals *)

Leaves(c, v) ==
    /\ cookie[v] # NoGuest
    /\ Moves(c, "idle", "purge to leave")
    /\ CloseVisit(cookie[v])
    /\ Holds(c, v, cookie[v])
    /\ UNCHANGED <<guest, grown, cookie, stumbles, lapsed>>

\* rotate finds the session live, and then
Rotates(c, v) ==
    /\ cookie[v] # NoGuest /\ visit[cookie[v]] = "live"
    /\ Moves(c, "idle", "renew")
    /\ Holds(c, v, cookie[v])
    /\ UNCHANGED <<guestRows, cookie, stumbles, lapsed>>

\* rotate_refresh moves expires_at of a row that is not revoked.
Renews(c) ==
    /\ at[c] = "renew" /\ Finishes(c)
    /\ visit' = [visit EXCEPT ![task[c].g] = IF @ = "expired" THEN "live" ELSE @]
    /\ UNCHANGED <<guest, grown, cookie, stumbles, lapsed>>

VisitExpires(g) ==
    /\ visit[g] = "live"
    /\ visit' = [visit EXCEPT ![g] = "expired"] /\ lapsed' = lapsed \cup {g}
    /\ UNCHANGED <<guest, grown, cookie, at, task, stumbles>>

\* The grace is an hour: no login takes that long from its insert to its session.
GuestGrows(g) ==
    /\ guest[g] = "here" /\ g \notin grown
    /\ \A c \in Calls : at[c] = "open" => task[c].g # g
    /\ grown' = grown \cup {g}
    /\ UNCHANGED <<guest, visit, cookie, at, task, stumbles, lapsed>>

-----------------------------------------------------------------------------
(* purge_expired_guests, in the loop and in a call that finds no room *)

Lists(c) ==
    /\ \/ c = Loop /\ Abandoned # {} /\ Moves(c, "idle", "sweeping")
       \/ c \in Calls /\ Moves(c, "sweep", "sweeping")
    /\ task' = [task EXCEPT ![c].todo = Abandoned]
    /\ UNCHANGED <<guestRows, cookie, stumbles, lapsed>>

SweepsOne(c, g) ==
    /\ at[c] = "sweeping" /\ g \in task[c].todo
    /\ task' = [task EXCEPT ![c].todo = @ \ {g}]
    /\ Erase(g)
    /\ UNCHANGED <<cookie, at, stumbles, lapsed>>

(* A slip: the guest that failed stays at the head of the list. *)
SweepStuck(c, g) ==
    /\ at[c] = "sweeping" /\ g \in task[c].todo /\ stumbles < MaxStumbles
    /\ stumbles' = stumbles + 1 /\ Moves(c, "sweeping", "stuck")
    /\ UNCHANGED <<guestRows, cookie, task, lapsed>>

\* An error is logged and the sweep goes on.
SweepSkips(c, g) ==
    /\ at[c] = "sweeping" /\ g \in task[c].todo /\ stumbles < MaxStumbles
    /\ stumbles' = stumbles + 1 /\ task' = [task EXCEPT ![c].todo = @ \ {g}]
    /\ UNCHANGED <<guestRows, cookie, at, lapsed>>

SweepEnds(c) ==
    /\ task[c].todo = {}
    /\ Moves(c, "sweeping", IF c = Loop THEN "idle" ELSE "retry")
    /\ UNCHANGED <<guestRows, cookie, task, stumbles, lapsed>>

Sweep(c) == \/ Lists(c) \/ SweepEnds(c)
            \/ \E g \in Guests : SweepsOne(c, g) \/ SweepSkips(c, g)

GuestsNext ==
    \/ \E c \in Calls :
         \/ \E v \in Visitors : Enters(c, v) \/ Leaves(c, v) \/ Rotates(c, v)
         \/ Purges(c) \/ CreatesGuest(c) \/ RetriesGuest(c) \/ OpensVisit(c) \/ Replies(c)
         \/ Renews(c) \/ CallDies(c)
    \/ \E c \in Sweepers : Sweep(c)
    \/ \E g \in Guests : VisitExpires(g) \/ GuestGrows(g)

\* The loop runs while the process does.
GuestsFairness == WF_guVars(Sweep(Loop))

GuestsSpec == GuestsInit /\ [][GuestsNext]_guVars

-----------------------------------------------------------------------------
(* Properties. *)

\* Every variable keeps the shape Init gives it.
GuestsTypeOK ==
    /\ guest \in [Guests -> {"none", "here", "gone"}] /\ grown \subseteq Guests
    /\ visit \in [Guests -> {"none", "live", "expired", "revoked"}]
    /\ cookie \in [Visitors -> Guests \cup {NoGuest}]
    /\ at \in [Sweepers -> {"idle", "purge to enter", "purge to leave", "create", "sweep",
                            "sweeping", "retry", "open", "answer", "clear", "renew"}]
    /\ task \in [Sweepers -> [v : Visitors \cup {NoGuest}, g : Guests \cup {NoGuest},
                              todo : SUBSET Guests]]
    /\ stumbles \in 0 .. MaxStumbles /\ lapsed \subseteq Guests

\* A guest is erased only after its session was closed or once expired, or when its login
\* died before opening one: neither the sweep nor another login takes a newborn guest.
OnlyAbandonedIsErased ==
    [][\A g \in Guests : guest[g] = "here" /\ guest'[g] = "gone" =>
          \/ g \in lapsed \/ visit[g] = "revoked"
          \/ visit[g] = "none" /\ \A c \in Calls : at[c] = "open" => task[c].g # g]_guVars

\* A guest nobody uses goes in the end, also when erasing it fails or the worker that
\* created it died, unless a renewal in flight revives its session.
AbandonedGoes == \A g \in Guests : g \in Abandoned ~> guest[g] = "gone" \/ visit[g] = "live"
====
