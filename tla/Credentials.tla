---- MODULE Credentials ----
(***************************************************************************)
(* What a credential is worth after it was issued (auth/dependencies.py):   *)
(* each worker keeps the state of the holder for a while, and a credential *)
(* older than the last change of password is refused.  The clock counts     *)
(* fractions of a second because the iat of an access token has whole       *)
(* seconds and the instant of the change of password does not.              *)
(***************************************************************************)
EXTENDS Integers, FiniteSets

CONSTANTS Workers, Checks, Creds,
          Second,  \* ticks of the clock in a second
          TTL,     \* ticks that _ACTIVE_CACHE_TTL lasts
          MaxTime, \* bound: the clock
          MaxChanges, \* bound: changes of the holder
          Nobody

ASSUME CredentialsAssumption ==
    /\ {Second, TTL, MaxTime} \subseteq Nat \ {0} /\ MaxChanges \in Nat /\ Nobody \notin Nat

VARIABLES
    now,
    standing, \* is_active and role: "admin", "standard" or "disabled"
    since,    \* history: when it changed last
    changed,  \* password_changed_at, 0 before any change
    changes,  \* changes of the holder so far
    cred,     \* credentials: their kind, the instant they carry, whether they were cut
    born,     \* history: when a credential was issued
    cache,    \* _active_cache of each worker, this holder's entry
    cPc, cJob

holder == <<standing, since, changed, changes>>
cVars == <<now, holder, cred, born, cache, cPc, cJob>>

Times == 0 .. MaxTime
Standings == {"admin", "standard", "disabled"}
States == [standing : Standings, changed : Times]
NoCred == [kind |-> "none", at |-> 0, cut |-> FALSE]
NoEntry == [state |-> [standing |-> "standard", changed |-> 0], until |-> 0]
Free == [w |-> Nobody, c |-> Nobody, t0 |-> 0, state |-> NoEntry.state]

CredentialsInit ==
    /\ now = 1 /\ standing = "admin" /\ since = 0 /\ changed = 0 /\ changes = 0
    /\ cred = [c \in Creds |-> NoCred] /\ born = [c \in Creds |-> 0]
    /\ cache = [w \in Workers |-> NoEntry]
    /\ cPc = [q \in Checks |-> "idle"] /\ cJob = [q \in Checks |-> Free]

Tick ==
    /\ now < MaxTime /\ now' = now + 1
    /\ UNCHANGED <<holder, cred, born, cache, cPc, cJob>>

-----------------------------------------------------------------------------
(* Credentials and the holder. *)

\* create_token writes iat in whole seconds.
WholeSecond(t) == (t \div Second) * Second

\* open_session, reissue_access, rotate: an access token.
IssuesAccess(c) ==
    /\ cred[c] = NoCred /\ standing # "disabled"
    /\ cred' = [cred EXCEPT ![c] = [kind |-> "session", at |-> WholeSecond(now), cut |-> FALSE]]
    /\ born' = [born EXCEPT ![c] = now]
    /\ UNCHANGED <<now, holder, cache, cPc, cJob>>

\* TokenStorage.create: created_at to the microsecond.
IssuesPat(c) ==
    /\ cred[c] = NoCred /\ standing # "disabled"
    /\ cred' = [cred EXCEPT ![c] = [kind |-> "pat", at |-> now, cut |-> FALSE]]
    /\ born' = [born EXCEPT ![c] = now]
    /\ UNCHANGED <<now, holder, cache, cPc, cJob>>

\* TokenStorage.revoke, or pat.expires_at passes
PatEnds(c) ==
    /\ cred[c].kind = "pat"
    /\ cred' = [cred EXCEPT ![c].cut = TRUE]
    /\ UNCHANGED <<now, holder, born, cache, cPc, cJob>>

CutSessions == cred' = [c \in Creds |-> IF cred[c].kind = "session"
                                        THEN [cred[c] EXCEPT !.cut = TRUE] ELSE cred[c]]

\* _touch_password_changed_at
ChangesPasswordAt ==
    /\ changes < MaxChanges /\ changes' = changes + 1
    /\ changed' = now
    /\ CutSessions
    /\ UNCHANGED <<now, standing, since, born, cache, cPc, cJob>>

Rank(st) == CASE st = "disabled" -> 0 [] st = "standard" -> 1 [] st = "admin" -> 2

\* admin_update_user: only a deactivation and a lower role revoke the sessions.
AdminUpdates(st) ==
    /\ st # standing /\ changes < MaxChanges /\ changes' = changes + 1
    /\ standing' = st /\ since' = now
    /\ IF Rank(st) < Rank(standing) THEN CutSessions ELSE UNCHANGED cred
    /\ UNCHANGED <<now, changed, born, cache, cPc, cJob>>

-----------------------------------------------------------------------------
(* A request. *)

Goto(q, where) == cPc' = [cPc EXCEPT ![q] = where]

\* _identify: the row of the session or of the PAT, read on every request.
Identifies(q, w, c) ==
    /\ cPc[q] = "idle"
    /\ cred[c] # NoCred /\ ~cred[c].cut
    /\ Goto(q, "identified")
    /\ cJob' = [cJob EXCEPT ![q] = [Free EXCEPT !.w = w, !.c = c]]
    /\ UNCHANGED <<now, holder, cred, born, cache>>

\* _assert_account_ok
Verdict(st, c) ==
    IF st.standing = "disabled" THEN "disabled"
    ELSE IF cred[c].at < st.changed THEN "before change" ELSE "admitted"

Decides(q, st) ==
    /\ Goto(q, Verdict(st, cJob[q].c))
    /\ cJob' = [cJob EXCEPT ![q].state = st]

\* _get_user_auth_state with an entry in force
Cached(q) ==
    /\ cPc[q] = "identified" /\ now < cache[cJob[q].w].until
    /\ Decides(q, cache[cJob[q].w].state)
    /\ UNCHANGED <<now, holder, cred, born, cache>>

\* ... without one: the clock is read before the row.
Misses(q) ==
    /\ cPc[q] = "identified" /\ now >= cache[cJob[q].w].until
    /\ Goto(q, "reading")
    /\ cJob' = [cJob EXCEPT ![q].t0 = now]
    /\ UNCHANGED <<now, holder, cred, born, cache>>

ReadsAccount(q) ==
    /\ cPc[q] = "reading"
    /\ Goto(q, "read")
    /\ cJob' = [cJob EXCEPT ![q].state = [standing |-> standing, changed |-> changed]]
    /\ UNCHANGED <<now, holder, cred, born, cache>>

(* A slip: the entry lasts from when it is stored. *)
StoresFromNow(q) ==
    /\ cPc[q] = "read"
    /\ cache' = [cache EXCEPT ![cJob[q].w] = [state |-> cJob[q].state, until |-> now + TTL]]
    /\ Decides(q, cJob[q].state)
    /\ UNCHANGED <<now, holder, cred, born>>

Stores(q) ==
    /\ cPc[q] = "read"
    /\ cache' = [cache EXCEPT ![cJob[q].w] = [state |-> cJob[q].state, until |-> cJob[q].t0 + TTL]]
    /\ Decides(q, cJob[q].state)
    /\ UNCHANGED <<now, holder, cred, born>>

\* The dictionary is full: the entry leaves with others.
Evicted(w) ==
    /\ cache[w] # NoEntry
    /\ cache' = [cache EXCEPT ![w] = NoEntry]
    /\ UNCHANGED <<now, holder, cred, born, cPc, cJob>>

Served(q) ==
    /\ cPc[q] \in {"disabled", "before change", "admitted"}
    /\ Goto(q, "idle")
    /\ cJob' = [cJob EXCEPT ![q] = Free]
    /\ UNCHANGED <<now, holder, cred, born, cache>>

CredentialsNext ==
    \/ Tick \/ ChangesPasswordAt
    \/ \E st \in Standings : AdminUpdates(st)
    \/ \E c \in Creds : IssuesAccess(c) \/ IssuesPat(c) \/ PatEnds(c)
    \/ \E w \in Workers : Evicted(w)
    \/ \E q \in Checks :
         \/ \E w \in Workers, c \in Creds : Identifies(q, w, c)
         \/ Cached(q) \/ Misses(q) \/ ReadsAccount(q) \/ Stores(q) \/ Served(q)

CredentialsSpec == CredentialsInit /\ [][CredentialsNext]_cVars

-----------------------------------------------------------------------------
(* Properties. *)

\* Every variable keeps the shape Init gives it.
CredentialsTypeOK ==
    /\ {now, since, changed} \subseteq Times /\ changes \in 0 .. MaxChanges
    /\ standing \in Standings
    /\ cred \in [Creds -> [kind : {"none", "session", "pat"}, at : Times, cut : BOOLEAN]]
    /\ born \in [Creds -> Times]
    /\ cache \in [Workers -> [state : States, until : 0 .. MaxTime + TTL]]
    /\ cPc \in [Checks -> {"idle", "identified", "reading", "read", "disabled",
                         "before change", "admitted"}]
    /\ cJob \in [Checks -> [w : Workers \cup {Nobody}, c : Creds \cup {Nobody},
                          t0 : Times, state : States]]

\* Admitted on the word of the cache.
FromCache(q) == cPc[q] = "identified" /\ cPc'[q] = "admitted"

\* On every worker, however slow the read that filled its cache was and whatever other
\* read overtook it: within the TTL a deactivation or a lost role counts, and a change of
\* password shuts out every credential issued before it.
CountsWithinTTL ==
    [][\A q \in Checks : FromCache(q) =>
          /\ cJob'[q].state.standing = standing \/ now < since + TTL
          /\ born[cJob[q].c] >= changed \/ now < changed + TTL]_cVars
====
