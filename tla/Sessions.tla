---- MODULE Sessions ----
(***************************************************************************)
(* The browser sessions of one account (storage/sessions.py and the routes  *)
(* of auth/session.py).  A session is a row; the browser holds an access    *)
(* token that names the row and a refresh token whose hash the row keeps.   *)
(* Every statement is a transaction of its own, so a request that reads     *)
(* and then writes has steps of other requests in between.                  *)
(***************************************************************************)
EXTENDS Integers, FiniteSets

CONSTANTS Sids, Browsers, Reqs,
          MaxTokens,   \* bound: refresh tokens issued
          MaxPasswords,\* bound: changes of password
          None

ASSUME SessionsAssumption ==
    /\ MaxTokens \in Nat /\ MaxPasswords \in Nat
    /\ None \notin Sids \cup (1 .. MaxTokens)

VARIABLES
    row,      \* "none", "open", "revoked" or "gone" (purged)
    refresh,  \* refresh_hash
    prev,     \* prev_refresh_hash
    expired,  \* rows whose expires_at has passed
    issued,   \* refresh tokens issued so far
    password, \* version of password_hash
    active,   \* is_active
    jar,      \* cookies of a browser: the sid of ga_token, the token of ga_refresh
    sPc, sJob,\* where a request is, and what it has read
    era,      \* history: version of the password when an open session was opened
    doubts    \* history: browsers with two renewals at once, an answer lost or a copy made

table == <<row, refresh, prev, expired>>
account == <<password, active>>
sVars == <<table, account, issued, jar, sPc, sJob, era, doubts>>

Tokens == 1 .. MaxTokens
Empty == [sid |-> None, token |-> None]
NoJob == [b |-> None, sid |-> None, token |-> None, ok |-> FALSE]

SessionsInit ==
    /\ row = [s \in Sids |-> "none"]
    /\ refresh = [s \in Sids |-> None] /\ prev = [s \in Sids |-> None]
    /\ expired = {} /\ issued = 0 /\ password = 0 /\ active = TRUE
    /\ jar = [b \in Browsers |-> Empty]
    /\ sPc = [q \in Reqs |-> "idle"] /\ sJob = [q \in Reqs |-> NoJob]
    /\ era = [s \in Sids |-> 0] /\ doubts = {}

Goes(q, where) == sPc' = [sPc EXCEPT ![q] = where]
Starts(q, where, job) == /\ Goes(q, where)
                         /\ sJob' = [sJob EXCEPT ![q] = job]
Ends(q) == Starts(q, "idle", NoJob)
Job(b, s, t, ok) == [b |-> b, sid |-> s, token |-> t, ok |-> ok]

\* UPDATE sessions SET revoked_at, refresh_hash = NULL, ... WHERE revoked_at IS NULL
Revoke(S) ==
    LET cut == {s \in S : row[s] = "open"} IN
    /\ row' = [s \in Sids |-> IF s \in cut THEN "revoked" ELSE row[s]]
    /\ refresh' = [s \in Sids |-> IF s \in cut THEN None ELSE refresh[s]]
    /\ prev' = [s \in Sids |-> IF s \in cut THEN None ELSE prev[s]]
    /\ era' = [s \in Sids |-> IF s \in cut THEN 0 ELSE era[s]]
    /\ UNCHANGED expired

Live(s) == s \in Sids /\ row[s] = "open" /\ s \notin expired

-----------------------------------------------------------------------------
(* Opening a session. *)

\* get_user_by_login; a wrong password ends the request and changes nothing.
LoginReads(q, b) ==
    /\ sPc[q] = "idle"
    /\ Starts(q, "verify", Job(b, None, None, active))
    /\ UNCHANGED <<table, account, issued, jar, era, doubts>>

\* After bcrypt: purge_expired, for every account.
LoginPurges(q) ==
    /\ sPc[q] = "verify" /\ sJob[q].ok
    /\ Goes(q, "open")
    /\ row' = [s \in Sids |-> IF s \in expired THEN "gone" ELSE row[s]]
    /\ refresh' = [s \in Sids |-> IF s \in expired THEN None ELSE refresh[s]]
    /\ prev' = [s \in Sids |-> IF s \in expired THEN None ELSE prev[s]]
    /\ expired' = {}
    /\ UNCHANGED <<account, issued, jar, sJob, era, doubts>>

\* SessionStorage.open
LoginOpens(q) ==
    /\ sPc[q] = "open" /\ issued < MaxTokens
    /\ issued' = issued + 1
    /\ \E s \in Sids :
         /\ row[s] = "none"
         /\ row' = [row EXCEPT ![s] = "open"]
         /\ refresh' = [refresh EXCEPT ![s] = issued + 1]
         /\ Starts(q, "answer", Job(sJob[q].b, s, issued + 1, TRUE))
         /\ era' = [era EXCEPT ![s] = password]
    /\ UNCHANGED <<prev, expired, account, jar, doubts>>

(* A slip: the refusal is never answered. *)
LoginRefusedHangs(q) ==
    /\ sPc[q] = "verify" /\ ~sJob[q].ok
    /\ Goes(q, "refused")
    /\ UNCHANGED <<table, account, issued, jar, sJob, era, doubts>>

\* 403 account_disabled
LoginRefused(q) ==
    /\ sPc[q] = "verify" /\ ~sJob[q].ok
    /\ Ends(q)
    /\ UNCHANGED <<table, account, issued, jar, era, doubts>>

\* The answer sets both cookies.
Answered(q) ==
    /\ sPc[q] = "answer"
    /\ jar' = [jar EXCEPT ![sJob[q].b] = [sid |-> sJob[q].sid, token |-> sJob[q].token]]
    /\ Ends(q)
    /\ UNCHANGED <<table, account, issued, era, doubts>>

\* clear_session_cookies
Cleared(q) ==
    /\ sPc[q] \in {"clear", "expelled"}
    /\ jar' = [jar EXCEPT ![sJob[q].b] = Empty]
    /\ Ends(q)
    /\ UNCHANGED <<table, account, issued, era, doubts>>

\* The connection drops: the browser keeps the cookies it had.
AnswerLost(q) ==
    /\ sPc[q] \in {"answer", "clear", "expelled"}
    /\ doubts' = doubts \cup {sJob[q].b}
    /\ Ends(q)
    /\ UNCHANGED <<table, account, issued, jar, era>>

-----------------------------------------------------------------------------
(* Renewal: SessionStorage.rotate. *)

Renewing(b) == \E q \in Reqs : sPc[q] # "idle" /\ sJob[q].b = b

\* session_by_refresh, then the checks on the row
RotateReads(q, b) ==
    /\ sPc[q] = "idle" /\ jar[b].token # None
    /\ LET found == {s \in Sids : refresh[s] = jar[b].token}
           where == IF found = {} THEN "second look"
                    ELSE IF \E s \in found : Live(s) THEN "rotate" ELSE "clear"
           sid == IF found = {} THEN None ELSE CHOOSE s \in found : TRUE
           used == IF found = {} THEN jar[b].token ELSE None
       IN Starts(q, where, Job(b, sid, used, TRUE))
    /\ doubts' = IF Renewing(b) THEN doubts \cup {b} ELSE doubts
    /\ UNCHANGED <<table, account, issued, jar, era>>

\* session_by_prev_refresh
LooksForReuse(q) ==
    /\ sPc[q] = "second look"
    /\ LET reused == {s \in Sids : prev[s] = sJob[q].token} IN
       IF reused = {} THEN Starts(q, "clear", [sJob[q] EXCEPT !.token = None])
       ELSE Starts(q, "reused", [sJob[q] EXCEPT !.sid = CHOOSE s \in reused : TRUE])
    /\ UNCHANGED <<table, account, issued, jar, era, doubts>>

\* revoke(refresh_reuse), on a second connection, and RefreshReuse
Expels(q) ==
    /\ sPc[q] = "reused"
    /\ Revoke({sJob[q].sid})
    /\ Goes(q, "expelled")
    /\ UNCHANGED <<account, issued, jar, sJob, doubts>>

(* A slip: the statement does not ask whether the row was revoked meanwhile. *)
RotateWritesAnyRow(q) ==
    /\ sPc[q] = "rotate" /\ issued < MaxTokens
    /\ LET s == sJob[q].sid IN
       /\ prev' = [prev EXCEPT ![s] = refresh[s]]
       /\ refresh' = [refresh EXCEPT ![s] = issued + 1]
       /\ expired' = expired \ {s}
    /\ issued' = issued + 1
    /\ Starts(q, "answer", [sJob[q] EXCEPT !.token = issued + 1])
    /\ UNCHANGED <<row, account, jar, era, doubts>>

(* A slip: the new hash is kept as the previous one. *)
RotateWritesSwapped(q) ==
    /\ sPc[q] = "rotate" /\ issued < MaxTokens
    /\ LET s == sJob[q].sid IN
       IF row[s] # "open" THEN UNCHANGED table
       ELSE /\ prev' = [prev EXCEPT ![s] = issued + 1]
            /\ expired' = expired \ {s}
            /\ UNCHANGED <<row, refresh>>
    /\ issued' = issued + 1
    /\ Starts(q, "answer", [sJob[q] EXCEPT !.token = issued + 1])
    /\ UNCHANGED <<account, jar, era, doubts>>

\* rotate_refresh ... WHERE id = ? AND revoked_at IS NULL; the tokens are returned anyway.
RotateWrites(q) ==
    /\ sPc[q] = "rotate" /\ issued < MaxTokens
    /\ LET s == sJob[q].sid IN
       IF row[s] # "open" THEN UNCHANGED table
       ELSE /\ prev' = [prev EXCEPT ![s] = refresh[s]]
            /\ refresh' = [refresh EXCEPT ![s] = issued + 1]
            /\ expired' = expired \ {s}
            /\ UNCHANGED row
    /\ issued' = issued + 1
    /\ Starts(q, "answer", [sJob[q] EXCEPT !.token = issued + 1])
    /\ UNCHANGED <<account, jar, era, doubts>>

-----------------------------------------------------------------------------
(* Requests that a live session authorises, and the ways to cut one. *)

\* _assert_session_live: one read, on every request; 401 changes nothing.
Admits(q, b) ==
    /\ sPc[q] = "idle" /\ Live(jar[b].sid)
    /\ Starts(q, "admitted", Job(b, jar[b].sid, None, TRUE))
    /\ UNCHANGED <<table, account, issued, jar, era, doubts>>

\* DELETE /sessions/{id}: revoke_owned
RevokesOne(q) ==
    /\ sPc[q] = "admitted"
    /\ \E s \in Sids : Revoke({s})
    /\ Ends(q)
    /\ UNCHANGED <<account, issued, jar, doubts>>

\* DELETE /sessions: revoke_others
RevokesOthers(q) ==
    /\ sPc[q] = "admitted"
    /\ Revoke(Sids \ {sJob[q].sid})
    /\ Ends(q)
    /\ UNCHANGED <<account, issued, jar, doubts>>

\* set_own_password and _touch_password_changed_at, one commit
ChangesPassword(q) ==
    /\ sPc[q] = "admitted" /\ password < MaxPasswords
    /\ password' = password + 1
    /\ Revoke(Sids)
    /\ Ends(q)
    /\ UNCHANGED <<active, issued, jar, doubts>>

\* POST /logout: the access may be expired; it revokes the session it names.
LogsOut(q, b) ==
    /\ sPc[q] = "idle" /\ jar[b].sid # None
    /\ Revoke({jar[b].sid})
    /\ Starts(q, "clear", Job(b, None, None, TRUE))
    /\ UNCHANGED <<account, issued, jar, doubts>>

\* admin_set_password, or consume_reset_token with a valid link
PasswordSet ==
    /\ password < MaxPasswords
    /\ password' = password + 1
    /\ Revoke(Sids)
    /\ UNCHANGED <<active, issued, jar, sPc, sJob, doubts>>

\* admin_update_user: is_active, either way; deactivation revokes.
Deactivated ==
    /\ active' = FALSE
    /\ Revoke(Sids)
    /\ UNCHANGED <<password, issued, jar, sPc, sJob, doubts>>

Reactivated ==
    /\ active' = TRUE
    /\ UNCHANGED <<table, password, issued, jar, sPc, sJob, era, doubts>>

\* expires_at passes
Expires(s) ==
    /\ row[s] = "open"
    /\ expired' = expired \cup {s}
    /\ UNCHANGED <<row, refresh, prev, account, issued, jar, sPc, sJob, era, doubts>>

\* A second client gets the cookies of the first.
Copied(b, c) ==
    /\ jar[b].token # None /\ jar[c] = Empty
    /\ jar' = [jar EXCEPT ![c] = jar[b]]
    /\ doubts' = doubts \cup {b, c}
    /\ UNCHANGED <<table, account, issued, sPc, sJob, era>>

SessionsNext ==
    \/ \E q \in Reqs :
         \/ \E b \in Browsers : LoginReads(q, b) \/ RotateReads(q, b) \/ LogsOut(q, b) \/ Admits(q, b)
         \/ LoginPurges(q) \/ LoginOpens(q) \/ LoginRefused(q)
         \/ LooksForReuse(q) \/ Expels(q) \/ RotateWrites(q)
         \/ RevokesOne(q) \/ RevokesOthers(q) \/ ChangesPassword(q)
         \/ Answered(q) \/ Cleared(q) \/ AnswerLost(q)
    \/ PasswordSet \/ Deactivated \/ Reactivated
    \/ \E s \in Sids : Expires(s)
    \/ \E b, c \in Browsers : Copied(b, c)

SessionsSpec == SessionsInit /\ [][SessionsNext]_sVars

-----------------------------------------------------------------------------
(* Properties. *)

\* Every variable keeps the shape Init gives it.
SessionsTypeOK ==
    /\ row \in [Sids -> {"none", "open", "revoked", "gone"}]
    /\ refresh \in [Sids -> Tokens \cup {None}] /\ prev \in [Sids -> Tokens \cup {None}]
    /\ expired \subseteq Sids /\ issued \in 0 .. MaxTokens
    /\ password \in 0 .. MaxPasswords /\ active \in BOOLEAN
    /\ jar \in [Browsers -> [sid : Sids \cup {None}, token : Tokens \cup {None}]]
    /\ sPc \in [Reqs -> {"idle", "verify", "open", "answer", "clear", "rotate", "second look",
                         "reused", "expelled", "admitted"}]
    /\ sJob \in [Reqs -> [b : Browsers \cup {None}, sid : Sids \cup {None},
                          token : Tokens \cup {None}, ok : BOOLEAN]]
    /\ era \in [Sids -> 0 .. MaxPasswords] /\ doubts \subseteq Browsers

\* No order of a revocation and a renewal in flight leaves a revoked row with a
\* refresh that could be exchanged.
RevokedKeepsNoRefresh ==
    \A s \in Sids : row[s] \in {"revoked", "gone"} => refresh[s] = None /\ prev[s] = None

\* When a refresh already exchanged is presented, neither of its holders keeps the
\* session, even if the other renews between the detection and the revocation.
ReuseClosesForBoth ==
    \A q \in Reqs : sPc[q] = "expelled" => row[sJob[q].sid] # "open"

\* After a change of password no session opened before it is open, whoever was
\* renewing it meanwhile.
ChangeCutsEverySession == \A s \in Sids : row[s] = "open" => era[s] = password

\* What was revoked stays so, against every renewal in flight.
RevocationWins == RevokedKeepsNoRefresh /\ ChangeCutsEverySession

\* A browser that renews once at a time, loses no answer and shares its cookies with
\* nobody is never taken for a reuse.
LoneHolderIsNoReuse ==
    \A q \in Reqs : sPc[q] \in {"reused", "expelled"} => sJob[q].b \in doubts

\* A refresh presented twice costs both holders the session, and nobody else.
ReuseIsTold == ReuseClosesForBoth /\ LoneHolderIsNoReuse
====
