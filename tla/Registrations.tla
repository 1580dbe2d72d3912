---- MODULE Registrations ----
(***************************************************************************)
(* How an account begins (auth/auth.py, auth/github_user_link.py) and the   *)
(* links it is mailed: the one that verifies its address and the one that   *)
(* resets its password.  Each handler reads and writes in statements of     *)
(* their own, with a hash of the password or a search for a name between.   *)
(***************************************************************************)
EXTENDS Integers, FiniteSets

CONSTANTS Holders,   \* ids of accounts
          Names,     \* user names: a base and a suffix
          Mails,
          Clients,   \* requests
          NoOne,
          Long,      \* bases of 32 characters, which leave no room for a suffix
          MaxLinks   \* bound: links mailed

\* The first name tried for a base is the base itself, without a suffix.
ASSUME RegistrationsAssumption ==
    /\ NoOne \notin Holders /\ MaxLinks \in Nat
    /\ \A n \in Names : <<n[1], 1>> \in Names

VARIABLES
    people,  \* rows of users
    links,   \* links mailed so far
    stale,   \* links whose reset_token_expires has passed
    rPc, rJob,
    resets   \* history: how often a link has set a password

rVars == <<people, links, stale, rPc, rJob, resets>>

Bases == {n[1] : n \in Names}
Absent == [name |-> NoOne, mail |-> NoOne, github |-> NoOne, verified |-> FALSE,
           verify |-> 0, reset |-> 0]
Idle == [base |-> NoOne, name |-> NoOne, mail |-> NoOne, link |-> 0, h |-> NoOne]

RegistrationsInit ==
    /\ people = [h \in Holders |-> Absent] /\ links = 0 /\ stale = {}
    /\ rPc = [c \in Clients |-> "idle"] /\ rJob = [c \in Clients |-> Idle]
    /\ resets = [l \in 1 .. MaxLinks |-> 0]

To(c, from, to) == rPc[c] = from /\ rPc' = [rPc EXCEPT ![c] = to]
Keeps(c, job) == rJob' = [rJob EXCEPT ![c] = job]
Leave(c, from) == To(c, from, "idle") /\ Keeps(c, Idle)
linkVars == <<links, stale, resets>>

NameTaken(n) == \E h \in Holders : people[h].name = n
MailTaken(m) == \E h \in Holders : people[h].mail = m

\* INSERT INTO users: username and email are UNIQUE, the identity of GitHub is not.
Insert(person) ==
    IF NameTaken(person.name) \/ MailTaken(person.mail) THEN UNCHANGED people
    ELSE \E h \in Holders : people[h] = Absent /\ people' = [people EXCEPT ![h] = person]

-----------------------------------------------------------------------------
(* register_user_email *)

RegisterReads(c, n, m) ==
    /\ ~NameTaken(n) /\ ~MailTaken(m)
    /\ To(c, "idle", "register")
    /\ Keeps(c, [Idle EXCEPT !.name = n, !.mail = m])
    /\ UNCHANGED <<people, linkVars>>

\* With or without a mail that verifies the address.
RegisterInserts(c) ==
    /\ Leave(c, "register")
    /\ \E byMail \in BOOLEAN :
         /\ byMail => links < MaxLinks
         /\ links' = IF byMail THEN links + 1 ELSE links
         /\ Insert([Absent EXCEPT !.name = rJob[c].name, !.mail = rJob[c].mail,
                                  !.verified = ~byMail, !.verify = IF byMail THEN links + 1 ELSE 0])
    /\ UNCHANGED <<stale, resets>>

\* verify_email_token: the name of the link, and then the account of that name
VerifyReads(c, l) ==
    \E h \in Holders :
       /\ people[h].verify = l /\ ~people[h].verified
       /\ To(c, "idle", "verify") /\ Keeps(c, [Idle EXCEPT !.h = h, !.link = l])
       /\ UNCHANGED <<people, linkVars>>

VerifyMarks(c) ==
    /\ Leave(c, "verify")
    /\ people' = [people EXCEPT ![rJob[c].h].verified = TRUE, ![rJob[c].h].verify = 0]
    /\ UNCHANGED <<linkVars>>

-----------------------------------------------------------------------------
(* get_or_create_github_user; the identity is known by the base of its name *)

Suffixed(base, k) == <<base, IF base \in Long THEN 1 ELSE k>>

GitHubReads(c, base, m) ==
    /\ To(c, "idle", IF \E h \in Holders : people[h].github = base THEN "welcome" ELSE "name")
    /\ Keeps(c, [Idle EXCEPT !.base = base, !.name = <<base, 1>>, !.mail = m])
    /\ UNCHANGED <<people, linkVars>>

\* username_exists, once for each suffix
GitHubNames(c) ==
    /\ rPc[c] = "name"
    /\ LET taken == NameTaken(rJob[c].name)
           next == Suffixed(rJob[c].base, rJob[c].name[2] + 1)
       IN /\ taken => next \in Names
          /\ rPc' = [rPc EXCEPT ![c] = IF taken THEN "name" ELSE "mail"]
          /\ Keeps(c, [rJob[c] EXCEPT !.name = IF taken THEN next ELSE @])
    /\ UNCHANGED <<people, linkVars>>

\* email_exists: an address of GitHub's own takes its place
GitHubMails(c) ==
    /\ To(c, "mail", "insert")
    /\ Keeps(c, [rJob[c] EXCEPT !.mail = IF MailTaken(@) THEN rJob[c].name ELSE @])
    /\ UNCHANGED <<people, linkVars>>

\* The session follows; a name or an address taken meanwhile is a 500.
GitHubInserts(c) ==
    /\ Leave(c, "insert")
    /\ Insert([Absent EXCEPT !.name = rJob[c].name, !.mail = rJob[c].mail,
                             !.github = rJob[c].base, !.verified = TRUE])
    /\ UNCHANGED <<linkVars>>

Welcomed(c) == Leave(c, "welcome") /\ UNCHANGED <<people, linkVars>>

-----------------------------------------------------------------------------
(* create_password_reset_token, consume_reset_token *)

ForgotPassword(h) ==
    /\ people[h] # Absent /\ links < MaxLinks
    /\ links' = links + 1
    /\ people' = [people EXCEPT ![h].reset = links + 1]
    /\ UNCHANGED <<stale, resets, rPc, rJob>>

LinkExpires(l) ==
    /\ \E h \in Holders : people[h].reset = l
    /\ stale' = stale \cup {l}
    /\ UNCHANGED <<people, links, resets, rPc, rJob>>

\* reset_token_expiry, and then the hash of the new password
ResetReads(c, l) ==
    \E h \in Holders :
       /\ people[h].reset = l /\ l \notin stale
       /\ To(c, "idle", "reset") /\ Keeps(c, [Idle EXCEPT !.h = h, !.link = l])
       /\ UNCHANGED <<people, linkVars>>

(* A slip: the update finds the account by its name. *)
ResetWritesByName(c) ==
    /\ Leave(c, "reset")
    /\ people' = [people EXCEPT ![rJob[c].h].reset = 0]
    /\ resets' = [resets EXCEPT ![rJob[c].link] = @ + 1]
    /\ UNCHANGED <<links, stale>>

\* reset_password_by_token, in one transaction with the revocation of the sessions
ResetWrites(c) ==
    /\ Leave(c, "reset")
    /\ IF people[rJob[c].h].reset # rJob[c].link \/ rJob[c].link \in stale
       THEN UNCHANGED <<people, resets>>
       ELSE /\ people' = [people EXCEPT ![rJob[c].h].reset = 0]
            /\ resets' = [resets EXCEPT ![rJob[c].link] = @ + 1]
    /\ UNCHANGED <<links, stale>>

RegistrationsNext ==
    \/ \E c \in Clients :
         \/ \E n \in Names, m \in Mails : RegisterReads(c, n, m)
         \/ \E b \in Bases, m \in Mails : GitHubReads(c, b, m)
         \/ RegisterInserts(c) \/ VerifyMarks(c) \/ Welcomed(c)
         \/ GitHubNames(c) \/ GitHubMails(c) \/ GitHubInserts(c)
         \/ \E l \in 1 .. MaxLinks : VerifyReads(c, l) \/ ResetReads(c, l)
         \/ ResetWrites(c)
    \/ \E h \in Holders : ForgotPassword(h)
    \/ \E l \in 1 .. MaxLinks : LinkExpires(l)

RegistrationsSpec == RegistrationsInit /\ [][RegistrationsNext]_rVars

-----------------------------------------------------------------------------
(* Properties. *)

\* Every variable keeps the shape Init gives it.
RegistrationsTypeOK ==
    /\ \A h \in Holders :
         /\ people[h].name \in Names \cup {NoOne}
         /\ people[h].mail \in Mails \cup Names \cup {NoOne}
         /\ people[h].github \in Bases \cup {NoOne} /\ people[h].verified \in BOOLEAN
         /\ {people[h].verify, people[h].reset} \subseteq 0 .. MaxLinks
    /\ links \in 0 .. MaxLinks /\ stale \subseteq 1 .. links
    /\ rPc \in [Clients -> {"idle", "register", "verify", "welcome", "name", "mail", "insert",
                            "reset"}]
    /\ \A c \in Clients : rJob[c].link \in 0 .. links /\ rJob[c].name \in Names \cup {NoOne}
    /\ resets \in [1 .. MaxLinks -> Nat]

\* However many requests present one reset link, and whatever newer link is mailed while
\* they hash, the link sets the password once and only while it is the last of its account.
ResetOnce ==
    [][\A l \in 1 .. MaxLinks : resets'[l] # resets[l] =>
          /\ resets[l] = 0 /\ l \notin stale
          /\ \E h \in Holders : people[h].reset = l]_rVars
====
