---- MODULE AccountsProofs ----
(***************************************************************************)
(* Proofs about what an account is entered with: its sessions (Sessions),   *)
(* what workers remember of it (Credentials), the codes of its editors      *)
(* (EditorCodes), the links it is mailed (Registrations), the quotas of its *)
(* requests (RateLimits), what it shares with a team (GroupSharing) and     *)
(* what it pays for (Billing), and the seven together (MCAccounts).         *)
(***************************************************************************)
EXTENDS MCAccounts, WellFoundedInduction, SequenceTheorems, TLAPS

-----------------------------------------------------------------------------
(* Sessions: the inductive invariant. *)

\* A row has a refresh while it is open, and open rows are of the present password.
RowsFit ==
    \A s \in Sids :
        /\ row[s] # "open" => refresh[s] = None /\ prev[s] = None
        /\ row[s] = "open" => refresh[s] # None /\ era[s] = password

\* Every token was issued, and two rows never share a refresh.
TokensFit ==
    /\ \A s \in Sids : {refresh[s], prev[s]} \subseteq (1 .. issued) \cup {None}
    /\ \A b \in Browsers : jar[b].token \in (1 .. issued) \cup {None}
    /\ \A s, r \in Sids : refresh[s] = refresh[r] /\ s # r => refresh[s] = None

\* What a request has read, and what is still true of it.
JobsFit ==
    \A q \in Reqs :
        /\ sPc[q] # "idle" => sJob[q].b \in Browsers
        /\ sPc[q] \in {"rotate", "reused", "expelled"} =>
              sJob[q].sid \in Sids /\ row[sJob[q].sid] # "none"
        /\ sPc[q] = "expelled" => row[sJob[q].sid] # "open"
        /\ sPc[q] \in {"answer", "second look"} => sJob[q].token \in 1 .. issued

\* The token of an answer on its way is nowhere else but in its row.
OnTheWay ==
    \A q \in Reqs : sPc[q] = "answer" =>
        /\ \A b \in Browsers : jar[b].token # sJob[q].token
        /\ \A p \in Reqs : sPc[p] = "answer" /\ sJob[p].token = sJob[q].token => p = q

\* Nobody else has the token of a browser that gave none away.
OwnToken ==
    \A b \in Browsers \ doubts, c \in Browsers :
        jar[b].token # None /\ jar[c].token = jar[b].token => c = b

\* Both gave a token away, lost one, or renewed twice at once.
Doubted(b, c) == b \in doubts /\ c \in doubts

\* The row q is about to write: whoever has its refresh is the browser that renews, or both
\* are in doubt; and so are two that renew one row.
RenewsAlone(q) ==
    sPc[q] = "rotate" /\ refresh[sJob[q].sid] # None =>
        /\ \A b \in Browsers : jar[b].token = refresh[sJob[q].sid] =>
                                b = sJob[q].b \/ Doubted(b, sJob[q].b)
        /\ \A p \in Reqs : sPc[p] = "answer" /\ sJob[p].token = refresh[sJob[q].sid] =>
                            Doubted(sJob[p].b, sJob[q].b)
        /\ \A p \in Reqs : sPc[p] = "rotate" /\ sJob[p].sid = sJob[q].sid =>
                            p = q \/ Doubted(sJob[p].b, sJob[q].b)

\* A browser beyond doubt holds a refresh already exchanged only while the answer with the
\* next one is on its way.
Superseded(s) ==
    prev[s] # None =>
        /\ \A b \in Browsers \ doubts : jar[b].token = prev[s] =>
              \E q \in Reqs : sPc[q] = "answer" /\ sJob[q].b = b
        /\ \A q \in Reqs : sPc[q] \in {"answer", "second look"} /\ sJob[q].token = prev[s] =>
              sJob[q].b \in doubts

HoldersFit ==
    /\ \A q \in Reqs : RenewsAlone(q)
    /\ \A s \in Sids : Superseded(s)

\* The token of a renewal that found no row is the refresh of none.
Unfound ==
    \A q \in Reqs : sPc[q] = "second look" => \A s \in Sids : refresh[s] # sJob[q].token

SessionsInv ==
    /\ SessionsTypeOK /\ RowsFit /\ TokensFit /\ JobsFit
    /\ OnTheWay /\ OwnToken /\ HoldersFit /\ Unfound /\ LoneHolderIsNoReuse

-----------------------------------------------------------------------------
(* Sessions: the steps that hand out no token. *)

\* A row is as it was, or was closed.
Cut(s) ==
    \/ row'[s] = row[s] /\ refresh'[s] = refresh[s] /\ prev'[s] = prev[s] /\ era'[s] = era[s]
    \/ row'[s] \in {"revoked", "gone"} /\ refresh'[s] = None /\ prev'[s] = None

\* A request rests, or goes on with no token; an answer it drops makes its browser doubtful.
\* One that has found a reuse knows the row, and its browser was in doubt.
Lets(q) ==
    \/ sPc'[q] = sPc[q] /\ sJob'[q] = sJob[q]
    \/ /\ sPc'[q] \notin {"answer", "rotate", "second look"}
       /\ sPc[q] = "answer" => sJob[q].b \in doubts'
       /\ sPc'[q] # "idle" => sJob'[q].b \in Browsers
       /\ sPc'[q] \in {"reused", "expelled"} =>
             /\ sJob'[q].sid \in Sids /\ row'[sJob'[q].sid] # "none"
             /\ sJob'[q].b \in doubts
       /\ sPc'[q] = "expelled" => row'[sJob'[q].sid] # "open"

\* No token is issued, and no browser gets one.
QuietStep ==
    /\ issued' = issued /\ doubts \subseteq doubts'
    /\ \A s \in Sids : Cut(s)
    /\ password' = password \/ \A s \in Sids : row'[s] # "open"
    /\ \A b \in Browsers : jar'[b] = jar[b] \/ jar'[b].token = None
    /\ \A q \in Reqs : Lets(q)

\* A token that was issued is one of the bounded tokens, and is not None.
LEMMA TokensAreSome ==
    ASSUME SessionsTypeOK, NEW t \in 1 .. issued
    PROVE  t \in Tokens /\ t # None
<1>1. issued \in 0 .. MaxTokens /\ MaxTokens \in Nat
  BY SessionsAssumption DEF SessionsTypeOK
<1>2. t \in 1 .. MaxTokens
  BY <1>1
<1> QED
  BY <1>2, SessionsAssumption DEF Tokens

\* Such a step takes nothing from what is known of the tokens.
LEMMA QuietKeepsTokens ==
    ASSUME SessionsInv, QuietStep
    PROVE  TokensFit' /\ OnTheWay' /\ OwnToken' /\ Unfound'
<1>1. TokensFit'
  BY DEF SessionsInv, QuietStep, Cut, TokensFit
<1>2. OnTheWay'
  <2>1. ASSUME NEW q \in Reqs, sPc'[q] = "answer"
        PROVE  sPc[q] = "answer" /\ sJob'[q] = sJob[q]
    BY <2>1 DEF QuietStep, Lets
  <2>2. ASSUME NEW q \in Reqs, sPc'[q] = "answer"
        PROVE  sJob[q].token # None
    BY <2>1, <2>2, TokensAreSome DEF SessionsInv, JobsFit
  <2> QED
    BY <2>1, <2>2 DEF SessionsInv, QuietStep, OnTheWay
<1>3. OwnToken'
  BY DEF SessionsInv, QuietStep, OwnToken
<1>4. Unfound'
  <2>1. ASSUME NEW q \in Reqs, sPc'[q] = "second look"
        PROVE  sPc[q] = "second look" /\ sJob'[q] = sJob[q] /\ sJob[q].token # None
    <3>1. sPc[q] = "second look" /\ sJob'[q] = sJob[q]
      BY <2>1 DEF QuietStep, Lets
    <3> QED
      BY <3>1, TokensAreSome DEF SessionsInv, JobsFit
  <2> QED
    BY <2>1 DEF SessionsInv, QuietStep, Cut, Unfound
<1> QED
  BY <1>1, <1>2, <1>3, <1>4

\* Nor from what is known of who holds them.
LEMMA QuietKeepsHolders ==
    ASSUME SessionsInv, QuietStep
    PROVE  HoldersFit'
<1>0. \A q \in Reqs : sPc'[q] \in {"answer", "rotate", "second look"} =>
                         sPc'[q] = sPc[q] /\ sJob'[q] = sJob[q]
  BY DEF QuietStep, Lets
<1>1. ASSUME NEW q \in Reqs
      PROVE  RenewsAlone(q)'
  <2> SUFFICES ASSUME sPc'[q] = "rotate", refresh'[sJob'[q].sid] # None
               PROVE  RenewsAlone(q)'
    BY DEF RenewsAlone
  <2>1. sPc[q] = "rotate" /\ sJob'[q] = sJob[q]
    BY <1>0
  <2>2. sJob[q].sid \in Sids
    BY <2>1 DEF SessionsInv, JobsFit
  <2>3. refresh'[sJob[q].sid] = refresh[sJob[q].sid]
    BY <2>1, <2>2 DEF QuietStep, Cut
  <2>4. RenewsAlone(q) /\ doubts \subseteq doubts'
    BY DEF SessionsInv, HoldersFit, QuietStep
  <2> QED
    BY <1>0, <2>1, <2>3, <2>4 DEF QuietStep, RenewsAlone, Doubted
<1>2. ASSUME NEW s \in Sids
      PROVE  Superseded(s)'
  <2> SUFFICES ASSUME prev'[s] # None
               PROVE  Superseded(s)'
    BY DEF Superseded
  <2>1. prev'[s] = prev[s]
    BY DEF QuietStep, Cut
  <2>2. Superseded(s) /\ doubts \subseteq doubts'
    BY DEF SessionsInv, HoldersFit, QuietStep
  <2>3. \A q \in Reqs : sPc[q] = "answer" =>
             (sPc'[q] = "answer" /\ sJob'[q] = sJob[q]) \/ sJob[q].b \in doubts'
    BY DEF QuietStep, Lets
  <2>4. ASSUME NEW b \in Browsers \ doubts', jar'[b].token = prev[s]
        PROVE  \E q \in Reqs : sPc'[q] = "answer" /\ sJob'[q].b = b
    BY <2>1, <2>2, <2>3, <2>4 DEF QuietStep, Superseded
  <2>5. ASSUME NEW q \in Reqs, sPc'[q] \in {"answer", "second look"}, sJob'[q].token = prev[s]
        PROVE  sJob'[q].b \in doubts'
    BY <1>0, <2>1, <2>2, <2>5 DEF Superseded
  <2> QED
    BY <2>1, <2>4, <2>5 DEF Superseded
<1> QED
  BY <1>1, <1>2 DEF HoldersFit

\* Nor from what requests know of their rows.
LEMMA QuietKeepsJobs ==
    ASSUME SessionsInv, QuietStep
    PROVE  RowsFit' /\ JobsFit' /\ LoneHolderIsNoReuse'
<1>1. RowsFit'
  BY DEF SessionsInv, QuietStep, Cut, RowsFit
<1>2. ASSUME NEW q \in Reqs
      PROVE
        /\ sPc'[q] # "idle" => sJob'[q].b \in Browsers
        /\ sPc'[q] \in {"rotate", "reused", "expelled"} =>
              sJob'[q].sid \in Sids /\ row'[sJob'[q].sid] # "none"
        /\ sPc'[q] = "expelled" => row'[sJob'[q].sid] # "open"
        /\ sPc'[q] \in {"answer", "second look"} => sJob'[q].token \in 1 .. issued'
        /\ sPc'[q] \in {"reused", "expelled"} => sJob'[q].b \in doubts'
  <2>1. CASE sPc'[q] = sPc[q] /\ sJob'[q] = sJob[q]
    BY <2>1 DEF SessionsInv, JobsFit, LoneHolderIsNoReuse, QuietStep, Cut
  <2>2. CASE ~(sPc'[q] = sPc[q] /\ sJob'[q] = sJob[q])
    BY <2>2 DEF QuietStep, Lets
  <2> QED
    BY <2>1, <2>2
<1>3. JobsFit' /\ LoneHolderIsNoReuse'
  BY <1>2 DEF JobsFit, LoneHolderIsNoReuse
<1> QED
  BY <1>1, <1>3

\* So a quiet step has only types to keep.
LEMMA QuietKeeps ==
    ASSUME SessionsInv, QuietStep, SessionsTypeOK'
    PROVE  SessionsInv'
BY QuietKeepsTokens, QuietKeepsHolders, QuietKeepsJobs DEF SessionsInv

-----------------------------------------------------------------------------
(* Sessions: the five steps that hand out tokens or ask for one. *)

\* A new row, a new token.
LEMMA LoginOpensTokens ==
    ASSUME SessionsInv, NEW q \in Reqs, LoginOpens(q)
    PROVE  TokensFit' /\ OnTheWay' /\ OwnToken' /\ HoldersFit' /\ Unfound'
<1>0. PICK s \in Sids :
        /\ row[s] = "none" /\ row' = [row EXCEPT ![s] = "open"]
        /\ refresh' = [refresh EXCEPT ![s] = issued + 1]
        /\ sPc' = [sPc EXCEPT ![q] = "answer"]
        /\ sJob' = [sJob EXCEPT ![q] = Job(sJob[q].b, s, issued + 1, TRUE)]
  BY DEF LoginOpens, Starts, Goes
<1>1. issued' = issued + 1 /\ issued \in Nat /\ issued' \in Tokens /\ UNCHANGED <<prev, jar, doubts>>
  <2>1. issued \in 0 .. MaxTokens
    BY DEF SessionsInv, SessionsTypeOK
  <2> QED
    BY <2>1, SessionsAssumption DEF LoginOpens, Tokens
<1>2. issued + 1 \notin (1 .. issued) \cup {None}
  BY <1>1, SessionsAssumption DEF Tokens
<1>3. refresh[s] = None /\ prev[s] = None
  BY <1>0 DEF SessionsInv, RowsFit
<1>4. \A p \in Reqs : p # q => sPc'[p] = sPc[p] /\ sJob'[p] = sJob[p]
  BY <1>0 DEF SessionsInv, SessionsTypeOK
<1>5. sPc'[q] = "answer" /\ sJob'[q].token = issued + 1 /\ sJob'[q].b = sJob[q].b
  BY <1>0 DEF SessionsInv, SessionsTypeOK, Job
<1>6. refresh'[s] = issued + 1 /\ \A r \in Sids \ {s} : refresh'[r] = refresh[r]
  BY <1>0 DEF SessionsInv, SessionsTypeOK
<1>7. TokensFit'
  BY <1>1, <1>2, <1>6 DEF SessionsInv, TokensFit
<1>8. OnTheWay'
  <2>1. \A b \in Browsers : jar[b].token # issued + 1
    BY <1>2 DEF SessionsInv, TokensFit
  <2>2. \A p \in Reqs : sPc[p] = "answer" => sJob[p].token # issued + 1
    BY <1>2 DEF SessionsInv, JobsFit
  <2> QED
    BY <1>1, <1>4, <1>5, <2>1, <2>2 DEF SessionsInv, OnTheWay
<1>9. OwnToken'
  BY <1>1 DEF SessionsInv, OwnToken
<1>10. ASSUME NEW p \in Reqs
       PROVE  RenewsAlone(p)'
  <2> SUFFICES ASSUME sPc'[p] = "rotate"
               PROVE  RenewsAlone(p)'
    BY DEF RenewsAlone
  <2>1. p # q /\ sPc[p] = "rotate" /\ sJob'[p] = sJob[p]
    BY <1>4, <1>5
  <2>2. sJob[p].sid \in Sids \ {s}
    BY <2>1, <1>0 DEF SessionsInv, JobsFit
  <2>3. refresh'[sJob[p].sid] = refresh[sJob[p].sid] /\ refresh[sJob[p].sid] # issued + 1
    BY <2>2, <1>6, <1>2 DEF SessionsInv, TokensFit
  <2>4. RenewsAlone(p)
    BY DEF SessionsInv, HoldersFit
  <2> QED
    BY <1>1, <1>4, <1>5, <2>1, <2>3, <2>4 DEF RenewsAlone, Doubted
<1>11. ASSUME NEW r \in Sids
       PROVE  Superseded(r)'
  <2>1. prev'[r] = prev[r] /\ prev[r] # issued + 1
    BY <1>1, <1>2 DEF SessionsInv, TokensFit
  <2>2. sPc[q] # "answer"
    BY DEF LoginOpens
  <2>3. Superseded(r)
    BY DEF SessionsInv, HoldersFit
  <2>4. \A p \in Reqs : sPc[p] = "answer" => sPc'[p] = "answer" /\ sJob'[p].b = sJob[p].b
    BY <1>4, <2>2
  <2>5. ASSUME NEW b \in Browsers \ doubts, jar[b].token = prev[r], prev[r] # None
        PROVE  \E p \in Reqs : sPc'[p] = "answer" /\ sJob'[p].b = b
    BY <2>3, <2>4, <2>5 DEF Superseded
  <2>6. ASSUME NEW p \in Reqs, sPc'[p] \in {"answer", "second look"}, prev[r] # None,
               sJob'[p].token = prev[r]
        PROVE  sJob'[p].b \in doubts
    BY <1>4, <1>5, <2>1, <2>3, <2>6 DEF Superseded
  <2> QED
    BY <1>1, <2>1, <2>5, <2>6 DEF Superseded
<1>12. Unfound'
  <2>1. \A p \in Reqs : sPc[p] = "second look" => sJob[p].token # issued + 1
    BY <1>2 DEF SessionsInv, JobsFit
  <2>2. ASSUME NEW p \in Reqs, sPc'[p] = "second look", NEW r \in Sids
        PROVE  refresh'[r] # sJob'[p].token
    <3>1. sPc[p] = "second look" /\ sJob'[p] = sJob[p]
      BY <1>4, <1>5, <2>2
    <3>2. refresh[r] # sJob[p].token /\ sJob[p].token # issued + 1
      BY <2>1, <3>1 DEF SessionsInv, Unfound
    <3> QED
      BY <1>6, <3>1, <3>2
  <2> QED
    BY <2>2 DEF Unfound
<1> QED
  BY <1>7, <1>8, <1>9, <1>10, <1>11, <1>12 DEF HoldersFit

\* The browser takes the token of the answer.
LEMMA AnsweredTokens ==
    ASSUME SessionsInv, NEW q \in Reqs, Answered(q)
    PROVE  TokensFit' /\ OnTheWay' /\ OwnToken' /\ HoldersFit' /\ Unfound'
<1> DEFINE mine == sJob[q].b
           token == sJob[q].token
<1>0. sPc[q] = "answer" /\ mine \in Browsers /\ token \in 1 .. issued
  BY DEF Answered, SessionsInv, JobsFit
<1>1. UNCHANGED <<refresh, prev, issued, doubts>>
  BY DEF Answered, table
<1>2. jar'[mine].token = token /\ \A b \in Browsers \ {mine} : jar'[b] = jar[b]
  BY <1>0 DEF Answered, SessionsInv, SessionsTypeOK
<1>3. \A p \in Reqs : p # q => sPc'[p] = sPc[p] /\ sJob'[p] = sJob[p]
  BY DEF Answered, Ends, Starts, Goes, SessionsInv, SessionsTypeOK
<1>4. sPc'[q] = "idle"
  BY DEF Answered, Ends, Starts, Goes, SessionsInv, SessionsTypeOK
<1>5. /\ \A b \in Browsers : jar[b].token # token
      /\ \A p \in Reqs : sPc[p] = "answer" /\ p # q => sJob[p].token # token
  BY <1>0 DEF SessionsInv, OnTheWay
<1>7. TokensFit'
  BY <1>0, <1>1, <1>2 DEF SessionsInv, TokensFit
<1>8. OnTheWay'
  BY <1>1, <1>2, <1>3, <1>4, <1>5 DEF SessionsInv, OnTheWay
<1>9. OwnToken'
  BY <1>1, <1>2, <1>5 DEF SessionsInv, OwnToken
<1>10. ASSUME NEW p \in Reqs
       PROVE  RenewsAlone(p)'
  <2> SUFFICES ASSUME sPc'[p] = "rotate"
               PROVE  RenewsAlone(p)'
    BY DEF RenewsAlone
  <2>1. p # q /\ sPc[p] = "rotate" /\ sJob'[p] = sJob[p]
    BY <1>3, <1>4
  <2>2. RenewsAlone(p)
    BY DEF SessionsInv, HoldersFit
  <2> QED
    BY <1>0, <1>1, <1>2, <1>3, <1>4, <2>1, <2>2 DEF RenewsAlone, Doubted
<1>11. ASSUME NEW r \in Sids
       PROVE  Superseded(r)'
  <2>2. Superseded(r)
    BY DEF SessionsInv, HoldersFit
  <2>3. prev[r] # None => prev[r] # token \/ mine \in doubts
    BY <1>0, <2>2 DEF Superseded
  <2>4. ASSUME NEW b \in Browsers \ doubts, jar'[b].token = prev[r], prev[r] # None
        PROVE  \E p \in Reqs : sPc'[p] = "answer" /\ sJob'[p].b = b
    <3>1. b # mine /\ jar[b].token = prev[r]
      BY <1>2, <2>3, <2>4
    <3>2. PICK p \in Reqs : sPc[p] = "answer" /\ sJob[p].b = b
      BY <2>2, <2>4, <3>1 DEF Superseded
    <3> QED
      BY <1>3, <3>1, <3>2
  <2>5. ASSUME NEW p \in Reqs, sPc'[p] \in {"answer", "second look"}, prev[r] # None,
               sJob'[p].token = prev[r]
        PROVE  sJob'[p].b \in doubts
    BY <1>3, <1>4, <2>2, <2>5 DEF Superseded
  <2> QED
    BY <1>1, <2>4, <2>5 DEF Superseded
<1>12. Unfound'
  BY <1>1, <1>3, <1>4 DEF SessionsInv, Unfound
<1> QED
  BY <1>7, <1>8, <1>9, <1>10, <1>11, <1>12 DEF HoldersFit

\* Whoever copies, and whoever is copied from, is in doubt.
LEMMA CopiedTokens ==
    ASSUME SessionsInv, NEW b \in Browsers, NEW c \in Browsers, Copied(b, c)
    PROVE  TokensFit' /\ OnTheWay' /\ OwnToken' /\ HoldersFit' /\ Unfound'
<1>1. UNCHANGED <<refresh, prev, issued, sPc, sJob>> /\ doubts' = doubts \cup {b, c}
  BY DEF Copied, table
<1>2. jar'[c] = jar[b] /\ \A x \in Browsers \ {c} : jar'[x] = jar[x]
  BY DEF Copied, SessionsInv, SessionsTypeOK
<1>7. TokensFit'
  BY <1>1, <1>2 DEF SessionsInv, TokensFit
<1>8. OnTheWay'
  BY <1>1, <1>2 DEF SessionsInv, OnTheWay
<1>9. OwnToken'
  BY <1>1, <1>2 DEF SessionsInv, OwnToken
<1>10. ASSUME NEW p \in Reqs
       PROVE  RenewsAlone(p)'
  <2>2. RenewsAlone(p)
    BY DEF SessionsInv, HoldersFit
  <2> QED
    BY <1>1, <1>2, <2>2 DEF RenewsAlone, Doubted
<1>11. ASSUME NEW r \in Sids
       PROVE  Superseded(r)'
  <2>2. Superseded(r)
    BY DEF SessionsInv, HoldersFit
  <2> QED
    BY <1>1, <1>2, <2>2 DEF Superseded
<1>12. Unfound'
  BY <1>1 DEF SessionsInv, Unfound
<1> QED
  BY <1>7, <1>8, <1>9, <1>10, <1>11, <1>12 DEF HoldersFit

\* The renewal: what was the refresh of the row is its previous one, and the new one is on
\* its way to the browser that had it, or to one in doubt.
LEMMA RotateWritesTokens ==
    ASSUME SessionsInv, NEW q \in Reqs, RotateWrites(q)
    PROVE  TokensFit' /\ OnTheWay' /\ OwnToken' /\ HoldersFit' /\ Unfound'
<1> DEFINE s == sJob[q].sid
           mine == sJob[q].b
<1>0. sPc[q] = "rotate" /\ s \in Sids /\ RenewsAlone(q)
  BY DEF RotateWrites, SessionsInv, JobsFit, HoldersFit
<1>1. issued' = issued + 1 /\ issued \in Nat /\ issued' \in Tokens /\ UNCHANGED <<jar, doubts>>
  <2>1. issued \in 0 .. MaxTokens
    BY DEF SessionsInv, SessionsTypeOK
  <2> QED
    BY <2>1, SessionsAssumption DEF RotateWrites, Tokens
<1>2. issued + 1 \notin (1 .. issued) \cup {None}
  BY <1>1, SessionsAssumption DEF Tokens
<1>4. \A p \in Reqs : p # q => sPc'[p] = sPc[p] /\ sJob'[p] = sJob[p]
  BY DEF RotateWrites, Starts, Goes, SessionsInv, SessionsTypeOK
<1>5. sPc'[q] = "answer" /\ sJob'[q].token = issued + 1 /\ sJob'[q].b = mine
  <2>1. sJob'[q] = [sJob[q] EXCEPT !.token = issued + 1] /\ sPc'[q] = "answer"
    BY DEF RotateWrites, Starts, Goes, SessionsInv, SessionsTypeOK
  <2>2. sJob[q] \in [b : Browsers \cup {None}, sid : Sids \cup {None},
                     token : Tokens \cup {None}, ok : BOOLEAN]
    BY DEF SessionsInv, SessionsTypeOK
  <2> QED
    BY <2>1, <2>2
<1>6. /\ \A r \in Sids \ {s} : refresh'[r] = refresh[r] /\ prev'[r] = prev[r]
      /\ \/ refresh'[s] = refresh[s] /\ prev'[s] = prev[s]
         \/ refresh'[s] = issued + 1 /\ prev'[s] = refresh[s]
  BY <1>0 DEF RotateWrites, table, SessionsInv, SessionsTypeOK
<1>7. TokensFit'
  BY <1>0, <1>1, <1>2, <1>6 DEF SessionsInv, TokensFit
<1>8. OnTheWay'
  <2>1. \A b \in Browsers : jar[b].token # issued + 1
    BY <1>2 DEF SessionsInv, TokensFit
  <2>2. \A p \in Reqs : sPc[p] = "answer" => sJob[p].token # issued + 1
    BY <1>2 DEF SessionsInv, JobsFit
  <2> QED
    BY <1>1, <1>4, <1>5, <2>1, <2>2 DEF SessionsInv, OnTheWay
<1>9. OwnToken'
  BY <1>1 DEF SessionsInv, OwnToken
<1>10. ASSUME NEW p \in Reqs
       PROVE  RenewsAlone(p)'
  <2> SUFFICES ASSUME sPc'[p] = "rotate"
               PROVE  RenewsAlone(p)'
    BY DEF RenewsAlone
  <2>1. p # q /\ sPc[p] = "rotate" /\ sJob'[p] = sJob[p]
    BY <1>4, <1>5
  <2>2. sJob[p].sid \in Sids /\ RenewsAlone(p)
    BY <2>1 DEF SessionsInv, JobsFit, HoldersFit
  <2>3. \A b \in Browsers : jar[b].token # issued + 1
    BY <1>2 DEF SessionsInv, TokensFit
  <2>4. \A x \in Reqs : sPc[x] = "answer" => sJob[x].token # issued + 1
    BY <1>2 DEF SessionsInv, JobsFit
  <2>5. CASE refresh'[sJob[p].sid] = refresh[sJob[p].sid]
    <3>1. refresh[sJob[p].sid] # issued + 1
      BY <1>2, <2>2 DEF SessionsInv, TokensFit
    <3> QED
      BY <1>1, <1>4, <1>5, <2>1, <2>2, <2>5, <3>1 DEF RenewsAlone, Doubted
  <2>6. CASE refresh'[sJob[p].sid] # refresh[sJob[p].sid]
    <3>1. sJob[p].sid = s /\ refresh'[s] = issued + 1
      BY <1>6, <2>2, <2>6
    <3>2. refresh[s] # None
      <4>1. row[s] = "open"
        BY <2>6, <3>1 DEF RotateWrites, table
      <4> QED
        BY <1>0, <4>1 DEF SessionsInv, RowsFit
    <3>3. Doubted(mine, sJob[p].b)
      BY <1>0, <2>1, <2>2, <3>1, <3>2 DEF RenewsAlone, Doubted
    <3> QED
      BY <1>1, <1>4, <1>5, <2>1, <2>2, <2>3, <2>4, <3>1, <3>2, <3>3 DEF RenewsAlone, Doubted
  <2> QED
    BY <2>5, <2>6
<1>11. ASSUME NEW r \in Sids
       PROVE  Superseded(r)'
  <2>1. \A p \in Reqs : sPc[p] = "answer" => sPc'[p] = "answer" /\ sJob'[p].b = sJob[p].b
    BY <1>0, <1>4
  <2>2. Superseded(r) /\ prev[r] # issued + 1 /\ refresh[r] # issued + 1
    BY <1>2 DEF SessionsInv, HoldersFit, TokensFit
  <2>3. CASE prev'[r] = prev[r]
    <3>1. ASSUME NEW b \in Browsers \ doubts, jar[b].token = prev[r], prev[r] # None
          PROVE  \E p \in Reqs : sPc'[p] = "answer" /\ sJob'[p].b = b
      BY <2>1, <2>2, <3>1 DEF Superseded
    <3>2. ASSUME NEW p \in Reqs, sPc'[p] \in {"answer", "second look"}, prev[r] # None,
                 sJob'[p].token = prev[r]
          PROVE  sJob'[p].b \in doubts
      BY <1>4, <1>5, <2>2, <3>2 DEF Superseded
    <3> QED
      BY <1>1, <2>3, <3>1, <3>2 DEF Superseded
  <2>4. CASE prev'[r] # prev[r]
    <3>0. r = s /\ prev'[r] = refresh[s]
      BY <1>6, <2>4
    <3>1. ASSUME NEW b \in Browsers \ doubts, jar[b].token = refresh[s], refresh[s] # None
          PROVE  \E p \in Reqs : sPc'[p] = "answer" /\ sJob'[p].b = b
      BY <1>0, <1>5, <3>1 DEF RenewsAlone, Doubted
    <3>2. ASSUME NEW p \in Reqs, sPc'[p] \in {"answer", "second look"}, refresh[s] # None,
                 sJob'[p].token = refresh[s]
          PROVE  sJob'[p].b \in doubts
      <4>1. p # q
        BY <1>5, <2>2, <3>0, <3>2
      <4>2. sPc[p] \in {"answer", "second look"} /\ sJob'[p] = sJob[p]
        BY <1>4, <3>2, <4>1
      <4>3. sPc[p] # "second look"
        BY <1>0, <3>2, <4>2 DEF SessionsInv, Unfound
      <4> QED
        BY <1>0, <3>2, <4>2, <4>3 DEF RenewsAlone, Doubted
    <3> QED
      BY <1>1, <3>0, <3>1, <3>2 DEF Superseded
  <2> QED
    BY <2>3, <2>4
<1>12. Unfound'
  <2>1. \A p \in Reqs : sPc[p] = "second look" => sJob[p].token # issued + 1
    BY <1>2 DEF SessionsInv, JobsFit
  <2>2. \A r \in Sids : refresh'[r] = refresh[r] \/ refresh'[r] = issued + 1
    BY <1>6
  <2>3. \A p \in Reqs : sPc'[p] = "second look" => sPc[p] = "second look" /\ sJob'[p] = sJob[p]
    BY <1>4, <1>5
  <2> QED
    BY <2>1, <2>2, <2>3 DEF SessionsInv, Unfound
<1> QED
  BY <1>7, <1>8, <1>9, <1>10, <1>11, <1>12 DEF HoldersFit

\* A renewal begins: with a row that has the token of the browser, or with none.
LEMMA RotateReadsTokens ==
    ASSUME SessionsInv, NEW q \in Reqs, NEW b \in Browsers, RotateReads(q, b)
    PROVE  /\ TokensFit' /\ OnTheWay' /\ OwnToken' /\ HoldersFit' /\ Unfound'
           /\ sPc'[q] \in {"rotate", "clear", "second look"} /\ sJob'[q].b = b
           /\ sJob'[q].token \in Tokens \cup {None} /\ sJob'[q].ok = TRUE
           /\ sJob'[q].sid \in Sids \cup {None}
           /\ sPc'[q] = "rotate" => sJob'[q].sid \in Sids /\ row[sJob'[q].sid] = "open"
           /\ sPc'[q] = "second look" => sJob'[q].token \in 1 .. issued
<1> DEFINE token == jar[b].token
           found == {s \in Sids : refresh[s] = token}
           sid == IF found = {} THEN None ELSE CHOOSE s \in found : TRUE
           where == IF found = {} THEN "second look"
                    ELSE IF \E s \in found : Live(s) THEN "rotate" ELSE "clear"
           used == IF found = {} THEN token ELSE None
<1>1. /\ sPc[q] = "idle" /\ token # None
      /\ sPc' = [sPc EXCEPT ![q] = where]
      /\ sJob' = [sJob EXCEPT ![q] = Job(b, sid, used, TRUE)]
      /\ doubts' = IF Renewing(b) THEN doubts \cup {b} ELSE doubts
      /\ UNCHANGED <<row, refresh, prev, expired, issued, jar, era>>
  BY DEF RotateReads, Starts, Goes, table
<1>2. token \in 1 .. issued /\ token \in Tokens
  BY <1>1, TokensAreSome DEF SessionsInv, TokensFit
<1>3. /\ sPc'[q] = where /\ sJob'[q].b = b /\ sJob'[q].sid = sid /\ sJob'[q].token = used
      /\ sJob'[q].ok = TRUE
  BY <1>1 DEF Job, SessionsInv, SessionsTypeOK
<1>4. \A p \in Reqs : p # q => sPc'[p] = sPc[p] /\ sJob'[p] = sJob[p]
  BY <1>1 DEF SessionsInv, SessionsTypeOK
<1>5. found # {} => sid \in found
  <2> SUFFICES ASSUME found # {}
               PROVE  (CHOOSE s \in found : TRUE) \in found
    OBVIOUS
  <2>1. PICK s \in found : TRUE
    OBVIOUS
  <2> QED
    BY <2>1
<1>6. where = "rotate" => sid \in Sids /\ refresh[sid] = token /\ row[sid] = "open"
  <2> SUFFICES ASSUME where = "rotate"
               PROVE  sid \in Sids /\ refresh[sid] = token /\ row[sid] = "open"
    OBVIOUS
  <2>1. PICK s \in found : Live(s)
    OBVIOUS
  <2>2. sid \in found
    BY <1>5, <2>1
  <2>3. s = sid
    BY <1>1, <2>1, <2>2 DEF SessionsInv, TokensFit
  <2> QED
    BY <2>1, <2>2, <2>3 DEF Live
<1>7. TokensFit' /\ OwnToken'
  BY <1>1 DEF SessionsInv, TokensFit, OwnToken
<1>8. OnTheWay'
  <2>1. \A p \in Reqs : sPc'[p] = "answer" => sPc[p] = "answer" /\ sJob'[p] = sJob[p]
    BY <1>3, <1>4
  <2>2. OnTheWay /\ UNCHANGED jar
    BY <1>1 DEF SessionsInv
  <2> QED
    BY <2>1, <2>2 DEF OnTheWay
<1>9. doubts \subseteq doubts' /\ \A p \in Reqs : sPc[p] # "idle" /\ sJob[p].b = b => b \in doubts'
  BY <1>1 DEF Renewing
<1>10. ASSUME NEW p \in Reqs
       PROVE  RenewsAlone(p)'
  <2>0. \A x \in Reqs : sPc'[x] = "answer" => x # q /\ sPc[x] = "answer" /\ sJob'[x] = sJob[x]
    BY <1>3, <1>4
  <2>1. CASE p = q
    <3> SUFFICES ASSUME where = "rotate"
                 PROVE  RenewsAlone(q)'
      BY <1>3, <2>1 DEF RenewsAlone
    <3>1. refresh'[sJob'[q].sid] = token
      BY <1>1, <1>3, <1>6
    <3>2. ASSUME NEW c \in Browsers, jar[c].token = token
          PROVE  c = b \/ {c, b} \subseteq doubts'
      BY <1>1, <1>9, <3>2 DEF SessionsInv, OwnToken
    <3>3. \A x \in Reqs : sPc[x] = "answer" => sJob[x].token # token
      BY DEF SessionsInv, OnTheWay
    <3>4. ASSUME NEW x \in Reqs, sPc'[x] = "rotate", sJob'[x].sid = sid, x # q
          PROVE  {sJob'[x].b, b} \subseteq doubts'
      <4>1. sPc[x] = "rotate" /\ sJob[x].sid = sid /\ RenewsAlone(x)
        BY <1>4, <3>4 DEF SessionsInv, HoldersFit
      <4>2. refresh[sid] = token /\ token # None
        BY <1>1, <1>3, <1>6
      <4>3. b = sJob[x].b \/ {b, sJob[x].b} \subseteq doubts
        BY <4>1, <4>2 DEF RenewsAlone, Doubted
      <4> QED
        BY <1>4, <1>9, <3>4, <4>1, <4>3
    <3>5. \A x \in Reqs : sPc'[x] = "answer" => sJob'[x].token # token
      BY <2>0, <3>3
    <3> HIDE DEF sid, where, used, token
    <3> QED
      BY <1>1, <1>3, <2>1, <3>1, <3>2, <3>4, <3>5 DEF RenewsAlone, Doubted
  <2>2. CASE p # q
    <3> SUFFICES ASSUME sPc'[p] = "rotate"
                 PROVE  RenewsAlone(p)'
      BY DEF RenewsAlone
    <3>1. sPc[p] = "rotate" /\ sJob'[p] = sJob[p] /\ RenewsAlone(p)
      BY <1>4, <2>2 DEF SessionsInv, HoldersFit
    <3>2. ASSUME where = "rotate", sid = sJob[p].sid
          PROVE  {b, sJob[p].b} \subseteq doubts'
      <4>1. refresh[sid] = token /\ token # None
        BY <1>1, <1>6, <3>2
      <4>2. b = sJob[p].b \/ {b, sJob[p].b} \subseteq doubts
        BY <3>1, <3>2, <4>1 DEF RenewsAlone, Doubted
      <4> QED
        BY <1>9, <3>1, <4>2
    <3>3. UNCHANGED <<refresh, jar>> /\ sPc'[q] = where /\ sJob'[q].sid = sid /\ sJob'[q].b = b
      BY <1>1, <1>3
    <3> HIDE DEF sid, where, used, token
    <3> QED
      BY <1>4, <1>9, <2>0, <3>1, <3>2, <3>3 DEF RenewsAlone, Doubted
  <2> QED
    BY <2>1, <2>2
<1>11. ASSUME NEW r \in Sids
       PROVE  Superseded(r)'
  <2>1. Superseded(r)
    BY DEF SessionsInv, HoldersFit
  <2>2. ASSUME NEW c \in Browsers \ doubts', jar[c].token = prev[r], prev[r] # None
        PROVE  \E p \in Reqs : sPc'[p] = "answer" /\ sJob'[p].b = c
    <3>1. PICK p \in Reqs : sPc[p] = "answer" /\ sJob[p].b = c
      BY <1>9, <2>1, <2>2 DEF Superseded
    <3> QED
      BY <1>1, <1>4, <3>1
  <2>3. ASSUME NEW p \in Reqs, sPc'[p] \in {"answer", "second look"}, prev[r] # None,
               sJob'[p].token = prev[r]
        PROVE  sJob'[p].b \in doubts'
    <3>1. CASE p = q
      <4>1. token = prev[r] /\ sJob'[p].b = b
        BY <1>3, <2>3, <3>1
      <4>2. b \notin doubts => \E x \in Reqs : sPc[x] = "answer" /\ sJob[x].b = b
        BY <2>1, <2>3, <4>1 DEF Superseded
      <4> QED
        BY <1>9, <4>1, <4>2
    <3>2. CASE p # q
      BY <1>4, <1>9, <2>1, <2>3, <3>2 DEF Superseded
    <3> QED
      BY <3>1, <3>2
  <2> QED
    BY <1>1, <2>2, <2>3 DEF Superseded
<1>12. Unfound'
  <2>1. sPc'[q] = "second look" => sJob'[q].token = token /\ \A s \in Sids : refresh[s] # token
    BY <1>3
  <2> HIDE DEF sid, where, used, token
  <2>2. ASSUME NEW p \in Reqs, sPc'[p] = "second look", NEW r \in Sids
        PROVE  refresh[r] # sJob'[p].token
    <3>1. CASE p = q
      BY <2>1, <2>2, <3>1
    <3>2. CASE p # q
      BY <1>4, <2>2, <3>2 DEF SessionsInv, Unfound
    <3> QED
      BY <3>1, <3>2
  <2> QED
    BY <1>1, <2>2 DEF Unfound
<1>13. HoldersFit'
  BY <1>10, <1>11 DEF HoldersFit
<1>14. sid \in Sids \cup {None} /\ used \in Tokens \cup {None}
  BY <1>2, <1>5
<1> QED
  BY <1>2, <1>3, <1>6, <1>7, <1>8, <1>12, <1>13, <1>14


-----------------------------------------------------------------------------
(* Sessions: which steps are quiet. *)

\* The statement that revokes closes what it names, and only that.
LEMMA RevokeCuts ==
    ASSUME SessionsTypeOK, NEW S, Revoke(S)
    PROVE  /\ \A s \in Sids : Cut(s) /\ (s \in S => row'[s] # "open")
           /\ row' \in [Sids -> {"none", "open", "revoked", "gone"}]
           /\ refresh' \in [Sids -> Tokens \cup {None}] /\ prev' \in [Sids -> Tokens \cup {None}]
           /\ era' \in [Sids -> 0 .. MaxPasswords]
<1> DEFINE cut == {s \in S : row[s] = "open"}
<1>1. /\ row' = [s \in Sids |-> IF s \in cut THEN "revoked" ELSE row[s]]
      /\ refresh' = [s \in Sids |-> IF s \in cut THEN None ELSE refresh[s]]
      /\ prev' = [s \in Sids |-> IF s \in cut THEN None ELSE prev[s]]
      /\ era' = [s \in Sids |-> IF s \in cut THEN 0 ELSE era[s]]
  BY DEF Revoke
<1>2. 0 \in 0 .. MaxPasswords
  BY SessionsAssumption
<1>3. \A s \in Sids : Cut(s) /\ (s \in S => row'[s] # "open")
  BY <1>1 DEF Cut
<1> HIDE DEF cut
<1> QED
  BY <1>1, <1>2, <1>3 DEF SessionsTypeOK

Places == {"idle", "verify", "open", "answer", "clear", "rotate", "second look", "reused",
           "expelled", "admitted"}
Jobs == [b : Browsers \cup {None}, sid : Sids \cup {None}, token : Tokens \cup {None},
         ok : BOOLEAN]

\* A request that revokes and goes on without a token.
LEMMA RevokeKeeps ==
    ASSUME SessionsInv, NEW S, Revoke(S), UNCHANGED <<issued, jar, doubts>>,
           password' \in 0 .. MaxPasswords, active' \in BOOLEAN,
           password' = password \/ Sids \subseteq S,
           sPc' \in [Reqs -> Places], sJob' \in [Reqs -> Jobs],
           \A q \in Reqs : Lets(q)
    PROVE  SessionsInv'
<1>1. SessionsTypeOK
  BY DEF SessionsInv
<1>2. expired' = expired
  BY DEF Revoke
<1>3. QuietStep
  BY <1>1, RevokeCuts DEF QuietStep
<1>4. SessionsTypeOK'
  BY <1>1, <1>2, RevokeCuts DEF SessionsTypeOK, Places, Jobs
<1> QED
  BY <1>3, <1>4, QuietKeeps

\* A request that ends without an answer to lose.
EndedFits(q) == /\ sPc' \in [Reqs -> Places] /\ sJob' \in [Reqs -> Jobs]
                /\ \A p \in Reqs : Lets(p)

LEMMA EndsFits ==
    ASSUME SessionsInv, NEW q \in Reqs, Ends(q), sPc[q] # "answer"
    PROVE  EndedFits(q)
BY DEF EndedFits, Ends, Starts, Goes, NoJob, Lets, Places, Jobs, SessionsInv, SessionsTypeOK

\* The steps of a login and of its answer that are quiet.
LEMMA LoginReadsKeeps ==
    ASSUME SessionsInv, NEW q \in Reqs, NEW b \in Browsers, LoginReads(q, b)
    PROVE  SessionsInv'
<1>1. QuietStep
  BY DEF LoginReads, Starts, Goes, Job, table, account,
     QuietStep, Cut, Lets, SessionsInv, SessionsTypeOK, JobsFit
<1>2. SessionsTypeOK'
  BY DEF LoginReads, Starts, Goes, Job, table, account, SessionsInv, SessionsTypeOK, JobsFit
<1> QED
  BY <1>1, <1>2, QuietKeeps

LEMMA LoginPurgesKeeps ==
    ASSUME SessionsInv, NEW q \in Reqs, LoginPurges(q)
    PROVE  SessionsInv'
<1>1. QuietStep
  BY DEF LoginPurges, Goes, account, QuietStep, Cut, Lets, SessionsInv, SessionsTypeOK, JobsFit
<1>2. SessionsTypeOK'
  BY DEF LoginPurges, Goes, account, SessionsInv, SessionsTypeOK, JobsFit
<1> QED
  BY <1>1, <1>2, QuietKeeps

LEMMA LoginRefusedKeeps ==
    ASSUME SessionsInv, NEW q \in Reqs, LoginRefused(q)
    PROVE  SessionsInv'
<1>1. QuietStep
  BY DEF LoginRefused, Starts, Ends, Goes, NoJob, table, account,
     QuietStep, Cut, Lets, SessionsInv, SessionsTypeOK, JobsFit
<1>2. SessionsTypeOK'
  BY DEF LoginRefused, Starts, Ends, Goes, NoJob, table, account,
     SessionsInv, SessionsTypeOK, JobsFit
<1> QED
  BY <1>1, <1>2, QuietKeeps

LEMMA ClearedKeeps ==
    ASSUME SessionsInv, NEW q \in Reqs, Cleared(q)
    PROVE  SessionsInv'
<1>1. QuietStep
  BY DEF Cleared, Starts, Ends, Goes, NoJob, Empty, table, account,
     QuietStep, Cut, Lets, SessionsInv, SessionsTypeOK, JobsFit
<1>2. SessionsTypeOK'
  BY DEF Cleared, Starts, Ends, Goes, NoJob, Empty, table, account,
     SessionsInv, SessionsTypeOK, JobsFit
<1> QED
  BY <1>1, <1>2, QuietKeeps

LEMMA AnswerLostKeeps ==
    ASSUME SessionsInv, NEW q \in Reqs, AnswerLost(q)
    PROVE  SessionsInv'
<1>1. QuietStep
  BY DEF AnswerLost, Starts, Ends, Goes, NoJob, table, account,
     QuietStep, Cut, Lets, SessionsInv, SessionsTypeOK, JobsFit
<1>2. SessionsTypeOK'
  BY DEF AnswerLost, Starts, Ends, Goes, NoJob, table, account,
     SessionsInv, SessionsTypeOK, JobsFit
<1> QED
  BY <1>1, <1>2, QuietKeeps

\* The second look: whoever finds the row of a refresh already exchanged was in doubt.
LEMMA LooksForReuseKeeps ==
    ASSUME SessionsInv, NEW q \in Reqs, LooksForReuse(q)
    PROVE  SessionsInv'
<1> DEFINE reused == {s \in Sids : prev[s] = sJob[q].token}
<1>1. /\ sPc[q] = "second look" /\ UNCHANGED <<row, refresh, prev, expired, era>>
      /\ UNCHANGED <<password, active, issued, jar, doubts>>
  BY DEF LooksForReuse, table, account
<1>2. SessionsTypeOK /\ sJob[q].b \in Browsers /\ sJob[q] \in Jobs /\ sJob[q].token # None
  BY <1>1, TokensAreSome DEF SessionsInv, SessionsTypeOK, Jobs, JobsFit
<1>3. CASE reused = {}
  <2>1. /\ sPc' = [sPc EXCEPT ![q] = "clear"]
        /\ sJob' = [sJob EXCEPT ![q] = [sJob[q] EXCEPT !.token = None]]
    BY <1>3 DEF LooksForReuse, Starts, Goes
  <2>2. QuietStep
    BY <1>1, <1>2, <2>1 DEF QuietStep, Cut, Lets, Jobs, SessionsTypeOK
  <2>3. SessionsTypeOK'
    BY <1>1, <1>2, <2>1 DEF SessionsTypeOK, Jobs
  <2> QED
    BY <2>2, <2>3, QuietKeeps
<1>4. CASE reused # {}
  <2> DEFINE s == CHOOSE x \in reused : TRUE
  <2>1. s \in reused
    <3>1. PICK x \in reused : TRUE
      BY <1>4
    <3> QED
      BY <3>1
  <2>2. s \in Sids /\ row[s] = "open" /\ sJob[q].b \in doubts
    BY <1>1, <1>2, <2>1 DEF SessionsInv, RowsFit, HoldersFit, Superseded
  <2>3. /\ sPc' = [sPc EXCEPT ![q] = "reused"]
        /\ sJob' = [sJob EXCEPT ![q] = [sJob[q] EXCEPT !.sid = s]]
    BY <1>4 DEF LooksForReuse, Starts, Goes
  <2> HIDE DEF s
  <2>4. QuietStep
    BY <1>1, <1>2, <2>2, <2>3 DEF QuietStep, Cut, Lets, Jobs, SessionsTypeOK
  <2>5. SessionsTypeOK'
    BY <1>1, <1>2, <2>2, <2>3 DEF SessionsTypeOK, Jobs
  <2> QED
    BY <2>4, <2>5, QuietKeeps
<1> QED
  BY <1>3, <1>4

\* A request that is admitted, an account enabled again and a session that expires.
LEMMA AdmitsKeeps ==
    ASSUME SessionsInv, NEW q \in Reqs, NEW b \in Browsers, Admits(q, b)
    PROVE  SessionsInv'
<1>1. QuietStep
  BY DEF Admits, Starts, Goes, Job, table, account, Live,
     QuietStep, Cut, Lets, SessionsInv, SessionsTypeOK, JobsFit
<1>2. SessionsTypeOK'
  BY DEF Admits, Starts, Goes, Job, table, account, Live, SessionsInv, SessionsTypeOK, JobsFit
<1> QED
  BY <1>1, <1>2, QuietKeeps

LEMMA ReactivatedKeeps ==
    ASSUME SessionsInv, Reactivated
    PROVE  SessionsInv'
<1>1. QuietStep
  BY DEF Reactivated, table, QuietStep, Cut, Lets, SessionsInv, SessionsTypeOK, JobsFit
<1>2. SessionsTypeOK'
  BY DEF Reactivated, table, SessionsInv, SessionsTypeOK, JobsFit
<1> QED
  BY <1>1, <1>2, QuietKeeps

LEMMA ExpiresKeeps ==
    ASSUME SessionsInv, NEW s \in Sids, Expires(s)
    PROVE  SessionsInv'
<1>1. QuietStep
  BY DEF Expires, account, QuietStep, Cut, Lets, SessionsInv, SessionsTypeOK, JobsFit
<1>2. SessionsTypeOK'
  BY DEF Expires, account, SessionsInv, SessionsTypeOK, JobsFit
<1> QED
  BY <1>1, <1>2, QuietKeeps

\* The steps that revoke, one by one.
LEMMA ExpelsKeeps ==
    ASSUME SessionsInv, NEW q \in Reqs, Expels(q)
    PROVE  SessionsInv'
<1>1. Revoke({sJob[q].sid}) /\ UNCHANGED <<account, issued, jar, sJob, doubts>>
  BY DEF Expels
<1>2. SessionsTypeOK /\ sPc[q] = "reused" /\ sPc' = [sPc EXCEPT ![q] = "expelled"]
  BY DEF Expels, Goes, SessionsInv
<1>3. sJob[q].sid \in Sids /\ row[sJob[q].sid] # "none" /\ sJob[q].b \in Browsers \cap doubts
  BY <1>2 DEF SessionsInv, JobsFit, LoneHolderIsNoReuse
<1>4. row'[sJob[q].sid] \notin {"none", "open"}
  BY <1>1, <1>2, <1>3, RevokeCuts DEF Cut
<1>5. sPc' \in [Reqs -> Places] /\ sJob' \in [Reqs -> Jobs]
  BY <1>1, <1>2 DEF SessionsTypeOK, Places, Jobs
<1>6. \A p \in Reqs : Lets(p)
  BY <1>1, <1>2, <1>3, <1>4 DEF SessionsTypeOK, Lets
<1>7. password' = password /\ password \in 0 .. MaxPasswords /\ active' \in BOOLEAN
  BY <1>1, <1>2 DEF account, SessionsTypeOK
<1> QED
  BY <1>1, <1>5, <1>6, <1>7, RevokeKeeps

LEMMA RevokesOneKeeps ==
    ASSUME SessionsInv, NEW q \in Reqs, RevokesOne(q)
    PROVE  SessionsInv'
<1>1. PICK s \in Sids : Revoke({s})
  BY DEF RevokesOne
<1>2. UNCHANGED <<account, issued, jar, doubts>> /\ sPc[q] = "admitted" /\ Ends(q)
  BY DEF RevokesOne
<1>3. EndedFits(q)
  BY <1>2, EndsFits
<1>4. password' = password /\ password \in 0 .. MaxPasswords /\ active' \in BOOLEAN
  BY <1>2 DEF account, SessionsInv, SessionsTypeOK
<1> QED
  BY <1>1, <1>2, <1>3, <1>4, RevokeKeeps DEF EndedFits

LEMMA RevokesOthersKeeps ==
    ASSUME SessionsInv, NEW q \in Reqs, RevokesOthers(q)
    PROVE  SessionsInv'
<1>2. /\ Revoke(Sids \ {sJob[q].sid})
      /\ UNCHANGED <<account, issued, jar, doubts>> /\ sPc[q] = "admitted" /\ Ends(q)
  BY DEF RevokesOthers
<1>3. EndedFits(q)
  BY <1>2, EndsFits
<1>4. password' = password /\ password \in 0 .. MaxPasswords /\ active' \in BOOLEAN
  BY <1>2 DEF account, SessionsInv, SessionsTypeOK
<1> QED
  BY <1>2, <1>3, <1>4, RevokeKeeps DEF EndedFits

LEMMA ChangesPasswordKeeps ==
    ASSUME SessionsInv, NEW q \in Reqs, ChangesPassword(q)
    PROVE  SessionsInv'
<1>2. /\ Revoke(Sids) /\ UNCHANGED <<active, issued, jar, doubts>>
      /\ sPc[q] = "admitted" /\ Ends(q)
  BY DEF ChangesPassword
<1>3. EndedFits(q)
  BY <1>2, EndsFits
<1>4. password' \in 0 .. MaxPasswords /\ active' \in BOOLEAN
  <2>1. password \in 0 .. MaxPasswords /\ active \in BOOLEAN
    BY DEF SessionsInv, SessionsTypeOK
  <2> QED
    BY <1>2, <2>1, SessionsAssumption DEF ChangesPassword
<1> QED
  BY <1>2, <1>3, <1>4, RevokeKeeps DEF EndedFits

LEMMA LogsOutKeeps ==
    ASSUME SessionsInv, NEW q \in Reqs, NEW b \in Browsers, LogsOut(q, b)
    PROVE  SessionsInv'
<1>1. /\ Revoke({jar[b].sid}) /\ UNCHANGED <<account, issued, jar, doubts>>
      /\ sPc[q] = "idle" /\ sPc' = [sPc EXCEPT ![q] = "clear"]
      /\ sJob' = [sJob EXCEPT ![q] = Job(b, None, None, TRUE)]
  BY DEF LogsOut, Starts, Goes
<1>2. SessionsTypeOK
  BY DEF SessionsInv
<1>3. sPc' \in [Reqs -> Places] /\ sJob' \in [Reqs -> Jobs]
  BY <1>1, <1>2 DEF SessionsTypeOK, Places, Jobs, Job
<1>4. \A p \in Reqs : Lets(p)
  BY <1>1, <1>2 DEF SessionsTypeOK, Lets, Job
<1>5. password' = password /\ password \in 0 .. MaxPasswords /\ active' \in BOOLEAN
  BY <1>1, <1>2 DEF account, SessionsTypeOK
<1> QED
  BY <1>1, <1>3, <1>4, <1>5, RevokeKeeps

LEMMA PasswordSetKeeps ==
    ASSUME SessionsInv, PasswordSet
    PROVE  SessionsInv'
<1>1. Revoke(Sids) /\ UNCHANGED <<active, issued, jar, sPc, sJob, doubts>>
  BY DEF PasswordSet
<1>2. password' \in 0 .. MaxPasswords /\ active' \in BOOLEAN
  <2>1. password \in 0 .. MaxPasswords /\ active \in BOOLEAN
    BY DEF SessionsInv, SessionsTypeOK
  <2> QED
    BY <1>1, <2>1, SessionsAssumption DEF PasswordSet
<1>3. sPc' \in [Reqs -> Places] /\ sJob' \in [Reqs -> Jobs] /\ \A q \in Reqs : Lets(q)
  BY <1>1 DEF SessionsInv, SessionsTypeOK, Places, Jobs, Lets
<1> QED
  BY <1>1, <1>2, <1>3, RevokeKeeps

LEMMA DeactivatedKeeps ==
    ASSUME SessionsInv, Deactivated
    PROVE  SessionsInv'
<1>1. /\ Revoke(Sids) /\ UNCHANGED <<password, issued, jar, sPc, sJob, doubts>>
      /\ active' = FALSE
  BY DEF Deactivated
<1>2. password' \in 0 .. MaxPasswords /\ active' \in BOOLEAN
  BY <1>1 DEF SessionsInv, SessionsTypeOK
<1>3. sPc' \in [Reqs -> Places] /\ sJob' \in [Reqs -> Jobs] /\ \A q \in Reqs : Lets(q)
  BY <1>1 DEF SessionsInv, SessionsTypeOK, Places, Jobs, Lets
<1> QED
  BY <1>1, <1>2, <1>3, RevokeKeeps

-----------------------------------------------------------------------------
(* Sessions: the five others, and the theorems. *)

\* A step of q that hands it a token, and closes and forgets no row another request has read.
LEMMA JobsAfter ==
    ASSUME JobsFit, NEW q \in Reqs, sPc'[q] = "answer",
           sJob'[q].b \in Browsers, sJob'[q].token \in 1 .. issued',
           1 .. issued \subseteq 1 .. issued',
           \A p \in Reqs : p # q => sPc'[p] = sPc[p] /\ sJob'[p] = sJob[p],
           \A p \in Reqs : sPc[p] \in {"rotate", "reused", "expelled"} =>
                               row'[sJob[p].sid] = row[sJob[p].sid]
    PROVE  JobsFit'
<1>1. ASSUME NEW p \in Reqs
      PROVE
        /\ sPc'[p] # "idle" => sJob'[p].b \in Browsers
        /\ sPc'[p] \in {"rotate", "reused", "expelled"} =>
              sJob'[p].sid \in Sids /\ row'[sJob'[p].sid] # "none"
        /\ sPc'[p] = "expelled" => row'[sJob'[p].sid] # "open"
        /\ sPc'[p] \in {"answer", "second look"} => sJob'[p].token \in 1 .. issued'
  <2>1. CASE p = q
    BY <2>1
  <2>2. CASE p # q
    <3>1. sPc'[p] = sPc[p] /\ sJob'[p] = sJob[p]
      BY <2>2
    <3> QED
      BY <3>1 DEF JobsFit
  <2> QED
    BY <2>1, <2>2
<1> QED
  BY <1>1 DEF JobsFit

\* A login opens a row, and its answer has the only copy of the refresh.
LEMMA LoginOpensKeeps ==
    ASSUME SessionsInv, NEW q \in Reqs, LoginOpens(q)
    PROVE  SessionsInv'
<1>1. PICK s \in Sids :
        /\ row[s] = "none" /\ row' = [row EXCEPT ![s] = "open"]
        /\ refresh' = [refresh EXCEPT ![s] = issued + 1]
        /\ sPc' = [sPc EXCEPT ![q] = "answer"]
        /\ sJob' = [sJob EXCEPT ![q] = Job(sJob[q].b, s, issued + 1, TRUE)]
        /\ era' = [era EXCEPT ![s] = password]
  BY DEF LoginOpens, Starts, Goes
<1>2. /\ UNCHANGED <<prev, expired, password, active, jar, doubts>>
      /\ issued' = issued + 1 /\ issued < MaxTokens /\ sPc[q] = "open"
  BY DEF LoginOpens, account
<1>3. SessionsTypeOK /\ sJob[q] \in Jobs /\ sJob[q].b \in Browsers
  BY <1>2 DEF SessionsInv, SessionsTypeOK, Jobs, JobsFit
<1>4. issued' \in 0 .. MaxTokens /\ issued + 1 \in Tokens /\ issued + 1 # None
  <2>1. issued \in 0 .. MaxTokens
    BY <1>3 DEF SessionsTypeOK
  <2> QED
    BY <1>2, <2>1, SessionsAssumption DEF Tokens
<1>5. SessionsTypeOK'
  BY <1>1, <1>2, <1>3, <1>4 DEF SessionsTypeOK, Job
<1>6. RowsFit'
  BY <1>1, <1>2, <1>3, <1>4 DEF SessionsInv, RowsFit, SessionsTypeOK
<1>7. \A p \in Reqs : p # q => sPc'[p] = sPc[p] /\ sJob'[p] = sJob[p]
  BY <1>1, <1>3 DEF SessionsTypeOK
<1>8. sPc'[q] = "answer" /\ sJob'[q].token = issued + 1 /\ sJob'[q].b = sJob[q].b
  BY <1>1, <1>3 DEF SessionsTypeOK, Job
<1>9. \A p \in Reqs : sPc[p] \in {"rotate", "reused", "expelled"} =>
                           sJob[p].sid # s /\ row'[sJob[p].sid] = row[sJob[p].sid]
  BY <1>1, <1>3 DEF SessionsInv, JobsFit, SessionsTypeOK
<1>10. issued + 1 \in 1 .. issued' /\ 1 .. issued \subseteq 1 .. issued'
  <2>1. issued \in 0 .. MaxTokens
    BY <1>3 DEF SessionsTypeOK
  <2> QED
    BY <1>2, <2>1
<1>11. JobsFit'
  BY <1>3, <1>7, <1>8, <1>9, <1>10, JobsAfter DEF SessionsInv
<1>12. LoneHolderIsNoReuse'
  BY <1>2, <1>7, <1>8 DEF SessionsInv, LoneHolderIsNoReuse
<1> QED
  BY <1>5, <1>6, <1>11, <1>12, LoginOpensTokens DEF SessionsInv

\* The answer reaches its browser.
LEMMA AnsweredKeeps ==
    ASSUME SessionsInv, NEW q \in Reqs, Answered(q)
    PROVE  SessionsInv'
<1>1. /\ UNCHANGED <<row, refresh, prev, expired, password, active, issued, era, doubts>>
      /\ sPc[q] = "answer" /\ sPc' = [sPc EXCEPT ![q] = "idle"]
      /\ sJob' = [sJob EXCEPT ![q] = NoJob]
      /\ jar' = [jar EXCEPT ![sJob[q].b] = [sid |-> sJob[q].sid, token |-> sJob[q].token]]
  BY DEF Answered, Ends, Starts, Goes, table, account
<1>2. SessionsTypeOK /\ sJob[q] \in Jobs
  BY DEF SessionsInv, SessionsTypeOK, Jobs
<1>3. SessionsTypeOK'
  BY <1>1, <1>2 DEF SessionsTypeOK, NoJob, Jobs
<1>4. \A p \in Reqs : sPc'[p] # "idle" => sPc'[p] = sPc[p] /\ sJob'[p] = sJob[p]
  BY <1>1, <1>2 DEF SessionsTypeOK
<1>5. RowsFit' /\ JobsFit' /\ LoneHolderIsNoReuse'
  <2>1. RowsFit'
    BY <1>1 DEF SessionsInv, RowsFit
  <2>2. JobsFit'
    BY <1>1, <1>4 DEF SessionsInv, JobsFit
  <2>3. LoneHolderIsNoReuse'
    BY <1>1, <1>4 DEF SessionsInv, LoneHolderIsNoReuse
  <2> QED
    BY <2>1, <2>2, <2>3
<1> QED
  BY <1>3, <1>5, AnsweredTokens DEF SessionsInv

\* A copy of the cookies puts both browsers in doubt.
LEMMA CopiedKeeps ==
    ASSUME SessionsInv, NEW b \in Browsers, NEW c \in Browsers, Copied(b, c)
    PROVE  SessionsInv'
<1>1. SessionsTypeOK'
  BY DEF Copied, table, account, SessionsInv, SessionsTypeOK
<1>2. RowsFit' /\ JobsFit' /\ LoneHolderIsNoReuse'
  BY DEF Copied, table, account, SessionsInv, RowsFit, JobsFit, LoneHolderIsNoReuse
<1> QED
  BY <1>1, <1>2, CopiedTokens DEF SessionsInv

\* A renewal reads the row of its refresh, or finds none.
LEMMA RotateReadsKeeps ==
    ASSUME SessionsInv, NEW q \in Reqs, NEW b \in Browsers, RotateReads(q, b)
    PROVE  SessionsInv'
<1>1. /\ UNCHANGED <<row, refresh, prev, expired, password, active, issued, jar, era>>
      /\ doubts' = IF Renewing(b) THEN doubts \cup {b} ELSE doubts
      /\ \E where, job : sPc' = [sPc EXCEPT ![q] = where] /\ sJob' = [sJob EXCEPT ![q] = job]
      /\ \E sid, used : sJob' = [sJob EXCEPT ![q] = Job(b, sid, used, TRUE)]
  BY DEF RotateReads, Starts, Goes, table, account
<1>2. SessionsTypeOK
  BY DEF SessionsInv
<1>3. /\ sPc'[q] \in {"rotate", "clear", "second look"} /\ sJob'[q].b = b
      /\ sJob'[q].token \in Tokens \cup {None} /\ sJob'[q].ok = TRUE
      /\ sJob'[q].sid \in Sids \cup {None}
      /\ sPc'[q] = "rotate" => sJob'[q].sid \in Sids /\ row[sJob'[q].sid] = "open"
      /\ sPc'[q] = "second look" => sJob'[q].token \in 1 .. issued
  BY RotateReadsTokens
<1>4. \A p \in Reqs : p # q => sPc'[p] = sPc[p] /\ sJob'[p] = sJob[p]
  BY <1>1, <1>2 DEF SessionsTypeOK
<1>5. sJob' \in [Reqs -> Jobs]
  <2>1. PICK sid, used : sJob' = [sJob EXCEPT ![q] = Job(b, sid, used, TRUE)]
    BY <1>1
  <2>2. sJob'[q] = Job(b, sid, used, TRUE)
    BY <1>2, <2>1 DEF SessionsTypeOK
  <2>3. Job(b, sid, used, TRUE) \in Jobs
    BY <1>3, <2>2 DEF Job, Jobs
  <2> QED
    BY <1>2, <2>1, <2>3 DEF SessionsTypeOK, Jobs
<1>6. sPc' \in [Reqs -> Places] /\ doubts' \subseteq Browsers /\ doubts \subseteq doubts'
  <2>1. PICK where : sPc' = [sPc EXCEPT ![q] = where]
    BY <1>1
  <2>2. where \in Places
    BY <1>2, <1>3, <2>1 DEF SessionsTypeOK, Places
  <2>3. sPc' \in [Reqs -> Places]
    BY <1>2, <2>1, <2>2 DEF SessionsTypeOK, Places
  <2>4. doubts' \subseteq Browsers /\ doubts \subseteq doubts'
    BY <1>1, <1>2 DEF SessionsTypeOK
  <2> QED
    BY <2>3, <2>4
<1>7. SessionsTypeOK'
  BY <1>1, <1>2, <1>5, <1>6 DEF SessionsTypeOK, Places, Jobs
<1>8. RowsFit' /\ JobsFit'
  <2>1. RowsFit'
    BY <1>1 DEF SessionsInv, RowsFit
  <2>2. ASSUME NEW p \in Reqs
        PROVE
          /\ sPc'[p] # "idle" => sJob'[p].b \in Browsers
          /\ sPc'[p] \in {"rotate", "reused", "expelled"} =>
                sJob'[p].sid \in Sids /\ row'[sJob'[p].sid] # "none"
          /\ sPc'[p] = "expelled" => row'[sJob'[p].sid] # "open"
          /\ sPc'[p] \in {"answer", "second look"} => sJob'[p].token \in 1 .. issued'
    <3>1. CASE p = q
      BY <1>1, <1>3, <3>1
    <3>2. CASE p # q
      BY <1>1, <1>4, <3>2 DEF SessionsInv, JobsFit
    <3> QED
      BY <3>1, <3>2
  <2>3. JobsFit'
    BY <2>2 DEF JobsFit
  <2> QED
    BY <2>1, <2>3
<1>9. LoneHolderIsNoReuse'
  BY <1>3, <1>4, <1>6 DEF SessionsInv, LoneHolderIsNoReuse
<1> QED
  BY <1>7, <1>8, <1>9, RotateReadsTokens DEF SessionsInv

\* A renewal exchanges the refresh of its row, or finds it revoked meanwhile.
LEMMA RotateWritesKeeps ==
    ASSUME SessionsInv, NEW q \in Reqs, RotateWrites(q)
    PROVE  SessionsInv'
<1> DEFINE s == sJob[q].sid
<1>1. /\ UNCHANGED <<row, password, active, jar, era, doubts>>
      /\ issued' = issued + 1 /\ issued < MaxTokens
      /\ sPc[q] = "rotate" /\ sPc' = [sPc EXCEPT ![q] = "answer"]
      /\ sJob' = [sJob EXCEPT ![q] = [sJob[q] EXCEPT !.token = issued + 1]]
  BY DEF RotateWrites, Starts, Goes, table, account
<1>2. \/ UNCHANGED <<refresh, prev, expired>>
      \/ /\ row[s] = "open" /\ expired' = expired \ {s}
         /\ refresh' = [refresh EXCEPT ![s] = issued + 1]
         /\ prev' = [prev EXCEPT ![s] = refresh[s]]
  BY DEF RotateWrites, table
<1>3. SessionsTypeOK /\ sJob[q] \in Jobs /\ sJob[q].b \in Browsers /\ s \in Sids
  BY <1>1 DEF SessionsInv, SessionsTypeOK, Jobs, JobsFit
<1>4. issued' \in 0 .. MaxTokens /\ issued + 1 \in Tokens /\ issued + 1 # None
  <2>1. issued \in 0 .. MaxTokens
    BY <1>3 DEF SessionsTypeOK
  <2> QED
    BY <1>1, <2>1, SessionsAssumption DEF Tokens
<1>5. SessionsTypeOK'
  <2>1. sJob' \in [Reqs -> Jobs]
    BY <1>1, <1>3, <1>4 DEF SessionsTypeOK, Jobs
  <2>2. refresh' \in [Sids -> Tokens \cup {None}] /\ prev' \in [Sids -> Tokens \cup {None}]
    <3>1. /\ refresh \in [Sids -> Tokens \cup {None}] /\ prev \in [Sids -> Tokens \cup {None}]
          /\ refresh[s] \in Tokens \cup {None}
      BY <1>3 DEF SessionsTypeOK
    <3> HIDE DEF s
    <3> QED
      BY <1>2, <1>4, <3>1
  <2>3. expired' \subseteq Sids
    BY <1>2, <1>3 DEF SessionsTypeOK
  <2> QED
    BY <1>1, <1>3, <1>4, <2>1, <2>2, <2>3 DEF SessionsTypeOK, Jobs
<1>6. RowsFit'
  <2>1. \A r \in Sids : \/ refresh'[r] = refresh[r] /\ prev'[r] = prev[r]
                        \/ row[r] = "open" /\ refresh'[r] = issued + 1
    BY <1>2, <1>3 DEF SessionsTypeOK
  <2> QED
    BY <1>1, <1>4, <2>1 DEF SessionsInv, RowsFit
<1>7. \A p \in Reqs : p # q => sPc'[p] = sPc[p] /\ sJob'[p] = sJob[p]
  BY <1>1, <1>3 DEF SessionsTypeOK
<1>8. sPc'[q] = "answer" /\ sJob'[q].token = issued + 1 /\ sJob'[q].b = sJob[q].b
  BY <1>1, <1>3 DEF SessionsTypeOK, Jobs
<1>9. issued + 1 \in 1 .. issued' /\ 1 .. issued \subseteq 1 .. issued'
  <2>1. issued \in 0 .. MaxTokens
    BY <1>3 DEF SessionsTypeOK
  <2> QED
    BY <1>1, <2>1
<1>10. JobsFit'
  BY <1>1, <1>3, <1>7, <1>8, <1>9, JobsAfter DEF SessionsInv
<1>11. LoneHolderIsNoReuse'
  BY <1>1, <1>7, <1>8 DEF SessionsInv, LoneHolderIsNoReuse
<1> QED
  BY <1>5, <1>6, <1>10, <1>11, RotateWritesTokens DEF SessionsInv

\* The invariant holds before anything happens.
LEMMA SessionsInvInit == SessionsInit => SessionsInv
<1> SUFFICES ASSUME SessionsInit
             PROVE  SessionsInv
  OBVIOUS
<1>1. SessionsTypeOK
  BY SessionsAssumption DEF SessionsInit, SessionsTypeOK, NoJob, Empty, Tokens
<1>2. RowsFit /\ TokensFit /\ JobsFit /\ OnTheWay /\ OwnToken /\ Unfound
  BY DEF SessionsInit, RowsFit, TokensFit, JobsFit, OnTheWay, OwnToken, Unfound, NoJob, Empty
<1>3. HoldersFit /\ LoneHolderIsNoReuse
  BY DEF SessionsInit, HoldersFit, RenewsAlone, Superseded, LoneHolderIsNoReuse
<1> QED
  BY <1>1, <1>2, <1>3 DEF SessionsInv

\* And every step keeps it.
LEMMA SessionsInvStep == SessionsInv /\ [SessionsNext]_sVars => SessionsInv'
<1> SUFFICES ASSUME SessionsInv, [SessionsNext]_sVars
             PROVE  SessionsInv'
  OBVIOUS
<1>1. ASSUME NEW q \in Reqs, NEW b \in Browsers,
             LoginReads(q, b) \/ RotateReads(q, b) \/ LogsOut(q, b) \/ Admits(q, b)
      PROVE  SessionsInv'
  BY <1>1, LoginReadsKeeps, RotateReadsKeeps, LogsOutKeeps, AdmitsKeeps
<1>2. ASSUME NEW q \in Reqs,
             \/ LoginPurges(q) \/ LoginOpens(q) \/ LoginRefused(q)
             \/ LooksForReuse(q) \/ Expels(q) \/ RotateWrites(q)
             \/ RevokesOne(q) \/ RevokesOthers(q) \/ ChangesPassword(q)
             \/ Answered(q) \/ Cleared(q) \/ AnswerLost(q)
      PROVE  SessionsInv'
  BY <1>2, LoginPurgesKeeps, LoginOpensKeeps, LoginRefusedKeeps, LooksForReuseKeeps, ExpelsKeeps,
     RotateWritesKeeps, RevokesOneKeeps, RevokesOthersKeeps, ChangesPasswordKeeps, AnsweredKeeps,
     ClearedKeeps, AnswerLostKeeps
<1>3. ASSUME PasswordSet \/ Deactivated \/ Reactivated
      PROVE  SessionsInv'
  BY <1>3, PasswordSetKeeps, DeactivatedKeeps, ReactivatedKeeps
<1>4. ASSUME NEW s \in Sids, Expires(s)
      PROVE  SessionsInv'
  BY <1>4, ExpiresKeeps
<1>5. ASSUME NEW b \in Browsers, NEW c \in Browsers, Copied(b, c)
      PROVE  SessionsInv'
  BY <1>5, CopiedKeeps
<1>6. ASSUME UNCHANGED sVars
      PROVE  SessionsInv'
  <2>1. QuietStep
    BY <1>6 DEF sVars, table, account, QuietStep, Cut, Lets
  <2>2. SessionsTypeOK'
    BY <1>6 DEF sVars, table, account, SessionsInv, SessionsTypeOK
  <2> QED
    BY <2>1, <2>2, QuietKeeps
<1> QED
  BY <1>1, <1>2, <1>3, <1>4, <1>5, <1>6 DEF SessionsNext

\* Through every interleaving of logins, renewals, revocations and copies of cookies, what
\* the invariant says of rows, tokens and requests holds (storage/sessions.py).
THEOREM SessionsInvHolds == SessionsSpec => []SessionsInv
<1>1. SessionsInit => SessionsInv
  BY SessionsInvInit
<1>2. SessionsInv /\ [SessionsNext]_sVars => SessionsInv'
  BY SessionsInvStep
<1> QED
  BY <1>1, <1>2, PTL DEF SessionsSpec

\* Every variable of the sessions keeps its shape.
THEOREM SessionsTypeCorrect == SessionsSpec => []SessionsTypeOK
<1>1. SessionsInv => SessionsTypeOK
  BY DEF SessionsInv
<1> QED
  BY <1>1, SessionsInvHolds, PTL

\* What was revoked stays so, whatever renewal was in flight: a closed row has no refresh
\* that could be exchanged, and no session outlives a change of the password.
THEOREM RevocationAlwaysWins == SessionsSpec => []RevocationWins
<1>1. SessionsInv => RevocationWins
  BY DEF SessionsInv, RowsFit, RevocationWins, RevokedKeepsNoRefresh, ChangeCutsEverySession
<1> QED
  BY <1>1, SessionsInvHolds, PTL

\* A refresh presented twice closes the session for both holders, and a browser that renews
\* once at a time, loses no answer and shares its cookies with nobody is never expelled.
THEOREM ReuseIsAlwaysTold == SessionsSpec => []ReuseIsTold
<1>1. SessionsInv => ReuseIsTold
  BY DEF SessionsInv, JobsFit, ReuseIsTold, ReuseClosesForBoth
<1> QED
  BY <1>1, SessionsInvHolds, PTL


-----------------------------------------------------------------------------
(* Credentials: what a worker remembers of an account. *)

\* What was read of the account is still so, or was read before it last changed.
AsRead(st, t) ==
    /\ st.standing = standing \/ t <= since
    /\ st.changed = changed \/ t <= changed

\* A credential does not claim to be younger than it is.
CredsFit == \A c \in Creds : cred[c].at <= born[c]

\* An entry of a cache ends a TTL after the instant its read began, at the latest.
CachesFit ==
    \A w \in Workers : /\ cache[w].until <= now + TTL
                       /\ AsRead(cache[w].state, cache[w].until - TTL)

ChecksFit ==
    \A q \in Checks :
        /\ cPc[q] # "idle" => cJob[q].w \in Workers /\ cJob[q].c \in Creds
        /\ cPc[q] \in {"reading", "read"} => cJob[q].t0 <= now
        /\ cPc[q] = "read" => AsRead(cJob[q].state, cJob[q].t0)

CredentialsInv ==
    /\ CredentialsTypeOK /\ since <= now /\ changed <= now
    /\ CredsFit /\ CachesFit /\ ChecksFit

CheckPlaces == {"idle", "identified", "reading", "read", "disabled", "before change", "admitted"}
CheckJobs == [w : Workers \cup {Nobody}, c : Creds \cup {Nobody}, t0 : Times, state : States]
Entries == [state : States, until : 0 .. MaxTime + TTL]

\* A whole second is not after the instant it is of.
LEMMA WholeSecondBefore ==
    ASSUME NEW t \in Nat
    PROVE  WholeSecond(t) \in Nat /\ WholeSecond(t) <= t
BY CredentialsAssumption DEF WholeSecond

\* The constants, and the instants of the account, are numbers.
LEMMA Instants ==
    ASSUME CredentialsInv
    PROVE  /\ TTL \in Nat \ {0} /\ MaxTime \in Nat /\ MaxChanges \in Nat
           /\ now \in Nat /\ since \in Nat /\ changed \in Nat
           /\ \A w \in Workers : cache[w].until \in Nat
           /\ \A q \in Checks : cJob[q].t0 \in Nat
           /\ \A c \in Creds : cred[c].at \in Nat /\ born[c] \in Nat
<1>1. TTL \in Nat \ {0} /\ MaxTime \in Nat /\ MaxChanges \in Nat
  BY CredentialsAssumption
<1>2. Times \subseteq Nat /\ 0 .. MaxTime + TTL \subseteq Nat
  BY <1>1 DEF Times
<1> QED
  BY <1>1, <1>2 DEF CredentialsInv, CredentialsTypeOK

\* What a worker remembers of nobody.
LEMMA EmptyEntry ==
    /\ NoEntry \in Entries /\ NoEntry.until = 0
    /\ Free \in CheckJobs
<1>1. 0 \in Times /\ 0 \in 0 .. MaxTime + TTL
  BY CredentialsAssumption DEF Times
<1> QED
  BY <1>1 DEF NoEntry, Entries, States, Standings, Free, CheckJobs

LEMMA CredentialsInvInit == CredentialsInit => CredentialsInv
<1> SUFFICES ASSUME CredentialsInit
             PROVE  CredentialsInv
  OBVIOUS
<1>1. TTL \in Nat \ {0} /\ MaxTime \in Nat \ {0} /\ MaxChanges \in Nat
  BY CredentialsAssumption
<1>2. 0 \in Times /\ 1 \in Times /\ 0 \in 0 .. MaxChanges
  BY <1>1 DEF Times
<1>3. CredentialsTypeOK
  BY <1>2, EmptyEntry DEF CredentialsInit, CredentialsTypeOK, Standings, NoCred, Entries, CheckJobs
<1>4. since <= now /\ changed <= now /\ CredsFit /\ ChecksFit
  BY DEF CredentialsInit, CredsFit, ChecksFit, NoCred
<1>5. CachesFit
  BY <1>1, EmptyEntry DEF CredentialsInit, CachesFit, AsRead
<1> QED
  BY <1>3, <1>4, <1>5 DEF CredentialsInv

\* Time passes, or a credential is issued, ends or is cut: nothing a worker remembers is of it.
LEMMA CredsKeep ==
    ASSUME CredentialsInv, UNCHANGED <<holder, cache, cPc, cJob>>, now' \in Times, now <= now',
           cred' \in [Creds -> [kind : {"none", "session", "pat"}, at : Times, cut : BOOLEAN]],
           born' \in [Creds -> Times], CredsFit'
    PROVE  CredentialsInv'
<1>1. CredentialsTypeOK'
  BY DEF CredentialsInv, CredentialsTypeOK, holder
<1>2. now' \in Nat
  BY CredentialsAssumption DEF Times
<1>3. since' <= now' /\ changed' <= now'
  BY <1>2, Instants DEF CredentialsInv, holder
<1>4. CachesFit'
  BY <1>2, Instants DEF CredentialsInv, CachesFit, AsRead, holder
<1>5. ChecksFit'
  BY <1>2, Instants DEF CredentialsInv, ChecksFit, AsRead, holder
<1> QED
  BY <1>1, <1>3, <1>4, <1>5 DEF CredentialsInv

\* The account changes: what was read of it was read before.
LEMMA AccountKeeps ==
    ASSUME CredentialsInv, UNCHANGED <<now, born, cache, cPc, cJob>>,
           changes' \in 0 .. MaxChanges,
           standing' \in Standings, (standing' = standing /\ since' = since) \/ since' = now,
           changed' = changed \/ changed' = now,
           cred' = cred \/ CutSessions
    PROVE  CredentialsInv'
<1>1. /\ cred' \in [Creds -> [kind : {"none", "session", "pat"}, at : Times, cut : BOOLEAN]]
      /\ \A c \in Creds : cred'[c].at = cred[c].at
  <2>1. cred \in [Creds -> [kind : {"none", "session", "pat"}, at : Times, cut : BOOLEAN]]
    BY DEF CredentialsInv, CredentialsTypeOK
  <2>2. CASE cred' = cred
    BY <2>1, <2>2
  <2>3. CASE CutSessions
    BY <2>1, <2>3 DEF CutSessions
  <2> QED
    BY <2>2, <2>3
<1>2. CredentialsTypeOK'
  BY <1>1 DEF CredentialsInv, CredentialsTypeOK
<1>3. since' <= now' /\ changed' <= now' /\ CredsFit'
  BY <1>1, Instants DEF CredentialsInv, CredsFit
<1>4. CachesFit'
  BY Instants DEF CredentialsInv, CachesFit, AsRead
<1>5. ChecksFit'
  BY Instants DEF CredentialsInv, ChecksFit, AsRead
<1> QED
  BY <1>2, <1>3, <1>4, <1>5 DEF CredentialsInv

\* A request goes on, and its worker may remember something new.
LEMMA CheckKeeps ==
    ASSUME CredentialsInv, UNCHANGED <<now, holder, cred, born>>,
           NEW q \in Checks, NEW place \in CheckPlaces, NEW job \in CheckJobs,
           cPc' = [cPc EXCEPT ![q] = place], cJob' = [cJob EXCEPT ![q] = job],
           place # "idle" => job.w \in Workers /\ job.c \in Creds,
           place \in {"reading", "read"} => job.t0 <= now,
           place = "read" => AsRead(job.state, job.t0),
           cache' \in [Workers -> Entries], CachesFit'
    PROVE  CredentialsInv'
<1>1. CredentialsTypeOK'
  BY DEF CredentialsInv, CredentialsTypeOK, holder, CheckPlaces, CheckJobs, Entries
<1>2. ASSUME NEW p \in Checks
      PROVE  /\ p = q => cPc'[p] = place /\ cJob'[p] = job
             /\ p # q => cPc'[p] = cPc[p] /\ cJob'[p] = cJob[p]
  BY DEF CredentialsInv, CredentialsTypeOK
<1>3. ChecksFit'
  BY <1>2 DEF CredentialsInv, ChecksFit, AsRead, holder
<1>4. since' <= now' /\ changed' <= now' /\ CredsFit'
  BY DEF CredentialsInv, CredsFit, holder
<1> QED
  BY <1>1, <1>3, <1>4 DEF CredentialsInv

LEMMA IssuedKeeps ==
    ASSUME CredentialsInv, NEW c \in Creds, IssuesAccess(c) \/ IssuesPat(c) \/ PatEnds(c)
    PROVE  CredentialsInv'
<1> DEFINE Kinds == [kind : {"none", "session", "pat"}, at : Times, cut : BOOLEAN]
<1>1. /\ cred \in [Creds -> Kinds] /\ born \in [Creds -> Times] /\ now \in Times
      /\ UNCHANGED <<now, holder, cache, cPc, cJob>>
  BY DEF CredentialsInv, CredentialsTypeOK, IssuesAccess, IssuesPat, PatEnds
<1>2. now \in Nat /\ now <= MaxTime /\ MaxTime \in Nat
  BY <1>1, Instants DEF Times
<1>3. WholeSecond(now) \in Times /\ WholeSecond(now) <= now
  BY <1>2, WholeSecondBefore DEF Times
<1>4. CASE IssuesAccess(c) \/ IssuesPat(c)
  <2>1. PICK job \in Kinds : /\ cred' = [cred EXCEPT ![c] = job] /\ job.at <= now
                             /\ born' = [born EXCEPT ![c] = now]
    <3>1. ASSUME NEW kind \in {"session", "pat"}, NEW at \in Times, at <= now,
                 cred' = [cred EXCEPT ![c] = [kind |-> kind, at |-> at, cut |-> FALSE]],
                 born' = [born EXCEPT ![c] = now]
          PROVE  \E job \in Kinds : /\ cred' = [cred EXCEPT ![c] = job] /\ job.at <= now
                                    /\ born' = [born EXCEPT ![c] = now]
      <4> DEFINE job == [kind |-> kind, at |-> at, cut |-> FALSE]
      <4>1. job \in Kinds /\ job.at <= now
        BY <3>1
      <4> QED
        BY <3>1, <4>1
    <3>2. CASE IssuesAccess(c)
      BY <1>1, <1>3, <3>1, <3>2 DEF IssuesAccess
    <3>3. CASE IssuesPat(c)
      <4>1. now <= now
        BY <1>2
      <4>2. /\ cred' = [cred EXCEPT ![c] = [kind |-> "pat", at |-> now, cut |-> FALSE]]
            /\ born' = [born EXCEPT ![c] = now]
        BY <3>3 DEF IssuesPat
      <4> QED
        BY <1>1, <3>1, <4>1, <4>2
    <3> QED
      BY <1>4, <3>2, <3>3
  <2>2. cred' \in [Creds -> Kinds] /\ born' \in [Creds -> Times]
    BY <1>1, <2>1
  <2>3. CredsFit'
    BY <1>1, <2>1 DEF CredentialsInv, CredsFit
  <2> QED
    BY <1>1, <1>2, <2>2, <2>3, CredsKeep
<1>5. CASE PatEnds(c)
  <2>1. cred' = [cred EXCEPT ![c].cut = TRUE] /\ born' = born
    BY <1>5 DEF PatEnds
  <2>2. cred' \in [Creds -> Kinds] /\ CredsFit'
    BY <1>1, <2>1 DEF CredentialsInv, CredsFit
  <2> QED
    BY <1>1, <1>2, <2>1, <2>2, CredsKeep
<1> QED
  BY <1>4, <1>5

\* The steps of a request, one by one.
LEMMA RequestKeeps ==
    ASSUME CredentialsInv, NEW q \in Checks,
           \/ \E w \in Workers, c \in Creds : Identifies(q, w, c)
           \/ Cached(q) \/ Misses(q) \/ ReadsAccount(q) \/ Stores(q) \/ Served(q)
    PROVE  CredentialsInv'
<1>1. /\ cJob[q] \in CheckJobs /\ cache \in [Workers -> Entries] /\ now \in Times
      /\ cPc[q] # "idle" => cJob[q].w \in Workers /\ cJob[q].c \in Creds
      /\ CachesFit /\ standing \in Standings /\ changed \in Times
  BY DEF CredentialsInv, CredentialsTypeOK, ChecksFit, CheckJobs, Entries
<1>2. /\ now \in Nat /\ TTL \in Nat \ {0} /\ MaxTime \in Nat /\ cJob[q].t0 \in Nat
      /\ since \in Nat /\ changed \in Nat
  BY Instants
<1>3. cache' = cache /\ UNCHANGED <<now, holder>> => CachesFit'
  BY <1>1 DEF CachesFit, AsRead, holder
<1>4. ASSUME NEW w \in Workers, NEW c \in Creds, Identifies(q, w, c)
      PROVE  CredentialsInv'
  <2> DEFINE job == [Free EXCEPT !.w = w, !.c = c]
  <2>1. job \in CheckJobs /\ job.w = w /\ job.c = c
    BY EmptyEntry DEF CheckJobs
  <2>2. /\ cPc' = [cPc EXCEPT ![q] = "identified"] /\ cJob' = [cJob EXCEPT ![q] = job]
        /\ UNCHANGED <<now, holder, cred, born, cache>>
    BY <1>4 DEF Identifies, Goto
  <2> HIDE DEF job
  <2>3. CachesFit' /\ cache' \in [Workers -> Entries] /\ "identified" \in CheckPlaces
    BY <1>1, <1>3, <2>2 DEF CheckPlaces
  <2> QED
    BY <2>1, <2>2, <2>3, CheckKeeps
<1>5. ASSUME NEW st \in States, cPc[q] # "idle", Decides(q, st),
             UNCHANGED <<now, holder, cred, born>>, cache' \in [Workers -> Entries], CachesFit'
      PROVE  CredentialsInv'
  <2> DEFINE job == [cJob[q] EXCEPT !.state = st]
  <2>1. job \in CheckJobs /\ job.w = cJob[q].w /\ job.c = cJob[q].c
    BY <1>1 DEF CheckJobs
  <2>2. PICK place \in {"disabled", "before change", "admitted"} : cPc' = [cPc EXCEPT ![q] = place]
    BY <1>5 DEF Decides, Goto, Verdict
  <2>3. cJob' = [cJob EXCEPT ![q] = job]
    BY <1>5 DEF Decides, CredentialsInv, CredentialsTypeOK
  <2> HIDE DEF job
  <2> QED
    BY <1>1, <1>5, <2>1, <2>2, <2>3, CheckKeeps DEF CheckPlaces
<1>6. CASE Cached(q)
  <2>1. cache[cJob[q].w].state \in States
    BY <1>1, <1>6 DEF Cached, Entries
  <2> QED
    BY <1>1, <1>3, <1>5, <1>6, <2>1 DEF Cached
<1>7. CASE Misses(q)
  <2> DEFINE job == [cJob[q] EXCEPT !.t0 = now]
  <2>1. job \in CheckJobs /\ job.w = cJob[q].w /\ job.c = cJob[q].c /\ job.t0 = now
    BY <1>1 DEF CheckJobs
  <2>2. /\ cPc' = [cPc EXCEPT ![q] = "reading"] /\ cJob' = [cJob EXCEPT ![q] = job]
        /\ UNCHANGED <<now, holder, cred, born, cache>> /\ cPc[q] = "identified"
    BY <1>7 DEF Misses, Goto
  <2> HIDE DEF job
  <2>3. /\ CachesFit' /\ cache' \in [Workers -> Entries] /\ "reading" \in CheckPlaces
        /\ job.w \in Workers /\ job.c \in Creds /\ job.t0 <= now
    BY <1>1, <1>2, <1>3, <2>1, <2>2 DEF CheckPlaces
  <2> QED
    BY <2>1, <2>2, <2>3, CheckKeeps
<1>8. CASE ReadsAccount(q)
  <2> DEFINE st == [standing |-> standing, changed |-> changed]
             job == [cJob[q] EXCEPT !.state = st]
  <2>1. st \in States /\ AsRead(st, cJob[q].t0)
    BY <1>1 DEF States, AsRead
  <2>2. job \in CheckJobs /\ job.w = cJob[q].w /\ job.c = cJob[q].c /\ job.t0 = cJob[q].t0 /\ job.state = st
    BY <1>1, <2>1 DEF CheckJobs
  <2>3. /\ cPc' = [cPc EXCEPT ![q] = "read"] /\ cJob' = [cJob EXCEPT ![q] = job]
        /\ UNCHANGED <<now, holder, cred, born, cache>> /\ cPc[q] = "reading"
    BY <1>8 DEF ReadsAccount, Goto
  <2>4. cJob[q].t0 <= now
    BY <2>3 DEF CredentialsInv, ChecksFit
  <2> HIDE DEF job, st
  <2> QED
    BY <1>1, <1>3, <2>1, <2>2, <2>3, <2>4, CheckKeeps DEF CheckPlaces
<1>9. CASE Stores(q)
  <2> DEFINE entry == [state |-> cJob[q].state, until |-> cJob[q].t0 + TTL]
  <2>1. /\ cPc[q] = "read" /\ cache' = [cache EXCEPT ![cJob[q].w] = entry]
        /\ Decides(q, cJob[q].state) /\ UNCHANGED <<now, holder, cred, born>>
    BY <1>9 DEF Stores
  <2>2. cJob[q].t0 <= now /\ AsRead(cJob[q].state, cJob[q].t0) /\ cJob[q].state \in States
    BY <1>1, <2>1 DEF CredentialsInv, ChecksFit, CheckJobs
  <2>3. cJob[q].t0 + TTL \in 0 .. MaxTime + TTL /\ cJob[q].t0 + TTL <= now + TTL
        /\ cJob[q].t0 + TTL - TTL = cJob[q].t0
    BY <1>1, <1>2, <2>2 DEF Times
  <2>4. entry \in Entries /\ entry.state = cJob[q].state /\ entry.until = cJob[q].t0 + TTL
    BY <2>2, <2>3 DEF Entries
  <2> HIDE DEF entry
  <2>5. cache' \in [Workers -> Entries]
    BY <1>1, <2>1, <2>4
  <2>6. CachesFit'
    <3>1. ASSUME NEW w \in Workers
          PROVE  cache'[w] = cache[w] \/ cache'[w] = entry
      BY <1>1, <2>1
    <3>2. UNCHANGED <<now, standing, since, changed>>
      BY <2>1 DEF holder
    <3>3. AsRead(entry.state, entry.until - TTL) /\ entry.until <= now + TTL
      <4>1. entry.until - TTL = cJob[q].t0 /\ entry.until <= now + TTL
        BY <1>2, <2>2, <2>4
      <4> QED
        BY <2>2, <2>4, <4>1
    <3> QED
      BY <1>1, <3>1, <3>2, <3>3 DEF CachesFit, AsRead
  <2> QED
    BY <1>5, <2>1, <2>2, <2>5, <2>6
<1>10. CASE Served(q)
  <2>1. /\ cPc' = [cPc EXCEPT ![q] = "idle"] /\ cJob' = [cJob EXCEPT ![q] = Free]
        /\ UNCHANGED <<now, holder, cred, born, cache>>
    BY <1>10 DEF Served, Goto
  <2> QED
    BY <1>1, <1>3, <2>1, EmptyEntry, CheckKeeps DEF CheckPlaces
<1> QED
  BY <1>4, <1>6, <1>7, <1>8, <1>9, <1>10

\* Every step keeps what workers remember.
LEMMA CredentialsInvStep == CredentialsInv /\ [CredentialsNext]_cVars => CredentialsInv'
<1> SUFFICES ASSUME CredentialsInv, [CredentialsNext]_cVars
             PROVE  CredentialsInv'
  OBVIOUS
<1>1. CASE Tick
  <2>1. now' \in Times /\ now <= now' /\ UNCHANGED <<holder, cred, born, cache, cPc, cJob>>
    BY <1>1, Instants DEF Tick, Times
  <2> QED
    BY <2>1, CredsKeep DEF CredentialsInv, CredentialsTypeOK, CredsFit
<1>2. CASE ChangesPasswordAt
  <2>1. changes' \in 0 .. MaxChanges
    <3>1. changes \in 0 .. MaxChanges
      BY DEF CredentialsInv, CredentialsTypeOK
    <3> QED
      BY <1>2, <3>1, Instants DEF ChangesPasswordAt
  <2> QED
    BY <1>2, <2>1, AccountKeeps DEF ChangesPasswordAt, CredentialsInv, CredentialsTypeOK
<1>3. ASSUME NEW st \in Standings, AdminUpdates(st)
      PROVE  CredentialsInv'
  <2>1. changes' \in 0 .. MaxChanges
    <3>1. changes \in 0 .. MaxChanges
      BY DEF CredentialsInv, CredentialsTypeOK
    <3> QED
      BY <1>3, <3>1, Instants DEF AdminUpdates
  <2> QED
    BY <1>3, <2>1, AccountKeeps DEF AdminUpdates
<1>4. ASSUME NEW w \in Workers, Evicted(w)
      PROVE  CredentialsInv'
  <2>1. cache' = [cache EXCEPT ![w] = NoEntry] /\ UNCHANGED <<now, holder, cred, born, cPc, cJob>>
    BY <1>4 DEF Evicted
  <2>2. CredentialsTypeOK'
    BY <2>1, EmptyEntry DEF CredentialsInv, CredentialsTypeOK, holder, Entries
  <2>3. CachesFit'
    <3>1. \A v \in Workers : cache'[v] = cache[v] \/ cache'[v] = NoEntry
      BY <2>1 DEF CredentialsInv, CredentialsTypeOK
    <3>2. UNCHANGED <<now, standing, since, changed>>
      BY <2>1 DEF holder
    <3>3. AsRead(NoEntry.state, NoEntry.until - TTL) /\ NoEntry.until <= now + TTL
      BY EmptyEntry, Instants DEF AsRead
    <3> QED
      BY <3>1, <3>2, <3>3 DEF CredentialsInv, CachesFit, AsRead
  <2> QED
    BY <2>1, <2>2, <2>3 DEF CredentialsInv, CredsFit, ChecksFit, AsRead, holder
<1>5. CASE UNCHANGED cVars
  BY <1>5 DEF cVars, holder, CredentialsInv, CredentialsTypeOK, CredsFit, CachesFit, ChecksFit, AsRead
<1> QED
  BY <1>1, <1>2, <1>3, <1>4, <1>5, IssuedKeeps, RequestKeeps DEF CredentialsNext

\* Only an entry still in force admits a request by itself.
LEMMA OnlyTheCacheAdmits ==
    ASSUME CredentialsInv, [CredentialsNext]_cVars, NEW q \in Checks, FromCache(q)
    PROVE  Cached(q)
<1>1. cPc \in [Checks -> CheckPlaces] /\ cPc[q] = "identified" /\ cPc'[q] = "admitted"
  BY DEF CredentialsInv, CredentialsTypeOK, CheckPlaces, FromCache
<1>2. ASSUME NEW p \in Checks, NEW place, Goto(p, place)
      PROVE  p = q /\ place = "admitted"
  BY <1>1, <1>2 DEF Goto
<1>3. cPc' # cPc
  BY <1>1
<1>4. PICK p \in Checks :
        \/ \E w \in Workers, c \in Creds : Identifies(p, w, c)
        \/ Cached(p) \/ Misses(p) \/ ReadsAccount(p) \/ Stores(p) \/ Served(p)
  BY <1>3 DEF CredentialsNext, cVars, Tick, ChangesPasswordAt, AdminUpdates, IssuesAccess, IssuesPat,
     PatEnds, Evicted
<1>5. ~Misses(p) /\ ~ReadsAccount(p) /\ ~Served(p) /\ ~Stores(p)
      /\ \A w \in Workers, c \in Creds : ~Identifies(p, w, c)
  <2>1. \A place : Goto(p, place) => p = q /\ place = "admitted"
    BY <1>2
  <2>2. ~Misses(p) /\ ~ReadsAccount(p) /\ ~Served(p)
    <3>1. ~Goto(p, "reading") /\ ~Goto(p, "read") /\ ~Goto(p, "idle")
      BY <2>1
    <3> QED
      BY <3>1 DEF Misses, ReadsAccount, Served
  <2>3. ~Stores(p)
    BY <1>1, <2>1 DEF Stores, Decides
  <2>4. \A w \in Workers, c \in Creds : ~Identifies(p, w, c)
    BY <2>1 DEF Identifies
  <2> QED
    BY <2>2, <2>3, <2>4
<1>6. p = q
  BY <1>2, <1>4, <1>5 DEF Cached, Decides
<1> QED
  BY <1>4, <1>5, <1>6

\* On every worker, however slow the read that filled its cache was and whatever other read
\* overtook it: within the TTL a deactivation or a lost role counts, and a change of password
\* shuts out every credential issued before it (auth/dependencies.py, _get_user_auth_state).
THEOREM ChangesCountWithinTTL == CredentialsSpec => CountsWithinTTL
<1>1. ASSUME CredentialsInv, [CredentialsNext]_cVars, NEW q \in Checks, FromCache(q)
      PROVE  /\ cJob'[q].state.standing = standing \/ now < since + TTL
             /\ born[cJob[q].c] >= changed \/ now < changed + TTL
  <2> DEFINE w == cJob[q].w
             c == cJob[q].c
             st == cache[w].state
  <2>1. Cached(q) /\ cPc'[q] = "admitted"
    BY <1>1, OnlyTheCacheAdmits DEF FromCache
  <2>2. w \in Workers /\ c \in Creds /\ cache[w].until \in Nat /\ cred[c].at \in Nat /\ born[c] \in Nat
    BY <1>1, Instants DEF CredentialsInv, ChecksFit, FromCache
  <2>3. now < cache[w].until /\ AsRead(st, cache[w].until - TTL) /\ cred[c].at <= born[c]
    BY <1>1, <2>1, <2>2 DEF Cached, CredentialsInv, CachesFit, CredsFit
  <2>4. cJob'[q].state = st /\ cPc'[q] = Verdict(st, c)
    BY <1>1, <2>1 DEF Cached, Decides, Goto, CredentialsInv, CredentialsTypeOK
  <2>5. ~(cred[c].at < st.changed)
    BY <2>1, <2>4 DEF Verdict
  <2>6. st.changed \in Nat
    <3>1. Times \subseteq Nat
      BY Instants, <1>1 DEF Times
    <3> QED
      BY <1>1, <2>2, <3>1 DEF CredentialsInv, CredentialsTypeOK, States
  <2> HIDE DEF w, c, st
  <2>7. st.standing = standing \/ now < since + TTL
    BY <1>1, <2>2, <2>3, Instants DEF AsRead
  <2>8. born[c] >= changed \/ now < changed + TTL
    BY <1>1, <2>2, <2>3, <2>5, <2>6, Instants DEF AsRead
  <2> QED
    BY <2>4, <2>7, <2>8 DEF c
<1>2. CredentialsInv /\ [CredentialsNext]_cVars =>
        [\A q \in Checks : FromCache(q) =>
            /\ cJob'[q].state.standing = standing \/ now < since + TTL
            /\ born[cJob[q].c] >= changed \/ now < changed + TTL]_cVars
  BY <1>1
<1> QED
  BY <1>2, CredentialsInvInit, CredentialsInvStep, PTL DEF CredentialsSpec, CountsWithinTTL

-----------------------------------------------------------------------------
(* EditorCodes: a code is read before it is deleted, and deleted before it is answered. *)

\* A code that some exchange has deleted is gone for good, one that was answered was deleted,
\* and so no exchange begins with a code that was answered.
CodesInv ==
    /\ EditorCodesTypeOK
    /\ \A e \in Editors : ePc[e] # "idle" => eJob[e].k \in Codes
    /\ \A e \in Editors : ePc[e] \in {"create", "refused"} => code[eJob[e].k] = "gone"
    /\ \A k \in answered : code[k] = "gone"
    /\ \A e \in Editors : ~eJob[e].late

\* Every step keeps it: a row comes only from "none", and goes for good.
LEMMA CodesInvStep == CodesInv /\ [EditorCodesNext]_eVars => CodesInv'
<1> SUFFICES ASSUME CodesInv, [EditorCodesNext]_eVars
             PROVE  CodesInv'
  OBVIOUS
<1> USE DEF CodesInv, EditorCodesTypeOK
<1>1. ASSUME NEW k \in Codes, Authorizes(k)
      PROVE  CodesInv'
  BY <1>1 DEF Authorizes
<1>2. ASSUME NEW k \in Codes, CodeAges(k)
      PROVE  CodesInv'
  BY <1>2 DEF CodeAges
<1>3. ASSUME NEW e \in Editors, NEW k \in Codes, NEW right \in BOOLEAN,
             ExchangeReads(e, k, right)
      PROVE  CodesInv'
  BY <1>3 DEF ExchangeReads
<1>4. ASSUME NEW e \in Editors, ExchangeDeletes(e)
      PROVE  CodesInv'
  BY <1>4 DEF ExchangeDeletes
<1>5. ASSUME NEW e \in Editors, Exchanged(e)
      PROVE  CodesInv'
  BY <1>5 DEF Exchanged, NoExchange
<1>6. ASSUME NEW e \in Editors, ExchangeDies(e)
      PROVE  CodesInv'
  BY <1>6 DEF ExchangeDies, NoExchange
<1>7. CASE UNCHANGED eVars
  BY <1>7 DEF eVars
<1> QED
  BY <1>1, <1>2, <1>3, <1>4, <1>5, <1>6, <1>7 DEF EditorCodesNext

LEMMA CodesBegin == EditorCodesInit => CodesInv
BY DEF EditorCodesInit, CodesInv, EditorCodesTypeOK, NoExchange

\* Once an exchange of a code is answered, well or badly, none that begins later gets a PAT
\* for it (storage/tokens.py): the row goes before the answer, whatever the answer is.
THEOREM CodesAreSpent == EditorCodesSpec => []CodeIsSpent
<1>1. CodesInv => CodeIsSpent
  BY DEF CodesInv, CodeIsSpent
<1> QED
  BY <1>1, CodesBegin, CodesInvStep, PTL DEF EditorCodesSpec

-----------------------------------------------------------------------------
(* Registrations: the links that are mailed. *)

\* Rows of users and jobs of requests, by their shape.
AnyName == Names \cup {NoOne}
Persons == [name : AnyName, mail : Mails \cup AnyName, github : Bases \cup {NoOne},
            verified : BOOLEAN, verify : 0 .. MaxLinks, reset : 0 .. MaxLinks]
LinkJobs == [base : Bases \cup {NoOne}, name : AnyName, mail : Mails \cup AnyName,
             link : 0 .. MaxLinks, h : Holders \cup {NoOne}]

\* A link to come has done nothing; one an account waits for has set no password; and no two
\* accounts wait for one link.
LinksFit ==
    /\ \A l \in 1 .. MaxLinks : l > links => resets[l] = 0
    /\ \A h \in Holders : people[h].reset <= links
    /\ \A h \in Holders : people[h].reset # 0 => resets[people[h].reset] = 0
    /\ \A g, h \in Holders : people[g].reset = people[h].reset /\ g # h => people[g].reset = 0

LinksInv ==
    /\ links \in 0 .. MaxLinks /\ resets \in [1 .. MaxLinks -> Nat]
    /\ people \in [Holders -> Persons] /\ rJob \in [Clients -> LinkJobs]
    /\ rPc \in [Clients -> {"idle", "register", "verify", "welcome", "name", "mail", "insert",
                            "reset"}]
    /\ LinksFit
    /\ \A c \in Clients : rPc[c] \in {"reset", "verify"} => rJob[c].h \in Holders
    /\ \A c \in Clients : rPc[c] = "reset" => rJob[c].link # 0

\* Of an account that is inserted nothing was mailed to reset.
LEMMA InsertFits ==
    ASSUME LinksInv, NEW person \in Persons, Insert(person), person.reset = 0
    PROVE  /\ people' \in [Holders -> Persons]
           /\ \A h \in Holders : people'[h].reset \in {people[h].reset, 0}
<1>1. people \in [Holders -> Persons]
  BY DEF LinksInv
<1>2. \A h \in Holders : people[h].reset \in 0 .. MaxLinks
  BY <1>1 DEF Persons
<1>3. people' = people \/ \E h \in Holders : people' = [people EXCEPT ![h] = person]
  BY DEF Insert
<1> HIDE DEF Persons
<1> QED
  BY <1>1, <1>3

\* A step after which an account waits for the link it waited for, or for none.
LEMMA NoNewReset ==
    ASSUME LinksInv, resets' = resets, links' \in Nat, links <= links',
           people' \in [Holders -> Persons],
           \A h \in Holders : people'[h].reset \in {people[h].reset, 0}
    PROVE  LinksFit'
<1>1. links \in Nat /\ MaxLinks \in Nat /\ \A h \in Holders : people[h].reset \in 0 .. MaxLinks
  BY RegistrationsAssumption DEF LinksInv, Persons
<1>2. \A l \in 1 .. MaxLinks : l > links' => resets'[l] = 0
  BY <1>1 DEF LinksInv, LinksFit
<1>3. \A h \in Holders : people'[h].reset <= links'
  BY <1>1 DEF LinksInv, LinksFit
<1>4. \A h \in Holders : people'[h].reset # 0 => resets'[people'[h].reset] = 0
  BY DEF LinksInv, LinksFit
<1>5. \A g, h \in Holders : people'[g].reset = people'[h].reset /\ g # h => people'[g].reset = 0
  BY DEF LinksInv, LinksFit
<1> QED
  BY <1>2, <1>3, <1>4, <1>5 DEF LinksFit

\* What a step of a request leaves to prove.
Stays(c, place) ==
    /\ rPc' = [rPc EXCEPT ![c] = place]
    /\ \E job \in LinkJobs :
         /\ rJob' = [rJob EXCEPT ![c] = job]
         /\ place \in {"reset", "verify"} => job.h \in Holders
         /\ place = "reset" => job.link # 0

LEMMA StaysFits ==
    ASSUME LinksInv, NEW c \in Clients, LinksFit',
           NEW place \in {"idle", "register", "verify", "welcome", "name", "mail", "insert", "reset"},
           Stays(c, place), people' \in [Holders -> Persons],
           links' \in 0 .. MaxLinks, resets' \in [1 .. MaxLinks -> Nat]
    PROVE  LinksInv'
<1>1. PICK job \in LinkJobs :
         /\ rJob' = [rJob EXCEPT ![c] = job]
         /\ place \in {"reset", "verify"} => job.h \in Holders
         /\ place = "reset" => job.link # 0
  BY DEF Stays
<1>2. rPc' = [rPc EXCEPT ![c] = place]
  BY DEF Stays
<1>3. rJob \in [Clients -> LinkJobs]
  BY DEF LinksInv
<1>4. rJob' \in [Clients -> LinkJobs] /\ rJob'[c] = job
  BY <1>1, <1>3
<1> QED
  BY <1>1, <1>2, <1>3, <1>4 DEF LinksInv

\* The values a request starts and ends with.
LEMMA ShapesOfJobs ==
    /\ Idle \in LinkJobs
    /\ Absent \in Persons
BY RegistrationsAssumption DEF Idle, LinkJobs, Absent, Persons, AnyName

\* The steps before an account exists, and of GitHub's names, write no row.
LEMMA SearchesKeep ==
    ASSUME LinksInv, NEW c \in Clients, UNCHANGED <<people, linkVars>>,
           NEW place \in {"idle", "register", "verify", "welcome", "name", "mail", "insert", "reset"},
           Stays(c, place)
    PROVE  LinksInv'
<1>1. /\ people' = people /\ resets' = resets /\ links' = links
      /\ people \in [Holders -> Persons] /\ links \in 0 .. MaxLinks
      /\ resets \in [1 .. MaxLinks -> Nat]
  BY DEF linkVars, LinksInv
<1>2. LinksFit'
  BY <1>1 DEF LinksInv, LinksFit
<1> QED
  BY <1>1, <1>2, StaysFits

LEMMA RegisterReadsKeeps ==
    ASSUME LinksInv, NEW c \in Clients, NEW n \in Names, NEW m \in Mails, RegisterReads(c, n, m)
    PROVE  LinksInv'
<1>1. [Idle EXCEPT !.name = n, !.mail = m] \in LinkJobs
  BY ShapesOfJobs DEF LinkJobs, AnyName
<1>2. Stays(c, "register") /\ UNCHANGED <<people, linkVars>>
  BY <1>1 DEF RegisterReads, To, Keeps, Stays
<1> QED
  BY <1>2, SearchesKeep

LEMMA GitHubReadsKeeps ==
    ASSUME LinksInv, NEW c \in Clients, NEW base \in Bases, NEW m \in Mails, GitHubReads(c, base, m)
    PROVE  LinksInv'
<1> DEFINE job == [Idle EXCEPT !.base = base, !.name = <<base, 1>>, !.mail = m]
<1>1. job \in LinkJobs
  <2>1. <<base, 1>> \in AnyName
    BY RegistrationsAssumption DEF AnyName, Bases
  <2> QED
    BY <2>1, ShapesOfJobs DEF LinkJobs
<1>2. rJob' = [rJob EXCEPT ![c] = job] /\ UNCHANGED <<people, linkVars>>
  BY DEF GitHubReads, Keeps
<1>3. rPc' = [rPc EXCEPT ![c] = "welcome"] \/ rPc' = [rPc EXCEPT ![c] = "name"]
  BY DEF GitHubReads, To
<1> HIDE DEF job
<1>4. Stays(c, "welcome") \/ Stays(c, "name")
  BY <1>1, <1>2, <1>3 DEF Stays
<1> QED
  BY <1>2, <1>4, SearchesKeep

LEMMA GitHubNamesKeeps ==
    ASSUME LinksInv, NEW c \in Clients, GitHubNames(c)
    PROVE  LinksInv'
<1> DEFINE taken == NameTaken(rJob[c].name)
           next == Suffixed(rJob[c].base, rJob[c].name[2] + 1)
           job == [rJob[c] EXCEPT !.name = IF taken THEN next ELSE @]
<1>1. /\ taken => next \in Names
      /\ rPc' = [rPc EXCEPT ![c] = "name"] \/ rPc' = [rPc EXCEPT ![c] = "mail"]
      /\ rJob' = [rJob EXCEPT ![c] = job] /\ UNCHANGED <<people, linkVars>>
  BY DEF GitHubNames, Keeps
<1>2. job \in LinkJobs
  <2>1. rJob[c] \in LinkJobs
    BY DEF LinksInv
  <2>2. (IF taken THEN next ELSE rJob[c].name) \in AnyName
    BY <1>1, <2>1 DEF LinkJobs, AnyName
  <2> HIDE DEF taken, next
  <2> QED
    BY <2>1, <2>2 DEF LinkJobs
<1> HIDE DEF job, taken, next
<1>3. Stays(c, "name") \/ Stays(c, "mail")
  BY <1>1, <1>2 DEF Stays
<1> QED
  BY <1>1, <1>3, SearchesKeep

LEMMA GitHubMailsKeeps ==
    ASSUME LinksInv, NEW c \in Clients, GitHubMails(c)
    PROVE  LinksInv'
<1> DEFINE job == [rJob[c] EXCEPT !.mail = IF MailTaken(@) THEN rJob[c].name ELSE @]
<1>1. rJob[c] \in LinkJobs
  BY DEF LinksInv
<1>2. job \in LinkJobs
  BY <1>1 DEF LinkJobs
<1>3. Stays(c, "insert") /\ UNCHANGED <<people, linkVars>>
  BY <1>2 DEF GitHubMails, To, Keeps, Stays
<1> QED
  BY <1>3, SearchesKeep

LEMMA WelcomedKeeps ==
    ASSUME LinksInv, NEW c \in Clients, Welcomed(c)
    PROVE  LinksInv'
<1>1. Stays(c, "idle") /\ UNCHANGED <<people, linkVars>>
  BY ShapesOfJobs DEF Welcomed, Leave, To, Keeps, Stays
<1> QED
  BY <1>1, SearchesKeep

LEMMA ResetReadsKeeps ==
    ASSUME LinksInv, NEW c \in Clients, NEW l \in 1 .. MaxLinks, ResetReads(c, l) \/ VerifyReads(c, l)
    PROVE  LinksInv'
<1>1. PICK h \in Holders, place \in {"reset", "verify"} :
        /\ rPc' = [rPc EXCEPT ![c] = place] /\ UNCHANGED <<people, linkVars>>
        /\ rJob' = [rJob EXCEPT ![c] = [Idle EXCEPT !.h = h, !.link = l]]
  BY DEF ResetReads, VerifyReads, To, Keeps
<1>2. [Idle EXCEPT !.h = h, !.link = l] \in LinkJobs
  <2>1. l \in 0 .. MaxLinks
    BY RegistrationsAssumption
  <2> QED
    BY <2>1, ShapesOfJobs DEF LinkJobs
<1>3. l # 0 /\ [Idle EXCEPT !.h = h, !.link = l].h = h /\ [Idle EXCEPT !.h = h, !.link = l].link = l
  BY DEF Idle
<1>4. Stays(c, place)
  BY <1>1, <1>2, <1>3 DEF Stays
<1> QED
  BY <1>1, <1>4, SearchesKeep

\* The steps that insert an account, or mark one as verified.
LEMMA RowsKeep ==
    ASSUME LinksInv, NEW c \in Clients, Leave(c, rPc[c]), UNCHANGED resets,
           links' \in 0 .. MaxLinks, links <= links',
           people' \in [Holders -> Persons],
           \A h \in Holders : people'[h].reset \in {people[h].reset, 0}
    PROVE  LinksInv'
<1>1. Stays(c, "idle")
  BY ShapesOfJobs DEF Leave, To, Keeps, Stays
<1>2. links' \in Nat /\ resets' \in [1 .. MaxLinks -> Nat]
  BY RegistrationsAssumption DEF LinksInv
<1>3. LinksFit'
  BY <1>2, NoNewReset
<1> QED
  BY <1>1, <1>2, <1>3, StaysFits

LEMMA RegisterInsertsKeeps ==
    ASSUME LinksInv, NEW c \in Clients, RegisterInserts(c)
    PROVE  LinksInv'
<1>1. PICK byMail \in BOOLEAN :
         /\ byMail => links < MaxLinks
         /\ links' = IF byMail THEN links + 1 ELSE links
         /\ Insert([Absent EXCEPT !.name = rJob[c].name, !.mail = rJob[c].mail,
                                  !.verified = ~byMail, !.verify = IF byMail THEN links + 1 ELSE 0])
  BY DEF RegisterInserts
<1> DEFINE person == [Absent EXCEPT !.name = rJob[c].name, !.mail = rJob[c].mail,
                                  !.verified = ~byMail, !.verify = IF byMail THEN links + 1 ELSE 0]
<1>2. links \in 0 .. MaxLinks /\ MaxLinks \in Nat /\ rJob[c] \in LinkJobs
  BY RegistrationsAssumption DEF LinksInv
<1>3. links' \in 0 .. MaxLinks /\ links <= links'
  BY <1>1, <1>2
<1>4. person \in Persons /\ person.reset = 0
  <2>1. (IF byMail THEN links + 1 ELSE 0) \in 0 .. MaxLinks
    BY <1>1, <1>2
  <2>2. rJob[c].name \in AnyName /\ rJob[c].mail \in Mails \cup AnyName
    BY <1>2 DEF LinkJobs
  <2>3. Absent \in Persons /\ Absent.reset = 0
    BY ShapesOfJobs DEF Absent
  <2>4. (~byMail) \in BOOLEAN
    OBVIOUS
  <2> QED
    BY <2>1, <2>2, <2>3, <2>4 DEF Persons
<1>5. /\ people' \in [Holders -> Persons]
      /\ \A h \in Holders : people'[h].reset \in {people[h].reset, 0}
  <2> HIDE DEF person
  <2>1. Insert(person)
    BY <1>1 DEF person
  <2> QED
    BY <1>4, <2>1, InsertFits
<1>6. Leave(c, rPc[c]) /\ resets' = resets
  BY DEF RegisterInserts, Leave, To
<1> QED
  BY <1>3, <1>5, <1>6, RowsKeep

LEMMA GitHubInsertsKeeps ==
    ASSUME LinksInv, NEW c \in Clients, GitHubInserts(c)
    PROVE  LinksInv'
<1> DEFINE person == [Absent EXCEPT !.name = rJob[c].name, !.mail = rJob[c].mail,
                                    !.github = rJob[c].base, !.verified = TRUE]
<1>1. Insert(person) /\ UNCHANGED linkVars /\ Leave(c, rPc[c])
  BY DEF GitHubInserts, Leave, To
<1>2. rJob[c] \in LinkJobs
  BY DEF LinksInv
<1>3. person \in Persons /\ person.reset = 0
  <2>1. Absent \in Persons /\ Absent.reset = 0
    BY ShapesOfJobs DEF Absent
  <2>2. /\ rJob[c].name \in AnyName /\ rJob[c].mail \in Mails \cup AnyName
        /\ rJob[c].base \in Bases \cup {NoOne}
    BY <1>2 DEF LinkJobs
  <2> QED
    BY <2>1, <2>2 DEF Persons
<1> HIDE DEF person
<1>4. /\ people' \in [Holders -> Persons]
      /\ \A h \in Holders : people'[h].reset \in {people[h].reset, 0}
  BY <1>1, <1>3, InsertFits
<1>5. links' \in 0 .. MaxLinks /\ links <= links' /\ resets' = resets
  BY <1>1, RegistrationsAssumption DEF linkVars, LinksInv
<1> QED
  BY <1>1, <1>4, <1>5, RowsKeep

LEMMA VerifyMarksKeeps ==
    ASSUME LinksInv, NEW c \in Clients, VerifyMarks(c)
    PROVE  LinksInv'
<1>1. /\ people' = [people EXCEPT ![rJob[c].h].verified = TRUE, ![rJob[c].h].verify = 0]
      /\ UNCHANGED linkVars /\ Leave(c, rPc[c]) /\ rPc[c] = "verify"
  BY DEF VerifyMarks, Leave, To
<1>2. rJob[c].h \in Holders /\ people \in [Holders -> Persons] /\ 0 \in 0 .. MaxLinks
  BY <1>1, RegistrationsAssumption DEF LinksInv
<1>3. /\ people' \in [Holders -> Persons]
      /\ \A h \in Holders : people'[h].reset \in {people[h].reset, 0}
  <2> DEFINE h == rJob[c].h
             person == [people[h] EXCEPT !.verified = TRUE, !.verify = 0]
  <2>1. person \in Persons /\ person.reset = people[h].reset
    BY <1>2 DEF Persons
  <2>2. people' = [people EXCEPT ![h] = person]
    BY <1>1, <1>2
  <2> HIDE DEF h, person
  <2>3. people' \in [Holders -> Persons]
    BY <1>2, <2>1, <2>2
  <2>4. \A g \in Holders : people'[g].reset \in {people[g].reset, 0}
    BY <1>2, <2>1, <2>2
  <2> QED
    BY <2>3, <2>4
<1>4. links' \in 0 .. MaxLinks /\ links <= links' /\ resets' = resets
  BY <1>1, RegistrationsAssumption DEF linkVars, LinksInv
<1> QED
  BY <1>1, <1>3, <1>4, RowsKeep

\* A newer link takes the place of the older one.
LEMMA ForgotPasswordKeeps ==
    ASSUME LinksInv, NEW h \in Holders, ForgotPassword(h)
    PROVE  LinksInv'
<1>1. /\ links < MaxLinks /\ links' = links + 1 /\ people' = [people EXCEPT ![h].reset = links + 1]
      /\ UNCHANGED <<resets, rPc, rJob>>
  BY DEF ForgotPassword
<1>2. links \in 0 .. MaxLinks /\ MaxLinks \in Nat /\ people \in [Holders -> Persons]
  BY RegistrationsAssumption DEF LinksInv
<1>3. links' \in 0 .. MaxLinks /\ links + 1 \in 1 .. MaxLinks
  BY <1>1, <1>2
<1>4. people' \in [Holders -> Persons]
  BY <1>1, <1>2, <1>3 DEF Persons
<1>5. /\ people'[h].reset = links + 1
      /\ \A g \in Holders \ {h} : people'[g].reset = people[g].reset
  BY <1>1, <1>2 DEF Persons
<1>6. \A g \in Holders : people[g].reset \in 0 .. MaxLinks /\ people[g].reset <= links
  BY DEF LinksInv, LinksFit, Persons
<1>7. LinksFit'
  BY <1>1, <1>2, <1>3, <1>5, <1>6 DEF LinksInv, LinksFit
<1> QED
  BY <1>1, <1>3, <1>4, <1>7 DEF LinksInv

\* Whoever presents a link that is still the last, and no other, sets the password.
LEMMA ResetWritesKeeps ==
    ASSUME LinksInv, NEW c \in Clients, ResetWrites(c)
    PROVE  /\ LinksInv'
           /\ \A l \in 1 .. MaxLinks : resets'[l] # resets[l] =>
                 /\ resets[l] = 0 /\ l \notin stale
                 /\ \E h \in Holders : people[h].reset = l
<1> DEFINE h == rJob[c].h
           l == rJob[c].link
<1>1. /\ rPc[c] = "reset" /\ links' = links /\ Leave(c, "reset")
      /\ \/ UNCHANGED <<people, resets>>
         \/ /\ people[h].reset = l /\ l \notin stale
            /\ people' = [people EXCEPT ![h].reset = 0]
            /\ resets' = [resets EXCEPT ![l] = @ + 1]
  BY DEF ResetWrites, Leave, To
<1>2. /\ h \in Holders /\ l \in 1 .. MaxLinks /\ links \in 0 .. MaxLinks /\ MaxLinks \in Nat
      /\ people \in [Holders -> Persons] /\ resets \in [1 .. MaxLinks -> Nat]
  BY <1>1, RegistrationsAssumption DEF LinksInv, LinkJobs
<1> HIDE DEF h, l
<1>3. Stays(c, "idle")
  BY <1>1, ShapesOfJobs DEF Leave, To, Keeps, Stays
<1>4. CASE UNCHANGED <<people, resets>>
  <2>1. LinksFit'
    BY <1>1, <1>4 DEF LinksInv, LinksFit
  <2> QED
    BY <1>1, <1>2, <1>3, <1>4, <2>1, StaysFits
<1>5. CASE /\ people[h].reset = l /\ l \notin stale
           /\ people' = [people EXCEPT ![h].reset = 0]
           /\ resets' = [resets EXCEPT ![l] = @ + 1]
  <2>1. people' \in [Holders -> Persons] /\ resets' \in [1 .. MaxLinks -> Nat]
    <3>1. 0 \in 0 .. MaxLinks /\ resets[l] + 1 \in Nat
      BY <1>2
    <3>2. people' \in [Holders -> Persons]
      BY <1>2, <1>5, <3>1 DEF Persons
    <3>3. resets' \in [1 .. MaxLinks -> Nat]
      BY <1>2, <1>5, <3>1
    <3> QED
      BY <3>2, <3>3
  <2>2. /\ people'[h].reset = 0 /\ \A g \in Holders \ {h} : people'[g].reset = people[g].reset
        /\ \A k \in (1 .. MaxLinks) \ {l} : resets'[k] = resets[k]
    BY <1>2, <1>5 DEF Persons
  <2>3. /\ resets[l] = 0 /\ l <= links
        /\ \A g \in Holders \ {h} : people[g].reset # l
        /\ \A g \in Holders : people[g].reset \in 0 .. MaxLinks
    BY <1>2, <1>5 DEF LinksInv, LinksFit, Persons
  <2>4. LinksFit'
    <3>1. \A k \in 1 .. MaxLinks : k > links' => resets'[k] = 0
      BY <1>1, <1>2, <2>2, <2>3 DEF LinksInv, LinksFit
    <3>2. \A g \in Holders : people'[g].reset <= links'
      <4>1. \A g \in Holders : people[g].reset <= links
        BY DEF LinksInv, LinksFit
      <4>2. people'[h].reset <= links
        BY <1>2, <2>2
      <4> QED
        BY <1>1, <2>2, <4>1, <4>2
    <3>3. \A g \in Holders : people'[g].reset # 0 =>
              g # h /\ people[g].reset \in (1 .. MaxLinks) \ {l} /\ resets[people[g].reset] = 0
      BY <2>2, <2>3 DEF LinksInv, LinksFit
    <3>4. \A g \in Holders : people'[g].reset # 0 => resets'[people'[g].reset] = 0
      BY <2>2, <3>3
    <3>5. \A g, f \in Holders : people'[g].reset = people'[f].reset /\ g # f => people'[g].reset = 0
      BY <2>2 DEF LinksInv, LinksFit
    <3> QED
      BY <3>1, <3>2, <3>4, <3>5 DEF LinksFit
  <2>5. LinksInv'
    BY <1>1, <1>2, <1>3, <2>1, <2>4, StaysFits
  <2> QED
    BY <1>2, <1>5, <2>2, <2>3, <2>5
<1> QED
  BY <1>1, <1>4, <1>5

\* A link sets a password only while it is the last its account was mailed, so only once.
LEMMA LinksInvStep ==
    ASSUME LinksInv, [RegistrationsNext]_rVars
    PROVE  /\ LinksInv'
           /\ \A l \in 1 .. MaxLinks : resets'[l] # resets[l] =>
                 /\ resets[l] = 0 /\ l \notin stale
                 /\ \E h \in Holders : people[h].reset = l
<1>1. CASE UNCHANGED rVars
  BY <1>1 DEF rVars, LinksInv, LinksFit
<1>2. ASSUME NEW h \in Holders, ForgotPassword(h)
      PROVE  LinksInv' /\ resets' = resets
  BY <1>2, ForgotPasswordKeeps DEF ForgotPassword
<1>3. ASSUME NEW l \in 1 .. MaxLinks, LinkExpires(l)
      PROVE  LinksInv' /\ resets' = resets
  BY <1>3 DEF LinkExpires, LinksInv, LinksFit
<1>4. ASSUME NEW c \in Clients, NEW m \in Mails,
             \/ \E n \in Names : RegisterReads(c, n, m)
             \/ \E base \in Bases : GitHubReads(c, base, m)
      PROVE  LinksInv' /\ resets' = resets
  BY <1>4, RegisterReadsKeeps, GitHubReadsKeeps DEF RegisterReads, GitHubReads, linkVars
<1>5. ASSUME NEW c \in Clients,
             \/ RegisterInserts(c) \/ VerifyMarks(c) \/ Welcomed(c)
             \/ GitHubNames(c) \/ GitHubMails(c) \/ GitHubInserts(c)
      PROVE  LinksInv' /\ resets' = resets
  <2>1. LinksInv'
    BY <1>5, RegisterInsertsKeeps, VerifyMarksKeeps, WelcomedKeeps, GitHubNamesKeeps,
       GitHubMailsKeeps, GitHubInsertsKeeps
  <2>2. resets' = resets
    BY <1>5 DEF RegisterInserts, VerifyMarks, Welcomed, GitHubNames, GitHubMails, GitHubInserts,
       linkVars
  <2> QED
    BY <2>1, <2>2
<1>6. ASSUME NEW c \in Clients, NEW l \in 1 .. MaxLinks, VerifyReads(c, l) \/ ResetReads(c, l)
      PROVE  LinksInv' /\ resets' = resets
  BY <1>6, ResetReadsKeeps DEF VerifyReads, ResetReads, linkVars
<1> QED
  BY <1>1, <1>2, <1>3, <1>4, <1>5, <1>6, ResetWritesKeeps DEF RegistrationsNext

\* Links that expired, links an account is verified with and links a request holds were mailed.
LinksMailed ==
    /\ stale \subseteq 1 .. links
    /\ \A h \in Holders : people[h].verify <= links
    /\ \A c \in Clients : rJob[c].link <= links

\* A step after which nobody holds a link that was not mailed.
LEMMA StillMailed ==
    ASSUME LinksInv, LinksMailed, links' \in Nat, links <= links', UNCHANGED stale,
           \A h \in Holders : people'[h].verify \in {people[h].verify, 0, links'},
           \A c \in Clients : rJob'[c].link \in Nat /\ rJob'[c].link <= links
    PROVE  LinksMailed'
<1>1. links \in Nat /\ rJob \in [Clients -> LinkJobs] /\ people \in [Holders -> Persons]
  BY RegistrationsAssumption DEF LinksInv
<1>2. \A h \in Holders : people[h].verify \in Nat /\ people[h].verify <= links
  BY <1>1, RegistrationsAssumption DEF Persons, LinksMailed
<1>3. \A h \in Holders : people'[h].verify <= links'
  BY <1>1, <1>2
<1>4. \A c \in Clients : rJob'[c].link <= links'
  BY <1>1
<1> QED BY <1>1, <1>3, <1>4 DEF LinksMailed

LEMMA InsertMailed ==
    ASSUME LinksInv, NEW person \in Persons, Insert(person)
    PROVE  \A h \in Holders : people'[h].verify \in {people[h].verify, person.verify}
<1>1. people' = people \/ \E h \in Holders : people' = [people EXCEPT ![h] = person]
  BY DEF Insert
<1> QED BY <1>1 DEF LinksInv

LEMMA LinksMailedStep ==
    ASSUME LinksInv, LinksMailed, [RegistrationsNext]_rVars
    PROVE  LinksMailed'
<1>0. /\ links \in Nat /\ links \in 0 .. MaxLinks /\ MaxLinks \in Nat
      /\ rJob \in [Clients -> LinkJobs] /\ people \in [Holders -> Persons]
      /\ \A c \in Clients : rJob[c].link \in Nat /\ rJob[c].link <= links
      /\ Idle.link = 0
  BY RegistrationsAssumption DEF LinksInv, LinkJobs, LinksMailed, Idle
<1>1. CASE UNCHANGED rVars
  BY <1>1 DEF rVars, LinksMailed
<1>2. ASSUME NEW h \in Holders, ForgotPassword(h)
      PROVE  LinksMailed'
  <2>1. /\ links' = links + 1 /\ people' = [people EXCEPT ![h].reset = links + 1]
        /\ UNCHANGED <<stale, rJob>>
    BY <1>2 DEF ForgotPassword
  <2>2. \A g \in Holders : people[g].verify \in Nat /\ people'[g].verify = people[g].verify
    BY <1>0, <2>1 DEF Persons
  <2> QED BY <1>0, <2>1, <2>2 DEF LinksMailed
<1>3. ASSUME NEW l \in 1 .. MaxLinks, LinkExpires(l)
      PROVE  LinksMailed'
  <2>1. l <= links
    BY <1>3 DEF LinkExpires, LinksInv, LinksFit
  <2> QED BY <1>0, <1>3, <2>1 DEF LinkExpires, LinksMailed
<1>4. ASSUME NEW c \in Clients, NEW m \in Mails,
             \/ \E n \in Names : RegisterReads(c, n, m)
             \/ \E base \in Bases : GitHubReads(c, base, m)
      PROVE  LinksMailed'
  <2>1. PICK job : job.link = 0 /\ rJob' = [rJob EXCEPT ![c] = job]
    BY <1>4 DEF RegisterReads, GitHubReads, Keeps, Idle
  <2>2. UNCHANGED <<people, links, stale>>
    BY <1>4 DEF RegisterReads, GitHubReads, linkVars
  <2>3. \A e \in Clients : rJob'[e].link \in Nat /\ rJob'[e].link <= links
    BY <1>0, <2>1
  <2> QED BY <1>0, <2>2, <2>3, StillMailed
<1>5. ASSUME NEW c \in Clients, RegisterInserts(c)
      PROVE  LinksMailed'
  <2>1. PICK byMail \in BOOLEAN :
           /\ byMail => links < MaxLinks
           /\ links' = IF byMail THEN links + 1 ELSE links
           /\ Insert([Absent EXCEPT !.name = rJob[c].name, !.mail = rJob[c].mail,
                         !.verified = ~byMail, !.verify = IF byMail THEN links + 1 ELSE 0])
    BY <1>5 DEF RegisterInserts
  <2> DEFINE person == [Absent EXCEPT !.name = rJob[c].name, !.mail = rJob[c].mail,
                            !.verified = ~byMail, !.verify = IF byMail THEN links + 1 ELSE 0]
  <2>2. person \in Persons /\ person.verify \in {0, links'}
    <3>1. (IF byMail THEN links + 1 ELSE 0) \in 0 .. MaxLinks
      BY <1>0, <2>1
    <3>2. rJob[c].name \in AnyName /\ rJob[c].mail \in Mails \cup AnyName
      BY <1>0 DEF LinkJobs
    <3>3. Absent \in Persons /\ (~byMail) \in BOOLEAN
      BY ShapesOfJobs
    <3>4. person.verify = IF byMail THEN links + 1 ELSE 0
      BY DEF Absent
    <3> QED BY <2>1, <3>1, <3>2, <3>3, <3>4 DEF Persons
  <2>3. Insert(person)
    BY <2>1
  <2> HIDE DEF person
  <2>4. \A h \in Holders : people'[h].verify \in {people[h].verify, 0, links'}
    BY <2>2, <2>3, InsertMailed
  <2>5. rJob' = [rJob EXCEPT ![c] = Idle] /\ UNCHANGED stale
    BY <1>5 DEF RegisterInserts, Leave, Keeps
  <2>6. links' \in Nat /\ links <= links'
    BY <1>0, <2>1
  <2>7. \A e \in Clients : rJob'[e].link \in Nat /\ rJob'[e].link <= links
    BY <1>0, <2>5
  <2> QED BY <2>4, <2>5, <2>6, <2>7, StillMailed
<1>6. ASSUME NEW c \in Clients, GitHubInserts(c)
      PROVE  LinksMailed'
  <2> DEFINE person == [Absent EXCEPT !.name = rJob[c].name, !.mail = rJob[c].mail,
                                      !.github = rJob[c].base, !.verified = TRUE]
  <2>1. person \in Persons /\ person.verify = 0
    <3>1. /\ rJob[c].name \in AnyName /\ rJob[c].mail \in Mails \cup AnyName
          /\ rJob[c].base \in Bases \cup {NoOne}
      BY <1>0 DEF LinkJobs
    <3>2. Absent \in Persons /\ Absent.verify = 0
      BY ShapesOfJobs DEF Absent
    <3> QED BY <3>1, <3>2 DEF Persons
  <2>2. Insert(person) /\ rJob' = [rJob EXCEPT ![c] = Idle] /\ UNCHANGED <<links, stale>>
    BY <1>6 DEF GitHubInserts, Leave, Keeps, linkVars
  <2> HIDE DEF person
  <2>3. \A h \in Holders : people'[h].verify \in {people[h].verify, 0, links'}
    BY <2>1, <2>2, InsertMailed
  <2>4. \A e \in Clients : rJob'[e].link \in Nat /\ rJob'[e].link <= links
    BY <1>0, <2>2
  <2> QED BY <1>0, <2>2, <2>3, <2>4, StillMailed
<1>7. ASSUME NEW c \in Clients, VerifyMarks(c)
      PROVE  LinksMailed'
  <2>1. /\ people' = [people EXCEPT ![rJob[c].h].verified = TRUE, ![rJob[c].h].verify = 0]
        /\ rJob' = [rJob EXCEPT ![c] = Idle] /\ UNCHANGED <<links, stale>> /\ rPc[c] = "verify"
    BY <1>7 DEF VerifyMarks, Leave, To, Keeps, linkVars
  <2>2. rJob[c].h \in Holders
    BY <2>1 DEF LinksInv
  <2>3. \A h \in Holders : people'[h].verify \in {people[h].verify, 0}
    BY <1>0, <2>1, <2>2 DEF Persons
  <2>4. \A e \in Clients : rJob'[e].link \in Nat /\ rJob'[e].link <= links
    BY <1>0, <2>1
  <2> QED BY <1>0, <2>1, <2>3, <2>4, StillMailed
<1>8. ASSUME NEW c \in Clients, Welcomed(c) \/ GitHubNames(c) \/ GitHubMails(c)
      PROVE  LinksMailed'
  <2>1. UNCHANGED <<people, links, stale>>
    BY <1>8 DEF Welcomed, GitHubNames, GitHubMails, linkVars
  <2>2. \A e \in Clients : rJob'[e].link \in {0, rJob[e].link}
    <3>1. CASE Welcomed(c)
      <4>1. rJob' = [rJob EXCEPT ![c] = Idle]
        BY <3>1 DEF Welcomed, Leave, Keeps
      <4> QED BY <1>0, <4>1
    <3>2. CASE GitHubNames(c)
      <4> DEFINE name == IF NameTaken(rJob[c].name) THEN Suffixed(rJob[c].base, rJob[c].name[2] + 1)
                         ELSE rJob[c].name
      <4>1. rJob' = [rJob EXCEPT ![c] = [rJob[c] EXCEPT !.name = name]]
        BY <3>2 DEF GitHubNames, Keeps
      <4> HIDE DEF name
      <4> QED BY <1>0, <4>1 DEF LinkJobs
    <3>3. CASE GitHubMails(c)
      <4> DEFINE mail == IF MailTaken(rJob[c].mail) THEN rJob[c].name ELSE rJob[c].mail
      <4>1. rJob' = [rJob EXCEPT ![c] = [rJob[c] EXCEPT !.mail = mail]]
        BY <3>3 DEF GitHubMails, Keeps
      <4> HIDE DEF mail
      <4> QED BY <1>0, <4>1 DEF LinkJobs
    <3> QED BY <1>8, <3>1, <3>2, <3>3
  <2>3. \A e \in Clients : rJob'[e].link \in Nat /\ rJob'[e].link <= links
    BY <1>0, <2>2
  <2> QED BY <1>0, <2>1, <2>3, StillMailed
<1>9. ASSUME NEW c \in Clients, NEW l \in 1 .. MaxLinks, VerifyReads(c, l) \/ ResetReads(c, l)
      PROVE  LinksMailed'
  <2>1. PICK h \in Holders : /\ people[h].verify = l \/ people[h].reset = l
                             /\ rJob' = [rJob EXCEPT ![c] = [Idle EXCEPT !.h = h, !.link = l]]
    BY <1>9 DEF VerifyReads, ResetReads, Keeps
  <2>2. l <= links
    BY <2>1 DEF LinksMailed, LinksInv, LinksFit
  <2>3. [Idle EXCEPT !.h = h, !.link = l].link = l /\ UNCHANGED <<people, links, stale>>
    BY <1>9 DEF Idle, VerifyReads, ResetReads, linkVars
  <2>4. \A e \in Clients : rJob'[e].link \in Nat /\ rJob'[e].link <= links
    BY <1>0, <2>1, <2>2, <2>3
  <2> QED BY <1>0, <2>3, <2>4, StillMailed
<1>10. ASSUME NEW c \in Clients, ResetWrites(c)
       PROVE  LinksMailed'
  <2>1. /\ rJob' = [rJob EXCEPT ![c] = Idle] /\ UNCHANGED <<links, stale>>
        /\ people' = people \/ people' = [people EXCEPT ![rJob[c].h].reset = 0]
    BY <1>10 DEF ResetWrites, Leave, Keeps
  <2>2. \A h \in Holders : people'[h].verify = people[h].verify
    BY <1>0, <2>1 DEF Persons
  <2>3. \A e \in Clients : rJob'[e].link \in Nat /\ rJob'[e].link <= links
    BY <1>0, <2>1
  <2> QED BY <1>0, <2>1, <2>2, <2>3, StillMailed
<1> QED
  BY <1>1, <1>2, <1>3, <1>4, <1>5, <1>6, <1>7, <1>8, <1>9, <1>10 DEF RegistrationsNext

LEMMA LinksShape == LinksInv /\ LinksMailed => RegistrationsTypeOK
<1> SUFFICES ASSUME LinksInv, LinksMailed PROVE RegistrationsTypeOK
  OBVIOUS
<1>1. /\ people \in [Holders -> Persons] /\ rJob \in [Clients -> LinkJobs]
      /\ links \in 0 .. MaxLinks /\ MaxLinks \in Nat
  BY RegistrationsAssumption DEF LinksInv
<1>2. \A c \in Clients : rJob[c].link \in 0 .. links /\ rJob[c].name \in Names \cup {NoOne}
  BY <1>1 DEF LinkJobs, AnyName, LinksMailed
<1>3. \A h \in Holders :
         /\ people[h].name \in Names \cup {NoOne}
         /\ people[h].mail \in Mails \cup Names \cup {NoOne}
         /\ people[h].github \in Bases \cup {NoOne} /\ people[h].verified \in BOOLEAN
         /\ {people[h].verify, people[h].reset} \subseteq 0 .. MaxLinks
  BY <1>1 DEF Persons, AnyName
<1> QED BY <1>1, <1>2, <1>3 DEF LinksInv, LinksMailed, RegistrationsTypeOK

LEMMA LinksBegin == RegistrationsInit => LinksInv /\ LinksMailed
<1> SUFFICES ASSUME RegistrationsInit PROVE LinksInv /\ LinksMailed
  OBVIOUS
<1>1. 0 \in 0 .. MaxLinks /\ Absent.reset = 0 /\ Absent.verify = 0 /\ Idle.link = 0
  BY RegistrationsAssumption DEF Absent, Idle
<1>2. LinksInv
  BY <1>1, ShapesOfJobs DEF RegistrationsInit, LinksInv, LinksFit
<1>3. LinksMailed
  BY <1>1 DEF RegistrationsInit, LinksMailed
<1> QED BY <1>2, <1>3

\* However many requests present one reset link, and whatever newer link is mailed while they
\* hash, it sets the password once, and only while it is the last of its account
\* (auth/auth.py, consume_reset_token).
THEOREM LinksResetOnce == RegistrationsSpec => ResetOnce
<1>1. RegistrationsInit => LinksInv
  BY LinksBegin
<1> QED
  BY <1>1, LinksInvStep, PTL DEF RegistrationsSpec, ResetOnce

-----------------------------------------------------------------------------
(* Quotas: what rows count, and what limiters in memory remember. *)

Stamps == 0 .. clock
Positive == Nat \ {0}

\* A row, a request and what a row granted have their types; a request does not wait for longer
\* than Patience.
RatesShape ==
    /\ clock \in Nat
    /\ windows \in [Rows -> [start : Stamps, count : Positive] \cup {NoWindow}]
    /\ given \in [Rows -> [start : Stamps, count : Positive] \cup {NoWindow}]
    /\ asking \in [Askers -> [row : Rows, now : Stamps, cost : Positive] \cup {NoWindow}]
    /\ \A q \in Askers : asking[q] # NoWindow => clock <= asking[q].now + Patience

\* A row counts at least what it granted, rejects everything since, or has been purged after
\* the longest of all windows.
RowsCount ==
    \A r \in Rows : given[r] # NoWindow =>
        /\ given[r].count <= Quota(r)
        /\ windows[r] = NoWindow => given[r].start + Horizon < clock
        /\ windows[r] # NoWindow =>
             \/ windows[r].start = given[r].start /\ given[r].count <= windows[r].count
             \/ windows[r].start >= given[r].start /\ windows[r].count > Quota(r)

\* The first n events of a limiter in memory are over.
Over(s, n) == \A i \in 1 .. n : s[i] <= clock - LocalWindow

\* What a limiter remembers of a key are its last grants, and those before are over.
Remembers(k, n) ==
    /\ Len(recent[k]) = n + Len(events[k])
    /\ \A i \in 1 .. Len(events[k]) : events[k][i] = recent[k][n + i]
    /\ Over(recent[k], n)

KeysFit ==
    /\ events \in [Addresses -> Seq(Nat)] /\ recent \in [Addresses -> Seq(Nat)]
    /\ \A k \in Addresses : \E n \in Nat : Remembers(k, n)

RatesInv == RatesShape /\ RowsCount /\ KeysFit

-----------------------------------------------------------------------------

LEMMA MinOfTwo ==
    ASSUME NEW a \in Nat, NEW b \in Nat
    PROVE  Min({a, b}) = IF a <= b THEN a ELSE b
<1>1. Min({a, b}) \in {a, b} /\ \A y \in {a, b} : Min({a, b}) <= y
  BY DEF Min
<1> QED BY <1>1

\* No window is longer than the horizon.
LEMMA HorizonIsLongest == Horizon \in Nat /\ \A l \in Limiters : Window[l] \in Nat /\ 0 < Window[l] /\ Window[l] <= Horizon
<1> DEFINE W == {Window[l] : l \in Limiters}
<1>1. \A l \in Limiters : Window[l] \in Nat \ {0}
  BY RateLimitsAssumption
<1>2. \E x \in W : \A y \in W : x >= y
  BY <1>1, RateLimitsAssumption
<1>3. Max(W) \in W /\ \A y \in W : Max(W) >= y
  BY <1>2 DEF Max
<1> QED BY <1>1, <1>3 DEF Horizon

\* popleft stops at the first event that is not over.
LEMMA ExpiredStops ==
    ASSUME NEW s \in Seq(Nat), clock \in Nat
    PROVE  /\ Expired(s) \in 0 .. Len(s) /\ Over(s, Expired(s))
           /\ Expired(s) = Len(s) \/ s[Expired(s) + 1] > clock - LocalWindow
<1> DEFINE L == {i \in 1 .. Len(s) : s[i] > clock - LocalWindow}
           R == {p \in Nat \X Nat : p[1] < p[2]}
<1>1. \E n \in 0 .. Len(s) : Over(s, n) /\ (n = Len(s) \/ s[n + 1] > clock - LocalWindow)
  <2>1. CASE L = {}
    BY <2>1, RateLimitsAssumption DEF Over
  <2>2. CASE L # {}
    <3>1. L \subseteq Nat
      OBVIOUS
    <3>2. PICK x \in L : \A y \in L : <<y, x>> \notin R
      <4>1. IsWellFoundedOn(R, Nat)
        BY NatLessThanWellFounded DEF OpToRel
      <4> HIDE DEF L, R
      <4> QED BY <2>2, <3>1, <4>1, WFMin
    <3>3. \A y \in L : ~(y < x)
      BY <3>1, <3>2
    <3>4. x - 1 \in 0 .. Len(s) /\ Over(s, x - 1) /\ s[(x - 1) + 1] > clock - LocalWindow
      BY <3>3, RateLimitsAssumption DEF Over
    <3> QED BY <3>4
  <2> QED BY <2>1, <2>2
<1> QED BY <1>1 DEF Expired, Over

\* That event is the only place to stop.
LEMMA ExpiredIsThere ==
    ASSUME NEW s \in Seq(Nat), clock \in Nat, NEW n \in 0 .. Len(s), Over(s, n),
           n = Len(s) \/ s[n + 1] > clock - LocalWindow
    PROVE  Expired(s) = n
<1>1. /\ Expired(s) \in 0 .. Len(s) /\ Over(s, Expired(s))
      /\ Expired(s) = Len(s) \/ s[Expired(s) + 1] > clock - LocalWindow
  BY ExpiredStops
<1>2. \A i \in 1 .. Len(s) : s[i] \in Nat
  OBVIOUS
<1> QED BY <1>1, <1>2, RateLimitsAssumption DEF Over

LEMMA RestOfEvents ==
    ASSUME NEW s \in Seq(Nat), NEW n \in 0 .. Len(s)
    PROVE  LET left == SubSeq(s, n + 1, Len(s)) IN
           /\ left \in Seq(Nat) /\ Len(left) = Len(s) - n
           /\ \A i \in 1 .. Len(left) : left[i] = s[n + i]
<1> DEFINE left == SubSeq(s, n + 1, Len(s))
<1>1. n + 1 \in Int /\ Len(s) \in Nat /\ \A i \in n + 1 .. Len(s) : s[i] \in Nat
  OBVIOUS
<1>2. /\ left \in Seq(Nat) /\ Len(left) = IF n + 1 <= Len(s) THEN Len(s) - (n + 1) + 1 ELSE 0
      /\ \A i \in 1 .. Len(s) - (n + 1) + 1 : left[i] = s[n + 1 + i - 1]
  <2> HIDE DEF left
  <2> QED BY <1>1, SubSeqProperties DEF left
<1> HIDE DEF left
<1>3. Len(left) = Len(s) - n
  BY <1>1, <1>2
<1>4. ASSUME NEW i \in 1 .. Len(left) PROVE left[i] = s[n + i]
  <2>1. i \in 1 .. Len(s) - (n + 1) + 1 /\ n + 1 + i - 1 = n + i
    BY <1>1, <1>3
  <2> QED BY <1>2, <2>1
<1> QED BY <1>2, <1>3, <1>4 DEF left

\* What popleft leaves is what it would leave of all the last grants.
LEMMA LiveIsRecent ==
    ASSUME RatesInv, NEW k \in Addresses
    PROVE  LET kept == LiveEvents(events[k]) IN
           /\ kept \in Seq(Nat) /\ LiveEvents(recent[k]) = kept
           /\ \E n \in Nat : /\ Len(recent[k]) = n + Len(kept) /\ Over(recent[k], n)
                              /\ \A i \in 1 .. Len(kept) : kept[i] = recent[k][n + i]
<1> DEFINE s == events[k] t == recent[k] e == Expired(s)
<1>1. s \in Seq(Nat) /\ t \in Seq(Nat) /\ clock \in Nat
  BY DEF RatesInv, KeysFit, RatesShape
<1>2. PICK n \in Nat : Remembers(k, n)
  BY DEF RatesInv, KeysFit
<1>3. Len(t) = n + Len(s) /\ (\A i \in 1 .. Len(s) : s[i] = t[n + i]) /\ Over(t, n)
  BY <1>2 DEF Remembers
<1>4. e \in 0 .. Len(s) /\ Over(s, e) /\ (e = Len(s) \/ s[e + 1] > clock - LocalWindow)
  BY <1>1, ExpiredStops
<1> HIDE DEF s, t, e
<1>5. Over(t, n + e)
  <2> SUFFICES ASSUME NEW i \in 1 .. n + e, i > n PROVE t[i] <= clock - LocalWindow
    BY <1>3, <1>4 DEF Over
  <2>1. i - n \in 1 .. e /\ i - n \in 1 .. Len(s) /\ n + (i - n) = i
    BY <1>1, <1>4
  <2> QED BY <1>3, <1>4, <2>1 DEF Over
<1>0. n + e \in 0 .. Len(t) /\ Len(s) \in Nat
  BY <1>1, <1>3, <1>4
<1>6. n + e = Len(t) \/ t[(n + e) + 1] > clock - LocalWindow
  <2>1. CASE e = Len(s)
    BY <1>3, <2>1
  <2>2. CASE e # Len(s)
    <3>1. e + 1 \in 1 .. Len(s) /\ n + (e + 1) = (n + e) + 1
      BY <1>0, <1>4, <2>2
    <3>2. t[(n + e) + 1] = s[e + 1]
      BY <1>3, <3>1
    <3> QED BY <1>4, <2>2, <3>2
  <2> QED BY <2>1, <2>2
<1>7. Expired(t) = n + e
  BY <1>0, <1>1, <1>5, <1>6, ExpiredIsThere
<1> DEFINE kept == SubSeq(s, e + 1, Len(s)) last == SubSeq(t, (n + e) + 1, Len(t))
<1>8. /\ kept \in Seq(Nat) /\ Len(kept) = Len(s) - e
      /\ \A i \in 1 .. Len(kept) : kept[i] = s[e + i]
  BY <1>1, <1>4, RestOfEvents
<1>9. /\ last \in Seq(Nat) /\ Len(last) = Len(t) - (n + e)
      /\ \A i \in 1 .. Len(last) : last[i] = t[(n + e) + i]
  BY <1>0, <1>1, RestOfEvents
<1> HIDE DEF kept, last
<1>10. \A i \in 1 .. Len(kept) : kept[i] = t[(n + e) + i]
  <2> SUFFICES ASSUME NEW i \in 1 .. Len(kept) PROVE kept[i] = t[(n + e) + i]
    OBVIOUS
  <2>1. kept[i] = s[e + i] /\ e + i \in 1 .. Len(s) /\ n + (e + i) = (n + e) + i
    BY <1>0, <1>1, <1>4, <1>8
  <2> QED BY <1>3, <2>1
<1>11. last = kept
  <2>1. Len(last) = Len(kept) /\ \A i \in 1 .. Len(last) : last[i] = kept[i]
    BY <1>0, <1>3, <1>4, <1>8, <1>9, <1>10
  <2> QED BY <1>8, <1>9, <2>1, SeqEqual
<1>12. LiveEvents(s) = kept /\ LiveEvents(t) = last
  BY <1>7 DEF LiveEvents, e, kept, last
<1>13. Len(t) = (n + e) + Len(kept) /\ n + e \in Nat
  BY <1>0, <1>3, <1>4, <1>8
<1> QED BY <1>5, <1>8, <1>10, <1>11, <1>12, <1>13 DEF s, t

\* A limiter in memory serves or refuses a request.
LEMMA KeysStepped ==
    ASSUME RatesInv, NEW k \in Addresses, ConsumesHere(k)
    PROVE  /\ KeysFit'
           /\ \A j \in Addresses : recent'[j] # recent[j] => Len(recent'[j]) <= LocalCalls
<1> DEFINE kept == LiveEvents(events[k])
           order == Append(RemoveFirst(lru, k), k)
           left == IF Len(order) > Slots THEN {Head(order)} ELSE {}
<1>1. kept \in Seq(Nat) /\ LiveEvents(recent[k]) = kept
  BY LiveIsRecent
<1>2. PICK m \in Nat : /\ Len(recent[k]) = m + Len(kept) /\ Over(recent[k], m)
                       /\ \A i \in 1 .. Len(kept) : kept[i] = recent[k][m + i]
  BY LiveIsRecent
<1>3. /\ events \in [Addresses -> Seq(Nat)] /\ recent \in [Addresses -> Seq(Nat)]
      /\ \A j \in Addresses : \E n \in Nat : Remembers(j, n)
      /\ clock \in Nat /\ clock' = clock /\ LocalCalls \in Nat
  BY RateLimitsAssumption DEF RatesInv, KeysFit, RatesShape, ConsumesHere
<1>4. CASE Len(kept) + 1 > LocalCalls
  <2>1. events' = [events EXCEPT ![k] = kept] /\ recent' = recent
    BY <1>4 DEF ConsumesHere
  <2>2. ASSUME NEW j \in Addresses PROVE \E n \in Nat : Remembers(j, n)'
    <3>1. PICK n \in Nat : Remembers(j, n)
      BY <1>3
    <3>2. CASE j = k
      <4> HIDE DEF kept
      <4>1. events'[k] = kept /\ recent'[k] = recent[k]
        BY <1>3, <2>1
      <4>2. Remembers(k, m)'
        BY <1>2, <1>3, <4>1 DEF Remembers, Over
      <4> QED BY <3>2, <4>2
    <3>3. CASE j # k
      <4>1. Remembers(j, n)'
        BY <1>3, <2>1, <3>1, <3>3 DEF Remembers, Over
      <4> QED BY <4>1
    <3> QED BY <3>2, <3>3
  <2> HIDE DEF kept
  <2>3. events' \in [Addresses -> Seq(Nat)] /\ recent' \in [Addresses -> Seq(Nat)]
    BY <1>1, <1>3, <2>1
  <2> QED BY <2>1, <2>2, <2>3 DEF KeysFit
<1>5. CASE ~(Len(kept) + 1 > LocalCalls)
  <2>1. /\ events' = [j \in Addresses |-> IF j \in left THEN <<>>
                            ELSE IF j = k THEN Append(kept, clock) ELSE events[j]]
        /\ recent' = [j \in Addresses |-> IF j \in left THEN <<>>
                            ELSE IF j = k THEN Append(kept, clock) ELSE recent[j]]
    BY <1>1, <1>5 DEF ConsumesHere
  <2> HIDE DEF left, kept
  <2>2. Append(kept, clock) \in Seq(Nat) /\ Len(Append(kept, clock)) = Len(kept) + 1
        /\ Len(kept) \in Nat /\ <<>> \in Seq(Nat)
    BY <1>1, <1>3
  <2>3. ASSUME NEW j \in Addresses PROVE \E n \in Nat : Remembers(j, n)'
    <3>1. CASE j \in left \/ j = k
      <4>1. recent'[j] = events'[j] /\ events'[j] \in Seq(Nat)
        BY <2>1, <2>2, <3>1
      <4>2. Remembers(j, 0)'
        BY <1>3, <4>1, RateLimitsAssumption DEF Remembers, Over
      <4> QED BY <4>2
    <3>2. CASE ~(j \in left \/ j = k)
      <4>1. PICK n \in Nat : Remembers(j, n)
        BY <1>3
      <4>2. Remembers(j, n)'
        BY <1>3, <2>1, <3>2, <4>1 DEF Remembers, Over
      <4> QED BY <4>2
    <3> QED BY <3>1, <3>2
  <2>4. events' \in [Addresses -> Seq(Nat)] /\ recent' \in [Addresses -> Seq(Nat)]
    BY <1>3, <2>1, <2>2
  <2>5. ASSUME NEW j \in Addresses, recent'[j] # recent[j] PROVE Len(recent'[j]) <= LocalCalls
    <3>1. recent'[j] = <<>> \/ recent'[j] = Append(kept, clock)
      BY <2>1, <2>5
    <3>2. Len(<<>>) = 0
      OBVIOUS
    <3> QED BY <1>3, <1>5, <2>2, <3>1, <3>2, RateLimitsAssumption
  <2> QED BY <2>3, <2>4, <2>5 DEF KeysFit
<1> QED BY <1>4, <1>5

-----------------------------------------------------------------------------
(* Shared limiters. *)

\* What a request counts in a row, from the time its clock was read.
LEMMA UpsertCounts ==
    ASSUME RatesInv, NEW r \in Rows, NEW at \in Stamps, NEW cost \in Positive
    PROVE  LET win == windows[r] new == Upsert(r, at, cost) IN
           /\ Window[r[1]] \in Nat /\ Quota(r) \in Nat
           /\ win # NoWindow => win.start \in Stamps /\ win.count \in Positive
           /\ new \in [start : Stamps, count : Positive]
           /\ win = NoWindow \/ win.start <= at - Window[r[1]] =>
                 new.start = at /\ (new.count <= Quota(r) => new.count = cost)
           /\ ~(win = NoWindow \/ win.start <= at - Window[r[1]]) =>
                 /\ new.start = win.start
                 /\ new.count <= Quota(r) => new.count = win.count + cost
                 /\ win.count > Quota(r) => new.count > Quota(r)
<1> DEFINE win == windows[r] over == win = NoWindow \/ win.start <= at - Window[r[1]]
           most == Quota(r) + 1
<1>1. Quota(r) \in Positive /\ Window[r[1]] \in Positive
  BY RateLimitsAssumption DEF Quota, Rows, Positive
<1>2. win \in [start : Stamps, count : Positive] \cup {NoWindow} /\ clock \in Nat
  BY DEF RatesInv, RatesShape
<1>3. win # NoWindow => win.start \in Stamps /\ win.count \in Positive
  BY <1>2
<1>4. CASE over
  <2>1. Upsert(r, at, cost) = [start |-> at, count |-> Min({cost, most})]
    BY <1>4 DEF Upsert
  <2>2. Min({cost, most}) = IF cost <= most THEN cost ELSE most
    BY <1>1, MinOfTwo DEF Positive
  <2> QED BY <1>1, <1>3, <1>4, <2>1, <2>2 DEF Positive
<1>5. CASE ~over
  <2>1. Upsert(r, at, cost) = [win EXCEPT !.count = Min({@ + cost, most})]
    BY <1>5 DEF Upsert
  <2>2. win \in [start : Stamps, count : Positive]
    BY <1>2, <1>5
  <2>3. Min({win.count + cost, most}) = IF win.count + cost <= most THEN win.count + cost ELSE most
    BY <1>1, <2>2, MinOfTwo DEF Positive
  <2>4. Upsert(r, at, cost) = [start |-> win.start, count |-> Min({win.count + cost, most})]
    BY <2>1, <2>2
  <2> QED BY <1>1, <1>3, <1>5, <2>3, <2>4 DEF Positive
<1> QED BY <1>4, <1>5

LEMMA WindowIsThere ==
    ASSUME NEW S, NEW T, NEW win \in [start : S, count : T]
    PROVE  win # NoWindow
<1>1. "start" \in DOMAIN win /\ DOMAIN NoWindow = {}
  BY DEF NoWindow
<1> QED BY <1>1

\* A request is counted: what it is granted fits its window, which begins late enough.
LEMMA RowsStepped ==
    ASSUME RatesInv, NEW q \in Askers, Consumes(q)
    PROVE  /\ RatesShape' /\ RowsCount'
           /\ \A r \in Rows : given'[r] # given[r] =>
                  given'[r].count <= Quota(r) /\ (given[r] = NoWindow \/ WindowsApart(r))
<1> DEFINE ask == asking[q] r == ask.row win == windows[r] gave == given[r]
           new == Upsert(r, ask.now, ask.cost) admitted == new.count <= Quota(r)
           over == win = NoWindow \/ win.start <= ask.now - Window[r[1]]
<1>1. /\ clock \in Nat /\ clock' = clock
      /\ windows \in [Rows -> [start : Stamps, count : Positive] \cup {NoWindow}]
      /\ given \in [Rows -> [start : Stamps, count : Positive] \cup {NoWindow}]
      /\ asking \in [Askers -> [row : Rows, now : Stamps, cost : Positive] \cup {NoWindow}]
      /\ \A p \in Askers : asking[p] # NoWindow => clock <= asking[p].now + Patience
  BY DEF RatesInv, RatesShape, Consumes
<1>2. /\ ask # NoWindow /\ r \in Rows /\ ask.now \in Stamps /\ ask.cost \in Positive
      /\ clock <= ask.now + Patience
  BY <1>1 DEF Consumes
<1>3. /\ Window[r[1]] \in Nat /\ Window[r[1]] <= Horizon /\ Horizon \in Nat
      /\ Patience \in Nat /\ Patience < Window[r[1]]
  BY <1>2, HorizonIsLongest, RateLimitsAssumption DEF Rows
<1>4. /\ windows' = [windows EXCEPT ![r] = new]
      /\ given' = IF admitted THEN [given EXCEPT ![r] = Granted(r, new, ask.cost)] ELSE given
      /\ asking' = [asking EXCEPT ![q] =
             IF admitted /\ r[2] # Wide
             THEN [row |-> <<r[1], Wide>>, now |-> clock, cost |-> ask.cost] ELSE NoWindow]
  BY DEF Consumes
<1>5. /\ Quota(r) \in Nat
      /\ win # NoWindow => win.start \in Stamps /\ win.count \in Positive
      /\ new \in [start : Stamps, count : Positive]
      /\ over => new.start = ask.now /\ (admitted => new.count = ask.cost)
      /\ ~over => /\ new.start = win.start
                  /\ admitted => new.count = win.count + ask.cost
                  /\ win.count > Quota(r) => new.count > Quota(r)
  BY <1>2, UpsertCounts
<1>6. gave # NoWindow =>
        /\ gave.start \in Stamps /\ gave.count \in Positive /\ gave.count <= Quota(r)
        /\ win = NoWindow => gave.start + Horizon < clock
        /\ win # NoWindow =>
             \/ win.start = gave.start /\ gave.count <= win.count
             \/ win.start >= gave.start /\ win.count > Quota(r)
  BY <1>1, <1>2 DEF RatesInv, RowsCount
<1>7. new # NoWindow
  BY <1>5, WindowIsThere
<1>8. RatesShape'
  <2>1. r[1] \in Limiters /\ <<r[1], Wide>> \in Rows
    BY <1>2 DEF Rows
  <2>2. Granted(r, new, ask.cost) \in [start : Stamps, count : Positive]
    <3> HIDE DEF new
    <3> QED BY <1>1, <1>2, <1>5 DEF Granted, Positive
  <2> HIDE DEF new, ask
  <2>3. /\ windows' \in [Rows -> [start : Stamps, count : Positive] \cup {NoWindow}]
        /\ given' \in [Rows -> [start : Stamps, count : Positive] \cup {NoWindow}]
    BY <1>1, <1>2, <1>4, <1>5, <2>2
  <2>4. [row |-> <<r[1], Wide>>, now |-> clock, cost |-> ask.cost]
            \in [row : Rows, now : Stamps, cost : Positive]
    BY <1>1, <1>2, <2>1 DEF Stamps
  <2>5. asking' \in [Askers -> [row : Rows, now : Stamps, cost : Positive] \cup {NoWindow}]
    BY <1>1, <1>4, <2>4
  <2>6. \A p \in Askers : asking'[p] # NoWindow => clock <= asking'[p].now + Patience
    BY <1>1, <1>3, <1>4
  <2> QED BY <1>1, <2>3, <2>5, <2>6 DEF RatesShape, Stamps
<1> HIDE DEF new, win, gave, ask
<1>9. gave # NoWindow => new.start >= gave.start
  BY <1>1, <1>2, <1>3, <1>5, <1>6 DEF Stamps
<1>10. CASE admitted
  <2> DEFINE g == given'[r]
  <2>1. g = Granted(r, new, ask.cost) /\ windows'[r] = new
    BY <1>1, <1>2, <1>4, <1>10
  <2>2. g.start = new.start /\ g.count <= new.count
    <3>1. CASE over
      <4>1. gave # NoWindow => gave.start # new.start
        BY <1>1, <1>2, <1>3, <1>5, <1>6, <3>1 DEF Stamps
      <4>2. g = [start |-> new.start, count |-> ask.cost]
        BY <2>1, <4>1 DEF Granted, gave
      <4> QED BY <1>2, <1>5, <1>10, <3>1, <4>2 DEF Positive
    <3>2. CASE ~over /\ gave # NoWindow
      <4>1. gave.start = new.start /\ gave.count <= win.count
        BY <1>1, <1>2, <1>5, <1>6, <1>10, <3>2 DEF Stamps, Positive
      <4>2. g = [gave EXCEPT !.count = @ + ask.cost]
        BY <2>1, <3>2, <4>1 DEF Granted, gave
      <4>3. gave \in [start : Stamps, count : Positive]
        BY <1>1, <1>2, <3>2 DEF gave
      <4>4. g.start = gave.start /\ g.count = gave.count + ask.cost
        BY <4>2, <4>3
      <4> QED BY <1>2, <1>5, <1>6, <1>10, <3>2, <4>1, <4>4 DEF Positive
    <3>3. CASE ~over /\ gave = NoWindow
      <4>1. g = [start |-> new.start, count |-> ask.cost]
        BY <2>1, <3>3 DEF Granted, gave
      <4> QED BY <1>2, <1>5, <1>10, <3>3, <4>1 DEF Positive
    <3> QED BY <3>1, <3>2, <3>3
  <2>3. g.count <= Quota(r)
    <3>1. g \in [start : Stamps, count : Positive] \cup {NoWindow}
      BY <1>1, <1>2, <1>8 DEF RatesShape, Stamps
    <3>2. g # NoWindow
      <4>1. gave \in [start : Stamps, count : Positive] \cup {NoWindow}
        BY <1>1, <1>2 DEF gave
      <4>2. Granted(r, new, ask.cost) \in [start : Stamps, count : Positive]
        BY <1>1, <1>2, <1>5, <4>1 DEF Granted, Positive, gave
      <4> QED BY <2>1, <4>2, WindowIsThere
    <3> QED BY <1>5, <1>10, <2>2, <3>1, <3>2 DEF Positive
  <2>4. gave = NoWindow \/ WindowsApart(r)
    <3>1. SUFFICES ASSUME gave # NoWindow PROVE WindowsApart(r)
      OBVIOUS
    <3>2. CASE over /\ win = NoWindow
      BY <1>1, <1>2, <1>3, <1>5, <1>6, <2>2, <3>1, <3>2 DEF WindowsApart, Stamps, gave, win
    <3>3. CASE over /\ win # NoWindow
      BY <1>1, <1>2, <1>3, <1>5, <1>6, <2>2, <3>1, <3>3 DEF WindowsApart, Stamps, gave, win
    <3>4. CASE ~over
      BY <1>1, <1>2, <1>5, <1>6, <1>10, <2>2, <3>1, <3>4 DEF WindowsApart, Stamps, Positive, gave, win
    <3> QED BY <3>2, <3>3, <3>4
  <2>5. \A o \in Rows \ {r} : given'[o] = given[o] /\ windows'[o] = windows[o]
    BY <1>1, <1>2, <1>4
  <2>6. \A o \in Rows : given'[o] # given[o] =>
           given'[o].count <= Quota(o) /\ (given[o] = NoWindow \/ WindowsApart(o))
    BY <2>3, <2>4, <2>5 DEF gave
  <2>7. RowsCount'
    BY <1>1, <1>7, <2>1, <2>2, <2>3, <2>5 DEF RatesInv, RowsCount, Quota, Horizon
  <2> QED BY <1>8, <2>6, <2>7
<1>11. CASE ~admitted
  <2>1. given' = given /\ windows'[r] = new
    BY <1>1, <1>2, <1>4, <1>11
  <2>2. \A o \in Rows \ {r} : windows'[o] = windows[o]
    BY <1>1, <1>2, <1>4
  <2>3. new.count > Quota(r)
    BY <1>5, <1>11 DEF Positive
  <2>4. RowsCount'
    BY <1>1, <1>6, <1>7, <1>9, <2>1, <2>2, <2>3 DEF RatesInv, RowsCount, Quota, Horizon, gave
  <2> QED BY <1>8, <2>1, <2>4
<1> QED BY <1>10, <1>11

-----------------------------------------------------------------------------

LEMMA RatesStepped ==
    ASSUME RatesInv, [SharedNext \/ LocalNext]_rateVars
    PROVE  /\ RatesInv'
           /\ \A r \in Rows : given'[r] # given[r] =>
                  given'[r].count <= Quota(r) /\ (given[r] = NoWindow \/ WindowsApart(r))
           /\ \A k \in Addresses : recent'[k] # recent[k] => Len(recent'[k]) <= LocalCalls
<1> USE DEF RatesInv
<1>1. CASE \E q \in Askers : Asks(q)
  <2> PICK q \in Askers : Asks(q)
    BY <1>1
  <2>1. UNCHANGED <<clock, windows, given, events, lru, recent>>
    BY DEF Asks, localVars
  <2>2. PICK l \in Limiters, k \in Principals, cost \in Costs :
           asking' = [asking EXCEPT ![q] = [row |-> <<l, k>>, now |-> clock, cost |-> cost]]
    BY DEF Asks
  <2>3. [row |-> <<l, k>>, now |-> clock, cost |-> cost] \in [row : Rows, now : Stamps, cost : Positive]
    BY RateLimitsAssumption DEF Rows, Stamps, Positive, RatesShape
  <2>4. RatesShape'
    BY <2>1, <2>2, <2>3, RateLimitsAssumption DEF RatesShape, Stamps
  <2>5. RowsCount' /\ KeysFit'
    BY <2>1 DEF RowsCount, KeysFit, Remembers, Over
  <2> QED BY <2>1, <2>4, <2>5
<1>2. CASE \E q \in Askers : Consumes(q)
  <2> PICK q \in Askers : Consumes(q)
    BY <1>2
  <2>1. UNCHANGED <<clock, events, lru, recent>>
    BY DEF Consumes, localVars
  <2>2. KeysFit'
    BY <2>1 DEF KeysFit, Remembers, Over
  <2> QED BY <2>1, <2>2, RowsStepped
<1>3. CASE Purges
  <2>1. UNCHANGED <<clock, asking, given, events, lru, recent>>
    BY <1>3 DEF Purges, localVars
  <2>2. windows' = [r \in Rows |-> IF windows[r] # NoWindow /\ windows[r].start < clock - Horizon
                                  THEN NoWindow ELSE windows[r]]
    BY <1>3 DEF Purges
  <2>3. RatesShape'
    BY <2>1, <2>2 DEF RatesShape, Stamps
  <2>4. RowsCount'
    <3> SUFFICES ASSUME NEW r \in Rows, given[r] # NoWindow
                 PROVE  /\ given[r].count <= Quota(r)
                        /\ windows'[r] = NoWindow => given[r].start + Horizon < clock
                        /\ windows'[r] # NoWindow =>
                             \/ /\ windows'[r].start = given[r].start
                                /\ given[r].count <= windows'[r].count
                             \/ windows'[r].start >= given[r].start /\ windows'[r].count > Quota(r)
      BY <2>1 DEF RowsCount, Quota, Horizon
    <3>1. /\ given[r].count <= Quota(r)
          /\ windows[r] = NoWindow => given[r].start + Horizon < clock
          /\ windows[r] # NoWindow =>
               \/ windows[r].start = given[r].start /\ given[r].count <= windows[r].count
               \/ windows[r].start >= given[r].start /\ windows[r].count > Quota(r)
      BY DEF RowsCount
    <3>2. CASE windows[r] # NoWindow /\ windows[r].start < clock - Horizon
      <4>1. given[r].start \in Nat /\ windows[r].start \in Nat /\ clock \in Nat /\ Horizon \in Nat
        BY <3>2, HorizonIsLongest DEF RatesShape, Stamps
      <4>2. given[r].start <= windows[r].start
        BY <3>1, <3>2, <4>1
      <4>3. windows'[r] = NoWindow
        BY <2>2, <3>2
      <4> QED BY <3>1, <3>2, <4>1, <4>2, <4>3
    <3>3. CASE ~(windows[r] # NoWindow /\ windows[r].start < clock - Horizon)
      <4>1. windows'[r] = windows[r]
        BY <2>2, <3>3
      <4> QED BY <3>1, <4>1
    <3> QED BY <3>2, <3>3
  <2>5. KeysFit'
    BY <2>1 DEF KeysFit, Remembers, Over
  <2> QED BY <2>1, <2>3, <2>4, <2>5
<1>4. CASE ClockTicks
  <2>1. clock' = clock + 1 /\ UNCHANGED <<windows, asking, given, events, lru, recent>>
    BY <1>4 DEF ClockTicks, sharedVars, localVars
  <2>2. \A q \in Askers : asking[q] # NoWindow => clock < asking[q].now + Patience
    BY <1>4 DEF ClockTicks
  <2>3. clock \in Nat /\ Stamps \subseteq Stamps' /\ Horizon \in Nat /\ LocalWindow \in Nat
    BY <2>1, HorizonIsLongest, RateLimitsAssumption DEF RatesShape, Stamps
  <2>4. RatesShape'
    <3>1. \A q \in Askers : asking[q] # NoWindow => asking[q].now \in Nat
      BY DEF RatesShape, Stamps
    <3>2. \A q \in Askers : asking'[q] # NoWindow => clock' <= asking'[q].now + Patience
      BY <2>1, <2>2, <2>3, <3>1, RateLimitsAssumption
    <3>3. /\ windows' \in [Rows -> [start : Stamps', count : Positive] \cup {NoWindow}]
          /\ given' \in [Rows -> [start : Stamps', count : Positive] \cup {NoWindow}]
      BY <2>1, <2>3 DEF RatesShape
    <3>4. asking' \in [Askers -> [row : Rows, now : Stamps', cost : Positive] \cup {NoWindow}]
      BY <2>1, <2>3 DEF RatesShape
    <3> QED BY <2>1, <2>3, <3>2, <3>3, <3>4 DEF RatesShape
  <2>5. RowsCount'
    <3>1. \A r \in Rows : given[r] # NoWindow => given[r].start \in Nat
      BY DEF RatesShape, Stamps
    <3> QED BY <2>1, <2>3, <3>1 DEF RowsCount, Quota, Horizon
  <2>6. KeysFit'
    <3>1. ASSUME NEW k \in Addresses PROVE \E n \in Nat : Remembers(k, n)'
      <4>1. PICK n \in Nat : Remembers(k, n)
        BY DEF KeysFit
      <4>2. recent[k] \in Seq(Nat) /\ events[k] \in Seq(Nat)
        BY DEF KeysFit
      <4>3. \A i \in 1 .. n : i \in 1 .. Len(recent[k]) /\ recent[k][i] \in Nat
        BY <4>1, <4>2 DEF Remembers
      <4>4. \A i \in 1 .. n : recent[k][i] <= clock' - LocalWindow
        BY <2>1, <2>3, <4>1, <4>3 DEF Remembers, Over
      <4>5. Remembers(k, n)'
        BY <2>1, <4>1, <4>4 DEF Remembers, Over
      <4> QED BY <4>5
    <3> QED BY <2>1, <3>1 DEF KeysFit
  <2> QED BY <2>1, <2>4, <2>5, <2>6
<1>5. CASE \E k \in Addresses : ConsumesHere(k)
  <2> PICK k \in Addresses : ConsumesHere(k)
    BY <1>5
  <2>1. UNCHANGED <<clock, windows, asking, given>>
    BY DEF ConsumesHere, sharedVars
  <2>2. RatesShape' /\ RowsCount'
    BY <2>1 DEF RatesShape, Stamps, RowsCount, Quota, Horizon
  <2>3. /\ KeysFit'
        /\ \A j \in Addresses : recent'[j] # recent[j] => Len(recent'[j]) <= LocalCalls
    <3> HIDE DEF RatesInv
    <3> QED BY KeysStepped
  <2> QED BY <2>1, <2>2, <2>3
<1>6. CASE UNCHANGED rateVars
  <2>1. RatesShape' /\ RowsCount' /\ KeysFit'
    BY <1>6 DEF rateVars, RatesShape, Stamps, RowsCount, Quota, Horizon, KeysFit, Remembers, Over
  <2> QED BY <1>6, <2>1 DEF rateVars
<1> QED BY <1>1, <1>2, <1>3, <1>4, <1>5, <1>6 DEF SharedNext, LocalNext

LEMMA RatesBegin == RatesRest => RatesInv
<1> SUFFICES ASSUME RatesRest PROVE RatesInv
  OBVIOUS
<1>1. \A r \in Rows : windows[r] = NoWindow /\ given[r] = NoWindow
  BY DEF RatesRest
<1>2. RatesShape /\ RowsCount
  BY <1>1 DEF RatesRest, RatesShape, RowsCount
<1>3. <<>> \in Seq(Nat) /\ Len(<<>>) = 0
  OBVIOUS
<1>4. \A k \in Addresses : Remembers(k, 0)
  BY <1>3 DEF RatesRest, Remembers, Over
<1>5. KeysFit
  BY <1>3, <1>4 DEF RatesRest, KeysFit
<1> QED BY <1>2, <1>5 DEF RatesInv

\* What a row counts covers what it granted, until it is purged after every window is over; and
\* what a limiter remembers of a key are its last grants.
THEOREM RatesInvHolds == RatesSpec => []RatesInv
<1>1. RatesRest => RatesInv
  BY RatesBegin
<1>2. RatesInv /\ [SharedNext \/ LocalNext]_rateVars => RatesInv'
  BY RatesStepped
<1> QED BY <1>1, <1>2, PTL DEF RatesSpec

\* No row grants more than its quota in a window, whatever requests overlap, wait or are
\* purged, nor a limiter in memory in any interval.
THEOREM QuotasAreKept == RatesSpec => QuotaKept
<1>1. RatesInv /\ [SharedNext \/ LocalNext]_rateVars =>
        [/\ \A r \in Rows : given'[r] # given[r] =>
              given'[r].count <= Quota(r) /\ (given[r] = NoWindow \/ WindowsApart(r))
         /\ \A k \in Addresses : recent'[k] # recent[k] => Len(recent'[k]) <= LocalCalls]_rateVars
  BY RatesStepped
<1> QED BY <1>1, RatesInvHolds, PTL DEF RatesSpec, QuotaKept

\* The bounds of the counts, of the keys a process remembers and of the grants of each.
RatesBound ==
    /\ clock \in 0 .. LastNow
    /\ \A r \in Rows : windows[r] # NoWindow => windows[r].count <= Quota(r) + 1
    /\ lru \in Seq(Addresses) /\ Len(lru) <= Slots
    /\ \A k \in Addresses : Len(events[k]) <= LocalCalls /\ (events[k] # <<>> => k \in Range(lru))

\* The place of an element in a sequence.
LEMMA PlaceInSeq ==
    ASSUME NEW S, NEW s \in Seq(S), NEW k
    PROVE  k \in Range(s) <=> \E i \in 1 .. Len(s) : s[i] = k
BY RangeEquality

\* A key that moves to the end leaves the others where they are, in their order.
LEMMA FirstIsRemoved ==
    ASSUME NEW S, NEW s \in Seq(S), NEW k
    PROVE  /\ RemoveFirst(s, k) \in Seq(S)
           /\ k \in Range(s) => Len(RemoveFirst(s, k)) = Len(s) - 1
           /\ k \notin Range(s) => RemoveFirst(s, k) = s
           /\ \A e \in Range(s) \ {k} : e \in Range(RemoveFirst(s, k))
<1>1. CASE ~\E i \in 1 .. Len(s) : s[i] = k
  <2>1. RemoveFirst(s, k) = s
    BY <1>1 DEF RemoveFirst
  <2> QED BY <1>1, <2>1, PlaceInSeq
<1>2. CASE \E i \in 1 .. Len(s) : s[i] = k
  <2> DEFINE L == {i \in 1 .. Len(s) : s[i] = k}
             R == {p \in Nat \X Nat : p[1] < p[2]}
             m == Min(L)
  <2>1. m \in L
    <3>1. L \subseteq Nat /\ L # {}
      BY <1>2
    <3>2. PICK x \in L : \A y \in L : <<y, x>> \notin R
      <4>1. IsWellFoundedOn(R, Nat)
        BY NatLessThanWellFounded DEF OpToRel
      <4> HIDE DEF L, R
      <4> QED BY <3>1, <4>1, WFMin
    <3>3. \A y \in L : ~(y < x)
      BY <3>1, <3>2
    <3>4. \A y \in L : y \in Nat /\ x \in Nat
      BY <3>1
    <3> HIDE DEF L
    <3>5. \A y \in L : x <= y
      BY <3>3, <3>4
    <3> QED BY <3>5 DEF Min
  <2>2. RemoveFirst(s, k) = SubSeq(s, 1, m - 1) \o SubSeq(s, m + 1, Len(s))
    BY <1>2 DEF RemoveFirst, SelectInSeq, RemoveAt
  <2>3. m \in 1 .. Len(s) /\ s[m] = k /\ Len(s) \in Nat
    BY <2>1
  <2> HIDE DEF m
  <2> DEFINE before == SubSeq(s, 1, m - 1) after == SubSeq(s, m + 1, Len(s))
  <2>4. /\ before \in Seq(S) /\ Len(before) = m - 1
        /\ \A i \in 1 .. m - 1 : before[i] = s[i]
    <3>1. \A i \in 1 .. m - 1 : s[i] \in S
      BY <2>3
    <3>2. m - 1 \in Int /\ 1 \in Int
      BY <2>3
    <3>3. /\ before \in Seq(S) /\ Len(before) = IF 1 <= m - 1 THEN (m - 1) - 1 + 1 ELSE 0
          /\ \A i \in 1 .. (m - 1) - 1 + 1 : before[i] = s[1 + i - 1]
      <4> HIDE DEF before
      <4> QED BY <3>1, <3>2, SubSeqProperties DEF before
    <3> HIDE DEF before
    <3>4. \A i \in 1 .. m - 1 : i \in 1 .. (m - 1) - 1 + 1 /\ 1 + i - 1 = i
      BY <2>3
    <3> QED BY <2>3, <3>3, <3>4
  <2>5. /\ after \in Seq(S) /\ Len(after) = Len(s) - m
        /\ \A i \in 1 .. Len(s) - m : after[i] = s[m + i]
    <3>1. \A i \in m + 1 .. Len(s) : s[i] \in S
      BY <2>3
    <3>2. m + 1 \in Int /\ Len(s) \in Int
      BY <2>3
    <3>3. /\ after \in Seq(S) /\ Len(after) = IF m + 1 <= Len(s) THEN Len(s) - (m + 1) + 1 ELSE 0
          /\ \A i \in 1 .. Len(s) - (m + 1) + 1 : after[i] = s[m + 1 + i - 1]
      <4> HIDE DEF after
      <4> QED BY <3>1, <3>2, SubSeqProperties DEF after
    <3> HIDE DEF after
    <3>4. \A i \in 1 .. Len(s) - m : i \in 1 .. Len(s) - (m + 1) + 1 /\ m + 1 + i - 1 = m + i
      BY <2>3
    <3> QED BY <2>3, <3>3, <3>4
  <2> HIDE DEF before, after
  <2> DEFINE rest == before \o after
  <2>6. /\ rest \in Seq(S) /\ Len(rest) = Len(s) - 1
        /\ \A i \in 1 .. Len(s) - 1 : rest[i] = IF i <= m - 1 THEN before[i] ELSE after[i - (m - 1)]
    <3>1. /\ rest \in Seq(S) /\ Len(rest) = Len(before) + Len(after)
          /\ \A i \in 1 .. Len(before) + Len(after) :
                rest[i] = IF i <= Len(before) THEN before[i] ELSE after[i - Len(before)]
      <4> HIDE DEF rest
      <4> QED BY <2>4, <2>5, ConcatProperties DEF rest
    <3>2. Len(before) + Len(after) = Len(s) - 1
      BY <2>3, <2>4, <2>5
    <3> QED BY <2>4, <3>1, <3>2
  <2> HIDE DEF rest
  <2>7. ASSUME NEW e \in Range(s) \ {k} PROVE e \in Range(rest)
    <3>1. PICK i \in 1 .. Len(s) : s[i] = e
      BY PlaceInSeq
    <3>2. i # m
      BY <2>3, <3>1
    <3>3. CASE i < m
      <4>1. i \in 1 .. Len(s) - 1 /\ i <= m - 1 /\ i \in 1 .. m - 1
        BY <2>3, <3>3
      <4>2. rest[i] = e
        BY <2>4, <2>6, <3>1, <4>1
      <4> QED BY <2>6, <4>1, <4>2, PlaceInSeq
    <3>4. CASE i > m
      <4>1. /\ i - 1 \in 1 .. Len(s) - 1 /\ ~(i - 1 <= m - 1)
            /\ (i - 1) - (m - 1) = i - m /\ i - m \in 1 .. Len(s) - m /\ m + (i - m) = i
        BY <2>3, <3>4
      <4>2. rest[i - 1] = e
        BY <2>5, <2>6, <3>1, <4>1
      <4> QED BY <2>6, <4>1, <4>2, PlaceInSeq
    <3> QED BY <2>3, <3>2, <3>3, <3>4
  <2>8. k \in Range(s)
    BY <1>2, PlaceInSeq
  <2> QED BY <2>2, <2>6, <2>7, <2>8 DEF rest, before, after
<1> QED BY <1>1, <1>2

\* A process remembers at most Slots keys, every key it has grants of among them, and at most
\* the quota of each.
LEMMA KeysBounded ==
    ASSUME RatesInv, RatesBound, NEW k \in Addresses, ConsumesHere(k)
    PROVE  RatesBound'
<1> DEFINE kept == LiveEvents(events[k])
           order == Append(RemoveFirst(lru, k), k)
           left == IF Len(order) > Slots THEN {Head(order)} ELSE {}
<1>1. /\ events \in [Addresses -> Seq(Nat)] /\ lru \in Seq(Addresses) /\ Len(lru) <= Slots
      /\ clock \in Nat /\ LocalCalls \in Nat \ {0} /\ Slots \in Nat \ {0}
      /\ \A j \in Addresses : Len(events[j]) <= LocalCalls /\ (events[j] # <<>> => j \in Range(lru))
  BY RateLimitsAssumption DEF RatesInv, KeysFit, RatesShape, RatesBound
<1>2. kept \in Seq(Nat) /\ Len(kept) <= Len(events[k]) /\ Len(events[k]) \in Nat /\ Len(kept) \in Nat
  <2>1. events[k] \in Seq(Nat)
    BY <1>1
  <2>2. Expired(events[k]) \in 0 .. Len(events[k])
    BY <1>1, <2>1, ExpiredStops
  <2>3. kept \in Seq(Nat) /\ Len(kept) = Len(events[k]) - Expired(events[k])
    BY <2>1, <2>2, RestOfEvents DEF LiveEvents
  <2> QED BY <2>1, <2>2, <2>3
<1>3. /\ RemoveFirst(lru, k) \in Seq(Addresses)
      /\ k \in Range(lru) => Len(RemoveFirst(lru, k)) = Len(lru) - 1
      /\ k \notin Range(lru) => RemoveFirst(lru, k) = lru
      /\ \A e \in Range(lru) \ {k} : e \in Range(RemoveFirst(lru, k))
  BY <1>1, FirstIsRemoved
<1>4. /\ order \in Seq(Addresses) /\ order # <<>> /\ Len(order) = Len(RemoveFirst(lru, k)) + 1
      /\ \A i \in 1 .. Len(order) - 1 : order[i] = RemoveFirst(lru, k)[i]
      /\ order[Len(order)] = k /\ Len(order) \in Nat \ {0}
  <2> DEFINE s == RemoveFirst(lru, k)
  <2>1. /\ Append(s, k) \in Seq(Addresses) /\ Append(s, k) # <<>> /\ Len(Append(s, k)) = Len(s) + 1
        /\ \A i \in 1 .. Len(s) : Append(s, k)[i] = s[i]
        /\ Append(s, k)[Len(s) + 1] = k
    <3> HIDE DEF s
    <3> QED BY <1>3, AppendProperties DEF s
  <2>2. Len(s) \in Nat
    BY <1>3
  <2> HIDE DEF s
  <2> QED BY <2>1, <2>2 DEF s
<1>5. \A e \in Addresses : e \in Range(lru) \/ e = k => e \in Range(order)
  <2> SUFFICES ASSUME NEW e \in Addresses, e \in Range(lru) \/ e = k PROVE e \in Range(order)
    OBVIOUS
  <2> HIDE DEF order
  <2>1. CASE e = k
    <3>1. Len(order) \in 1 .. Len(order) /\ order[Len(order)] = e
      BY <1>4, <2>1
    <3> QED BY <1>4, <3>1, PlaceInSeq
  <2>2. CASE e # k
    <3>1. PICK i \in 1 .. Len(RemoveFirst(lru, k)) : RemoveFirst(lru, k)[i] = e
      BY <1>3, <2>2, PlaceInSeq
    <3>2. i \in 1 .. Len(order) /\ order[i] = e
      BY <1>3, <1>4, <3>1
    <3> QED BY <1>4, <3>2, PlaceInSeq
  <2> QED BY <2>1, <2>2
<1>6. /\ Len(order) <= Slots + 1
      /\ k \in Range(lru) => Len(order) <= Slots
  <2> HIDE DEF order
  <2> QED BY <1>1, <1>3, <1>4
<1>7. UNCHANGED <<clock, windows>>
  BY DEF ConsumesHere, sharedVars
<1>8. CASE Len(kept) + 1 > LocalCalls
  <2>1. events' = [events EXCEPT ![k] = kept] /\ lru' = order
    BY <1>8 DEF ConsumesHere
  <2> HIDE DEF kept, order
  <2>2. events[k] # <<>>
    BY <1>1, <1>2, <1>8
  <2>3. k \in Range(lru)
    BY <1>1, <2>2
  <2>4. \A j \in Addresses : Len(events'[j]) <= LocalCalls
    <3>1. Len(kept) <= LocalCalls
      BY <1>1, <1>2
    <3> QED BY <1>1, <2>1, <3>1
  <2>5. \A j \in Addresses : events'[j] # <<>> => j \in Range(order)
    BY <1>1, <1>5, <2>1, <2>3
  <2> QED BY <1>4, <1>6, <1>7, <2>1, <2>3, <2>4, <2>5 DEF RatesBound, Quota
<1>9. CASE ~(Len(kept) + 1 > LocalCalls)
  <2>1. /\ events' = [j \in Addresses |-> IF j \in left THEN <<>>
                            ELSE IF j = k THEN Append(kept, clock) ELSE events[j]]
        /\ lru' = IF left = {} THEN order ELSE Tail(order)
    BY <1>9 DEF ConsumesHere
  <2> HIDE DEF kept
  <2>2. Len(Append(kept, clock)) = Len(kept) + 1 /\ Len(<<>>) = 0
    BY <1>1, <1>2
  <2> HIDE DEF left, order
  <2>3. \A j \in Addresses : Len(events'[j]) <= LocalCalls
    BY <1>1, <1>2, <1>9, <2>1, <2>2
  <2>4. CASE Len(order) > Slots
    <3>1. left = {Head(order)} /\ lru' = Tail(order)
      BY <2>1, <2>4 DEF left
    <3>2. /\ Tail(order) \in Seq(Addresses) /\ Len(Tail(order)) = Len(order) - 1
          /\ \A i \in 1 .. Len(Tail(order)) : Tail(order)[i] = order[i + 1]
      BY <1>4, HeadTailProperties
    <3>3. Head(order) = order[1]
      BY <1>4
    <3>4. ASSUME NEW j \in Addresses, events'[j] # <<>> PROVE j \in Range(Tail(order))
      <4>1. j \notin left /\ (j = k \/ events[j] # <<>>)
        BY <2>1, <3>4
      <4>2. j # order[1] /\ j \in Range(order)
        BY <1>1, <1>5, <3>1, <3>3, <4>1
      <4>3. PICK i \in 1 .. Len(order) : order[i] = j
        BY <1>4, <4>2, PlaceInSeq
      <4>4. i - 1 \in 1 .. Len(Tail(order)) /\ Tail(order)[i - 1] = j
        <5>1. i # 1
          BY <4>2, <4>3
        <5>2. i - 1 \in 1 .. Len(Tail(order)) /\ (i - 1) + 1 = i
          BY <1>4, <3>2, <5>1
        <5> QED BY <3>2, <4>3, <5>2
      <4> QED BY <3>2, <4>4, PlaceInSeq
    <3>5. Len(Tail(order)) <= Slots
      BY <1>1, <1>4, <1>6, <3>2
    <3> QED BY <1>7, <2>3, <3>1, <3>2, <3>4, <3>5 DEF RatesBound, Quota
  <2>5. CASE ~(Len(order) > Slots)
    <3>1. left = {} /\ lru' = order
      BY <2>1, <2>5 DEF left
    <3>2. \A j \in Addresses : events'[j] # <<>> => j \in Range(order)
      BY <1>1, <1>5, <2>1, <3>1
    <3>3. Len(order) <= Slots
      BY <1>1, <1>4, <2>5
    <3> QED BY <1>4, <1>7, <2>3, <3>1, <3>2, <3>3 DEF RatesBound, Quota
  <2> QED BY <2>4, <2>5
<1> QED BY <1>8, <1>9

LEMMA RatesBoundStep ==
    ASSUME RatesInv, RatesBound, [SharedNext \/ LocalNext]_rateVars
    PROVE  RatesBound'
<1>1. CASE \E q \in Askers : Asks(q)
  BY <1>1 DEF Asks, localVars, RatesBound, Quota
<1>2. CASE \E q \in Askers : Consumes(q)
  <2>1. PICK q \in Askers : Consumes(q)
    BY <1>2
  <2> DEFINE ask == asking[q] r == ask.row new == Upsert(r, ask.now, ask.cost)
  <2>2. UNCHANGED <<clock, events, lru>> /\ windows' = [windows EXCEPT ![r] = new] /\ ask # NoWindow
    BY <2>1 DEF Consumes, localVars
  <2>3. ask \in [row : Rows, now : Stamps, cost : Positive] /\ windows \in [Rows -> [start : Stamps, count : Positive] \cup {NoWindow}]
    BY <2>2 DEF RatesInv, RatesShape
  <2>4. new.count <= Quota(r) + 1
    <3>1. r \in Rows /\ ask.now \in Stamps /\ ask.cost \in Positive /\ Quota(r) + 1 \in Nat /\ clock \in Nat
      BY <2>3, RateLimitsAssumption DEF Quota, Rows, RatesInv, RatesShape
    <3> HIDE DEF r
    <3>2. CASE windows[r] = NoWindow \/ windows[r].start <= ask.now - Window[r[1]]
      <4>1. new.count = Min({ask.cost, Quota(r) + 1})
        BY <3>2 DEF Upsert
      <4>2. ask.cost \in Nat
        BY <3>1 DEF Positive
      <4> QED BY <3>1, <4>1, <4>2, MinOfTwo
    <3>3. CASE ~(windows[r] = NoWindow \/ windows[r].start <= ask.now - Window[r[1]])
      <4>1. windows[r] \in [start : Stamps, count : Positive]
        BY <2>3, <3>1, <3>3
      <4>2. new.count = Min({windows[r].count + ask.cost, Quota(r) + 1})
        BY <3>3, <4>1 DEF Upsert
      <4>3. windows[r].count + ask.cost \in Nat
        BY <3>1, <4>1 DEF Positive
      <4> QED BY <3>1, <4>2, <4>3, MinOfTwo
    <3> QED BY <3>2, <3>3
  <2> HIDE DEF new, ask
  <2> QED BY <2>2, <2>3, <2>4 DEF RatesBound, Quota
<1>3. CASE Purges
  BY <1>3 DEF Purges, localVars, RatesBound, Quota
<1>4. CASE ClockTicks
  BY <1>4, RateLimitsAssumption DEF ClockTicks, sharedVars, localVars, RatesBound, Quota
<1>5. CASE \E k \in Addresses : ConsumesHere(k)
  BY <1>5, KeysBounded
<1>6. CASE UNCHANGED rateVars
  BY <1>6 DEF rateVars, RatesBound, Quota
<1> QED BY <1>1, <1>2, <1>3, <1>4, <1>5, <1>6 DEF SharedNext, LocalNext

LEMMA RatesTyped == RatesInv /\ RatesBound => RatesTypeOK
<1> SUFFICES ASSUME RatesInv, RatesBound PROVE RatesTypeOK
  OBVIOUS
<1>1. clock \in 0 .. LastNow /\ LastNow \in Nat /\ clock \in Nat
  BY RateLimitsAssumption DEF RatesBound
<1>2. ASSUME NEW r \in Rows, windows[r] # NoWindow
      PROVE  windows[r].start \in 0 .. LastNow /\ windows[r].count \in 1 .. Quota(r) + 1
  <2>1. windows[r].start \in 0 .. clock /\ windows[r].count \in Nat \ {0}
    BY <1>2 DEF RatesInv, RatesShape, Stamps, Positive
  <2>2. windows[r].count <= Quota(r) + 1 /\ Quota(r) \in Nat
    BY <1>2, RateLimitsAssumption DEF RatesBound, Quota
  <2> QED BY <1>1, <2>1, <2>2
<1>3. \A q \in Askers : asking[q] = NoWindow \/ asking[q].row \in Rows
  BY DEF RatesInv, RatesShape
<1>4. Range(lru) \subseteq Addresses
  BY RangeOfSeq DEF RatesBound
<1> QED BY <1>1, <1>2, <1>3, <1>4 DEF RatesBound, RatesTypeOK

-----------------------------------------------------------------------------
(* Sharing: what came with a resource, until its withdrawal is over. *)

SharesShape ==
    /\ agentsOf \in [Workflows -> SUBSET Agents] /\ needs \in [Agents -> SUBSET Pieces]
    /\ shares \in [Resources -> {"no", "cascade", "hand"}]

\* What came and is there is still to be looked at, or an agent of another shared workflow, or
\* needed by an agent the team can run or one still to be looked at.
Accounted(x) ==
    \/ x \in request.todo
    \/ x \in Agents /\ Elsewhere(x, request.of)
    \/ x \in StillNeeded(shares, {})
    \/ \E a \in request.todo \cap Agents : x \in needs[a]

\* A withdrawal looks only at what came in a cascade; no shared agent needs the pieces it is
\* about to take.
WithdrawalFits ==
    request.op = "unshare" =>
        /\ request.of \in Resources /\ shares[request.of] = "no"
        /\ request.todo \subseteq Agents \cup Pieces /\ request.came \subseteq Agents \cup Pieces
        /\ \A x \in request.todo : shares[x] = "cascade"
        /\ \A p \in request.todo \cap Pieces, a \in Agents : p \in needs[a] => shares[a] = "no"
        /\ \A x \in request.came : shares[x] = "cascade" => Accounted(x)

SharingInv == SharesShape /\ WithdrawalFits

\* What a step that ends a withdrawal leaves, and what any step takes.
Undone ==
    /\ request.op = "unshare" /\ request' = NoRequest /\ ~CutShort =>
         \A r \in request.came : shares'[r] = "cascade" =>
             IF r \in Agents THEN Elsewhere(r, request.of) ELSE r \in StillNeeded(shares', {})
    /\ \A r \in Resources :
         /\ shares[r] = "hand" => shares'[r] = "hand" \/ request = NoRequest
         /\ shares[r] = "cascade" /\ shares'[r] = "no" /\ request # NoRequest =>
               \A x \in Resources : r \in Brings(x) => shares'[x] = "no"

-----------------------------------------------------------------------------

LEMMA KindsAreApart ==
    /\ \A w \in Workflows : w \in Resources /\ w \notin Agents /\ w \notin Pieces
    /\ \A a \in Agents : a \in Resources /\ a \notin Workflows /\ a \notin Pieces
    /\ \A p \in Pieces : p \in Resources /\ p \notin Workflows /\ p \notin Agents
BY SharingAssumption DEF Resources

\* What the team needs depends on which agents and workflows it has, and less remains without one.
LEMMA NeededWithout ==
    ASSUME SharesShape, NEW a \in Agents, NEW x \in StillNeeded(shares, {a}),
           NEW s, \A y \in Resources \ {a} : s[y] = shares[y]
    PROVE  x \in StillNeeded(s, {})
<1>1. PICK b \in (Shared(shares) \cap Agents) \cup UNION {agentsOf[w] : w \in Shared(shares) \cap Workflows} :
          b # a /\ x \in needs[b]
  BY DEF StillNeeded
<1>2. CASE b \in Shared(shares) \cap Agents
  BY <1>1, <1>2, KindsAreApart DEF StillNeeded, Shared
<1>3. CASE \E w \in Shared(shares) \cap Workflows : b \in agentsOf[w]
  BY <1>1, <1>3, KindsAreApart DEF StillNeeded, Shared
<1> QED BY <1>1, <1>2, <1>3

\* A withdrawal begins.
LEMMA WithdrawalBegins ==
    ASSUME SharingInv, NEW r \in Resources, Unshare(r)
    PROVE  SharingInv' /\ Undone
<1> DEFINE came == Came(r) \cup UNION {Came(a) : a \in Came(r) \cap Agents}
           todo == IF r \in Agents THEN LeavesWith(shares', r) ELSE Came(r)
<1>1. /\ request = NoRequest /\ shares' = [shares EXCEPT ![r] = "no"]
      /\ UNCHANGED <<agentsOf, needs>>
      /\ request' = IF todo = {} THEN NoRequest
                    ELSE [op |-> "unshare", of |-> r, came |-> came, todo |-> todo]
  <2>1. /\ request = NoRequest /\ shares' = [shares EXCEPT ![r] = "no"]
        /\ Going("unshare", r, came, todo)
    BY DEF Unshare
  <2> HIDE DEF todo, came
  <2> QED BY <2>1 DEF Going
<1>2. SharesShape'
  BY <1>1 DEF SharingInv, SharesShape
<1>3. Undone
  BY <1>1 DEF Undone, NoRequest
<1>4. shares'[r] = "no" /\ \A y \in Resources \ {r} : shares'[y] = shares[y]
  BY <1>1 DEF SharingInv, SharesShape
<1>5. /\ \A a \in Agents : Came(a) \subseteq Pieces /\ Came(a) = {p \in needs[a] : shares[p] = "cascade"}
      /\ r \in Pieces => Came(r) = {}
      /\ r \in Workflows => Came(r) \subseteq Agents
      /\ \A x \in Came(r) : shares[x] = "cascade"
  BY KindsAreApart DEF SharingInv, SharesShape, Came, Brings
<1>6. came \subseteq Agents \cup Pieces
  BY <1>5 DEF Resources
<1> HIDE DEF came
<1>7. CASE r \in Agents
  <2>1. todo = {p \in needs[r] : shares'[p] = "cascade"} \ StillNeeded(shares', {r})
    BY <1>7 DEF LeavesWith
  <2>2. todo \subseteq Pieces /\ \A x \in todo : shares'[x] = "cascade"
    BY <1>7, <2>1 DEF SharingInv, SharesShape
  <2>3. \A p \in todo, a \in Agents : p \in needs[a] => shares'[a] = "no"
    <3> SUFFICES ASSUME NEW p \in todo, NEW a \in Agents, p \in needs[a], shares'[a] # "no" PROVE FALSE
      OBVIOUS
    <3>1. a # r /\ a \in Shared(shares')
      BY <1>4, KindsAreApart DEF Shared
    <3> QED BY <1>1, <2>1, <3>1 DEF StillNeeded
  <2>4. \A x \in came : shares'[x] = "cascade" => x \in todo \/ x \in StillNeeded(shares', {})
    <3> SUFFICES ASSUME NEW x \in came, shares'[x] = "cascade", x \notin todo
                 PROVE  x \in StillNeeded(shares', {})
      OBVIOUS
    <3>1. x \in needs[r]
      BY <1>5, <1>7, KindsAreApart DEF came
    <3>2. x \in StillNeeded(shares', {r})
      BY <2>1, <3>1
    <3> QED BY <3>2 DEF StillNeeded
  <2> HIDE DEF todo
  <2>5. WithdrawalFits'
    <3>1. CASE todo = {}
      BY <1>1, <3>1 DEF WithdrawalFits, NoRequest
    <3>2. CASE todo # {}
      <4>1. request' = [op |-> "unshare", of |-> r, came |-> came, todo |-> todo]
        BY <1>1, <3>2
      <4>2. request'.of = r /\ request'.came = came /\ request'.todo = todo
        BY <4>1
      <4>3. StillNeeded(shares', {}) = StillNeeded(shares, {})'
        BY <1>1 DEF StillNeeded, Shared
      <4>4. \A x \in came : shares'[x] = "cascade" => Accounted(x)'
        BY <2>4, <4>2, <4>3 DEF Accounted
      <4> QED BY <1>1, <1>4, <1>6, <2>2, <2>3, <4>2, <4>4 DEF WithdrawalFits
    <3> QED BY <3>1, <3>2
  <2> QED BY <1>2, <1>3, <2>5 DEF SharingInv
<1>8. CASE r \notin Agents
  <2>1. todo = Came(r) /\ r \notin todo
    BY <1>5, <1>8, KindsAreApart DEF Resources
  <2>2. todo \subseteq Agents /\ \A x \in todo : shares'[x] = "cascade"
    BY <1>4, <1>5, <1>8, <2>1, KindsAreApart DEF Resources
  <2>3. \A x \in came : x \in todo \/ \E a \in todo \cap Agents : x \in needs[a]
    BY <1>5, <2>1 DEF came
  <2>4. WithdrawalFits'
    BY <1>1, <1>4, <1>6, <2>2, <2>3, KindsAreApart DEF WithdrawalFits, Accounted, NoRequest
  <2> QED BY <1>2, <1>3, <2>4 DEF SharingInv
<1> QED BY <1>7, <1>8

\* A withdrawal goes on with r.
LEMMA WithdrawalGoesOn ==
    ASSUME SharingInv, NEW r \in Resources, UnshareNext(r)
    PROVE  SharingInv' /\ Undone
<1> DEFINE kept == r \in Agents /\ Elsewhere(r, request.of)
           todo == (request.todo \ {r}) \cup
                       (IF r \in Agents /\ ~kept THEN LeavesWith(shares', r) ELSE {})
<1>1. /\ request.op = "unshare" /\ r \in request.todo
      /\ shares' = [shares EXCEPT ![r] = IF kept THEN @ ELSE "no"]
      /\ UNCHANGED <<agentsOf, needs>>
      /\ request' = IF todo = {} THEN NoRequest
                    ELSE [op |-> "unshare", of |-> request.of, came |-> request.came, todo |-> todo]
  <2>1. /\ Turn("unshare", r) /\ Going("unshare", request.of, request.came, todo)
        /\ shares' = [shares EXCEPT ![r] = IF kept THEN @ ELSE "no"]
    BY DEF UnshareNext
  <2> HIDE DEF todo, kept
  <2> QED BY <2>1 DEF Going, Turn
<1>2. SharesShape'
  BY <1>1 DEF SharingInv, SharesShape
<1>3. /\ request.of \in Resources /\ shares[request.of] = "no"
      /\ request.todo \subseteq Agents \cup Pieces /\ request.came \subseteq Agents \cup Pieces
      /\ \A x \in request.todo : shares[x] = "cascade"
      /\ \A p \in request.todo \cap Pieces, a \in Agents : p \in needs[a] => shares[a] = "no"
      /\ \A x \in request.came : shares[x] = "cascade" => Accounted(x)
  BY <1>1 DEF SharingInv, WithdrawalFits
<1>4. /\ shares'[r] = IF kept THEN shares[r] ELSE "no"
      /\ \A y \in Resources \ {r} : shares'[y] = shares[y]
      /\ shares[r] = "cascade" /\ r # request.of
  BY <1>1, <1>3 DEF SharingInv, SharesShape
<1>5. r \notin Workflows /\ r \in Agents \cup Pieces
  BY <1>1, <1>3, KindsAreApart
<1>6. Shared(shares') \cap Workflows = Shared(shares) \cap Workflows
  BY <1>4, <1>5, KindsAreApart DEF Shared
<1>7. \A x \in StillNeeded(shares, {}) : (~kept /\ r \in Agents /\ x \in needs[r]) \/ x \in StillNeeded(shares', {})
  <2> SUFFICES ASSUME NEW x \in StillNeeded(shares, {}), kept \/ r \notin Agents \/ x \notin needs[r]
               PROVE  x \in StillNeeded(shares', {})
    OBVIOUS
  <2>1. CASE kept
    <3>1. shares' = shares
      BY <1>1, <2>1 DEF SharingInv, SharesShape
    <3> QED BY <1>1, <3>1 DEF StillNeeded, Shared
  <2>2. CASE r \notin Agents
    <3>1. Shared(shares') \cap Agents = Shared(shares) \cap Agents
      BY <1>4, <2>2, KindsAreApart DEF Shared
    <3> QED BY <1>6, <3>1 DEF StillNeeded
  <2>3. CASE r \in Agents /\ x \notin needs[r]
    <3>1. x \in StillNeeded(shares, {r})
      BY <2>3 DEF StillNeeded
    <3> QED BY <1>4, <2>3, <3>1, NeededWithout DEF SharingInv
  <2> QED BY <2>1, <2>2, <2>3
<1> HIDE DEF kept
<1>8. ASSUME NEW x \in request.came, shares'[x] = "cascade"
      PROVE  \/ x \in todo
             \/ x \in Agents /\ Elsewhere(x, request.of)
             \/ x \in StillNeeded(shares', {})
             \/ \E a \in todo \cap Agents : x \in needs[a]
  <2>1. shares[x] = "cascade" /\ x \in Resources /\ (x = r => kept)
    BY <1>3, <1>4, <1>8 DEF Resources
  <2>2. ASSUME r \in Agents, ~kept, x \in needs[r] PROVE x \in todo \/ x \in StillNeeded(shares', {})
    <3>1. x \in LeavesWith(shares', r) \/ x \in StillNeeded(shares', {r})
      BY <1>8, <2>2 DEF LeavesWith
    <3> QED BY <2>2, <3>1 DEF StillNeeded
  <2>3. Accounted(x)
    BY <1>3, <2>1
  <2>4. CASE x \in request.todo
    BY <2>1, <2>4 DEF kept
  <2>5. CASE x \in Agents /\ Elsewhere(x, request.of)
    BY <2>5
  <2>6. CASE x \in StillNeeded(shares, {})
    BY <1>7, <2>2, <2>6
  <2>7. CASE \E a \in request.todo \cap Agents : x \in needs[a]
    <3>1. PICK a \in request.todo \cap Agents : x \in needs[a]
      BY <2>7
    <3>2. CASE a # r
      BY <3>1, <3>2
    <3>3. CASE a = r /\ ~kept
      BY <2>2, <3>1, <3>3
    <3>4. CASE a = r /\ kept
      <4>1. Elsewhere(a, request.of)
        BY <3>4 DEF kept
      <4>2. x \in StillNeeded(shares', {})
        BY <1>6, <3>1, <4>1 DEF StillNeeded, Elsewhere
      <4> QED BY <4>2
    <3> QED BY <3>2, <3>3, <3>4
  <2> QED BY <2>3, <2>4, <2>5, <2>6, <2>7 DEF Accounted
<1>9. ASSUME NEW p \in todo \cap Pieces, NEW a \in Agents, p \in needs[a] PROVE shares'[a] = "no"
  <2>1. CASE p \in request.todo
    <3>1. shares[a] = "no"
      BY <1>3, <1>9, <2>1
    <3> QED BY <1>1, <1>3, <1>4, <3>1, KindsAreApart
  <2>2. CASE p \notin request.todo
    <3>1. r \in Agents /\ ~kept /\ p \notin StillNeeded(shares', {r})
      BY <1>9, <2>2 DEF LeavesWith
    <3>2. CASE a = r
      BY <1>4, <3>1, <3>2
    <3>3. CASE a # r
      <4>1. a \notin Shared(shares')
        BY <1>9, <3>1, <3>3 DEF StillNeeded
      <4>2. shares'[a] = "no"
        BY <4>1, KindsAreApart DEF Shared
      <4> QED BY <4>2
    <3> QED BY <3>2, <3>3
  <2> QED BY <2>1, <2>2
<1>10. ASSUME NEW x \in todo PROVE x \in Agents \cup Pieces /\ shares'[x] = "cascade"
  <2>1. CASE x \in request.todo /\ x # r
    BY <1>3, <1>4, <2>1, KindsAreApart
  <2>2. CASE r \in Agents /\ x \in LeavesWith(shares', r)
    BY <2>2 DEF LeavesWith, SharingInv, SharesShape
  <2> QED BY <1>10, <2>1, <2>2
<1> HIDE DEF todo
<1>11. WithdrawalFits'
  <2>1. CASE todo = {}
    BY <1>1, <2>1 DEF WithdrawalFits, NoRequest
  <2>2. CASE todo # {}
    <3>1. request' = [op |-> "unshare", of |-> request.of, came |-> request.came, todo |-> todo]
      BY <1>1, <2>2
    <3>2. request'.of = request.of /\ request'.came = request.came /\ request'.todo = todo
      BY <3>1
    <3>3. shares'[request.of] = "no"
      BY <1>3, <1>4
    <3>4. ASSUME NEW x \in request.came, shares'[x] = "cascade" PROVE Accounted(x)'
      <4>1. Elsewhere(x, request.of) => Elsewhere(x, request.of)'
        BY <1>1, <1>6, <3>2 DEF Elsewhere
      <4>2. StillNeeded(shares', {}) = StillNeeded(shares, {})'
        BY <1>1 DEF StillNeeded, Shared
      <4> QED BY <1>1, <1>8, <3>2, <3>4, <4>1, <4>2 DEF Accounted
    <3> QED BY <1>1, <1>3, <1>9, <1>10, <3>2, <3>3, <3>4 DEF WithdrawalFits
  <2> QED BY <2>1, <2>2
<1>12. Undone
  <2>1. ASSUME request' = NoRequest, NEW x \in request.came, shares'[x] = "cascade"
        PROVE  IF x \in Agents THEN Elsewhere(x, request.of) ELSE x \in StillNeeded(shares', {})
    <3>1. todo = {}
      BY <1>1, <2>1 DEF NoRequest
    <3>2. x \in Agents => x \notin StillNeeded(shares', {})
      BY <1>1, KindsAreApart DEF StillNeeded, SharingInv, SharesShape
    <3> QED BY <1>8, <2>1, <3>1, <3>2
  <2>2. ASSUME NEW x \in Resources, shares[x] = "hand" PROVE shares'[x] = "hand"
    BY <1>4, <2>2
  <2>3. ASSUME NEW x \in Resources, shares[x] = "cascade", shares'[x] = "no",
               NEW y \in Resources, x \in Brings(y)
        PROVE  shares'[y] = "no"
    <3>1. x = r /\ ~kept
      BY <1>4, <2>3
    <3>2. CASE y \in Workflows
      <4>1. r \in agentsOf[y] /\ r \in Agents
        BY <2>3, <3>1, <3>2 DEF Brings, SharingInv, SharesShape
      <4>2. y = request.of \/ shares[y] = "no"
        BY <2>3, <3>1, <3>2, <4>1 DEF kept, Elsewhere, Shared
      <4> QED BY <1>3, <1>4, <1>5, <3>2, <4>2
    <3>3. CASE y \in Agents
      <4>1. r \in needs[y] /\ r \in Pieces
        BY <2>3, <3>1, <3>3, KindsAreApart DEF Brings, SharingInv, SharesShape
      <4>2. shares[y] = "no"
        BY <1>1, <1>3, <3>3, <4>1
      <4> QED BY <1>4, <2>3, <3>3, <4>1, <4>2, KindsAreApart
    <3> QED BY <2>3, <3>2, <3>3 DEF Brings
  <2> QED BY <2>1, <2>2, <2>3 DEF Undone
<1> QED BY <1>2, <1>11, <1>12 DEF SharingInv

LEMMA SharingStepped ==
    ASSUME SharingInv, [GroupSharingNext]_gsVars
    PROVE  SharingInv' /\ Undone
<1>1. CASE \E r \in Resources : Share(r)
  <2>1. PICK r \in Resources : Share(r)
    BY <1>1
  <2>2. /\ request = NoRequest /\ shares' = [shares EXCEPT ![r] = "hand"]
        /\ UNCHANGED <<agentsOf, needs>> /\ request'.op # "unshare"
    BY <2>1 DEF Share, Going, NoRequest
  <2> QED BY <2>2 DEF SharingInv, SharesShape, WithdrawalFits, Undone, NoRequest
<1>2. CASE \E r \in Resources : ShareNext(r)
  <2>1. PICK r \in Resources : ShareNext(r)
    BY <1>2
  <2>2. /\ request.op = "share" /\ request'.op # "unshare"
        /\ shares' = [shares EXCEPT ![r] = IF @ = "no" THEN "cascade" ELSE @]
        /\ UNCHANGED <<agentsOf, needs>>
    BY <2>1 DEF ShareNext, Going, Turn, NoRequest
  <2> QED BY <2>2 DEF SharingInv, SharesShape, WithdrawalFits, Undone
<1>3. CASE \E r \in Resources : Unshare(r)
  BY <1>3, WithdrawalBegins
<1>4. CASE \E r \in Resources : UnshareNext(r)
  BY <1>4, WithdrawalGoesOn
<1>5. CASE CutShort
  BY <1>5 DEF CutShort, SharingInv, SharesShape, WithdrawalFits, Undone, NoRequest
<1>6. CASE Define
  <2>1. request = NoRequest /\ request' = request /\ shares' = shares
    BY <1>6 DEF Define
  <2>2. SharesShape'
    BY <1>6, <2>1 DEF Define, SharingInv, SharesShape
  <2> QED BY <2>1, <2>2 DEF SharingInv, WithdrawalFits, Undone, NoRequest
<1>7. CASE \E w \in Workflows : DeletesWorkflow(w)
  <2>1. request = NoRequest /\ request' = request
    BY <1>7 DEF DeletesWorkflow
  <2>2. SharesShape'
    BY <1>7 DEF DeletesWorkflow, SharingInv, SharesShape
  <2> QED BY <2>1, <2>2 DEF SharingInv, WithdrawalFits, Undone, NoRequest
<1>8. CASE UNCHANGED gsVars
  <2>1. SharesShape'
    BY <1>8 DEF gsVars, SharingInv, SharesShape
  <2>4. Undone
    BY <1>8 DEF gsVars, Undone, SharingInv, WithdrawalFits, NoRequest
  <2>2. \A x : Accounted(x)' <=> Accounted(x)
    BY <1>8 DEF gsVars, Accounted, Elsewhere, StillNeeded, Shared
  <2>3. WithdrawalFits'
    BY <1>8, <2>2 DEF gsVars, SharingInv, WithdrawalFits
  <2> QED BY <2>1, <2>3, <2>4 DEF SharingInv
<1> QED BY <1>1, <1>2, <1>3, <1>4, <1>5, <1>6, <1>7, <1>8 DEF GroupSharingNext

LEMMA SharingBegins == GroupSharingInit => SharingInv
BY DEF GroupSharingInit, SharingInv, SharesShape, WithdrawalFits, NoRequest

\* What came with a resource is accounted for until its withdrawal is over.
THEOREM SharingInvHolds == GroupSharingSpec => []SharingInv
<1>1. SharingInv /\ [GroupSharingNext]_gsVars => SharingInv'
  BY SharingStepped
<1> QED BY <1>1, SharingBegins, PTL DEF GroupSharingSpec

\* A withdrawal that ends takes all that came, but for what the team still needs, in whatever
\* order its rows go; nothing else leaves, and nothing while what brought it is there.
THEOREM SharesAreUndone == GroupSharingSpec => SharingIsUndone
<1>1. SharingInv /\ [GroupSharingNext]_gsVars =>
        [request.op = "unshare" /\ request' = NoRequest /\ ~CutShort =>
          \A r \in request.came : shares'[r] = "cascade" =>
              IF r \in Agents THEN Elsewhere(r, request.of) ELSE r \in StillNeeded(shares', {})]_gsVars
  BY SharingStepped DEF Undone
<1>2. SharingInv /\ [GroupSharingNext]_gsVars =>
        [\A r \in Resources :
          /\ shares[r] = "hand" => shares'[r] = "hand" \/ request = NoRequest
          /\ shares[r] = "cascade" /\ shares'[r] = "no" /\ request # NoRequest =>
                \A x \in Resources : r \in Brings(x) => shares'[x] = "no"]_gsVars
  BY SharingStepped DEF Undone
<1> QED BY <1>1, <1>2, SharingInvHolds, PTL
        DEF GroupSharingSpec, SharingIsUndone, WithdrawalIsWhole, OnlyWhatCameLeaves

\* A request that is being served has rows to look at.
RequestFits == request = NoRequest \/ (request.todo \subseteq Resources /\ request.todo # {})

LEMMA RequestGoes ==
    ASSUME NEW op, NEW of, NEW came, NEW todo, todo \subseteq Resources, Going(op, of, came, todo)
    PROVE  RequestFits'
BY DEF Going, RequestFits, Resources

LEMMA RequestFitsStep ==
    ASSUME SharingInv, RequestFits, [GroupSharingNext]_gsVars
    PROVE  RequestFits'
<1>1. /\ agentsOf \in [Workflows -> SUBSET Agents] /\ needs \in [Agents -> SUBSET Pieces]
      /\ \A x \in Resources : Brings(x) \subseteq Resources
      /\ \A s, a : a \in Agents => LeavesWith(s, a) \subseteq Resources
  BY DEF SharingInv, SharesShape, Brings, Resources, LeavesWith
<1>2. ASSUME NEW r \in Resources, Share(r) PROVE RequestFits'
  <2>1. Brings(r) \cap Own \subseteq Resources
    BY <1>1
  <2> QED BY <1>2, <2>1, RequestGoes DEF Share
<1>3. ASSUME NEW r \in Resources, ShareNext(r) PROVE RequestFits'
  <2>1. request.todo \subseteq Resources
    BY <1>3 DEF ShareNext, Turn, RequestFits, NoRequest
  <2>2. (request.todo \ {r}) \cup (Brings(r) \cap Own) \subseteq Resources
    BY <1>1, <2>1
  <2> QED BY <1>3, <2>2, RequestGoes DEF ShareNext
<1>4. ASSUME NEW r \in Resources, Unshare(r) PROVE RequestFits'
  <2> DEFINE todo == IF r \in Agents THEN LeavesWith(shares', r) ELSE Came(r)
  <2>1. todo \subseteq Resources
    BY <1>1 DEF Came
  <2>2. \E came : Going("unshare", r, came, todo)
    BY <1>4 DEF Unshare
  <2> HIDE DEF todo
  <2> QED BY <2>1, <2>2, RequestGoes
<1>5. ASSUME NEW r \in Resources, UnshareNext(r) PROVE RequestFits'
  <2> DEFINE todo == (request.todo \ {r})
                        \cup (IF r \in Agents /\ ~(r \in Agents /\ Elsewhere(r, request.of))
                              THEN LeavesWith(shares', r) ELSE {})
  <2>1. request.todo \subseteq Resources
    BY <1>5 DEF UnshareNext, Turn, RequestFits, NoRequest
  <2>2. todo \subseteq Resources
    BY <1>1, <2>1
  <2>3. Going("unshare", request.of, request.came, todo)
    BY <1>5 DEF UnshareNext
  <2> HIDE DEF todo
  <2> QED BY <2>2, <2>3, RequestGoes
<1>6. CASE CutShort
  BY <1>6 DEF CutShort, RequestFits, NoRequest
<1>7. CASE Define \/ \E w \in Workflows : DeletesWorkflow(w)
  BY <1>7 DEF Define, DeletesWorkflow, RequestFits, NoRequest
<1>8. CASE UNCHANGED gsVars
  BY <1>8 DEF gsVars, RequestFits, NoRequest
<1> QED BY <1>2, <1>3, <1>4, <1>5, <1>6, <1>7, <1>8 DEF GroupSharingNext

-----------------------------------------------------------------------------
(* Billing: what a call carries, and what Stripe does. *)

Numbers == Seats \cup {0}
SubRow == [status : Statuses, seats : Numbers, ending : BOOLEAN]
EventRow == [s : Subs, status : Statuses, seats : Numbers, ending : BOOLEAN]
JobRow == [s : Subs \cup {0}, e : Nat, new : SubRow, knew : BOOLEAN]

\* Where a call has nothing in hand, where only a request is, and where a handler of an event
\* may be as well.
EmptyHanded == {"idle", "create", "summary"}
OfOwner == {"drop", "save dropped", "save only", "seat refused", "confirm", "change", "cancel",
            "reactivate", "reactivated", "seats"}
OfBoth == {"save", "saved", "own seat"}
BillingPlaces == EmptyHanded \cup OfOwner \cup OfBoth \cup {"event"}

FromEvent(job) == job.e \in 1 .. Len(sent) /\ job.s = sent[job.e].s

JobShape(place, job) ==
    /\ place \in EmptyHanded => job = Rest
    /\ place \in OfOwner => job.s \in Subs /\ job.e = 0
    /\ place \in OfBoth => job.s \in Subs /\ (job.e = 0 \/ FromEvent(job))
    /\ place = "event" => FromEvent(job)

StoreShape ==
    /\ sub \in [Subs -> SubRow] /\ newest \in 0 .. NSubs /\ seat \in [Mates \cup {Owner} -> 0 .. NSubs]
    /\ turns \in 0 .. MaxTurns /\ revived \subseteq Subs

BillingShape ==
    /\ stripe \in [Subs -> SubRow] /\ sent \in Seq(EventRow)
    /\ StoreShape
    /\ claims \cup dropped \subseteq 1 .. Len(sent)
    /\ bPc \in [BCalls -> BillingPlaces] /\ bJob \in [BCalls -> JobRow]
    /\ \A c \in BCalls : JobShape(bPc[c], bJob[c])

\* Stripe goes on: it forgets no event, revives nothing, and an event says what was so.
IsOver(r) == r.status = "canceled"
StripeGrows ==
    /\ stripe' \in [Subs -> SubRow] /\ sent' \in Seq(EventRow)
    /\ Len(sent) <= Len(sent') /\ \A i \in 1 .. Len(sent) : sent'[i] = sent[i]
    /\ \A s \in Subs : IsOver(stripe[s]) => IsOver(stripe'[s])
    /\ \A i \in 1 .. Len(sent') : i \in 1 .. Len(sent) \/ (IsOver(sent'[i]) => IsOver(stripe'[sent'[i].s]))

\* What is known to be over is written as over; a call with the news of a cancellation is
\* about to write it; and news that stay claimed have arrived, or are being handled.
TellsEnd(place, job) ==
    /\ job.knew => IsOver(job.new)
    /\ place = "save" /\ job.e # 0 => (IsOver(sent[job.e]) => IsOver(job.new))

NewsArrive ==
    \A e \in claims \ dropped : IsOver(sent[e]) =>
        \/ IsOver(sub[sent[e].s]) \/ sent[e].s \in revived
        \/ \E c \in BCalls : bJob[c].e = e /\ bPc[c] \in {"event", "save"}

BillingInv ==
    /\ BillingShape
    /\ \A e \in 1 .. Len(sent) : IsOver(sent[e]) => IsOver(stripe[sent[e].s])
    /\ \A c \in BCalls : TellsEnd(bPc[c], bJob[c])
    /\ NewsArrive

LEMMA StripeRests ==
    ASSUME BillingShape, UNCHANGED stripeVars
    PROVE  StripeGrows
<1>1. stripe' = stripe /\ sent' = sent
  BY DEF stripeVars
<1>2. Len(sent) \in Nat
  BY LenProperties DEF BillingShape
<1> QED
  BY <1>1, <1>2 DEF BillingShape, StripeGrows

LEMMA StripeSends ==
    ASSUME BillingShape, NEW s \in Subs, ~IsOver(stripe[s]), NEW new \in SubRow, Sends(s, new)
    PROVE  StripeGrows
<1> DEFINE ev == [s |-> s, status |-> new.status, seats |-> new.seats, ending |-> new.ending]
           n == Len(sent)
<1>1. ev \in EventRow /\ ev.s = s /\ ev.status = new.status
  BY DEF SubRow, EventRow
<1>2. stripe' = [stripe EXCEPT ![s] = new] /\ sent' = Append(sent, ev)
  BY DEF Sends
<1>3. /\ stripe' \in [Subs -> SubRow] /\ stripe'[s] = new
      /\ \A r \in Subs \ {s} : stripe'[r] = stripe[r]
  BY <1>2 DEF BillingShape
<1> HIDE DEF ev
<1>4. /\ sent' \in Seq(EventRow) /\ Len(sent') = n + 1 /\ n \in Nat
      /\ \A i \in 1 .. n : sent'[i] = sent[i]
      /\ sent'[n + 1] = ev
  BY <1>1, <1>2, AppendProperties, LenProperties DEF BillingShape
<1>5. ASSUME NEW i \in 1 .. Len(sent'), i \notin 1 .. n
      PROVE  IsOver(sent'[i]) => IsOver(stripe'[sent'[i].s])
  <2>1. i = n + 1
    BY <1>4, <1>5
  <2> QED
    BY <1>1, <1>3, <1>4, <2>1 DEF IsOver
<1> QED
  BY <1>3, <1>4, <1>5 DEF StripeGrows

\* The subscription that is active is one of the rows.
LEMMA ActiveFits ==
    ASSUME BillingShape, Active # 0
    PROVE  Active \in Subs /\ sub[Active] \in SubRow
<1>1. Active = newest /\ newest # 0
  BY DEF Active
<1>2. newest \in Subs
  BY <1>1, BillingAssumption DEF BillingShape, StoreShape, Subs
<1> QED
  BY <1>1, <1>2 DEF BillingShape, StoreShape

LEMMA RestFits ==
    ASSUME NEW s \in Subs, NEW new \in SubRow
    PROVE  LET job == [Rest EXCEPT !.s = s, !.new = new] IN
           job \in JobRow /\ job.s = s /\ job.e = 0 /\ job.new = new /\ job.knew = FALSE
BY DEF Rest, JobRow

LEMMA NothingFits == Rest \in JobRow /\ Blank \in SubRow /\ ~Rest.knew /\ Rest.e = 0
BY BillingAssumption DEF Rest, Blank, JobRow, SubRow, Statuses, Numbers, Subs

LEMMA MineFits ==
    ASSUME BillingShape, NEW c \in BCalls
    PROVE  /\ Mine(c) \in JobRow /\ Mine(c).s = bJob[c].s /\ Mine(c).e = bJob[c].e /\ ~Mine(c).knew
BY NothingFits DEF Mine, Rest, JobRow, BillingShape

\* Counted: a turn of the few there are.
LEMMA TurnFits ==
    ASSUME BillingShape, Counted \/ UNCHANGED turns
    PROVE  turns' \in 0 .. MaxTurns
BY BillingAssumption DEF Counted, BillingShape, StoreShape

-----------------------------------------------------------------------------
(* Every step keeps the invariant. *)

\* What a step of a call keeps of the shape.
LEMMA CallShape ==
    ASSUME BillingShape, StripeGrows, StoreShape', claims' \cup dropped' \subseteq 1 .. Len(sent),
           NEW c \in BCalls, NEW place \in BillingPlaces, NEW job \in JobRow, At(c, place, job),
           JobShape(place, job)
    PROVE  /\ BillingShape'
           /\ bPc'[c] = place /\ bJob'[c] = job
           /\ \A d \in BCalls \ {c} : bPc'[d] = bPc[d] /\ bJob'[d] = bJob[d]
<1>1. /\ bPc' \in [BCalls -> BillingPlaces] /\ bJob' \in [BCalls -> JobRow]
      /\ bPc'[c] = place /\ bJob'[c] = job
      /\ \A d \in BCalls \ {c} : bPc'[d] = bPc[d] /\ bJob'[d] = bJob[d]
  BY DEF At, BillingShape
<1>2. /\ Len(sent) \in Nat /\ Len(sent') \in Nat
      /\ Len(sent) <= Len(sent')
      /\ \A i \in 1 .. Len(sent) : i \in 1 .. Len(sent') /\ sent'[i] = sent[i]
  <2>1. /\ sent \in Seq(EventRow) /\ sent' \in Seq(EventRow)
        /\ Len(sent) <= Len(sent') /\ \A i \in 1 .. Len(sent) : sent'[i] = sent[i]
    BY DEF BillingShape, StripeGrows
  <2>2. Len(sent) \in Nat /\ Len(sent') \in Nat
    BY <2>1, LenProperties
  <2> QED
    BY <2>1, <2>2
<1>3. ASSUME NEW d \in BCalls
      PROVE  JobShape(bPc[d], bJob[d])'
  <2>1. CASE d = c
    BY <1>1, <1>2, <2>1 DEF JobShape, FromEvent, Rest, Blank
  <2>2. CASE d # c
    BY <1>1, <1>2, <2>2 DEF BillingShape, JobShape, FromEvent, Rest, Blank
  <2> QED
    BY <2>1, <2>2
<1>4. claims' \cup dropped' \subseteq 1 .. Len(sent')
  BY <1>2
<1> QED
  BY <1>1, <1>3, <1>4 DEF BillingShape, StripeGrows

\* What the invariant needs of a step beside the shape.
LEMMA InvKeeps ==
    ASSUME BillingInv, StripeGrows, BillingShape',
           \A c \in BCalls : \/ bPc'[c] = bPc[c] /\ bJob'[c] = bJob[c]
                             \/ bJob'[c] \in JobRow /\ JobShape(bPc'[c], bJob'[c])
                                  /\ TellsEnd(bPc'[c], bJob'[c]),
           \A e \in (claims' \cap claims) \ dropped' :
               IsOver(sent[e]) => \/ IsOver(sub'[sent[e].s]) \/ sent[e].s \in revived'
                                \/ \E c \in BCalls : bJob'[c].e = e /\ bPc'[c] \in {"event", "save"},
           \A e \in claims' \ claims : \E c \in BCalls : bJob'[c].e = e /\ bPc'[c] \in {"event", "save"}
    PROVE  BillingInv'
<1>1. /\ BillingShape /\ Len(sent) \in Nat /\ Len(sent') \in Nat
      /\ Len(sent) <= Len(sent')
      /\ \A i \in 1 .. Len(sent) : i \in 1 .. Len(sent') /\ sent'[i] = sent[i] /\ sent[i].s \in Subs
  <2>1. \A i \in 1 .. Len(sent) : sent[i] \in EventRow
    BY ElementOfSeq DEF BillingInv, BillingShape
  <2>2. /\ BillingShape /\ sent \in Seq(EventRow) /\ sent' \in Seq(EventRow)
        /\ Len(sent) <= Len(sent') /\ \A i \in 1 .. Len(sent) : sent'[i] = sent[i]
    BY DEF BillingInv, BillingShape, StripeGrows
  <2>3. Len(sent) \in Nat /\ Len(sent') \in Nat
    BY <2>2, LenProperties
  <2>4. \A i \in 1 .. Len(sent) : sent[i].s \in Subs
    BY <2>1 DEF EventRow
  <2> QED
    BY <2>2, <2>3, <2>4
<1>2. ASSUME NEW e \in 1 .. Len(sent'), IsOver(sent'[e])
      PROVE  IsOver(stripe'[sent'[e].s])
  <2>1. CASE e \in 1 .. Len(sent)
    BY <1>1, <1>2, <2>1 DEF BillingInv, StripeGrows
  <2>2. CASE e \notin 1 .. Len(sent)
    BY <1>2, <2>2 DEF StripeGrows
  <2> QED
    BY <2>1, <2>2
<1>3. ASSUME NEW c \in BCalls
      PROVE  TellsEnd(bPc[c], bJob[c])'
  <2>1. TellsEnd(bPc'[c], bJob'[c]) /\ JobShape(bPc'[c], bJob'[c])
    BY <1>1 DEF BillingInv, BillingShape
  <2>2. bPc'[c] = "save" /\ bJob'[c].e # 0 => sent'[bJob'[c].e] = sent[bJob'[c].e]
    BY <1>1, <2>1 DEF JobShape, FromEvent, OfBoth
  <2> QED
    BY <2>1, <2>2 DEF TellsEnd
<1>4. NewsArrive'
  <2> SUFFICES ASSUME NEW e \in claims' \ dropped', IsOver(sent'[e])
               PROVE  \/ IsOver(sub'[sent'[e].s]) \/ sent'[e].s \in revived'
                      \/ \E c \in BCalls : bJob'[c].e = e /\ bPc'[c] \in {"event", "save"}
    BY DEF NewsArrive
  <2>1. CASE e \in claims
    <3>1. sent'[e] = sent[e]
      BY <1>1, <2>1 DEF BillingShape
    <3> QED
      BY <2>1, <3>1
  <2>2. CASE e \notin claims
    BY <2>2
  <2> QED
    BY <2>1, <2>2
<1> QED
  BY <1>2, <1>3, <1>4 DEF BillingInv

\* A call goes on that neither writes its row nor handles an event.
LEMMA CallKeeps ==
    ASSUME BillingInv, StripeGrows, StoreShape', UNCHANGED <<sub, revived, claims, dropped>>,
           NEW c \in BCalls, NEW place \in BillingPlaces, NEW job \in JobRow, At(c, place, job),
           JobShape(place, job), TellsEnd(place, job),
           bPc[c] \notin {"event", "save"} \/ bJob[c].e = 0
    PROVE  BillingInv'
<1>1. BillingShape /\ claims' \cup dropped' \subseteq 1 .. Len(sent) /\ Len(sent) \in Nat
  BY LenProperties DEF BillingInv, BillingShape
<1>2. /\ BillingShape'
      /\ bPc'[c] = place /\ bJob'[c] = job
      /\ \A d \in BCalls \ {c} : bPc'[d] = bPc[d] /\ bJob'[d] = bJob[d]
  BY <1>1, CallShape
<1>3. ASSUME NEW e \in claims \ dropped, IsOver(sent[e])
      PROVE  \/ IsOver(sub'[sent[e].s]) \/ sent[e].s \in revived'
             \/ \E d \in BCalls : bJob'[d].e = e /\ bPc'[d] \in {"event", "save"}
  <2>1. CASE IsOver(sub[sent[e].s]) \/ sent[e].s \in revived
    BY <2>1
  <2>2. ASSUME NEW d \in BCalls, bJob[d].e = e, bPc[d] \in {"event", "save"}
        PROVE  \E b \in BCalls : bJob'[b].e = e /\ bPc'[b] \in {"event", "save"}
    <3>1. e # 0
      BY <1>1, <1>3
    <3> QED
      BY <1>2, <2>2, <3>1
  <2> QED
    BY <1>3, <2>1, <2>2 DEF BillingInv, NewsArrive
<1> QED
  BY <1>2, <1>3, InvKeeps

LEMMA StoreFits ==
    ASSUME BillingShape, UNCHANGED <<sub, newest, revived>>, seat' \in [Mates \cup {Owner} -> 0 .. NSubs],
           Counted \/ UNCHANGED turns
    PROVE  StoreShape'
BY TurnFits DEF BillingShape, StoreShape

\* A request that begins, or ends before it is done.
LEMMA TurnsKeep ==
    ASSUME BillingInv, NEW c \in BCalls,
           \/ Subscribes(c) \/ Raises(c) \/ Summary(c) \/ \E s \in Subs : Confirms(c, s)
           \/ \E place \in {"change", "cancel", "reactivate", "seats"} : Reads(c, place)
    PROVE  BillingInv'
<1>1. /\ BillingShape /\ stripe \in [Subs -> SubRow]
      /\ sub \in [Subs -> SubRow] /\ seat \in [Mates \cup {Owner} -> 0 .. NSubs]
  BY DEF BillingInv, BillingShape, StoreShape
<1>2. StripeGrows /\ StoreShape' /\ UNCHANGED <<sub, revived, claims, dropped>>
  <2>1. UNCHANGED <<stripeVars, store, claims, dropped, revived>> /\ (Counted \/ UNCHANGED turns)
    BY DEF Subscribes, Raises, Summary, Confirms, Reads, history
  <2> QED
    BY <1>1, <2>1, StripeRests, StoreFits DEF store
<1>3. bPc[c] \notin {"event", "save"} \/ bJob[c].e = 0
  BY DEF Subscribes, Raises, Summary, Confirms, Reads
<1>4. ASSUME NEW place \in BillingPlaces, NEW job \in JobRow, At(c, place, job),
             JobShape(place, job), TellsEnd(place, job)
      PROVE  BillingInv'
  BY <1>2, <1>3, <1>4, CallKeeps
<1>5. ASSUME NEW place \in EmptyHanded, At(c, place, Rest)
      PROVE  BillingInv'
  BY <1>4, <1>5, NothingFits DEF JobShape, TellsEnd, EmptyHanded, OfOwner, OfBoth, BillingPlaces
<1>6. ASSUME NEW place \in OfOwner \cup OfBoth, NEW s \in Subs, NEW new \in SubRow,
             At(c, place, [Rest EXCEPT !.s = s, !.new = new])
      PROVE  BillingInv'
  <2> DEFINE job == [Rest EXCEPT !.s = s, !.new = new]
  <2>1. job \in JobRow /\ job.s = s /\ job.e = 0 /\ ~job.knew
    BY RestFits
  <2> HIDE DEF job
  <2>2. place \in BillingPlaces /\ JobShape(place, job) /\ TellsEnd(place, job)
    BY <1>6, <2>1 DEF JobShape, TellsEnd, EmptyHanded, OfOwner, OfBoth, BillingPlaces
  <2> QED
    BY <1>4, <1>6, <2>1, <2>2 DEF job
<1>7. CASE Subscribes(c)
  BY <1>1, <1>5, <1>6, <1>7, ActiveFits DEF Subscribes, EmptyHanded, OfOwner
<1>8. CASE Raises(c)
  BY <1>5, <1>8 DEF Raises, Rests, EmptyHanded
<1>9. CASE Summary(c)
  <2>1. CASE Rests(c)
    BY <1>5, <2>1 DEF Rests, EmptyHanded
  <2>2. CASE Active # 0 /\ At(c, "own seat", [Rest EXCEPT !.s = Active])
    <3> DEFINE job == [Rest EXCEPT !.s = Active]
    <3>1. Active \in Subs
      BY <1>1, <2>2, ActiveFits
    <3>2. job \in JobRow /\ job.s = Active /\ job.e = 0 /\ ~job.knew
      BY <3>1, NothingFits DEF Rest, JobRow
    <3> HIDE DEF job
    <3>3. JobShape("own seat", job) /\ TellsEnd("own seat", job) /\ "own seat" \in BillingPlaces
      BY <3>1, <3>2 DEF JobShape, TellsEnd, EmptyHanded, OfOwner, OfBoth, BillingPlaces
    <3> QED
      BY <1>4, <2>2, <3>2, <3>3 DEF job
  <2> QED
    BY <1>9, <2>1, <2>2 DEF Summary
<1>10. ASSUME NEW s \in Subs, Confirms(c, s)
       PROVE  BillingInv'
  <2> DEFINE new == [Blank EXCEPT !.status = stripe[s].status, !.ending = stripe[s].ending]
             job == [Rest EXCEPT !.s = s, !.knew = Ended(s), !.new = new]
  <2>1. stripe[s] \in SubRow
    BY <1>1
  <2>2. new \in SubRow /\ new.status = stripe[s].status
    BY <2>1, NothingFits DEF SubRow, Blank
  <2> HIDE DEF new
  <2>3. Ended(s) \in BOOLEAN /\ (Ended(s) => IsOver(new))
    BY <2>2 DEF Ended, IsOver
  <2>4. job \in JobRow /\ job.s = s /\ job.e = 0 /\ job.knew = Ended(s) /\ job.new = new
    BY <2>2, <2>3 DEF Rest, JobRow
  <2>5. At(c, "confirm", job)
    BY <1>10 DEF Confirms, new
  <2> HIDE DEF job
  <2>6. JobShape("confirm", job) /\ TellsEnd("confirm", job) /\ "confirm" \in BillingPlaces
    BY <2>3, <2>4 DEF JobShape, TellsEnd, EmptyHanded, OfOwner, OfBoth, BillingPlaces
  <2> QED
    BY <1>4, <2>4, <2>5, <2>6
<1>11. ASSUME NEW place \in {"change", "cancel", "reactivate", "seats"}, Reads(c, place)
       PROVE  BillingInv'
  BY <1>1, <1>6, <1>11, ActiveFits DEF Reads, OfOwner
<1> QED
  BY <1>7, <1>8, <1>9, <1>10, <1>11

\* A call that goes on, with Stripe as it is and no row written.
LEMMA SeatsKeep ==
    ASSUME BillingInv, NEW c \in BCalls,
           \/ ReadsBack(c) \/ OwnSeat(c) \/ OwnSeatRefused(c) \/ ConfirmReads(c)
           \/ \E u \in Mates : AssignsSeat(c, u) \/ RevokesSeat(c, u)
    PROVE  BillingInv'
<1>1. /\ BillingShape /\ sub \in [Subs -> SubRow] /\ seat \in [Mates \cup {Owner} -> 0 .. NSubs]
      /\ bPc[c] \in BillingPlaces /\ bJob[c] \in JobRow /\ JobShape(bPc[c], bJob[c])
      /\ TellsEnd(bPc[c], bJob[c])
  BY DEF BillingInv, BillingShape, StoreShape
<1>2. bPc[c] \in OfOwner \cup (OfBoth \ {"save"}) /\ bJob[c].s \in Subs
  <2>1. bPc[c] \in OfOwner \cup (OfBoth \ {"save"})
    BY DEF ReadsBack, OwnSeat, OwnSeatRefused, ConfirmReads, AssignsSeat, RevokesSeat, OfOwner, OfBoth
  <2> QED
    BY <1>1, <2>1 DEF JobShape
<1>3. seat' \in [Mates \cup {Owner} -> 0 .. NSubs]
  <2>1. bJob[c].s \in 0 .. NSubs
    BY <1>2, BillingAssumption DEF Subs
  <2>2. CASE seat' = seat
    BY <1>1, <2>2
  <2>3. CASE OwnSeat(c)
    BY <1>1, <2>1, <2>3 DEF OwnSeat
  <2>4. ASSUME NEW u \in Mates, AssignsSeat(c, u) \/ RevokesSeat(c, u)
        PROVE  seat' \in [Mates \cup {Owner} -> 0 .. NSubs]
    BY <1>1, <2>1, <2>4, BillingAssumption DEF AssignsSeat, RevokesSeat
  <2> QED
    BY <2>2, <2>3, <2>4 DEF ReadsBack, OwnSeatRefused, ConfirmReads, store
<1>4. StripeGrows /\ StoreShape' /\ UNCHANGED <<sub, revived, claims, dropped>>
  <2>1. UNCHANGED <<stripeVars, sub, newest, claims, history>>
    BY DEF ReadsBack, OwnSeat, OwnSeatRefused, ConfirmReads, AssignsSeat, RevokesSeat, store
  <2> QED
    BY <1>1, <1>3, <2>1, StripeRests, StoreFits DEF history
<1>5. bPc[c] \notin {"event", "save"} \/ bJob[c].e = 0
  BY <1>2 DEF OfOwner, OfBoth
<1>6. ASSUME NEW place \in BillingPlaces, NEW job \in JobRow, At(c, place, job),
             JobShape(place, job), TellsEnd(place, job)
      PROVE  BillingInv'
  BY <1>4, <1>5, <1>6, CallKeeps
<1>7. ASSUME NEW place \in EmptyHanded, At(c, place, Rest)
      PROVE  BillingInv'
  BY <1>6, <1>7, NothingFits DEF JobShape, TellsEnd, EmptyHanded, OfOwner, OfBoth, BillingPlaces
<1>8. CASE ReadsBack(c)
  <2>1. CASE Rests(c)
    BY <1>7, <2>1 DEF Rests, EmptyHanded
  <2>2. CASE At(c, "own seat", bJob[c])
    <3>1. JobShape("own seat", bJob[c]) /\ TellsEnd("own seat", bJob[c])
      BY <1>1, <1>8 DEF ReadsBack, JobShape, TellsEnd, EmptyHanded, OfOwner, OfBoth
    <3> QED
      BY <1>1, <1>6, <2>2, <3>1 DEF BillingPlaces, OfBoth
  <2> QED
    BY <1>8, <2>1, <2>2 DEF ReadsBack
<1>9. CASE OwnSeat(c)
  BY <1>7, <1>9 DEF OwnSeat, Rests, EmptyHanded
<1>10. CASE OwnSeatRefused(c)
  <2>1. /\ JobShape("seat refused", bJob[c]) /\ TellsEnd("seat refused", bJob[c])
        /\ At(c, "seat refused", bJob[c])
    BY <1>1, <1>2, <1>10 DEF OwnSeatRefused, JobShape, TellsEnd, EmptyHanded, OfOwner, OfBoth
  <2> QED
    BY <1>1, <1>6, <2>1 DEF BillingPlaces, OfOwner
<1>11. CASE ConfirmReads(c)
  <2> DEFINE job == [bJob[c] EXCEPT !.new.seats = sub[bJob[c].s].seats]
  <2>1. sub[bJob[c].s] \in SubRow /\ bPc[c] = "confirm" /\ At(c, "save", job)
    BY <1>1, <1>2, <1>11 DEF ConfirmReads
  <2>2. /\ job \in JobRow /\ job.s = bJob[c].s /\ job.e = bJob[c].e
        /\ job.knew = bJob[c].knew /\ job.new.status = bJob[c].new.status
    BY <1>1, <2>1 DEF JobRow, SubRow
  <2> HIDE DEF job
  <2>3. JobShape("save", job) /\ TellsEnd("save", job)
    BY <1>1, <2>1, <2>2 DEF JobShape, TellsEnd, IsOver, EmptyHanded, OfOwner, OfBoth
  <2> QED
    BY <1>6, <2>1, <2>2, <2>3 DEF BillingPlaces, OfBoth
<1>12. ASSUME NEW u \in Mates, AssignsSeat(c, u) \/ RevokesSeat(c, u)
       PROVE  BillingInv'
  BY <1>7, <1>12 DEF AssignsSeat, RevokesSeat, EmptyHanded
<1> QED
  BY <1>8, <1>9, <1>10, <1>11, <1>12

\* A request that has Stripe change the subscription in its hands.
LEMMA ChangesKeep ==
    ASSUME BillingInv, NEW c \in BCalls,
           \/ Drops(c) \/ \E n \in Seats : ChangesSeats(c, n)
           \/ CancelsNow(c) \/ CancelsAtEnd(c) \/ Reactivates(c)
    PROVE  BillingInv'
<1> DEFINE s == bJob[c].s
<1>1. /\ BillingShape /\ stripe \in [Subs -> SubRow] /\ seat \in [Mates \cup {Owner} -> 0 .. NSubs]
      /\ bJob[c] \in JobRow /\ JobShape(bPc[c], bJob[c]) /\ TellsEnd(bPc[c], bJob[c])
  BY DEF BillingInv, BillingShape, StoreShape
<1>2. bPc[c] \in {"drop", "change", "cancel", "reactivate"}
  BY DEF Drops, ChangesSeats, CancelsNow, CancelsAtEnd, Reactivates
<1>3. s \in Subs /\ bJob[c].e = 0 /\ stripe[s] \in SubRow
  BY <1>1, <1>2 DEF JobShape, OfOwner
<1>4. StripeGrows
  <2>1. CASE UNCHANGED stripeVars
    BY <1>1, <2>1, StripeRests
  <2>2. \/ UNCHANGED stripeVars
        \/ ~IsOver(stripe[s]) /\ \E new \in SubRow : Sends(s, new)
    <3>1. /\ [stripe[s] EXCEPT !.status = "canceled"] \in SubRow
          /\ [stripe[s] EXCEPT !.ending = TRUE] \in SubRow
          /\ [stripe[s] EXCEPT !.ending = FALSE] \in SubRow
      BY <1>3 DEF SubRow, Statuses
    <3>2. CASE Drops(c)
      BY <3>1, <3>2 DEF Drops, IsOver
    <3>3. ASSUME NEW n \in Seats, ChangesSeats(c, n)
          PROVE  ~IsOver(stripe[s]) /\ \E new \in SubRow : Sends(s, new)
      BY <1>3, <3>3 DEF ChangesSeats, IsOver
    <3>4. CASE CancelsNow(c) \/ CancelsAtEnd(c) \/ Reactivates(c)
      BY <3>1, <3>4 DEF CancelsNow, CancelsAtEnd, Reactivates, IsOver
    <3> QED
      BY <3>2, <3>3, <3>4
  <2> QED
    BY <1>1, <1>3, <2>1, <2>2, StripeSends
<1>5. StoreShape' /\ UNCHANGED <<sub, revived, claims, dropped>>
  <2>1. UNCHANGED <<store, claims, history>>
    BY DEF Drops, ChangesSeats, CancelsNow, CancelsAtEnd, Reactivates
  <2> QED
    BY <1>1, <2>1, StoreFits DEF store, history
<1>6. ASSUME NEW place \in {"save dropped", "save only", "reactivated"}, NEW job \in JobRow, At(c, place, job),
             job.s = s, job.e = 0, job.knew => IsOver(job.new)
      PROVE  BillingInv'
  <2>1. JobShape(place, job) /\ TellsEnd(place, job) /\ place \in BillingPlaces
    BY <1>3, <1>6 DEF JobShape, TellsEnd, EmptyHanded, OfOwner, OfBoth, BillingPlaces
  <2>2. bPc[c] \notin {"event", "save"}
    BY <1>2
  <2> QED
    BY <1>4, <1>5, <1>6, <2>1, <2>2, CallKeeps
<1>7. CASE Drops(c) \/ CancelsNow(c)
  <2> DEFINE job == [bJob[c] EXCEPT !.new.status = "canceled", !.new.ending = TRUE]
  <2>1. job \in JobRow /\ job.s = s /\ job.e = 0 /\ IsOver(job.new)
    BY <1>1, <1>3 DEF JobRow, SubRow, Statuses, IsOver
  <2>2. \E place \in {"save dropped", "save only"} : At(c, place, job)
    BY <1>7 DEF Drops, CancelsNow
  <2> HIDE DEF job
  <2> QED
    BY <1>6, <2>1, <2>2
<1>8. ASSUME NEW n \in Seats, ChangesSeats(c, n)
      PROVE  BillingInv'
  <2> DEFINE job == [bJob[c] EXCEPT !.new.seats = n]
  <2>1. /\ job \in JobRow /\ job.s = s /\ job.e = 0
        /\ job.new.status = bJob[c].new.status /\ job.knew = bJob[c].knew
    BY <1>1, <1>3 DEF JobRow, SubRow, Numbers
  <2>2. At(c, "save only", job)
    BY <1>8 DEF ChangesSeats
  <2> HIDE DEF job
  <2>3. job.knew => IsOver(job.new)
    BY <1>1, <2>1 DEF TellsEnd, IsOver
  <2> QED
    BY <1>6, <2>1, <2>2, <2>3
<1>9. CASE CancelsAtEnd(c)
  <2> DEFINE job == [bJob[c] EXCEPT !.new.ending = TRUE]
  <2>1. /\ job \in JobRow /\ job.s = s /\ job.e = 0
        /\ job.new.status = bJob[c].new.status /\ job.knew = bJob[c].knew
    BY <1>1, <1>3 DEF JobRow, SubRow
  <2>2. At(c, "save only", job)
    BY <1>9 DEF CancelsAtEnd
  <2> HIDE DEF job
  <2>3. job.knew => IsOver(job.new)
    BY <1>1, <2>1 DEF TellsEnd, IsOver
  <2> QED
    BY <1>6, <2>1, <2>2, <2>3
<1>10. CASE Reactivates(c)
  <2>1. At(c, "reactivated", Mine(c))
    BY <1>10 DEF Reactivates
  <2> QED
    BY <1>1, <1>3, <1>6, <2>1, MineFits
<1> QED
  BY <1>7, <1>8, <1>9, <1>10

\* Subscription.create.
LEMMA PlanKeeps ==
    ASSUME BillingInv, NEW c \in BCalls, NEW s \in Subs, NEW n \in Seats, CreatesPlan(c, s, n)
    PROVE  BillingInv'
<1> DEFINE new == [status |-> "incomplete", seats |-> n, ending |-> FALSE]
           job == [Rest EXCEPT !.s = s, !.new = new]
<1>1. new \in SubRow
  BY DEF SubRow, Statuses, Numbers
<1>2. job \in JobRow /\ job.s = s /\ job.e = 0 /\ ~job.knew
  <2> HIDE DEF new
  <2> QED
    BY <1>1, RestFits
<1>3. /\ stripe[s].status = "none" /\ Sends(s, new) /\ At(c, "save", job) /\ bPc[c] = "create"
      /\ UNCHANGED <<store, claims, history>>
  BY DEF CreatesPlan
<1> HIDE DEF new, job
<1>4. BillingShape /\ seat \in [Mates \cup {Owner} -> 0 .. NSubs] /\ ~IsOver(stripe[s])
  BY <1>3 DEF BillingInv, BillingShape, StoreShape, IsOver
<1>5. StripeGrows
  BY <1>1, <1>3, <1>4, StripeSends
<1>6. StoreShape' /\ UNCHANGED <<sub, revived, claims, dropped>>
  BY <1>3, <1>4, StoreFits DEF store, history
<1>7. JobShape("save", job) /\ TellsEnd("save", job) /\ "save" \in BillingPlaces
  BY <1>2 DEF JobShape, TellsEnd, EmptyHanded, OfOwner, OfBoth, BillingPlaces
<1> QED
  BY <1>2, <1>3, <1>5, <1>6, <1>7, CallKeeps

\* Stripe, on its own: no call moves.
LEMMA StripeKeeps ==
    ASSUME BillingInv, NEW s \in Subs, Pays(s) \/ StripeCancels(s)
    PROVE  BillingInv'
<1>1. /\ BillingShape /\ stripe \in [Subs -> SubRow] /\ seat \in [Mates \cup {Owner} -> 0 .. NSubs]
      /\ claims \cup dropped \subseteq 1 .. Len(sent) /\ Len(sent) \in Nat
  BY LenProperties DEF BillingInv, BillingShape, StoreShape
<1>2. /\ ~IsOver(stripe[s]) /\ UNCHANGED <<store, claims, bPc, bJob, history>>
      /\ \E new \in SubRow : Sends(s, new)
  <2>1. /\ [stripe[s] EXCEPT !.status = "active"] \in SubRow
        /\ [stripe[s] EXCEPT !.status = "canceled"] \in SubRow
    BY <1>1 DEF SubRow, Statuses
  <2> QED
    BY <2>1 DEF Pays, StripeCancels, IsOver
<1>3. StripeGrows
  BY <1>1, <1>2, StripeSends
<1>4. StoreShape' /\ UNCHANGED <<sub, revived, claims, dropped, bPc, bJob>>
  BY <1>1, <1>2, StoreFits DEF store, history
<1>5. BillingShape'
  <2>1. /\ Len(sent') \in Nat /\ Len(sent) <= Len(sent')
        /\ \A i \in 1 .. Len(sent) : i \in 1 .. Len(sent') /\ sent'[i] = sent[i]
    BY <1>1, <1>3, LenProperties DEF StripeGrows
  <2>2. ASSUME NEW d \in BCalls
        PROVE  JobShape(bPc[d], bJob[d])'
    BY <1>1, <1>4, <2>1 DEF BillingShape, JobShape, FromEvent, Rest, Blank
  <2> QED
    BY <1>1, <1>3, <1>4, <2>1, <2>2 DEF BillingShape, StripeGrows
<1>6. /\ \A e \in (claims' \cap claims) \ dropped' :
             IsOver(sent[e]) => \/ IsOver(sub'[sent[e].s]) \/ sent[e].s \in revived'
                              \/ \E c \in BCalls : bJob'[c].e = e /\ bPc'[c] \in {"event", "save"}
      /\ claims' \ claims = {} /\ \A c \in BCalls : bPc'[c] = bPc[c] /\ bJob'[c] = bJob[c]
  BY <1>4 DEF BillingInv, NewsArrive
<1> QED
  BY <1>3, <1>5, <1>6, InvKeeps

\* What a row becomes when it is written: over, if it was over here and at Stripe, or else it
\* is one of those a handler had read before.
LEMMA WritesEnd ==
    ASSUME BillingInv, NEW c \in BCalls, Saves(c) \/ SavesEnding(c)
    PROVE  \A s \in Subs : IsOver(sub[s]) /\ IsOver(stripe[s]) => IsOver(sub'[s]) \/ s \in revived'
<1>1. sub \in [Subs -> SubRow] /\ bJob[c] \in JobRow /\ JobShape(bPc[c], bJob[c]) /\ TellsEnd(bPc[c], bJob[c])
  BY DEF BillingInv, BillingShape, StoreShape
<1>2. bPc[c] \in OfOwner \cup OfBoth
  BY DEF Saves, SavesEnding, OfOwner, OfBoth
<1>3. bJob[c].s \in Subs
  BY <1>1, <1>2 DEF JobShape
<1>4. CASE Saves(c)
  <2>1. /\ sub' = [sub EXCEPT ![bJob[c].s] = bJob[c].new]
        /\ Ended(bJob[c].s) /\ bJob[c].new.status # "canceled" /\ ~bJob[c].knew => bJob[c].s \in revived'
    BY <1>4 DEF Saves, SavesRow
  <2>2. IsOver(sub[bJob[c].s]) /\ IsOver(stripe[bJob[c].s]) => IsOver(bJob[c].new) \/ bJob[c].s \in revived'
    BY <1>1, <2>1 DEF TellsEnd, IsOver, Ended
  <2> QED
    BY <1>1, <1>3, <2>1, <2>2
<1>5. CASE SavesEnding(c)
  <2>1. sub' = [sub EXCEPT ![bJob[c].s] = [sub[bJob[c].s] EXCEPT !.ending = FALSE]]
    BY <1>5 DEF SavesEnding, SavesRow
  <2>2. [sub[bJob[c].s] EXCEPT !.ending = FALSE].status = sub[bJob[c].s].status
    BY <1>1, <1>3 DEF SubRow
  <2> QED
    BY <1>1, <1>3, <2>1, <2>2 DEF IsOver
<1> QED
  BY <1>4, <1>5

LEMMA SavesKeep ==
    ASSUME BillingInv, NEW c \in BCalls, Saves(c) \/ SavesEnding(c)
    PROVE  BillingInv'
<1>1. /\ BillingShape /\ sub \in [Subs -> SubRow] /\ newest \in 0 .. NSubs
      /\ seat \in [Mates \cup {Owner} -> 0 .. NSubs] /\ turns \in 0 .. MaxTurns /\ revived \subseteq Subs
      /\ bJob[c] \in JobRow /\ JobShape(bPc[c], bJob[c]) /\ TellsEnd(bPc[c], bJob[c])
      /\ claims \cup dropped \subseteq 1 .. Len(sent) /\ Len(sent) \in Nat
      /\ \A e \in 1 .. Len(sent) : IsOver(sent[e]) => IsOver(stripe[sent[e].s])
      /\ NewsArrive
  BY LenProperties DEF BillingInv, BillingShape, StoreShape
<1>2. bPc[c] \in {"save", "save only", "save dropped", "reactivated"}
  BY DEF Saves, SavesEnding
<1>3. bJob[c].s \in Subs /\ (bJob[c].e = 0 \/ FromEvent(bJob[c]))
  BY <1>1, <1>2 DEF JobShape, OfOwner, OfBoth
<1>4. \E new \in SubRow : sub' = [sub EXCEPT ![bJob[c].s] = new] /\ newest' = bJob[c].s
  <2>1. bJob[c].new \in SubRow /\ [sub[bJob[c].s] EXCEPT !.ending = FALSE] \in SubRow
    BY <1>1, <1>3 DEF JobRow, SubRow
  <2> QED
    BY <2>1 DEF Saves, SavesEnding, SavesRow
<1>5. UNCHANGED <<stripeVars, seat, claims, turns, dropped>>
  BY DEF Saves, SavesEnding, history
<1>6. revived' \subseteq Subs /\ revived \subseteq revived'
  BY <1>1, <1>3 DEF Saves, SavesEnding, history
<1>7. StripeGrows /\ StoreShape' /\ claims' \cup dropped' \subseteq 1 .. Len(sent)
  <2>1. bJob[c].s \in 0 .. NSubs
    BY <1>3, BillingAssumption DEF Subs
  <2>2. StoreShape'
    BY <1>1, <1>3, <1>4, <1>5, <1>6, <2>1 DEF StoreShape
  <2> QED
    BY <1>1, <1>5, <2>2, StripeRests
<1>8. \E place \in BillingPlaces, job \in JobRow :
        At(c, place, job) /\ JobShape(place, job) /\ TellsEnd(place, job)
  <2>1. CASE At(c, "saved", Mine(c)) /\ bPc[c] = "save"
    <3>1. JobShape("saved", Mine(c)) /\ TellsEnd("saved", Mine(c)) /\ Mine(c) \in JobRow
      BY <1>1, <1>3, MineFits DEF JobShape, TellsEnd, FromEvent, EmptyHanded, OfOwner, OfBoth
    <3> QED
      BY <2>1, <3>1 DEF BillingPlaces, OfBoth
  <2>2. \A place \in {"idle", "create"} :
          place \in BillingPlaces /\ JobShape(place, Rest) /\ TellsEnd(place, Rest)
    BY NothingFits DEF JobShape, TellsEnd, EmptyHanded, OfOwner, OfBoth, BillingPlaces
  <2>3. CASE At(c, "idle", Rest) \/ At(c, "create", Rest)
    BY <2>2, <2>3, NothingFits
  <2> QED
    BY <2>1, <2>3 DEF Saves, SavesEnding, Rests
<1>9. PICK place \in BillingPlaces, job \in JobRow :
        At(c, place, job) /\ JobShape(place, job) /\ TellsEnd(place, job)
  BY <1>8
<1>10. /\ BillingShape' /\ bPc'[c] = place /\ bJob'[c] = job
       /\ \A d \in BCalls \ {c} : bPc'[d] = bPc[d] /\ bJob'[d] = bJob[d]
  BY <1>1, <1>7, <1>9, CallShape
<1>11. \A s \in Subs : IsOver(sub[s]) /\ IsOver(stripe[s]) => IsOver(sub'[s]) \/ s \in revived'
  BY WritesEnd
<1>12. ASSUME NEW e \in (claims' \cap claims) \ dropped', IsOver(sent[e])
       PROVE  \/ IsOver(sub'[sent[e].s]) \/ sent[e].s \in revived'
              \/ \E d \in BCalls : bJob'[d].e = e /\ bPc'[d] \in {"event", "save"}
  <2>1. e \in claims \ dropped /\ e \in 1 .. Len(sent)
    BY <1>1, <1>5
  <2>2. sent[e].s \in Subs
    <3>1. sent[e] \in EventRow
      BY <1>1, <2>1, ElementOfSeq DEF BillingShape
    <3> QED
      BY <3>1 DEF EventRow
  <2>3. CASE sent[e].s \in revived
    BY <1>6, <2>3
  <2>4. CASE IsOver(sub[sent[e].s])
    <3>1. IsOver(stripe[sent[e].s])
      BY <1>1, <1>12, <2>1
    <3> QED
      BY <1>11, <2>2, <2>4, <3>1
  <2>5. ASSUME NEW d \in BCalls, bJob[d].e = e, bPc[d] \in {"event", "save"}
        PROVE  \/ IsOver(sub'[sent[e].s])
               \/ \E b \in BCalls : bJob'[b].e = e /\ bPc'[b] \in {"event", "save"}
    <3>1. CASE d = c
      <4>1. e # 0 /\ bPc[c] = "save" /\ bJob[c].s = sent[e].s /\ IsOver(bJob[c].new)
        <5>1. bJob[c].e = e /\ bPc[c] = "save"
          BY <1>2, <2>5, <3>1
        <5>2. bJob[c].e = e /\ e # 0 /\ bPc[c] = "save" /\ IsOver(sent[bJob[c].e])
          BY <1>12, <2>1, <5>1
        <5>3. bPc[c] = "save" /\ bJob[c].e # 0 => (IsOver(sent[bJob[c].e]) => IsOver(bJob[c].new))
          BY <1>1 DEF TellsEnd
        <5>4. bJob[c].s = sent[bJob[c].e].s
          BY <1>3, <5>2 DEF FromEvent
        <5> QED
          BY <5>2, <5>3, <5>4
      <4>2. sub' = [sub EXCEPT ![bJob[c].s] = bJob[c].new]
        BY <4>1 DEF Saves, SavesEnding, SavesRow
      <4> QED
        BY <1>1, <2>2, <4>1, <4>2
    <3>2. CASE d # c
      BY <1>10, <2>5, <3>2
    <3> QED
      BY <3>1, <3>2
  <2> QED
    BY <1>1, <1>12, <2>1, <2>3, <2>4, <2>5 DEF NewsArrive
<1>13. \A d \in BCalls : \/ bPc'[d] = bPc[d] /\ bJob'[d] = bJob[d]
                         \/ bJob'[d] \in JobRow /\ JobShape(bPc'[d], bJob'[d]) /\ TellsEnd(bPc'[d], bJob'[d])
  BY <1>9, <1>10
<1>14. claims' \ claims = {}
  BY <1>5
<1> QED
  BY <1>7, <1>10, <1>12, <1>13, <1>14, InvKeeps

\* The handler of an event that has just been claimed, goes on, or ends without writing.
LEMMA WebhookKeeps ==
    ASSUME BillingInv, NEW c \in BCalls,
           \/ \E e \in 1 .. Len(sent) : Claims(c, e)
           \/ ReadsRow(c) \/ Fails(c) \/ Dies(c)
    PROVE  BillingInv'
<1>1. /\ BillingShape /\ sub \in [Subs -> SubRow] /\ seat \in [Mates \cup {Owner} -> 0 .. NSubs]
      /\ bPc[c] \in BillingPlaces /\ bJob[c] \in JobRow /\ JobShape(bPc[c], bJob[c]) /\ TellsEnd(bPc[c], bJob[c])
      /\ claims \cup dropped \subseteq 1 .. Len(sent) /\ Len(sent) \in Nat
      /\ \A e \in 1 .. Len(sent) : IsOver(sent[e]) => IsOver(stripe[sent[e].s])
      /\ NewsArrive
  BY LenProperties DEF BillingInv, BillingShape, StoreShape
<1>2. \A e \in 1 .. Len(sent) : sent[e] \in EventRow /\ sent[e].s \in Subs
  <2>1. \A e \in 1 .. Len(sent) : sent[e] \in EventRow
    BY <1>1, ElementOfSeq DEF BillingShape
  <2> QED
    BY <2>1 DEF EventRow
<1>3. UNCHANGED <<stripeVars, store, revived>> /\ (Counted \/ UNCHANGED turns)
  BY DEF Claims, ReadsRow, Fails, HandlerRaises, Dies, history
<1>4. StripeGrows /\ StoreShape' /\ UNCHANGED <<sub, revived>>
  BY <1>1, <1>3, StripeRests, StoreFits DEF store
<1>5. ASSUME NEW place \in BillingPlaces, NEW job \in JobRow, At(c, place, job),
             JobShape(place, job), TellsEnd(place, job), claims' \cup dropped' \subseteq 1 .. Len(sent),
             bPc[c] \in {"event", "save"} /\ bJob[c].e # 0 =>
                 \/ bJob[c].e \notin claims' \ dropped' \/ ~IsOver(sent[bJob[c].e])
                 \/ IsOver(sub[sent[bJob[c].e].s]) \/ (job.e = bJob[c].e /\ place = "save"),
             dropped \subseteq dropped',
             claims' \ claims # {} => place = "event" /\ claims' \ claims = {job.e}
      PROVE  BillingInv'
  <2>1. /\ BillingShape' /\ bPc'[c] = place /\ bJob'[c] = job
        /\ \A d \in BCalls \ {c} : bPc'[d] = bPc[d] /\ bJob'[d] = bJob[d]
    BY <1>1, <1>4, <1>5, CallShape
  <2>2. ASSUME NEW e \in (claims' \cap claims) \ dropped', IsOver(sent[e])
        PROVE  \/ IsOver(sub'[sent[e].s]) \/ sent[e].s \in revived'
               \/ \E d \in BCalls : bJob'[d].e = e /\ bPc'[d] \in {"event", "save"}
    <3>1. e \in claims \ dropped /\ e # 0
      BY <1>1, <1>5
    <3>2. CASE IsOver(sub[sent[e].s]) \/ sent[e].s \in revived
      BY <1>4, <3>2
    <3>3. ASSUME NEW d \in BCalls, bJob[d].e = e, bPc[d] \in {"event", "save"}
          PROVE  \/ IsOver(sub[sent[e].s])
                 \/ \E b \in BCalls : bJob'[b].e = e /\ bPc'[b] \in {"event", "save"}
      BY <1>5, <2>1, <2>2, <3>1, <3>3
    <3> QED
      BY <1>1, <1>4, <2>2, <3>1, <3>2, <3>3 DEF NewsArrive
  <2>3. \A e \in claims' \ claims : \E d \in BCalls : bJob'[d].e = e /\ bPc'[d] \in {"event", "save"}
    BY <1>5, <2>1
  <2>4. \A d \in BCalls : \/ bPc'[d] = bPc[d] /\ bJob'[d] = bJob[d]
                          \/ bJob'[d] \in JobRow /\ JobShape(bPc'[d], bJob'[d]) /\ TellsEnd(bPc'[d], bJob'[d])
    BY <1>5, <2>1
  <2> QED
    BY <1>4, <2>1, <2>2, <2>3, <2>4, InvKeeps
<1>6. Rest \in JobRow /\ "idle" \in BillingPlaces /\ JobShape("idle", Rest) /\ TellsEnd("idle", Rest)
  BY NothingFits DEF JobShape, TellsEnd, EmptyHanded, OfOwner, OfBoth, BillingPlaces
<1>7. ASSUME NEW e \in 1 .. Len(sent), Claims(c, e)
      PROVE  BillingInv'
  <2> DEFINE job == [Rest EXCEPT !.s = sent[e].s, !.e = e]
  <2>1. job \in JobRow /\ job.s = sent[e].s /\ job.e = e /\ ~job.knew
    <3>1. sent[e].s \in Subs /\ e \in Nat
      BY <1>1, <1>2
    <3> QED
      BY <3>1, NothingFits DEF Rest, JobRow
  <2>2. At(c, "event", job) /\ claims' = claims \cup {e} /\ dropped' = dropped /\ bPc[c] = "idle"
    BY <1>7 DEF Claims, history
  <2> HIDE DEF job
  <2>3. JobShape("event", job) /\ TellsEnd("event", job) /\ "event" \in BillingPlaces
    BY <2>1 DEF JobShape, TellsEnd, FromEvent, EmptyHanded, OfOwner, OfBoth, BillingPlaces
  <2>4. bPc[c] \notin {"event", "save"} /\ claims' \cup dropped' \subseteq 1 .. Len(sent)
    BY <1>1, <2>2
  <2>5. claims' \ claims # {} => claims' \ claims = {job.e}
    BY <2>1, <2>2
  <2> QED
    BY <1>5, <2>1, <2>2, <2>3, <2>4, <2>5
<1>8. CASE ReadsRow(c)
  <2>1. /\ bPc[c] = "event" /\ FromEvent(bJob[c]) /\ UNCHANGED <<claims, dropped>>
        /\ claims' \cup dropped' \subseteq 1 .. Len(sent)
    BY <1>1, <1>8 DEF ReadsRow, JobShape, history
  <2>2. CASE Applies(c)
    <3> DEFINE new == Told(Event(c))
               job == [bJob[c] EXCEPT !.new = new, !.knew = Ended(bJob[c].s)]
    <3>1. new \in SubRow /\ new.status = sent[bJob[c].e].status
      BY <1>2, <2>1 DEF Told, Event, FromEvent, EventRow, SubRow
    <3>2. At(c, "save", job)
      BY <2>2 DEF Applies
    <3> HIDE DEF new
    <3>3. job \in JobRow /\ job.s = bJob[c].s /\ job.e = bJob[c].e /\ job.new = new
      BY <1>1, <3>1 DEF JobRow, Ended
    <3>4. job.knew = Ended(bJob[c].s)
      BY <1>1 DEF JobRow, Ended
    <3> HIDE DEF job
    <3>5. Ended(bJob[c].s) => IsOver(new)
      BY <1>8, <2>1, <2>2, <3>1, <3>2, <1>1 DEF ReadsRow, Event, Ended, IsOver, Rests, At, BillingShape
    <3>6. JobShape("save", job) /\ TellsEnd("save", job) /\ "save" \in BillingPlaces
      BY <1>2, <2>1, <3>1, <3>3, <3>4, <3>5 DEF JobShape, TellsEnd, FromEvent, IsOver, EmptyHanded, OfOwner, OfBoth,
         BillingPlaces
    <3> QED
      BY <1>5, <2>1, <3>2, <3>3, <3>6
  <2>3. CASE Rests(c) /\ sub[bJob[c].s].status = "canceled"
    <3>1. IsOver(sub[sent[bJob[c].e].s])
      BY <2>1, <2>3 DEF FromEvent, IsOver
    <3> QED
      BY <1>5, <1>6, <2>1, <2>3, <3>1 DEF Rests
  <2> QED
    BY <1>8, <2>2, <2>3 DEF ReadsRow
<1>9. CASE Fails(c)
  <2>1. At(c, "idle", Rest) /\ claims' = claims \ {bJob[c].e} /\ dropped' = dropped
    BY <1>9 DEF Fails, HandlerRaises, Rests
  <2>2. claims' \cup dropped' \subseteq 1 .. Len(sent) /\ claims' \ claims = {}
    BY <1>1, <2>1
  <2> QED
    BY <1>5, <1>6, <2>1, <2>2
<1>10. CASE Dies(c)
  <2>1. At(c, "idle", Rest) /\ claims' = claims /\ dropped' = dropped \cup {bJob[c].e} /\ bJob[c].e # 0
    BY <1>10 DEF Dies, Handling, Rests
  <2>2. bJob[c].e \in 1 .. Len(sent)
    <3>1. bPc[c] \in OfBoth \cup {"event"}
      BY <1>1, <2>1 DEF JobShape, BillingPlaces, Rest
    <3> QED
      BY <1>1, <2>1, <3>1 DEF JobShape, FromEvent
  <2>3. claims' \cup dropped' \subseteq 1 .. Len(sent) /\ claims' \ claims = {}
    BY <1>1, <2>1, <2>2
  <2> QED
    BY <1>5, <1>6, <2>1, <2>3
<1> QED
  BY <1>7, <1>8, <1>9, <1>10

LEMMA BillingStepKeeps ==
    ASSUME BillingInv, BillingNext
    PROVE  BillingInv'
BY TurnsKeep, SeatsKeep, ChangesKeep, PlanKeeps, StripeKeeps, SavesKeep, WebhookKeeps DEF BillingNext

LEMMA BillingKept == BillingInv /\ [BillingNext]_bVars => BillingInv'
<1>1. ASSUME BillingInv, UNCHANGED bVars
      PROVE  BillingInv'
  <2>1. UNCHANGED <<stripe, sent, sub, newest, seat, claims, bPc, bJob, turns, dropped, revived>>
    BY <1>1 DEF bVars, stripeVars, store, history
  <2> QED
    BY <1>1, <2>1 DEF BillingInv, BillingShape, StoreShape, JobShape, FromEvent, TellsEnd, NewsArrive
<1> QED
  BY <1>1, BillingStepKeeps

LEMMA BillingStarts == BillingInit => BillingInv
<1> SUFFICES ASSUME BillingInit
             PROVE  BillingInv
  OBVIOUS
<1>1. Blank \in SubRow /\ Blank = [status |-> "none", seats |-> 0, ending |-> FALSE]
  BY NothingFits DEF Blank
<1>2. stripe \in [Subs -> SubRow] /\ sub \in [Subs -> SubRow]
  BY <1>1 DEF BillingInit
<1>3. sent \in Seq(EventRow) /\ Len(sent) = 0
  BY EmptySeq DEF BillingInit
<1>4. StoreShape
  BY <1>2, BillingAssumption DEF BillingInit, StoreShape
<1>5. /\ \A c \in BCalls : bPc[c] = "idle" /\ bJob[c] = Rest
      /\ bPc \in [BCalls -> BillingPlaces] /\ bJob \in [BCalls -> JobRow]
  BY NothingFits DEF BillingInit, BillingPlaces, EmptyHanded
<1>6. \A c \in BCalls : JobShape(bPc[c], bJob[c]) /\ TellsEnd(bPc[c], bJob[c])
  BY <1>5, NothingFits DEF JobShape, TellsEnd, EmptyHanded, OfOwner, OfBoth
<1>7. claims = {} /\ dropped = {}
  BY DEF BillingInit
<1> QED
  BY <1>2, <1>3, <1>4, <1>5, <1>6, <1>7 DEF BillingInv, BillingShape, NewsArrive

\* No call is anywhere but where its request or event has brought it, with in its hands a row
\* of a subscription Stripe opened; and what is known to be over is written as over
\* (subscription.py, licenses.py, webhook.py).
THEOREM BillingInvHolds == BillingSpec => []BillingInv
BY BillingStarts, BillingKept, PTL DEF BillingSpec

LEMMA BillingFits == BillingInv => BillingTypeOK
BY DEF BillingInv, BillingShape, StoreShape, SubRow, Numbers, BillingPlaces, EmptyHanded, OfOwner, OfBoth,
       BillingTypeOK

LEMMA NewsFit == BillingInv => CancellationArrives
BY DEF BillingInv, NewsArrive, CancellationArrives, IsOver

\* An event that stays claimed was applied, unless its worker died (webhook.py:105): for any
\* number of requests and deliveries at the same time.
THEOREM CancellationAlwaysArrives == BillingSpec => []CancellationArrives
BY BillingInvHolds, NewsFit, PTL

LEMMA EndIsKept ==
    ASSUME BillingInv, BillingNext
    PROVE  \A s \in Subs : Ended(s) => sub'[s].status = "canceled" \/ s \in revived'
<1>1. CASE sub' = sub
  BY <1>1 DEF Ended
<1>2. sub' = sub \/ \E c \in BCalls : Saves(c) \/ SavesEnding(c)
  BY DEF BillingNext, Pays, StripeCancels, Subscribes, Drops, CreatesPlan, ReadsBack, OwnSeat, OwnSeatRefused,
         Raises, Confirms, ConfirmReads, Reads, ChangesSeats, CancelsNow, CancelsAtEnd, Reactivates,
         AssignsSeat, RevokesSeat, Summary, Claims, ReadsRow, Fails, HandlerRaises, Dies, store
<1> QED
  BY <1>1, <1>2, WritesEnd DEF Ended, IsOver

\* A subscription that is over, here and at Stripe, is revived by nobody who reads afterwards,
\* whatever overlaps (webhook.py:171).
THEOREM CanceledForGood == BillingSpec => CancelIsFinal
<1>1. BillingInv /\ [BillingNext]_bVars =>
        [\A s \in Subs : Ended(s) => sub'[s].status = "canceled" \/ s \in revived']_bVars
  BY EndIsKept
<1> QED
  BY <1>1, BillingInvHolds, PTL DEF BillingSpec, CancelIsFinal

-----------------------------------------------------------------------------
(* The parts together: one of them moves while the others rest. *)

AccountsInv ==
    /\ SessionsInv /\ CredentialsInv /\ CodesInv /\ LinksInv /\ LinksMailed
    /\ RatesInv /\ RatesBound /\ SharingInv /\ RequestFits /\ BillingInv

LEMMA AccountsBegin == AccountsInit => AccountsInv
<1> SUFFICES ASSUME AccountsInit PROVE AccountsInv
  OBVIOUS
<1>1. SessionsInv /\ CredentialsInv /\ CodesInv /\ LinksInv /\ LinksMailed /\ RatesInv
  BY SessionsInvInit, CredentialsInvInit, CodesBegin, LinksBegin, RatesBegin DEF AccountsInit
<1>2. RatesBound
  <2>1. RatesRest
    BY DEF AccountsInit
  <2>2. Len(<<>>) = 0 /\ <<>> \in Seq(Addresses)
    OBVIOUS
  <2>3. \A k \in Addresses : events[k] = <<>>
    BY <2>1 DEF RatesRest
  <2>4. \A r \in Rows : windows[r] = NoWindow
    BY <2>1 DEF RatesRest
  <2> QED BY <2>1, <2>2, <2>3, <2>4, RateLimitsAssumption DEF RatesRest, RatesBound
<1>3. SharingInv /\ RequestFits
  <2>1. GroupSharingInit \/ NothingShared
    BY DEF AccountsInit
  <2> QED BY <2>1, SharingBegins
          DEF GroupSharingInit, NothingShared, SharingInv, SharesShape, WithdrawalFits, NoRequest,
              RequestFits
<1>4. BillingInv
  BY BillingStarts DEF AccountsInit
<1> QED BY <1>1, <1>2, <1>3, <1>4 DEF AccountsInv

LEMMA AccountsStep ==
    ASSUME AccountsInv, [AccountsNext]_<<focus, accountVars, gsVars>>
    PROVE  AccountsInv'
<1>1. /\ [SessionsNext]_sVars /\ [CredentialsNext]_cVars /\ [RegistrationsNext]_rVars
      /\ [EditorCodesNext]_eVars /\ [SharedNext \/ LocalNext]_rateVars /\ [GroupSharingNext]_gsVars
      /\ [BillingNext]_bVars
  BY DEF AccountsNext, accountVars
<1>2. SessionsInv' /\ CredentialsInv' /\ CodesInv' /\ LinksInv' /\ LinksMailed'
  BY <1>1, SessionsInvStep, CredentialsInvStep, CodesInvStep, LinksInvStep, LinksMailedStep
     DEF AccountsInv
<1>3. RatesInv' /\ RatesBound' /\ SharingInv' /\ RequestFits'
  BY <1>1, RatesStepped, RatesBoundStep, SharingStepped, RequestFitsStep DEF AccountsInv
<1>4. BillingInv'
  BY <1>1, BillingKept DEF AccountsInv
<1> QED BY <1>2, <1>3, <1>4 DEF AccountsInv

\* Sessions, credentials, codes, links, quotas, shares and subscriptions keep their shapes, for
\* any number of each: a count stops one call over its quota, a process remembers at most
\* _MAX_IPS keys and the quota of each, no link is held that was not mailed, a request about
\* shares that is being served has rows to look at, and an event is one that Stripe has sent.
THEOREM AccountsTypeCorrect == AccountsSpec => []AccountsTypeOK
<1>1. AccountsInv => AccountsTypeOK
  <2> SUFFICES ASSUME AccountsInv PROVE AccountsTypeOK
    OBVIOUS
  <2>1. SessionsTypeOK /\ CredentialsTypeOK /\ EditorCodesTypeOK
    BY DEF AccountsInv, SessionsInv, CredentialsInv, CodesInv
  <2>2. RegistrationsTypeOK /\ RatesTypeOK
    BY LinksShape, RatesTyped DEF AccountsInv
  <2>3. GroupSharingTypeOK
    BY DEF AccountsInv, SharingInv, SharesShape, RequestFits, GroupSharingTypeOK
  <2>4. BillingTypeOK
    BY BillingFits DEF AccountsInv
  <2> QED BY <2>1, <2>2, <2>3, <2>4 DEF AccountsTypeOK
<1> QED BY <1>1, AccountsBegin, AccountsStep, PTL DEF AccountsSpec

\* A link that was mailed and a code that an editor was given work once, whatever requests
\* present them at the same time.
THEOREM CodesAndLinksWorkOnce == AccountsSpec => WorkOnce
<1>1. AccountsInv /\ [AccountsNext]_<<focus, accountVars, gsVars>> =>
        [\A l \in 1 .. MaxLinks : resets'[l] # resets[l] =>
            /\ resets[l] = 0 /\ l \notin stale
            /\ \E h \in Holders : people[h].reset = l]_rVars
  BY LinksInvStep DEF AccountsInv, AccountsNext, accountVars
<1>2. AccountsInv' => CodeIsSpent'
  BY DEF AccountsInv, CodesInv, CodeIsSpent
<1>3. AccountsInv /\ [AccountsNext]_<<focus, accountVars, gsVars>> => [CodeIsSpent']_eVars
  BY <1>2, AccountsStep
<1> QED
  BY <1>1, <1>3, AccountsBegin, AccountsStep, PTL DEF AccountsSpec, WorkOnce, ResetOnce
====
