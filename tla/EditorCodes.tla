---- MODULE EditorCodes ----
(***************************************************************************)
(* The code an editor exchanges for a personal access token                 *)
(* (storage/tokens.py, routes/auth/vscode_oauth.py).  The browser stores    *)
(* it; the exchange reads its row, deletes it, and then decides.            *)
(***************************************************************************)
EXTENDS Naturals

CONSTANTS Codes, Editors, NoCode

ASSUME EditorCodesAssumption == NoCode \notin Codes

VARIABLES
    code,    \* row of vscode_auth_codes: "none", "stored" or "gone"
    aged,    \* codes older than _CODE_TTL
    ePc, eJob,
    pats,    \* PATs issued for a code
    answered \* history: codes that some exchange has been answered about

eVars == <<code, aged, ePc, eJob, pats, answered>>

NoExchange == [k |-> NoCode, right |-> FALSE, late |-> FALSE]

EditorCodesInit ==
    /\ code = [k \in Codes |-> "none"] /\ aged = {} /\ answered = {}
    /\ ePc = [e \in Editors |-> "idle"] /\ eJob = [e \in Editors |-> NoExchange]
    /\ pats = [k \in Codes |-> 0]

\* create_auth_code: purge_expired_codes and insert_auth_code, one transaction.
Authorizes(k) ==
    /\ code[k] = "none"
    /\ code' = [i \in Codes |-> IF i = k THEN "stored" ELSE IF i \in aged THEN "gone" ELSE code[i]]
    /\ UNCHANGED <<aged, ePc, eJob, pats, answered>>

CodeAges(k) ==
    /\ code[k] # "none" /\ aged' = aged \cup {k}
    /\ UNCHANGED <<code, ePc, eJob, pats, answered>>

\* get_auth_code; right: the state is the one the code was stored with
ExchangeReads(e, k, right) ==
    /\ ePc[e] = "idle" /\ code[k] = "stored"
    /\ ePc' = [ePc EXCEPT ![e] = "delete"]
    /\ eJob' = [eJob EXCEPT ![e] = [k |-> k, right |-> right, late |-> k \in answered]]
    /\ UNCHANGED <<code, aged, pats, answered>>

Good(e) == eJob[e].k \notin aged /\ eJob[e].right

(* A slip: the row goes only when its PAT is issued. *)
ExchangeDeletesIfGood(e) ==
    /\ ePc[e] = "delete"
    /\ code' = IF Good(e) THEN [code EXCEPT ![eJob[e].k] = "gone"] ELSE code
    /\ ePc' = [ePc EXCEPT ![e] = IF Good(e) THEN "create" ELSE "refused"]
    /\ UNCHANGED <<aged, eJob, pats, answered>>

\* The row goes whatever the answer will be.
ExchangeDeletes(e) ==
    /\ ePc[e] = "delete"
    /\ code' = [code EXCEPT ![eJob[e].k] = "gone"]
    /\ ePc' = [ePc EXCEPT ![e] = IF Good(e) THEN "create" ELSE "refused"]
    /\ UNCHANGED <<aged, eJob, pats, answered>>

\* TokenStorage.create and the answer, or 400 invalid_auth_code
Exchanged(e) ==
    /\ ePc[e] \in {"create", "refused"}
    /\ pats' = IF ePc[e] = "create" THEN [pats EXCEPT ![eJob[e].k] = @ + 1] ELSE pats
    /\ answered' = answered \cup {eJob[e].k}
    /\ ePc' = [ePc EXCEPT ![e] = "idle"] /\ eJob' = [eJob EXCEPT ![e] = NoExchange]
    /\ UNCHANGED <<code, aged>>

\* The worker dies: a code deleted is lost, and its editor asks for another.
ExchangeDies(e) ==
    /\ ePc[e] # "idle"
    /\ ePc' = [ePc EXCEPT ![e] = "idle"] /\ eJob' = [eJob EXCEPT ![e] = NoExchange]
    /\ UNCHANGED <<code, aged, pats, answered>>

EditorCodesNext ==
    \/ \E k \in Codes : Authorizes(k) \/ CodeAges(k)
    \/ \E e \in Editors :
         \/ \E k \in Codes, right \in BOOLEAN : ExchangeReads(e, k, right)
         \/ ExchangeDeletes(e) \/ Exchanged(e) \/ ExchangeDies(e)

EditorCodesSpec == EditorCodesInit /\ [][EditorCodesNext]_eVars

-----------------------------------------------------------------------------
(* Properties. *)

\* Every variable keeps the shape Init gives it.
EditorCodesTypeOK ==
    /\ code \in [Codes -> {"none", "stored", "gone"}] /\ aged \subseteq Codes
    /\ ePc \in [Editors -> {"idle", "delete", "create", "refused"}]
    /\ eJob \in [Editors -> [k : Codes \cup {NoCode}, right : BOOLEAN, late : BOOLEAN]]
    /\ pats \in [Codes -> Nat] /\ answered \subseteq Codes

\* Once an exchange of a code is answered, well or badly, no exchange that begins later
\* gets a PAT for it (tokens.py:123, "no merece un segundo intento").
CodeIsSpent == \A e \in Editors : ePc[e] = "create" => ~eJob[e].late
====
