---- MODULE Billing ----
(***************************************************************************)
(* The subscriptions of an account: the requests that call Stripe and then  *)
(* write their row (routes/billing/subscription.py, licenses.py), and the   *)
(* events of Stripe that write the same row (webhook.py), delivered late,   *)
(* twice or out of order (storage/billing.py).                              *)
(***************************************************************************)
EXTENDS Integers, Sequences, FiniteSets

CONSTANTS NSubs,        \* bound: subscriptions Stripe opens
          Seats,        \* numbers of seats to choose from
          Mates,        \* users the owner may give a seat to
          Owner,
          BCalls,       \* requests and deliveries of the backend, at the same time
          MaxTurns,     \* bound: requests of the owner, errors of a webhook, workers that die
          MaxEvents     \* bound: events Stripe sends

ASSUME BillingAssumption ==
    /\ {NSubs, MaxTurns, MaxEvents} \subseteq Nat /\ Seats \subseteq Nat \ {0}
    /\ Owner \notin Mates

VARIABLES
    stripe,  \* external: a subscription at Stripe
    sent,    \* external: what Stripe has sent, in order
    sub,     \* the rows of subscriptions
    newest,  \* the row with the latest updated_at, 0 without rows
    seat,    \* active license assignment of a user: a subscription, or 0
    claims,  \* stripe_events
    bPc, bJob,
    turns,
    dropped, \* history: events whose handler died
    revived  \* history: subscriptions a handler wrote from what it had read before their end

stripeVars == <<stripe, sent>>
store == <<sub, newest, seat>>
history == <<turns, dropped, revived>>
bVars == <<stripeVars, store, claims, bPc, bJob, history>>

Subs == 1 .. NSubs
Statuses == {"none", "incomplete", "active", "canceled"}
Blank == [status |-> "none", seats |-> 0, ending |-> FALSE]

\* What a handler has in hand: a subscription, the event it came with or 0, the row it has
\* read or will write, and (history) whether the end was known when it read.
Rest == [s |-> 0, e |-> 0, new |-> Blank, knew |-> FALSE]

\* At Stripe the metadata keep the seats of the first order.
BillingInit ==
    /\ stripe = [s \in Subs |-> [status |-> "none", seats |-> 0, ending |-> FALSE]]
    /\ sent = <<>> /\ claims = {} /\ dropped = {} /\ revived = {}
    /\ sub = [s \in Subs |-> Blank] /\ newest = 0
    /\ seat = [u \in Mates \cup {Owner} |-> 0]
    /\ bPc = [c \in BCalls |-> "idle"] /\ bJob = [c \in BCalls |-> Rest]
    /\ turns = 0

At(c, where, job) == /\ bPc' = [bPc EXCEPT ![c] = where]
                     /\ bJob' = [bJob EXCEPT ![c] = job]
Rests(c) == At(c, "idle", Rest)
Counted == turns < MaxTurns /\ turns' = turns + 1
Mine(c) == [Rest EXCEPT !.s = bJob[c].s, !.e = bJob[c].e]

\* get_active_by_username: the newest row only
Active == IF newest = 0 \/ sub[newest].status = "canceled" THEN 0 ELSE newest

\* The subscription is over, here and at Stripe.
Ended(s) == sub[s].status = "canceled" /\ stripe[s].status = "canceled"

\* Stripe changes a subscription and sends an event with what it is then.
Sends(s, new) ==
    /\ Len(sent) < MaxEvents
    /\ stripe' = [stripe EXCEPT ![s] = new]
    /\ sent' = Append(sent, [s |-> s, status |-> new.status, seats |-> new.seats,
                                 ending |-> new.ending])

\* upsert, with updated_at
SavesRow(s, new) == sub' = [sub EXCEPT ![s] = new] /\ newest' = s

\* assign_license: one transaction that has reserved the writer
Assignable(s, u) ==
    /\ sub[s].status \notin {"none", "canceled"} /\ seat[u] = 0
    /\ Cardinality({v \in DOMAIN seat : seat[v] = s}) < sub[s].seats

\* ensure_owner_license, with allow_existing: it raises for a row that is canceled by now and
\* for an owner whose seat is another subscription's.
SeatGiven(s) ==
    sub[s].status \notin {"none", "canceled"} /\ (seat[Owner] = s \/ Assignable(s, Owner))

-----------------------------------------------------------------------------
(* Stripe, on its own. *)

Pays(s) ==
    /\ stripe[s].status = "incomplete"
    /\ Sends(s, [stripe[s] EXCEPT !.status = "active"])
    /\ UNCHANGED <<store, claims, bPc, bJob, history>>

\* The period ends, or the panel of Stripe cancels.
StripeCancels(s) ==
    /\ stripe[s].status = "active"
    /\ Sends(s, [stripe[s] EXCEPT !.status = "canceled"])
    /\ UNCHANGED <<store, claims, bPc, bJob, history>>

-----------------------------------------------------------------------------
(* /subscribe *)

\* A live subscription is a 409; an incomplete one is dropped first.
Subscribes(c) ==
    /\ bPc[c] = "idle" /\ Counted
    /\ \/ Active = 0 /\ At(c, "create", Rest)
       \/ /\ Active # 0 /\ sub[Active].status = "incomplete"
          /\ At(c, "drop", [Rest EXCEPT !.s = Active, !.new = sub[Active]])
    /\ UNCHANGED <<stripeVars, store, claims, dropped, revived>>

\* _descartar_incompleta: Subscription.delete, whose error, whatever it is, is only logged,
\* and then the row that was read, canceled.
Drops(c) ==
    /\ bPc[c] = "drop"
    /\ \/ /\ stripe[bJob[c].s].status # "canceled"
          /\ Sends(bJob[c].s, [stripe[bJob[c].s] EXCEPT !.status = "canceled"])
       \/ UNCHANGED stripeVars
    /\ At(c, "save dropped", [bJob[c] EXCEPT !.new.status = "canceled", !.new.ending = TRUE])
    /\ UNCHANGED <<store, claims, history>>

\* Subscription.create
CreatesPlan(c, s, n) ==
    /\ bPc[c] = "create"
    /\ stripe[s].status = "none" /\ \A r \in 1 .. s - 1 : stripe[r].status # "none"
    /\ Sends(s, [status |-> "incomplete", seats |-> n, ending |-> FALSE])
    /\ At(c, "save", [Rest EXCEPT !.s = s,
                                  !.new = [status |-> "incomplete", seats |-> n, ending |-> FALSE]])
    /\ UNCHANGED <<store, claims, history>>

-----------------------------------------------------------------------------
(* The end of a handler: it writes its row, reads it back, and sees to the   *)
(* seat of the owner, each in a transaction of its own.                      *)

Saves(c) ==
    /\ \/ bPc[c] = "save" /\ At(c, "saved", Mine(c))
       \/ bPc[c] = "save only" /\ Rests(c)
       \/ bPc[c] = "save dropped" /\ At(c, "create", Rest)
    /\ SavesRow(bJob[c].s, bJob[c].new)
    /\ revived' = IF Ended(bJob[c].s) /\ bJob[c].new.status # "canceled" /\ ~bJob[c].knew
                  THEN revived \cup {bJob[c].s} ELSE revived
    /\ UNCHANGED <<stripeVars, seat, claims, turns, dropped>>

\* ensure_owner_license has nothing to do for a canceled row.
ReadsBack(c) ==
    /\ bPc[c] = "saved"
    /\ IF sub[bJob[c].s].status = "canceled" THEN Rests(c) ELSE At(c, "own seat", bJob[c])
    /\ UNCHANGED <<stripeVars, store, claims, history>>

OwnSeat(c) ==
    /\ bPc[c] = "own seat" /\ SeatGiven(bJob[c].s)
    /\ seat' = [seat EXCEPT ![Owner] = bJob[c].s]
    /\ Rests(c)
    /\ UNCHANGED <<stripeVars, sub, newest, claims, history>>

\* In a request, a ValueError nobody catches: 500.
OwnSeatRefused(c) ==
    /\ bPc[c] = "own seat" /\ bJob[c].e = 0 /\ ~SeatGiven(bJob[c].s)
    /\ At(c, "seat refused", bJob[c])
    /\ UNCHANGED <<stripeVars, store, claims, history>>

\* A request ends before it is done: an error of Stripe or of the database (two that insert
\* one row), or a rule of the seats.
Raises(c) ==
    /\ bPc[c] # "idle" /\ bJob[c].e = 0
    /\ Rests(c)
    /\ UNCHANGED <<stripeVars, store, claims, history>>

-----------------------------------------------------------------------------
(* The other requests of the owner: each reads a row, calls Stripe, and      *)
(* writes what it had read.                                                  *)

\* confirm asks Stripe first, and looks at no status of the row.
Confirms(c, s) ==
    /\ bPc[c] = "idle" /\ Counted /\ stripe[s].status # "none"
    /\ At(c, "confirm", [Rest EXCEPT !.s = s, !.knew = Ended(s),
            !.new = [Blank EXCEPT !.status = stripe[s].status, !.ending = stripe[s].ending]])
    /\ UNCHANGED <<stripeVars, store, claims, dropped, revived>>

ConfirmReads(c) ==
    /\ bPc[c] = "confirm" /\ sub[bJob[c].s].status # "none"
    /\ At(c, "save", [bJob[c] EXCEPT !.new.seats = sub[bJob[c].s].seats])
    /\ UNCHANGED <<stripeVars, store, claims, history>>

Reads(c, place) ==
    /\ bPc[c] = "idle" /\ Counted /\ Active # 0
    /\ place = "reactivate" => sub[Active].ending
    /\ At(c, place, [Rest EXCEPT !.s = Active, !.new = sub[Active]])
    /\ UNCHANGED <<stripeVars, store, claims, dropped, revived>>

\* change_seats: the price changes at Stripe, the metadata do not.
ChangesSeats(c, n) ==
    /\ bPc[c] = "change" /\ stripe[bJob[c].s].status # "canceled"
    /\ n >= Cardinality({v \in DOMAIN seat : seat[v] = bJob[c].s})
    /\ Sends(bJob[c].s, stripe[bJob[c].s])
    /\ At(c, "save only", [bJob[c] EXCEPT !.new.seats = n])
    /\ UNCHANGED <<store, claims, history>>

\* cancel, at once ...
CancelsNow(c) ==
    /\ bPc[c] = "cancel" /\ stripe[bJob[c].s].status # "canceled"
    /\ Sends(bJob[c].s, [stripe[bJob[c].s] EXCEPT !.status = "canceled"])
    /\ At(c, "save only", [bJob[c] EXCEPT !.new.status = "canceled", !.new.ending = TRUE])
    /\ UNCHANGED <<store, claims, history>>

\* ... or when the period ends
CancelsAtEnd(c) ==
    /\ bPc[c] = "cancel" /\ stripe[bJob[c].s].status # "canceled"
    /\ Sends(bJob[c].s, [stripe[bJob[c].s] EXCEPT !.ending = TRUE])
    /\ At(c, "save only", [bJob[c] EXCEPT !.new.ending = TRUE])
    /\ UNCHANGED <<store, claims, history>>

Reactivates(c) ==
    /\ bPc[c] = "reactivate" /\ stripe[bJob[c].s].status # "canceled"
    /\ Sends(bJob[c].s, [stripe[bJob[c].s] EXCEPT !.ending = FALSE])
    /\ At(c, "reactivated", Mine(c))
    /\ UNCHANGED <<store, claims, history>>

\* set_cancel_at_period_end: that column and updated_at, nothing else
SavesEnding(c) ==
    /\ bPc[c] = "reactivated"
    /\ SavesRow(bJob[c].s, [sub[bJob[c].s] EXCEPT !.ending = FALSE])
    /\ Rests(c)
    /\ UNCHANGED <<stripeVars, seat, claims, history>>

AssignsSeat(c, u) ==
    /\ bPc[c] = "seats" /\ Assignable(bJob[c].s, u)
    /\ seat' = [seat EXCEPT ![u] = bJob[c].s]
    /\ At(c, "summary", Rest)
    /\ UNCHANGED <<stripeVars, sub, newest, claims, history>>

RevokesSeat(c, u) ==
    /\ bPc[c] = "seats" /\ seat[u] = bJob[c].s
    /\ seat' = [seat EXCEPT ![u] = 0]
    /\ At(c, "summary", Rest)
    /\ UNCHANGED <<stripeVars, sub, newest, claims, history>>

\* license_summary_for_owner, alone (GET /licenses) or at the end of the two before
Summary(c) ==
    /\ \/ bPc[c] = "idle" /\ Counted
       \/ bPc[c] = "summary" /\ UNCHANGED turns
    /\ \/ Active # 0 /\ At(c, "own seat", [Rest EXCEPT !.s = Active])
       \/ Active = 0 /\ Rests(c)
    /\ UNCHANGED <<stripeVars, store, claims, dropped, revived>>

-----------------------------------------------------------------------------
(* The webhook. *)

\* A delivery, the first or another one: claim_event.  A claimed event is a 200 and no more.
Claims(c, e) ==
    /\ bPc[c] = "idle" /\ e \notin claims
    /\ claims' = claims \cup {e}
    /\ At(c, "event", [Rest EXCEPT !.s = sent[e].s, !.e = e])
    /\ UNCHANGED <<stripeVars, store, history>>

Event(c) == sent[bJob[c].e]
Told(e) == [status |-> e.status, seats |-> e.seats, ending |-> e.ending]
Applies(c) ==
    At(c, "save", [bJob[c] EXCEPT !.new = Told(Event(c)), !.knew = Ended(bJob[c].s)])

(* A slip: a canceled row is written like any other. *)
ReadsRowOnly(c) ==
    /\ bPc[c] = "event" /\ Applies(c)
    /\ UNCHANGED <<stripeVars, store, claims, history>>

\* existing: an event that is not a cancellation does not touch a canceled row.
ReadsRow(c) ==
    /\ bPc[c] = "event"
    /\ IF sub[bJob[c].s].status = "canceled" /\ Event(c).status # "canceled"
       THEN Rests(c) ELSE Applies(c)
    /\ UNCHANGED <<stripeVars, store, claims, history>>

Handling(c) == bJob[c].e # 0

\* The seat is refused, or anything else goes wrong.
HandlerRaises(c) ==
    /\ Handling(c)
    /\ \/ bPc[c] = "own seat" /\ ~SeatGiven(bJob[c].s) /\ UNCHANGED turns
       \/ Counted
    /\ Rests(c)
    /\ UNCHANGED <<stripeVars, store, dropped, revived>>

(* A slip: the event stays claimed. *)
FailsAndKeeps(c) == HandlerRaises(c) /\ UNCHANGED claims

\* An exception: discard_event, and the 500 that makes Stripe try again.
Fails(c) == HandlerRaises(c) /\ claims' = claims \ {bJob[c].e}

\* The worker dies with the event claimed.
Dies(c) ==
    /\ Handling(c) /\ Counted
    /\ dropped' = dropped \cup {bJob[c].e}
    /\ Rests(c)
    /\ UNCHANGED <<stripeVars, store, claims, revived>>

BillingNext ==
    \/ \E s \in Subs : Pays(s) \/ StripeCancels(s)
    \/ \E c \in BCalls :
         \/ Subscribes(c) \/ Drops(c) \/ \E s \in Subs, n \in Seats : CreatesPlan(c, s, n)
         \/ Saves(c) \/ ReadsBack(c) \/ OwnSeat(c) \/ OwnSeatRefused(c) \/ Raises(c)
         \/ \E s \in Subs : Confirms(c, s)
         \/ ConfirmReads(c)
         \/ \E place \in {"change", "cancel", "reactivate", "seats"} : Reads(c, place)
         \/ \E n \in Seats : ChangesSeats(c, n)
         \/ CancelsNow(c) \/ CancelsAtEnd(c) \/ Reactivates(c) \/ SavesEnding(c)
         \/ \E u \in Mates : AssignsSeat(c, u) \/ RevokesSeat(c, u)
         \/ Summary(c)
         \/ \E e \in 1 .. Len(sent) : Claims(c, e)
         \/ ReadsRow(c) \/ Fails(c) \/ Dies(c)

BillingSpec == BillingInit /\ [][BillingNext]_bVars

-----------------------------------------------------------------------------
(* Properties. *)

\* Every variable keeps the shape Init gives it.
BillingTypeOK ==
    /\ sub \in [Subs -> [status : Statuses, seats : Seats \cup {0}, ending : BOOLEAN]]
    /\ newest \in 0 .. NSubs /\ seat \in [Mates \cup {Owner} -> 0 .. NSubs]
    /\ claims \cup dropped \subseteq 1 .. Len(sent)
    /\ turns \in 0 .. MaxTurns /\ revived \subseteq Subs
    /\ bPc \in [BCalls -> {"idle", "create", "drop", "save dropped", "save", "save only", "saved",
                           "own seat", "seat refused", "confirm", "change", "cancel", "reactivate",
                           "reactivated", "seats", "summary", "event"}]

\* A subscription that is over, here and at Stripe, is made something else only by a handler
\* that had read before that: no event delivered late or twice (webhook.py:171) and no request
\* that begins afterwards revives it, however many are at work.
CancelIsFinal ==
    [][\A s \in Subs : Ended(s) => sub'[s].status = "canceled" \/ s \in revived']_bVars

\* An event that stays claimed was applied, unless its worker died: an error half way never
\* turns the news of a cancellation into news already handled, and what undoes them later is
\* only a handler that had read before.
CancellationArrives ==
    \A e \in claims \ dropped :
       sent[e].status = "canceled" /\ (\A c \in BCalls : bJob[c].e # e) =>
          sub[sent[e].s].status = "canceled" \/ sent[e].s \in revived

\* subscription.py:161, an unpaid subscription is dropped "para poder empezar el alta de
\* nuevo": the new one is not refused.
SignUpCanBeRetried == \A c \in BCalls : bPc[c] # "seat refused"
====
