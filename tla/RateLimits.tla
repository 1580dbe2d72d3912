---- MODULE RateLimits ----
(***************************************************************************)
(* The quotas of middleware/ratelimit.py.  A shared limiter counts in a     *)
(* fixed window of the database, one row per limiter and key, with one      *)
(* UPSERT; the others keep a sliding window in the memory of the process,   *)
(* of a bounded number of keys.                                             *)
(***************************************************************************)
EXTENDS Integers, Sequences, FiniteSets, FiniteSetsExt, SequencesExt

CONSTANTS Limiters, Window,  \* shared limiters and the length of their windows
          Principals, Wide,  \* keys: who asks, and everyone behind one address
          Addresses,         \* keys of a limiter in memory
          LocalCalls, LocalWindow, \* its quota and its window
          Calls, IpCalls,    \* quota of a principal and of an address
          Costs,             \* units a request takes
          Askers,            \* requests at work
          Slots,             \* _MAX_IPS: keys a process remembers
          LastNow,           \* bound: the clock goes from 0 to LastNow
          Patience           \* bound: a request waits that long for a connection

ASSUME RateLimitsAssumption ==
    /\ Window \in [Limiters -> Nat \ {0}]
    \* There are limiters, and one of them has the longest window.
    /\ \E l \in Limiters : \A m \in Limiters : Window[m] <= Window[l]
    /\ Calls \in Nat \ {0} /\ IpCalls \in Nat \ {0} /\ Costs \subseteq Nat \ {0} /\ Slots \in Nat \ {0}
    /\ LocalCalls \in Nat \ {0} /\ LocalWindow \in Nat \ {0}
    /\ LastNow \in Nat /\ Patience \in Nat
    /\ \A l \in Limiters : Patience < Window[l]

VARIABLES
    clock,
    windows,  \* rate_limit_windows: window_start and request_count of a row, or NoWindow
    asking,   \* the UPSERT a request is about to send, or NoWindow
    events,   \* _data of one process: the grants of a key
    lru,      \* its keys, the one used longest ago first
    given,    \* history: the last window of a row and what it granted
    recent    \* history: grants of a local key in its last window

rateVars == <<clock, windows, asking, events, lru, given, recent>>
sharedVars == <<windows, asking, given>>
localVars == <<events, lru, recent>>

Rows == Limiters \X (Principals \cup {Wide})
NoWindow == <<>>
Quota(r) == IF r[2] = Wide THEN IpCalls ELSE Calls

RatesRest ==
    /\ clock = 0
    /\ windows = [r \in Rows |-> NoWindow] /\ asking = [q \in Askers |-> NoWindow]
    /\ events = [k \in Addresses |-> <<>>] /\ lru = <<>>
    /\ given = [r \in Rows |-> NoWindow] /\ recent = [k \in Addresses |-> <<>>]

-----------------------------------------------------------------------------
(* Shared limiters. *)

\* __call__: a unit; consume_key: several.
Asks(q) ==
    /\ asking[q] = NoWindow
    /\ \E l \in Limiters, k \in Principals, cost \in Costs :
         asking' = [asking EXCEPT ![q] = [row |-> <<l, k>>, now |-> clock, cost |-> cost]]
    /\ UNCHANGED <<clock, windows, given, localVars>>

(* A slip: a rejected request starts its window again. *)
UpsertRenewing(r, now, cost) ==
    LET win == windows[r] IN
    IF win = NoWindow \/ win.start <= now - Window[r[1]] THEN [start |-> now, count |-> cost]
    ELSE IF win.count > Quota(r) THEN [start |-> now, count |-> cost]
    ELSE [win EXCEPT !.count = @ + cost]

\* consume_window_weighted. Bound: the count stops at one call more than the quota.
Upsert(r, now, cost) ==
    LET win == windows[r] IN
    IF win = NoWindow \/ win.start <= now - Window[r[1]]
    THEN [start |-> now, count |-> Min({cost, Quota(r) + 1})]
    ELSE [win EXCEPT !.count = Min({@ + cost, Quota(r) + 1})]

\* What a row granted since its window began.
Granted(r, w, cost) ==
    IF given[r] # NoWindow /\ given[r].start = w.start THEN [given[r] EXCEPT !.count = @ + cost]
    ELSE [start |-> w.start, count |-> cost]

\* _consume_shared: the clock was read before the connection was opened.  A principal that
\* is let through is counted once more, with everyone of its address.
Consumes(q) ==
    /\ asking[q] # NoWindow
    /\ LET ask == asking[q]
           win == Upsert(ask.row, ask.now, ask.cost)
           admitted == win.count <= Quota(ask.row)
       IN
       /\ windows' = [windows EXCEPT ![ask.row] = win]
       /\ given' = IF admitted THEN [given EXCEPT ![ask.row] = Granted(ask.row, win, ask.cost)] ELSE given
       /\ asking' = [asking EXCEPT ![q] =
             IF admitted /\ ask.row[2] # Wide
             THEN [row |-> <<ask.row[1], Wide>>, now |-> clock, cost |-> ask.cost] ELSE NoWindow]
    /\ UNCHANGED <<clock, localVars>>

(* A slip: the horizon is the shortest window. *)
HorizonShortest == Min({Window[l] : l \in Limiters})

\* The longest window of the shared limiters.
Horizon == Max({Window[l] : l \in Limiters})

\* purge_expired_windows
Purges ==
    /\ \E r \in Rows : windows[r] # NoWindow
    /\ windows' = [r \in Rows |-> IF windows[r] # NoWindow /\ windows[r].start < clock - Horizon
                                  THEN NoWindow ELSE windows[r]]
    /\ UNCHANGED <<clock, asking, given, localVars>>

-----------------------------------------------------------------------------
(* A limiter in the memory of a process. *)

\* How many events popleft takes from the left, and what it leaves.
Expired(s) == CHOOSE n \in 0 .. Len(s) :
    /\ \A i \in 1 .. n : s[i] <= clock - LocalWindow
    /\ n = Len(s) \/ s[n + 1] > clock - LocalWindow
LiveEvents(s) == SubSeq(s, Expired(s) + 1, Len(s))

\* _consume_local, with a cost of one; the eviction follows the grant.
ConsumesHere(k) ==
    /\ LET kept == LiveEvents(events[k])
           order == Append(RemoveFirst(lru, k), k)
       IN IF Len(kept) + 1 > LocalCalls
          THEN events' = [events EXCEPT ![k] = kept] /\ lru' = order /\ UNCHANGED recent
          ELSE LET left == IF Len(order) > Slots THEN {Head(order)} ELSE {} IN
               /\ lru' = IF left = {} THEN order ELSE Tail(order)
               /\ events' = [j \in Addresses |-> IF j \in left THEN <<>>
                                                  ELSE IF j = k THEN Append(kept, clock)
                                                  ELSE events[j]]
               \* A key that was forgotten starts afresh.
               /\ recent' = [j \in Addresses |-> IF j \in left THEN <<>>
                                  ELSE IF j = k THEN Append(LiveEvents(recent[k]), clock)
                                  ELSE recent[j]]
    /\ UNCHANGED <<clock, sharedVars>>

-----------------------------------------------------------------------------

\* Bound: nobody waits for a connection longer than Patience.
ClockTicks ==
    /\ clock < LastNow
    /\ \A q \in Askers : asking[q] # NoWindow => clock < asking[q].now + Patience
    /\ clock' = clock + 1
    /\ UNCHANGED <<sharedVars, localVars>>

SharedNext == (\E q \in Askers : Asks(q) \/ Consumes(q)) \/ Purges \/ ClockTicks
LocalNext == (\E k \in Addresses : ConsumesHere(k)) \/ ClockTicks

RatesSpec == RatesRest /\ [][SharedNext \/ LocalNext]_rateVars

-----------------------------------------------------------------------------
(* Properties. *)

\* Every variable keeps the shape Init gives it.
RatesTypeOK ==
    /\ clock \in 0 .. LastNow
    /\ \A r \in Rows : windows[r] = NoWindow \/
         (windows[r].start \in 0 .. LastNow /\ windows[r].count \in 1 .. Quota(r) + 1)
    /\ \A q \in Askers : asking[q] = NoWindow \/ asking[q].row \in Rows
    /\ Range(lru) \subseteq Addresses /\ Len(lru) <= Slots
    /\ \A k \in Addresses : Len(events[k]) <= LocalCalls

\* The window that ends when another begins: it was over, or, if it has been purged, would
\* have been but for the time the request waited for its connection.
WindowsApart(r) ==
    LET over == given[r].start + Window[r[1]] IN
    \/ given'[r].start = given[r].start \/ given'[r].start >= over
    \/ windows[r] = NoWindow /\ given'[r].start + Patience > over

\* Requests that overlap, wait, are rejected or come after a purge never make a row grant
\* more than its quota in one window, nor start a window before the last one is over: a
\* purge gives nobody quota back (ratelimit.sql:30), but for the time of a request whose
\* clock was read before the purge.  A limiter in memory grants no more than its quota in
\* any window, while it remembers the key.
QuotaKept ==
    [][/\ \A r \in Rows : given'[r] # given[r] =>
            given'[r].count <= Quota(r) /\ (given[r] = NoWindow \/ WindowsApart(r))
       /\ \A k \in Addresses : recent'[k] # recent[k] => Len(recent'[k]) <= LocalCalls]_rateVars
====
