# TLA+ models of the iAgentsHub backend

The program is a FastAPI backend (`src/app/`): several uvicorn workers share one
SQLite or PostgreSQL database and nothing else. A worker runs one event loop;
requests, streams, workflow runs and maintenance loops are tasks of it, so every
`await` is a place where another task or another worker may act. What is hard in
this program is that: read-then-write across two statements, leases and
heartbeats, sweeps of what a dead worker left behind, and clients that go away.

In every module the database is the shared state. A statement outside a
transaction, or a whole transaction, is one step; what happens between two
awaits of one task is one step. Where a handler begins with several reads that
decide nothing until its first write, they are one step.

| modules | about |
| --- | --- |
| `WorkflowRuns`, `OneExecution`, `RunEventStream` | executions: leases, runs, streams of events |
| `ChatAnswers` | streamed answers and the LLM executor |
| `SqlitePool` | database connections |
| `Sessions`, `Credentials`, `Registrations`, `EditorCodes` | accounts |
| `RateLimits` | quotas of the routes |
| `Groups`, `GroupSharing`, `Guests` | teams and what is shared with them, erasure of accounts, guests |
| `Billing` | subscriptions and the events of Stripe |
| `WorkflowGraph` | definitions of workflows and the rounds that run them |
| `KnowledgePacks`, `AgentImports` | what users upload |
| `OfficialSources` | what administrators bring from repositories |
| `CursorPages` | listings, page by page |
| `WorkflowRunsProofs`, `ChatAnswersProofs`, `AccountsProofs`, `PopulationProofs`, `WorkflowGraphProofs`, `ServicesProofs`, `CursorPagesProofs`, `UploadsProofs` | theorems |
| `MC*` | small constants for all of them |

An operator whose comment begins with "A slip" is not part of a specification: it
is a plausible mistake in the definition below it, kept to show that the
properties notice it. Variables marked "history" are read by properties only.

TLC checks a property on the small instance of a run; a theorem of a `*Proofs`
module states it for every value of the constants and TLAPS checks the proof. Each
section below says what is proved of its part and along which argument; the
section *Theorems* says what is not.

## Inventory

State, operations and correctness of every part.

| part | state | operations | must hold | module |
| --- | --- | --- | --- | --- |
| execution leases | row per (user, resource) | acquire, heartbeat, release, purge | one execution at a time; nobody deletes another's row | `WorkflowRuns`, `OneExecution` |
| workflow runs | run row, event log | start, drive, cancel, sweep, retention | every run ends, once; the log explains the status | `WorkflowRuns` |
| run routes and streams | cursor of a reader | stream, follow, cancel | a stream ends, complete | `WorkflowRuns`, `RunEventStream` |
| agent chat | answer state of one response | stream tokens, record | one voice; what was shown is kept | `ChatAnswers` |
| LLM executor | slots, thread pool | reserve, run, release, cancel | slots never duplicated or lost; nobody waits for a slot | `ChatAnswers` |
| LLM routing | ranking of candidates | rank, fail over | no failover after the first token | `ChatAnswers` |
| database access | pool of SQLite connections | get, transaction, release, replace, close | one holder; clean handover; capacity kept | `SqlitePool` |
| sessions | row with two refresh hashes, cookies | login, rotate, reuse, revoke, change of password | revoked stays revoked; reuse means two clients | `Sessions` |
| account cache, tokens | one entry per worker and account; hashed tokens | identify, cache, evict, revoke | a cached state is at most 60 s old | `Credentials` |
| accounts | rows of users, mailed links | register, verify, forgot, reset, GitHub | a link resets once | `Registrations` |
| editor sign-in | one-time codes | authorize, exchange | a code is spent by its first answer | `EditorCodes` |
| rate limits | windows in the database, deques in a process | consume, purge | at most the quota in a window | `RateLimits` |
| groups and invitations | members, invitations, owner | invite, accept, cancel, transfer, remove, delete | the owner is a member | `Groups` |
| sharing with a team | rows by hand or by cascade | share, withdraw | what came with a resource leaves with it, unless it is still needed | `GroupSharing` |
| erasure of accounts | grace period | schedule, cancel, sweep | who is due goes, and nothing of others with them | `Groups` |
| guests | guest users, sessions | admit, renew, leave, sweep | cap; a guest in use is not erased; the others go | `Guests` |
| billing | subscription, seats, claimed events | checkout, seats, cancel, webhook | a cancellation is final and arrives | `Billing` |
| workflow runner and validator | definition, outputs, passes | order, round, loop, evaluate | nodes after their inputs; loops bounded; outputs current | `WorkflowGraph` |
| knowledge | packs, items, chunks | upload, complete, synchronise, delete | a search reads what the document says | `KnowledgePacks` |
| agent import | files of a session, plan | stage, claim, plan, confirm, put back | confirmed once; a failure can be retried | `AgentImports` |
| official sources | drafts, source row, links, resources | inspect, select, apply, transfer, delete | one application at a time; the source is whole, of one commit | `OfficialSources` |
| resources, publication | visibility, links, copies | publish, withdraw, copy, synchronise | nothing public uses something private | plan 1 |
| versions | numbered snapshots | save, restore, prune | history keeps its limit and its order | plan 2 |
| pagination | the cursor of a client | first page, next page, total | no row twice, none skipped that stays; the total is that of the walk | `CursorPages` |
| hub synchronisation | files of repositories | synchronise | a repeated synchronisation changes nothing | plan 3 |

How the parts meet. A route authenticates (sessions, credentials), consumes a
quota (rate limits) and calls a service. Chat reserves an LLM slot and a lease
before it answers, and renews the lease with its frames. A workflow run holds a
lease, executes a definition round by round and calls agents through the same
executor. All of them take database connections from the pool. Maintenance loops
of any worker sweep runs, leases, guests, due accounts and windows that others
left.

What is hard. *Interleavings at every await*: a row read before it and written
after it. *Cancellation*: a client that leaves cancels its request wherever it
waits, also inside `finally` blocks. *Threads*: providers and SQLite work in
threads that a cancelled task no longer waits for. *Crashes*: leases, runs,
claimed events and locks of a dead worker. *Deliveries*: events of Stripe twice,
late and out of order; answers that are lost. *Limits*: slots, connections,
quotas, loops. `PROJECT.json` lists the main hazards at their lines.

## Runs

Modules that share no variable are checked by one run: a variable `focus` chooses
at the start which of them moves while the others rest in their initial state,
and every behaviour of each module is one of the run. Fairness asks nothing of a
module that rests, so that of one never cuts behaviours of another.

| run | modules | question |
| --- | --- | --- |
| `event_stream` | `RunEventStream`, `WorkflowRuns` | with prompt workers and no database error, the executions of a key take turns and a client that follows the events of a run sees all of them |
| `runs_slow` | `WorkflowRuns`; `KnowledgePacks`, `AgentImports`, `OfficialSources`, `CursorPages` | with pauses of any length and a database error anywhere, late workers do no harm; the uploads and sources; the listings |
| `answers` | `ChatAnswers`, `WorkflowRuns` | slots, voices and records of streamed answers; whatever dies, runs end and leases are given back |
| `accounts` | `Sessions`, `Credentials`, `Registrations`, `EditorCodes`, `RateLimits`; `GroupSharing`, `Billing` | what remains of what was revoked, exchanged, used up, withdrawn or cancelled |
| `population` | `Groups`, `Guests` | who belongs, who is erased |
| `services` | `WorkflowGraph`, `SqlitePool` | runs of definitions, connections |
| `runs_orphan`, `answers_slot`, `pool_queued`, `teams_erased`, `sign_up_retried`, `share_left` | | **violations**, see *Findings* |

## Executions: leases, runs, streams

### The system

*Leases* (`storage/resource_executions.py`). One row per key, a key being
(user, resource type, canonical owner, canonical id). `acquire` deletes a row
older than 300 s and inserts its own if the key is free; `heartbeat` renews it at
most every 10 s and only logs a failure; `release` deletes the row of this
execution. An hourly round deletes stale rows.

*Runs* (`storage/workflow_runs.py`). A row with a status and an append-only log
of numbered events. Statuses: queued, running, cancelling (active); cancelled,
completed, failed (terminal).

*Driver* (`services/workflow_run_executor.py`). `_drive` marks the run running,
starts a second task (the *body*, `_consume`) that iterates the workflow and logs
its events, polls the row each second for a cancel request, and finally writes
the outcome and releases the lease. A maintenance loop fails runs without a
heartbeat for 120 s and applies retention.

*Routes* (`routes/resource_management.py`, `routes/agent_chat.py`). Start a run,
run a workflow or an agent inside one HTTP response, cancel a run, follow its
events.

| state of the code | variable |
| --- | --- |
| row of `resource_executions` per key, its `heartbeat_at` | `lease`, `leaseAge` |
| `workflow_runs.status`, `heartbeat_at` | `status`, `runAge` |
| `workflow_run_events` | `log` |
| where the request and the `_drive` task of an execution are | `pc` |
| the `_consume` task | `body` |
| `ResourceExecutionLease._last_heartbeat` | `beat` |
| rows between `SELECT` and `UPDATE` of `fail_stale`, of `purge` | `batch`, `doomed` |
| `request_cancel` between its read and its write | `asked` |

### Modules

- `OneExecution`: the promise of the lease docstring ("one execution per user and
  canonical resource"): executions begin to work on a key only when nobody works
  on it.
- `WorkflowRuns`: everything above. The actions follow the code in its order:
  `Acquire`, `Heartbeat`, `Release`, `PurgeStaleLeases` (leases); `StreamChunk`,
  `StreamEnd` (executions bound to a response); `Create`, `MarkRunning`,
  `CheckRunning`, `Poll`, `Join`, `JoinCancelled`, `Finish`, `DriverPurge`
  (driver, one action per statement); `BodyHeartbeat`, `BodyEvent`, `BodyFails`;
  `CancelRead`, `CancelWrite`; `SweepRead`, `SweepMark`, `SweepRelease`,
  `SweepAbort`, `SweepPurge`; `Tick`. Failures: `CreateFault` and `DriverFault` (a
  database call raises; the table `OnError` gives the handler it reaches),
  `Shutdown` (`stop_workflow_runs` cancels the task; table `OnShutdown`), `Crash`
  (the process dies, or the response that would release the lease is dropped).
- `RunEventStream`: `GET /workflow-runs/{id}/events`, a reader beside all of that.
- `WorkflowRunsProofs`: the theorems.

Time is a `Tick` that ages heartbeats; an age saturates one tick past its limit,
where no comparison distinguishes it any more. `Prompt` separates two questions.
With `Prompt` a live execution never goes more than `MaxPause` ticks without a
step: this is what the constants of the code (10 s heartbeats against 120 s and
300 s limits) assume. Without it, a paused worker may wake up after its lease was
purged and taken by somebody else.

### What is checked

- `event_stream` (`Prompt`, no database error): executions take turns
  (`OneExecutionAtATime`, a refinement of `OneExecution`; `LeaseInv`, the
  inductive reason); a stream that ended had sent every event of the run
  (`EndedStreamIsComplete`) and it ends (`StreamEnds`).
- `runs_slow` (any pause, an error anywhere): a late release never deletes the row
  of the next execution (`OnlyOwnLeaseReleased`), a stopped or swept run never
  starts again (`NeverRunsAgain`), `completed` and `cancelled` are never written
  before the event that says so (`OutcomeIsLogged`).
- `answers`, beside the answers: whatever dies, no run stays active and no lease is held for ever
  (`EverythingEnds`).

Bounds. One run, one stream, one cancel request and one sweeper compete for one
key: rows of different keys or different runs never meet in one statement except
in the sweeps, which treat each row on its own. `MaxSteps`, the events besides
the last, is 1 in `answers` and 0 in the others: the log's content matters only
through its last events and its length against the cursor. `MaxFaults = 1`: each failure scenario of the code is the
reaction to one exception. Limits of 0 to 4 ticks: 4 is the smallest in which a pause
fits (`event_stream`, with `Prompt`); with 1 (`answers`) and 0 (`runs_slow`: whatever
aged is stale) it does not.

Fairness (`answers`, `event_stream`). Weak fairness of the driver, of the end
of a body (agents answer or their timeouts raise), of a request in progress and
of `Tick` and of the rounds of the sweep; strong fairness only of the `UPDATE` of a
round (`SweepMark`), because a round can be interrupted before it and starts over with
the next tick of its loop. Nobody is obliged to start, to cancel or to crash.

### What is proved

For any runs, streams, keys, cancels, sweepers, limits and pauses, whatever raises:

- `TypeCorrect`: `Spec => []TypeOK`.
- `OutcomesAreLogged`: `OutcomeIsLogged`. By itself it is not inductive: what
  `Finish` may write depends on what `LogOutcome` or the body has appended before.
  `RunsInv` adds that, at each of these places of the driver, and that a run that
  was not created has neither status nor body.
- `RunsNeverAgain` and `OwnLeaseReleased`: the action properties `NeverRunsAgain` and
  `OnlyOwnLeaseReleased`, one step of the proof per action, from the types and
  `RunsInv`.

`LeaseInvHolds`, `MutualExclusion`, `TakesTurns`: if `Pace` holds, executions of
one key take turns, for any number of runs, streams, keys, cancels and sweepers.
`Pace` is the budget of pauses the constants of the code must leave: no database
errors, `4 * MaxPause <= LeaseStale` (three statements separate the acquisition
from the first event of a body), `HeartbeatEvery + MaxPause <= LeaseStale + 1` (the
throttle), `2 * MaxPause <= RunStale` (`fail_stale`). With the real values a
worker may pause for up to a minute (half of it for the stream, below).

`OneExecutionAtATime` is not inductive: that a body runs says nothing about its
lease. `LeaseInv` adds that whoever executes *or may still start to* (`Admitted`)
holds its lease, that the age of the lease is bounded by the steps since it was
written (`Grace`, `Fresh`), and that `fail_stale` has not read its run
(`Unswept`). The proof shows that a step preserves the part of every execution that
does not move (`Frame`) and treats each action for the execution that does.

`EndedStreamsAreComplete`: if `StreamPace` holds, a stream that ended had sent every
event (`EndedStreamIsComplete`), for any number of executions besides the one it
watches. A stream ends on a terminal status, so the danger is a status that does not
come from the driver: `fail_stale` writes `failed` while the driver still has an event to
append. `LogsInTime` says that it cannot: a driver that may still log has an active row
that no sweeper has read, of an age bounded by the steps since the row was touched
(`RunLag`); three pauses may go by between that and the last event, and a fourth while
the driver is about to log it, hence `4 * MaxPause <= RunStale` in `StreamPace`. The
bound is exact: with `RunStale = 3` and `MaxPause = 1` TLC finds a stream that ended
before the last event.

All liveness is only model-checked.

### Left out

What a body does (any sequence of events stands for it; `WorkflowGraph` is about
the rounds), progress counters, the calendar of the retention (any finished run
may be purged), the listing of executions, and how the key is derived (read once,
inside `acquire`'s transaction). A cancel that overtakes a completion, and a purge
that fails after `completed` was written, may turn the status into `failed`.

## Streamed answers and the LLM executor (`ChatAnswers`)

One worker. An *answer* is a response: `chat_with_agent` reserves a slot of the
`LLMExecutor` (or answers 429), then its generator `_gen` iterates
`stream_orchestrated_chat`, which iterates `stream_chat`, which iterates
`_stream_tokens`. The last one runs the provider call as a task and passes tokens
from a queue that a thread fills. An orchestration may call a router LLM first
(call 0) and then its candidates (1, 2, ...) until one answers. When the response
ends, `_on_done` records the answer or the interrupted part of it.

| state of the code | variable |
| --- | --- |
| `LLMExecutor._slots`; `LLMLease` of the answer | `free`; `llm_lease` |
| where the generators are; the call in progress | `gen`; `call` |
| `_stream_tokens`, its `provider_task`, its work item, `token_queue` | `stream`, `task`, `job`, `queue` |
| `ChatStreamState`: whose tokens were sent, `completed`, `interrupted` | `shown`, `completed`, `interrupted` |
| `done_event` of `_gen`; what `_on_done` recorded | `doneEvent`; `saved` |
| the client is gone | `left` |

Actions. Executor: `Reserve`, `Submit`, `NoCapacity`, `JobStarts`, `JobToken`,
`JobEnds`, `TaskEnds`. Generators: `Skip`, `Choose`, `Exhausted`, `PrepareFails`,
`OpenStream`, `TakeToken`, `StreamFails`, `Ranked`, `StreamDone`, `DoneFrame`,
`Close`, `OnDone`. Client: `Disconnect`, at any await of the generators; then
`StreamCloses` and `Unwound`. A disconnection inside `_stream_tokens` unwinds from
the inside out; one that reaches `_gen` at the heartbeat of a frame ends `_gen`
first and leaves the inner generator to be closed later: the answers in `Renewing`
are those whose heartbeat writes to the database (at most every 10 s) and so waits.

`answers`: two answers, one of them with a router and two candidates, and one
slot. Every slot is free, reserved, used or lost with a dropped job
(`SlotsAccounted`); the client hears one candidate (`OneVoice`); a done frame
follows the last token and the end of the provider (`DoneIsLast`); what an
interrupted answer had shown is recorded (`InterruptedKept`); every answer ends,
with its reservation (`AnswersEnd`).

Bounds. One slot and two answers make every reservation and every second call of
an orchestration compete; two candidates are the shortest failover; one token per
answer distinguishes "before the first token" from "after it".

Fairness: the event loop runs what is ready, threads start and provider calls
end, because the clients of the providers have timeouts. No client is obliged to
stay or to leave.

`InterruptedKept` covers the awaits of the generators, not those inside `send()` (below),
and leaves out answers a candidate had completed. Two windows make
the difference: a candidate that replied nothing leaves `completed` set, so the
interrupted reply of the next one is not recorded; and a client may leave while
the heartbeat of the done frame is being written, when the answer is complete and
`done_event` is not yet set.

Left out: the text of prompts and answers, usage counters, the order in which
the server library closes the generator of a response cancelled inside `send()`,
the closing of provider sockets on cancellation (the job ends sooner, by
`JobEnds`), and `shutdown()`, which runs when the process ends.

Proved (`ChatAnswersProofs`), for any answers, candidates, tokens and threads, and
whichever heartbeats wait: `TypeOK`, `SlotsAccounted`, `OneWholeVoice` and
`InterruptedKept`. They are one inductive invariant, `ChatInv`. Of each answer:
`CallFits`, how far generator, stream, task and job may be apart (a cancelled task
leaves its job behind only in an answer that calls no more); `VoiceFits`, that what
the client saw is of the call in progress, and nothing before it starts, which is
why a failover has shown nothing; `EndFits`, that a done frame is sent after a
stream that was closed, empty, by a call that returned, and that an answer the
client left is interrupted unless it was complete. Of all of them: the sets of
answers that hold, use or lost a slot are finite and count what the semaphore does
not. A step moves one answer, so its proof is about that answer and the three
cardinalities. `AnswersEnd` is model-checked.

## The SQLite pool (`SqlitePool`)

One worker. `open_db()` takes a connection from a bounded queue, the task sends it
statements and the release gives it back: rolled back if a transaction is open,
replaced if it is closed or its rollback fails, closed if the pool was closed
meanwhile. Each connection has a thread that runs its statements in order
(aiosqlite); a cancelled task stops waiting for its statement, which runs all the
same. A release that is cancelled is run again by a shielded task.

| state of the code | variable |
| --- | --- |
| `_sqlite_pool`, its queue, `_sqlite_connections` | `up`, `pool`, `known` |
| connections whose thread runs; those that raise | `live`; `broken` |
| queue of the thread of a connection; whose writes its transaction holds | `thread`; `writes` |
| where a task is, its connections (the innermost last), a replacement being opened | `pc`, `held`, `fresh` |

`services` has three tasks, each of which may open a second connection inside the
first (`OpenInside`, as `SessionStorage.rotate` and every route that revokes do), on two
connections, one of which may break; its replacement may fail and the pool may be
closed. A connection has one holder and none is lost (`CapacityKept`). A replacement is a
connection never used before, as every `aiosqlite.connect` is.

`CleanButForLate`: the only writes of another task that are open in a connection of the
queue, or of somebody else, are those of a task that was cancelled while that write was
queued (`late`, a history variable). Without the exception the code breaks it, which is
the violation `pool_queued`, with two tasks and one connection (`CleanHandover`).

`Served`: whoever waits gets a connection, or is cancelled, while the pool is open and
whole, unless the pool is knotted for ever (`Knotted`: each connection is held by a task
that waits for a second one). That does happen, in this instance too: as many renewals as
connections that all find a reuse, and with `GAIA_SQLITE_POOL_SIZE=1` a single one. The
property says that there is no other reason to wait in vain.

Bounds. Two connections and three tasks: a connection is contended, a nested task waits
for its second one, and two of them knot the pool. One broken connection, one failed
replacement, one task that is cancelled (`MaxCancelled`), once: each path of the release
once, and a cancelled release is taken over once. It may be cancelled anywhere, also while
its statement is queued.

Fairness: the event loop runs what is ready, and SQLite ends its statements.

Left out: the PostgreSQL pool (a library), migrations (once, at start),
`fetchval_with_timeout` (it drains its connection before it goes on) and what the
statements say.

Proved (`ServicesProofs`), without hypotheses, for any finite pool and any tasks, nested
or not, cancellations, breaks and failures: `CapacityKept` and `CleanButForLate`. The
inductive invariant, `PoolInv`, adds to the first that a task at work has a connection and
none twice (`HeldFit`), that a connection being opened has no place yet and one release
waits for it (`FreshFit`), that what has a place runs or is known to be broken
(`LiveFit`), and that only a broken one is closed to be replaced (`ClosingFit`). For the
second, `CleanInv` adds that a write is queued once, by the task that waits for it, unless
that task was cancelled meanwhile (`StatementsFit`), and that what is put back without
another look, opened or no longer alive has only such writes (`WritesFit`). `Served` is
model-checked. `ServicesTypeCorrect` gives the types of the pool and of runs of
definitions in the behaviours of the run `services`, whichever of them moves.

## Accounts

The run `accounts`, without fairness: everything here is about what may never
happen.

### Sessions (`Sessions`)

| state of the code | variable |
| --- | --- |
| row of `auth_sessions`: open or revoked; `refresh_hash`, `prev_refresh_hash`, past `expires_at` | `row`, `refresh`, `prev`, `expired` |
| the account: which password, active | `password`, `active` |
| refresh tokens given out so far; the cookies of a browser | `issued`; `jar` |
| where a request is, what it read | `sPc`, `sJob` |

A login verifies the password (`LoginReads`), purges old rows (`LoginPurges`) and
opens its session (`LoginOpens`), or is refused. A renewal finds its row
(`RotateReads`) and writes the next hash in a second statement that asks for the
hash it found (`RotateWrites`); a hash that is no longer the current one is
looked for among the previous ones (`LooksForReuse`) and closes its session
(`Expels`). Sessions also end by `RevokesOne`, `RevokesOthers`,
`ChangesPassword`, `LogsOut`, `PasswordSet`, `Deactivated`, `Expires`. An answer
arrives (`Answered`, `Cleared`) or not (`AnswerLost`); a cookie may be copied to
another client (`Copied`).

- `RevocationWins`: a revoked session keeps no hash that renews it, whatever
  renewal was half-way; a change of password leaves no session open that was
  opened before it.
- `ReuseIsTold`: a refresh that was already exchanged, presented again, closes the
  session for both holders; and a browser that renews once at a time, loses no
  answer and shares its cookies with nobody is never taken for a thief.

### Credentials and the cached account (`Credentials`)

A worker keeps the state of an account for 60 s (`cache`). An account changes
(`AdminUpdates`, `ChangesPasswordAt`) while requests identify themselves, use the
cache or read and store the account (`Identifies`, `Cached`, `Misses`,
`ReadsAccount`, `Stores`); the cache may evict (`Evicted`). Credentials are access
tokens of sessions, rejected when issued before the change of password, at the
resolution of a second (`Second = 2` ticks), and personal tokens. The property,
`CountsWithinTTL`: whoever is admitted on the word of the cache has the standing
the account has, or had within the last `TTL`, and a credential at most that much
older than a change of password.

### Accounts and mailed links (`Registrations`)

Sign-up, GitHub sign-in (names, mails and inserts in separate statements, against
unique columns), verification, the forgotten password. `ResetOnce` (in `WorkOnce`): a link sets
the password at most once, and only while it is the last one of its account.

### Codes of editors (`EditorCodes`)

`Authorizes`, `CodeAges`, and an exchange that reads the code, deletes it, and
creates a token. `CodeIsSpent` (in `WorkOnce`): an exchange that begins after another of the same
code was answered, well or badly, creates no token.

### Quotas (`RateLimits`)

Shared limiters upsert a row per (limiter, principal) and one by address, and a
purge deletes old rows (`Consumes`, `Purges`); local ones keep a deque per key in
a bounded dictionary (`ConsumesHere`). `QuotaKept`: at most the quota is granted in
a window of the database, and in *every* interval as long as a local window while
its key was not evicted. A window of the database begins when the last one is over; if
the purge deleted the row, it may begin as much before that as a request waited for its
connection (`Patience`, see *Seen while modelling*).

### Bounds

Two sessions, accounts and codes, two browsers and addresses, two requests at a
time: every race in this part is between two. Two refresh tokens: the one that is
exchanged, also by a thief, and the next. One change of password, one worker (workers
share only rows, and a request meets one cache), one credential, two mailed links.
`MaxTime = 4` is twice the TTL of 2, so that an entry expires and the next one too. Windows
of 3 and 4, so that one limiter's purge meets the other's window; a wait of 2, long enough
for a purge to pass the longest window meanwhile, and a clock up to 5, when a second
window of each has begun. Sessions, accounts and codes are
interchangeable, so are browsers and requests.

### What is proved

`AccountsProofs`, for any sessions, browsers, requests, workers, credentials, codes,
accounts, links and addresses:

- `RevocationAlwaysWins` (`RevocationWins`) and `ReuseIsAlwaysTold` (`ReuseIsTold`),
  from `SessionsInv`. That a browser nobody copied is never expelled depends on where
  each token may be: one on its way is nowhere but in its row (`OnTheWay`), nobody else
  has the token of a browser beyond doubt (`OwnToken`), two requests about to write
  one row are of one browser or of two in doubt (`RenewsAlone`), and such a browser
  holds a refresh already exchanged only while the answer with the next is on its way
  (`Superseded`).
- `ChangesCountWithinTTL` (`CountsWithinTTL`), from `CredentialsInv`: what a cache holds
  was so at an instant at most one `TTL` before the entry ends, or is so still
  (`CachesFit`); the same of what a request has read and not stored yet (`ChecksFit`).
- `CodesAndLinksWorkOnce` (`WorkOnce`), from its halves `CodesAreSpent` and
  `LinksResetOnce`: the row of a code is deleted before the exchange is answered
  (`CodesInv`); no two accounts wait for one link, and one that is waited for has set no
  password (`LinksFit`).
- `QuotasAreKept` (`QuotaKept`), from `RatesInv`: a row counts at least what it granted,
  or rejects everything since then, or was purged after the longest of all windows
  (`RowsCount`); what a process remembers of a key are its last grants, and those before
  are over (`KeysFit`). It rests on there being a limiter with the longest window, the
  horizon of the purge.
- `AccountsTypeCorrect` (`AccountsTypeOK`): the seven parts of the run keep their types in one
  behaviour. Beyond the invariants above this takes that a link somebody holds was mailed
  (`LinksMailed`), that a process remembers at most `_MAX_IPS` keys, every key with grants
  among them, and that a window counts at most one call more than its quota (`RatesBound`),
  and that a request for a share has something left to do (`RequestFits`). It rests on
  the first candidate for a free name being the base itself (`RegistrationsAssumption`).
- `SharesAreUndone` (`SharingIsUndone`, next section), from `SharingInv`. During a
  withdrawal, whatever came with the resource and is still there is on the list of what is
  left to do, or needed by the team, or by an agent on that list (`Accounted`); no shared
  agent needs a piece that is about to be taken. It rests on the kinds of resources being
  disjoint.

### Sharing with a team (`GroupSharing`)

Rows of `resource_group_shares` of one team: by hand or by cascade. A workflow brings
its agents and an agent its skills, prompts, tools and documents (*pieces*), one
committed row after another (`Share`, `ShareNext`), and they leave likewise
(`Unshare`, `UnshareNext`), but for what the team still needs. Definitions change
between requests (`Define`), and a request may end halfway (`CutShort`).
`SharingIsUndone`: a withdrawal that reaches its end leaves nothing of what came with
the resource that is not needed, and takes nothing else. Bounds: two workflows, two
agents, a piece of the sharer and one that is not: an agent in both workflows, a piece
in both agents.

## Teams, erasures and guests

### Teams (`Groups`)

Rows of groups, members and invitations, and the accounts that leave after a grace
period. A handler decides on what it read (`Begins`, with the permission of the
route, `May`) and writes later (`Answers`: one action per handler, from `Creates`
to `Schedules`). The sweep lists due accounts and erases them one by one
(`ListsDue`, `Erases`, `EraseFails`).

- `CreatorIsMember`: the owner of a team is one of its members, until the team is
  `crossed`: a removal or a transfer wrote to it after the owner, or the role of the user
  it is about, had changed since it read them (`overtaken`). Both are history variables.
- `DueIsErased` (in `ErasuresArrive`): who is due is erased or came back.

Requests overlap each other and the erasures. `crossed` is what the code does not
protect: `remove_member` compares the owner with a row it read before, so a removal
beside a transfer may remove the new owner (see *Seen while modelling*).

Bounds: two users and one team. In one behaviour two requests overlap; in another one
request at a time has an invitation, beside erasures; in another a status changes and one
erasure fails. Together they have every pair of handlers, and an erasure beside every
handler, that could disturb the owner.

### Guests (`Guests`)

`Enters`, `Purges`, `Alta` (the cap and the insert), `OpensVisit`, `Rotates`,
`Renews`, `Leaves`, and the sweep `Lists`, `SweepsOne`, `SweepSkips`,
`SweepEnds`, by the loop and by each entry.

- `OnlyAbandonedIsErased`: a guest that is erased had its session closed, or once
  expired, or was left without one by a login that died: no sweep takes a newborn
  guest.
- `AbandonedGoes` (in `ErasuresArrive`): a guest nobody uses is erased, unless a
  renewal in flight revives its session.

Bounds: two guests and a cap of one (so that the cap refuses), one visitor, two
calls beside the loop, one purge that fails or worker that dies.

### What is proved

`PopulationProofs`, for any users, teams, guests, visitors and calls:

- `CreatorStaysMember`: `CreatorIsMember`, for any number of requests and erasures at
  once. Its invariant, `OwnersInv`, adds that what a request has read is so when it
  writes, unless something has overtaken it (`StillSo`: who is removed is not the
  creator, who is given the team is a member).
- `OnlyAbandonedGoes`: `OnlyAbandonedIsErased`. Its invariant, `GuestsInv`, says that a
  login has its newborn to itself (`NewbornFit`), that browsers and calls know a guest
  by a session it once had (`CookieFits`), and that whatever a purge or a sweep has
  listed was abandoned and stays so (`TaskFits`).
- `PopulationTypeCorrect`: `PopulationTypeOK`, teams and guests in one behaviour.

Fairness (`population`): weak for a request in progress, for the listing and the erasure
of a due account and for the sweep of guests, which are periodic tasks. An account may
still be used until it goes.

## Subscriptions and definitions

### Subscriptions (`Billing`)

Checked by `accounts`, without fairness. Stripe is an external party that opens, bills
and cancels (`Pays`, `StripeCancels`) and sends an event for each change, delivered later,
again or out of order.

Requests of the owner take a step per call of Stripe and per transaction, in the order
of the code, and any of them may end at an error (`Raises`):

- `/subscribe`: `Subscribes`, then `Drops` the incomplete one: `Subscription.delete`,
  whose error is only logged, and the row marked canceled in either case; `CreatesPlan`;
  the row (`Saves`), read back (`ReadsBack`), and the owner's seat (`OwnSeat`,
  `OwnSeatRefused`);
- `/confirm` (`Confirms`, `ConfirmReads`), which looks at no status of the row;
- seats, cancellation, reactivation: `Reads`, then `ChangesSeats`, `CancelsNow`,
  `CancelsAtEnd`, `Reactivates`, `SavesEnding`, `AssignsSeat`, `RevokesSeat`;
- `GET /licenses` and the end of the last two: `Summary`, which may give the owner a seat.

The webhook claims an event, reads the row, saves it and sees to the seat (`Claims`,
`ReadsRow`, `Saves`, `ReadsBack`, `OwnSeat`); an error gives the claim back (`Fails`), a
death does not (`Dies`). Requests and handlers overlap without restriction.

- `CancelIsFinal`: a subscription that is over, in its row and at Stripe (`Ended`), is made
  something else only by a handler that had read before that (`revived`, history): no
  event delivered late or twice and no request that begins afterwards revives it.
- `CancellationArrives`: an event of a cancellation that stays claimed has cancelled the
  row, unless its handler died: an error half-way does not lose it, and what undoes it
  later is only a handler that had read before.

Neither speaks of a row that is canceled while the subscription at Stripe lives: `Drops`
after an error leaves such a row, and `/confirm` writes it back (see *Seen while
modelling*).

Proved (`AccountsProofs`), without hypotheses, for any subscriptions, events, seats, calls
and errors: `CancellationAlwaysArrives` and `CanceledForGood`. `BillingInv` says what a
call holds at each place (`JobShape`), that an event of a cancellation tells of a
subscription that is over at Stripe, that a handler that knew of the end is about to write
it (`TellsEnd`), and that news that stay claimed have arrived, or are being handled, or
were undone by a handler in `revived` (`NewsArrive`). Stripe itself revives nothing
(`StripeGrows`).

Bounds: two subscriptions, three events (of which a creation, a payment and a
cancellation), two calls at once, three turns (`MaxTurns`: requests of the owner, errors,
deaths): two requests and an error beside any number of deliveries, or three requests.
`sign_up_retried` has one call: its violation needs no overlap.

Left out: events about a subscription of nobody (`webhook.py:121-145`: they are answered
and dropped), customers, tiers, prices, invoices.

### Definitions and rounds (`WorkflowGraph`)

The validator as operators on graphs (`Order`, `LoopScope`, `ValidSequence`,
`ValidLoops`, `ValidEvaluators`) and the runner as rounds (`Round`, `RoundFails`,
`Finished`): the nodes whose inputs are ready run together, the node that closes a
loop clears its scope. Every valid graph of four nodes with up to two loops is an
initial state.

- `RunsAsDrawn`: a node runs after all its inputs, with the outputs of their last
  pass, and a loop passes as often as it says or until its evaluator approves.
- `RunComesToEnd`: every run ends.

Bounds: four nodes hold two loops, in a row or side by side, and have no room for more
(`MaxLoops`), since the validator lets no two share a node; loops of 2 and 3
passes. Nodes that leave a loop from its middle (`SideExits`) are left out of the
second half: they may keep the output of a former pass. Fairness: agents answer
or raise.

Proved (`WorkflowGraphProofs`), for any number of nodes, edges and loops: `RunsAreAsDrawn`
(`RunsAsDrawn`) and `WorkflowGraphTypeCorrect`. What the validator and the runner compute is
stated first:

- what a node reaches is the least set closed under the edges that has it
  (`ReachableIsLeast`, `ReachableIsClosed`), and the queue of `execution_order` lists every
  node once, behind its sources (`OrderIsTopological`);
- of a definition that is let through, no node is in two loops, and each node of a loop but
  the one that closes it leads to another node of the loop (`PlanFits`);
- the results of a round are a closed form of who was ready and who approved (`Form`,
  `AfterFits`): the order in which they are handled tells nothing, unless a loop is at its
  limit and the run stops there. The reason is that a node that closes a loop is never ready
  with another node of the loop (`ReadyCloses`, `ReadyApart`).

With these `FlowInv` is inductive: while the run goes on, a node that is complete has run
once in each pass of its loop and the others once less, what it said is there, what is
complete in a loop has its sources in the loop complete, a fixed loop that is closed is at
its limit, and, without side exits, who is complete worked on what its sources last said
(`RunFits`). The recursions are functions over numbers of rounds, which exist because there
is no least number without one (`RecursionExists`). `RunComesToEnd` is model-checked.

## Uploads and sources

Checked by `runs_slow`, without fairness.

### Packs of knowledge (`KnowledgePacks`)

A pack is filled by single uploads until it is completed, or synchronised with a
directory, where a file with the same checksum keeps its rows. A request reads and
writes in a later transaction. `PackIsConsistent`: the chunks a search reads were
cut from the content the item shows, and, unless two requests worked at once, the
checksum is the one of that content, a path has one row and a pack that is gone has
none. Two requests, two paths, two texts and two
rows: enough for a replacement of each kind.

Proved (`UploadsProofs`, `PacksAreConsistent`) for any requests, paths, texts and
directories. That chunks are of their content is inductive: every transaction
writes both. The rest is not: a file that is not sent keeps the content of the row
that was read. `PackInv` adds, while one request is at work, what it has read and is
still so up to rows deleted one by one: the row of a file that is stored is the only
one of its path, or there is none (`UploadHolds`, `FoundHolds`); the rows of a path
that is not sent have the text of the manifest (`UnsentHolds`), and after the second
read those it will update are all there are (`RowsHold`). `PackTyped` adds of which texts
rows, requests and answers are; its proof found that the upload of a whole directory
(`Creates`) lacked the bound `MaxItems` that the other writes had. A request is about
finitely many paths.

`UploadsTypeCorrect` (`UploadsTypeOK`): packs, imports, sources and listings keep their types
in one behaviour of the run, from the invariants of this part together.

### Imports of agents (`AgentImports`)

Files are staged as content and sidecar, the directory is claimed by a rename,
planned, and released; the plan is claimed by a rename, applied, and removed or
put back. `OneWholeImport`: the plan is made from the files that were frozen,
all of them, and is applied once, unless it was put back after a commit or
asked for from another group. Proved (`ImportsAreWhole`) for any callers, files,
sizes and deaths: a renamed directory only loses files (`FrozenOnlyShrinks`) and is
its caller's until it is swept (`ClaimHolds`), so that the plan, made once
(`PlanIsFinal`), is of what was frozen; and a renamed preview has one caller, which
knows whether its transaction was committed (`ConfirmedOnce`). Two callers, two files of size 1 or 2 against a
limit of 3, one death: the quota is crossed by one pair of files only.

### Official sources (`OfficialSources`)

| state of the code | variable |
| --- | --- |
| the commit a repository is at | `upstream` |
| row of `official_sources` with its state; ids given | `source`, `lastSource` |
| `official_import_drafts` with their components | `draft` |
| `resource_source_links`; resources of a source | `link`, `rows` |
| where a request is, what it holds | `ePc`, `eJob` |

A draft is made of a commit (`InspectReads`, `CreatesDraft`, `ImportRegisters`,
`Attaches`); an administrator selects components, one at a time, with their
dependencies, and accepts tools (`PatchReads`, `PatchWrites`, `PatchReplaces`,
`AcceptsTool`). Applying it finds or registers the source, takes its lock by a
compare-and-set on state and commit, writes the resources and their links, and
marks source and draft (`ApplyReads`, `FindsSource`, `Registers`, `Locks`,
`Materializes`, `Marks`, `MarksApplied`, or `ApplicationFails`, `MarksFailed`).
Deletion, change of owner and death beside it: `DeletesSource`, `Transfers`,
`EditorDies`.

- `SelectionIsClosed`: once the answers are sent, what a draft without errors selects
  comes with what it needs, whatever was marked and unmarked at the same time. (One with
  errors begins with what is linked, whatever that needs in the new commit, and applying
  it is refused.)
- `SourceIsOne`: one application at a time between lock and mark; a source has one
  resource per link, all of its owner and with what they need, and when it rests
  all are of the commit it names; every tool is as somebody accepted it.
- `NeverBack`: a source never goes back to an older commit.

Bounds: two requests, an agent that needs a tool, two commits (the second changes the
tool; drafts with errors, which need one that has lost it, are left to the theorem
below), two drafts, one
source, and a `Budget` of 2 for rare actions, where a PATCH costs 1 and the others
(expiry, transfer, deletion, fault, registration by import) 2. A behaviour is
followed until a row is written by somebody the lock does not keep away
(`crossed`), after which the code promises nothing; the facts are listed below.

What the model narrows: `PatchWrites` asks for a pending draft, where the route asks only
who owns it (a selection of a draft that was applied or has expired serves nobody); of the
edits of a PATCH only the selection is there, not the kind forced on a component or its
dependencies; the selections that the sync route makes component by component before it
applies them are one step of `CreatesDraft`; and `InspectReads` reads the source and
downloads the snapshot in one step.

Proved (`UploadsProofs`) for any requests, components, commits, drafts and sources:
`SourceStaysOne` (`SourceIsOne`), `NeverGoesBack` (`NeverBack`), `SelectionsStayClosed`
(`SelectionIsClosed`), `OfficialTypeCorrect`. What a source holds is written by a request
from what it read at several earlier moments, so `OfficialInv` follows the request:

- what it will apply is a whole selection of one commit, not older than the one it
  compares with, with every tool accepted (`WorkOf`, `PlanOf`, from `DraftsFit`);
- whoever holds the lock holds it alone, of the source that is there (`LockFits`), and
  what it read of the source and its links is still so (`StillSo`); that is why the
  links it leaves are of one commit (`LinksAreWhole`);
- the lock is held without a request only after a failure (`LockIsHeld`).

The first two points are promised until `crossed`, the last one always.
`SelectionsStayClosed` needs two facts more. The dependency closure runs as many rounds
as there are components: a round that is not the last finds one component more, so the
rounds suffice (`RoundsGrow`, `ClosedIsWhole`; no induction over a parameter, but the
least round, `LeastOf`). And a selection that is not closed is one that a PATCH at work
is about to replace by a closed one (`SelectionsFit`).

### Listings page by page (`CursorPages`)

The client keeps a cursor, which holds the key of the last row it was shown, the date
of the first page and the total (`walk`). A page is an optional count (`Counts`), then
`LIMIT + 1` rows after the key (`Selects`); it may get no answer (`NoAnswer`), and the
cursor may expire (`CursorExpires`). Beside it rows are saved with a date read earlier
(`SaveStamps`, `SaveArrives`), deleted, hidden or shown by the filters, and starred.
The listings differ in their columns: those of resources (by `updated_at`), of
documents and logs (by a date that stays), of the catalogue, of the feed and the
connections, and of users and tables (by the primary key, without a date).
`PagesAreExact`: a walk that ends has shown every row that was there and that nobody
touched exactly once, and its total is the number of rows it showed, unless one
of them was written meanwhile. Bounds: three rows in pages of one, so that a key is
used twice; dates that coincide; one write, at any moment of the walk (the module
alone, with two, has 5.9 million states and no violation).

Proved (`CursorPagesProofs`) for any number of rows, any size of a page, any of the listings
and any number of writes: `WalksAreExact` (`PagesAreExact`). The comparison with a cursor is
a strict order, total on rows because every listing ends with the identity
(`BeyondIsStrict`, `RowsAreApart`), so a finite set of rows has one `ORDER BY`
(`RowsCanBeSorted`, `InOrderIsSorted`). `CursorPagesInv` says of each row that nobody touched
that it was shown once if the cursor has passed it and never otherwise (`Exact`): a page
shows the rows up to the next cursor, and those that move behind it were written, hence
touched. While nobody wrote a row of the snapshot, this is so of every row, and the total is
their number.

## Findings

- `runs_orphan`: a poll that raises releases the lease and leaves the body of the
  run working.
- `answers_slot`: cancelling the caller of a queued job cancels the job with its
  future, and the slot that only the job's `finally` would return is gone.
- `pool_queued`: a task cancelled while its write is still queued hands over a
  connection that then opens its transaction: `in_transaction` is read too early.
- `teams_erased`: the sweep erases a team of others that the account created, or
  was given, after its erasure was requested.
- `share_left`: an agent is shared and with it what it refers to; it is edited, no longer
  refers to it, and is withdrawn: that stays with the team. (The instance has no
  workflow. With one, the property fails too when a shared workflow is deleted, which
  leaves its agents: `workflows.py:144-162`.)
- `sign_up_retried`: after an incomplete first subscription, the owner's seat of
  the cancelled one stops the next attempt.

## Seen while modelling

Behaviours of the code that the properties leave out, each by a named condition.

- A cancel that overtakes a completion, or a purge that fails after `completed`
  was written, turns it into `failed`.
- An interrupted answer is not recorded after a candidate that replied nothing.
- A login that verified the old password opens its session after the change (it is
  the change that closes sessions); a session opened within the second of a change
  is refused.
- The search for a free name of a GitHub account does not end when the base
  already has the maximum length: every suffix is cut off (`Long`,
  `github_user_link.py:37`).
- A request in flight may write rows of a guest that was erased; a renewal in
  flight revives a guest the sweep has listed.
- A replacement connection opened while the pool closes survives it.
- A crash leaves an event of Stripe claimed for ever; updates out of order leave
  the older one.
- `_descartar_incompleta` cancels the row whatever error `Subscription.delete` gave
  (`subscription.py:166-187`): the subscription at Stripe may live on, its customer is
  charged, and its later events are discarded because the row is canceled; `/confirm`
  brings the row back.
- A handler of an event, or a request, that read the row before a cancellation was written
  may write what it read afterwards and bring a cancelled subscription back (`revived`).
- As many tasks as connections that hold one and ask for a second wait for each other for
  ever (`Knotted`): `pool.get()` has no timeout.
- `accept_invitation` reads the invitation before its transaction, so one that was
  cancelled meanwhile is still accepted; `remove_member` beside a transfer removes
  the new owner.
- Two synchronisations of a pack at once leave content under another checksum or
  two rows of one path, and an item inserted after the pack was deleted stays.
- The local limiter forgets a key it evicts, and with it what the key had used.
- A request that read the clock before it waited for a connection, and whose row was purged
  meanwhile, begins a window that overlaps the last one by as much as it waited, although
  deleting a row "no devuelve cuota a nadie" (`app/sql/queries/ratelimit.sql:30`).
- A preview put back after an error that followed its commit can be applied twice;
  asking for one from another group destroys it. A file sent again while the
  directory is claimed may keep the former sidecar.
- A source stays `applying` for ever when its worker dies; an error in
  `save_mapping` marks it failed while another application holds the lock;
  deleting or giving away a source beside an application leaves orphans or
  duplicates; two first registrations of a repository leave the later row; the
  import route attaches a draft that may be older.
- The order of the catalogue has `stars_count` among its columns, which changes without
  `updated_at`: a resource starred during a walk may be left out of it or shown twice,
  although `docs/en/architecture.md:104` says that pages never repeat or drop a row.
- The total of the listing of connections counts those that the permissions of a member
  remove from its pages afterwards.
- Two saves that overlap may move `updated_at` back.
- Unmarking a component that others need removes those that were marked
  explicitly; one that was brought in by a dependency stays, and the component is
  marked again (`official_source_drafts.py:266`).
- The draft of a commit with errors starts with a selection that may lack what it needs.

## Not modelled

Three kinds of code stay out.

- *No shared state to interleave*: middleware of a single request, settings,
  administration screens, legal texts, contact. A request
  reads or writes one row.
- *Input and output*: adapters of providers, connections, email and push, the
  GitHub client, `centinel`, and the analysis of repositories and directories.
- *Planned*: resources and their publication, versions, synchronisation of the hub.

Each section above names what it leaves out; `PROJECT.json` has the status of each
part.

## Theorems

Every theorem rests on the `ASSUME` of its module about the constants (kinds of the
sets, bounds that are numbers, values that are not confused with each other), which
TLC evaluates in every run, and the theorems about turns and streams on the budget of
pauses that their statements name, `Pace` and `StreamPace`. None assumes that requests,
handlers or cancellations keep apart; where the code needs that, the property itself sets
aside what happened otherwise with a history variable (`late`, `crossed`, `overtaken`,
`revived`), and what the code does then is under *Findings* and *Seen while modelling*.

A module of proofs states the invariant in named parts, shows that each action keeps
them, an action or a few at a time, and derives the properties. A helper of sequences or sets has its
facts in lemmas at the beginning (`DroppedFits` of `ServicesProofs`, `WritesEffect`
of `UploadsProofs`).

Every safety property a passing run checks is a theorem, invariants and action properties
alike. The type invariants of the runs that put several modules together (`UploadsTypeOK`,
`AccountsTypeOK`, `PopulationTypeOK`, `ServicesTypeOK`) are proved of the composed
specification: a step of the run is a step of one module and a stutter of the others.

Only model-checked: liveness under fairness (`StreamEnds`, `EverythingEnds`, `AnswersEnd`,
`Served`, `RunComesToEnd`, `ErasuresArrive`), because TLAPS does not reason about `ENABLED`.

Proofs have corrected the models where TLC's instances could not: a bound that one of the
writes of a pack lacked, names whose first candidate is the base, a definition of the keys a
process remembers that says which of them moves. None of them changed what a run found.

## Plan

Modules.

1. `Publication`: visibility, links and copies over the graph of uses; withdrawing
   a resource that public ones use.
2. `ResourceVersions`: history limit, restore and deletion beside a save.
3. Synchronisation of the hub: a pull that half applied and is repeated.

Theorems: that the executor and the pool refine a bounded resource, and the codes, links,
previews and events a single-use token, once these are stated.

Abstract specifications worth stating besides `OneExecution`: a bounded resource
(refined by the executor and by the pool) and a single-use token (codes, links,
previews, claimed events).
