# AetherRelay in TLA+

AetherRelay is a webhook relay: it accepts signed webhooks over HTTP, stores
them in SQLite, answers 202, and a background worker delivers them to the
target URL of their endpoint, through a circuit breaker, with a budget of
attempts, after which an event goes to a dead-letter queue from which an
operator can replay it. This directory holds a model of the relay, the model
checking runs over it, and machine-checked proofs about it. Paths below are
relative to the repository (`src/main.rs`, `docs/...`).

## 1. The system

| Component (source) | State | Operations | Talks to |
|---|---|---|---|
| Dispatch worker (`src/worker/runner.rs`, `dispatcher.rs`) | local variables of one pass: event, `attempt_num`, result of the POST; `prev_sleep` | `claim_next_event`, `dispatch_single_event`, `requeue_event`, `run_dispatch_loop` | the database, the breakers, the target (HTTP, 30 s timeout) |
| Circuit breaker (`src/worker/circuit_breaker.rs`) | per endpoint: state, `failure_count` (u32), `open_until`, `probe_in_flight`; in memory, under one mutex | `state`, `can_attempt`, `record_success`, `record_failure` | called by the worker only |
| Database and schema (`src/db/`) | `endpoints`, `incoming_events`, `delivery_attempts`, `dead_letter_queue` | pool, migrations, cascade | shared by everything |
| Ingestion and deduplication (`src/api/ingest.rs`, `src/core/idempotency.rs`) | the request in flight | `handle_ingest`, `accept_event` | the database, signature verification |
| Endpoint registry (`src/api/endpoints.rs`) | none of its own | create, list, delete, URL validation | the database |
| Dead-letter replay (`src/api/dlq.rs`) | the letter it has selected | `list_dlq`, `replay_dlq` | the database, and through it the worker |
| Process lifecycle (`src/main.rs`, `state.rs`) | which tasks run | start, graceful shutdown, kill | everything |
| Signature verification (`src/crypto/`) | none | stripe, github, midtrans, discord, generic | ingestion |
| Backoff (`src/worker/backoff.rs`) | none | `decorrelated_jitter` | the worker's loop |
| Authentication, errors (`src/api/middleware/auth.rs`, `src/error.rs`) | none | API key check, error to HTTP status | every handler |
| Metrics, health, routing, configuration | counters, none, none, none | record, probe, wire, parse | every handler |

There is no message passing: handlers and worker meet in the database only.
The worker's task and every request's task run concurrently on a multi-threaded
runtime, with blocking SQL on `spawn_blocking`. `claim_next_event` and
`accept_event` are `BEGIN IMMEDIATE` transactions and the endpoint delete is a
transaction; **everything else is a series of statements that commit one by
one**, and that is where the hard behaviours are:

* the worker marks an event FAILED in one statement and writes its dead letter
  in the next; a replay sets RECEIVED, then clears the attempts, then removes
  the letter; the two interleave, and two replays interleave with each other;
* the claim (PROCESSING) is durable, its owner is not; nothing looks for
  PROCESSING rows after a restart;
* any call may fail (pool exhausted, busy timeout, I/O), including the
  `requeue_event` that repairs an earlier failure;
* `attempt_num`, the endpoint's target and the existence of the row are read
  before an HTTP request that takes up to 30 s, and used after it;
* a sender may hang up or be cut off after its event was committed;
* the breaker must not keep its probe slot on any path, nor let requests out
  during its recovery window;
* the queue is strictly oldest-first, also when the oldest event's breaker is
  open;
* worker and handlers share a pool of a few connections and one write lock; the
  transaction of the delete is DEFERRED and has to notice what was committed
  since its first read;
* a start may be killed between any two of its statements and `chmod`s, and the
  next one finds what is left;
* a signature is verified at another time, by another clock, over bytes that
  passed through other hands, and with a secret nobody looked at when the
  endpoint was created.

What makes the components correct, accordingly: an accepted event is never
lost or stuck while the process lives; it is sent at least `max_attempts` times
before it is given up and not more often than its budget explains; a FAILED
event can be replayed; a delivered one is not sent again behind one's back; an
endpoint never disappears under a delivery; equal keys are accepted once;
answers tell the truth; every queued event is eventually settled; concurrent
transactions are atomic and leak neither a connection nor the lock; the relay
serves only from a whole schema and files of its own; its loop is paced; a
request is accepted exactly if it is genuine.
`PROJECT.json` lists the hazards line by line with the properties that cover
them.

## 2. The modules

```
CircuitBreaker    Store              Startup  Backoff     Signatures
        \        / | \ \                \      /               |
        Dispatch Replay Ingest Endpoints  Process         Registration
              \    |    |    /     |          |                |
                 Relay         Transactions   |          Verification
                   |                 |        |                |
             RelayInvariant    MCTransactions |         MCVerification
              |         \
   RelayRefinement       \---- DeliveryQueue, LossyQueue (INSTANCE, refinement mappings)
              |
           MCRelay

TLAPS:  RelayInvariant - RelayProofs - IntakeProofs, DeliveryProofs
        RelayRefinement, IntakeProofs - QueueProofs - BudgetProofs
        Transactions - TransactionProofs      Process - ProcessProofs
        Verification - VerificationProofs
```

| Module | Code | How it corresponds |
|---|---|---|
| `CircuitBreaker` | `worker/circuit_breaker.rs` | Operators on a breaker record. `Instant`s are abstracted to whether `now` has passed `open_until` (`"Pending"`/`"Elapsed"`); `failure_count` wraps at `CountLimit`, as the u32 does in a release build. |
| `Store` | `db/migrations.rs`, `db/models.rs` | The tables as functions of the event id, the uniqueness and foreign-key rules, `SetStatus` (an UPDATE that matches no row does nothing), and `Fault`, the failing database call. |
| `Dispatch` | `worker/runner.rs`, `worker/dispatcher.rs` | One action per statement and await of a worker's pass. The pc names the next thing to do: `claim lookup count admit defer post await insert mark bury requeue sleep`. |
| `Replay` | `api/dlq.rs` | `replay_dlq`: select, update, clear, remove, each its own action. |
| `Ingest` | `api/ingest.rs`, `core/idempotency.rs` | A request's early checks, the endpoint lookup with the signature check, the accepting transaction, and the hang-up. |
| `Endpoints` | `api/endpoints.rs` | Create; delete with its pending count and the cascade. |
| `Relay` | `main.rs`, `lib.rs` | Everything together, `Crash`, `Shutdown`, fairness, the properties. |
| `DeliveryQueue` | what the above amounts to | The abstract specification: a queue with one consumer, who takes the oldest event, returns it, delivers it or gives it up; only what was given up is put back. |
| `LossyQueue` | the same when things go wrong | The same queue, whose consumer may lose what it has in hand, and nothing else. |
| `RelayRefinement` | the status column | The refinement mappings: the place of an event follows from its row, and, for the lossy queue, from whether its worker is still there. |
| `Transactions` | `db/mod.rs` (pool, pragmas) and the closures of `claim_next_event`, `accept_event`, `delete_endpoint` and the UPDATEs | The same tables, statement by statement: the pool, the write lock, snapshots, upgrades, timeouts, rollbacks. Its property says that the result is the actions of the coarse modules. |
| `Startup` | `main.rs`, `db/mod.rs` (`create_pool`, `restrict_db_permissions`), `db/migrations.rs` | One action per statement of the schema batch, per `chmod` and per step of `main()`. |
| `Backoff` | `worker/backoff.rs`, the loop of `runner.rs` | The jitter as the set of delays it may draw, with its saturation; the loop's `prev_sleep`. |
| `Process` | `main.rs`, `runner.rs` | The two together: a process that starts, loops, ends and starts again. |
| `Signatures` | `crypto/*.rs` | Which headers are read, how stripe's is taken apart, the tolerance, and the text each provider's signature is over. A text is a sequence of characters and is joined as the code joins it; a MAC is the key and the message it was made from, a digest the message alone. |
| `Registration` | `validate_new_endpoint` and the address tests of `api/endpoints.rs` | The validation, octet by octet and mask by mask; beside it the ranges as intervals. |
| `Verification` | `api/ingest.rs` (verification), `api/endpoints.rs` (create) | An endpoint is registered, a provider signs, something rewrites the body or discord's timestamp or repeats the request, the relay verifies. The provider is external, and what it signs is written down apart from the code's formula. |

Conventions. An event id is its rank in acceptance order, which is what
`ORDER BY created_at, id` sees as long as the clock is not set back (both are
drawn inside the IMMEDIATE transaction). A dead letter is its event and a
serial number, because `INSERT OR REPLACE` draws a fresh UUID. `NONE` as a
status means there is no row. In `Relay` every SQL statement commits alone,
unless the code opens a transaction, which is one action; `Transactions` is
there to justify that. Requests that change nothing (a replay of an unknown
letter, a refused create or delete, all listings) are not actions. `sends`,
`failedInRow`, `replays`, `faults`, `crashes`, `calls`, `stops`, `passes`,
`slept` and `ceiling` are history variables: no guard of the code reads them,
only the bounds do. `sends` restarts at zero when a replay's UPDATE commits;
`failedInRow` counts the bad answers recorded for an endpoint since its last
good one, or since the start of the process.

`main.rs` starts one worker; `claim_next_event` says it is written for several,
so `Workers` is a set. Properties that need the deployed single worker say so
(`SoleWorker`).

SQLite in WAL mode, as `Transactions` has it: one writer, who waits for the
others up to `busy_timeout`; a transaction that has read and then wants to write
is refused at once when the lock is taken or its snapshot is no longer the
latest; `-wal` and `-shm` come into being with the mode of the database file and
are removed when the last connection closes, which a kill prevents.

## 3. The runs

Bounds: `MaxEvents` events are ever accepted, `MaxReplays` replay requests find
a letter, `MaxFaults` database calls fail, `MaxCrashes` restarts happen,
`MaxCalls` closures are started, `MaxStops` times the process ends, `MaxPasses`
passes of the loop settle nothing, `MaxTime` and `MaxSkew` bound the clocks;
`Workers`, `Replayers`, `Ingesters`, `Callers` bound what is in flight
together; `Defects` is what can be wrong with a request. `CountLimit` stands
for 2^32 and `U64Max` for 2^64 - 1; both are small so that the counter does wrap
and the triple does saturate. Ids are model values; symmetry is used for
endpoints (`deliver`), keys (`faulty`) and request handlers (`intake`), whose
members nothing orders, and in no liveness run.

| Run | Instance | What it shows | States |
|---|---|---|---|
| `deliver` | 1 worker, 1 replay at a time (2 in all), 2 endpoints, 2 events, 2 attempts, threshold 2, count wraps at 4 | `TypeOK`; `WithheldWhileOpen`: nothing is sent in a recovery window; `TripsOnTime`: a breaker is closed exactly while fewer than the threshold of answers in a row were bad; `DeadLetterMeansFailed`, `DeliveredIsFinal`: a replay that races the worker leaves letters and statuses consistent; `ReplaysAreCharged`: it costs the target less than one budget more, and afterwards the old attempts are forgotten; `ImplementsQueue`: every step is a step of `DeliveryQueue` | 1.1 M |
| `faulty` | 1 worker, 1 replay, 1 endpoint, 2 events, one failing call and one restart anywhere | `NoStrandedEvent`, `FailedIsReplayable`, `DeliveryKeepsTarget`, `FullBudgetUsed`, `SettledInOrder`, `ProbeIsOwned`; `LossIsBounded`: what is lost is one event per restart and worker, and one per two faults; `ImplementsLossyQueue`: until a replay every step is a step of `LossyQueue` | 2.3 M |
| `intake` | 2 requests with one key, an early and a late defect, 2 workers, delete, fault, hang-up, restart | `AcceptedOnce`, `AnswerIsHonest`, `BoundedSends`; `ClaimedByOne`: no two workers deliver one event at once | 1.1 M |
| `settle` | fairness, 2 endpoints, 1 worker, one fault, no replays | `QueueSettles`: what waits or is in hand is delivered, given up or removed at last | 0.24 M |
| `transactions` | fairness, 3 closures over 2 connections, 4 calls in all, 2 keys, 2 events | `TransactionsAreAtomic`, `NothingLeaks`, `CallsReturn`; `SomebodyProceeds`: nobody waits on everybody | 0.25 M |
| `process` | fairness, 4 ends of the process, base 2, cap 12, integers up to 20, 3 passes | `SchemaIsComplete`, `ServesFromOwnFiles`, `EventuallyServes`; `LoopIsPaced`, `GrowsFromBase`, `RangeStaysOpen` | 0.01 M |
| `verification` | 5 providers and one unknown, 2 secrets, 6 bodies, clocks up to 3 apart, tolerance 2, some 19,000 addresses | `GenuineIsAccepted`, `AcceptedIsGenuine`: accepted is exactly what has the signed text; `PartsAreKept`: a part of that text of the signed length is the signed part; `RangesAreExact` | 0.89 M |
| `lost_by_restart`, `replay_budget`, `replay_twice`, `retry_spacing`, `dead_endpoint` | see section 6 | expected to fail | small |

Why these bounds are enough for the cases to happen: two events on two
endpoints are what it takes for one endpoint's breaker to hold up another's
event; two events on one endpoint let one event's failures trip the breaker
that the other meets. Two attempts give a retry, threshold 2 a closed
breaker that has failed once, threshold 1 a breaker that trips on a first
failure; two replays of one event make the second dead letter replace or
outlive the first; the count of failures passes `CountLimit` in `deliver`,
because one event can fail six times. One fault is exactly what the code can
absorb (a second one can hit `requeue_event`), and the single-fault properties
carry that as their precondition `AtMostOneFault`; the restart beside it makes
the one loss that `LossIsBounded` allows happen, and a fault together with it
must not make a second. Two replays in `deliver` let an event that was replayed
between its UPDATE and its DELETE use up more than one budget. Two workers in
`intake` race for the same row, requeue it and outlive a restart; a request has
one of two defects there, because the other two end it at the same places. Three closures over two
connections make one wait for a connection while two contend for the lock; four calls let an
event be accepted, given up and put back around a delete, or two events be
accepted and claimed side by side. The UPDATEs are submitted whatever the status
of their event is, since none of them looks at it.
Four ends of the process cut a start short, cut its repair short, and leave
both `-wal` and a half-made schema to a third. The tripled delays reach 18 and
then 36, so one fits and one saturates at 20. Clocks that are 3 apart reach both
edges of a tolerance of 2 and one step beyond each. Of the six bodies two
differ in nothing that midtrans signs, a third has other fields that join to the
same text, a fourth the same parts in another order, a fifth gives its amount
away to the key (one secret ends with the other), and one has no fields; three
begin with a character that may end a timestamp, which is written to the base of
3, so that it has one digit or two. So requests are reached that are accepted
with other fields, with another key and with another body than were signed. The
addresses are the first
and last of every range and their neighbours, as IPv4, as IPv6, and as IPv4
embedded in IPv6 with and without the mapping prefix.

The deadlock check is on in every run but those over `Verification`, where a
refused registration is the end: a worker can always do something, and a
process can always be started again.

Every property of a passing run is paired in `PROJECT.json` with a mutant of the
code's definitions, placed before the original (`DeferForgets`,
`CanUpgradeStale`, `StampAtOrZero`, ...), under which TLC finds the property
violated, so none of them holds by the shape of the model.

### Fairness

`settle`, `replay_twice` and `retry_spacing` use `FairSpec`: weak fairness of

* each worker's steps, as a whole: `run_dispatch_loop` never returns, its
  sleeps end, its HTTP client has a 30 s timeout, and a blocking call returns
  or fails;
* each breaker's clock (`RecoveryEnds`): time passes;
* each replay and each ingest request once it has started: the runtime polls
  its tasks.

There is no fairness on requests arriving, on faults, on crashes or on which
answer a target gives; a target may refuse for ever. A worker's step being one
disjunction, fairness does not choose between a good and a bad answer.

`transactions` uses `TxFairSpec`: weak fairness of each closure's next
statement. Nothing obliges a wait to time out, so `CallsReturn` says that no
circle of waits for connections and the lock exists, without the help of a
timeout. Since `MaxCalls` is finite it does not say that a waiter wins against
an endless stream of newcomers; SQLite's busy handler and r2d2's condition
variable promise no order.

`process` uses `ProcessFairSpec`: weak fairness of the next step of a start. The
process is started again by whoever supervises it, which is outside the
repository. There is none on kills and failures, and `MaxStops` bounds them.

## 4. What is proved

The proofs are for any number of endpoints, keys, events, workers, replays,
requests, closures and connections, any `max_attempts`, threshold, base, cap,
tolerance and width of the integers, and any number of faults, restarts and ends
of the process. Nothing but the `ASSUME`s of the modules is assumed unless the
table says so: bounds are natural numbers, the breaker threshold is below the
counter's limit, `None` is neither an endpoint nor a key nor a closure, and the
workers, the closures and an endpoint's secrets are finitely many. TLC evaluates
the assumptions in every run.

| Module | Theorem | Says |
|---|---|---|
| `RelayProofs` | `TypeCorrect` | `Spec => []TypeOK` |
| | `Structure` | every reference held by a worker, a replay or a request is to something that was there, and every stored event has its live endpoint |
| | `NothingStranded`, `FailedStaysReplayable`, `ProbesAreOwned` | `NoStrandedEvent`, `FailedIsReplayable`, `ProbeIsOwned`, from `Invariance`: `Spec => []IndInv` |
| | `LossesAreBounded` | `LossIsBounded`, from the same |
| `IntakeProofs` | `KeysAcceptedOnce`, `AnswersAreHonest` | `AcceptedOnce`, `AnswerIsHonest` |
| `DeliveryProofs` | `TargetsAreKept`, `RequestsAreWithheld` | `DeliveryKeepsTarget`, `WithheldWhileOpen` |
| | `BreakersTrip` | `TripsOnTime` |
| `QueueProofs` | `LettersMeanFailed`, `DeliveredStaysFinal` | `DeadLetterMeansFailed`, `DeliveredIsFinal` |
| | `RelayIsAQueue` | `Spec => ImplementsQueue`, for one worker, one replay at a time, `MaxFaults = 0` and `MaxCrashes = 0` |
| `BudgetProofs` | `BudgetIsUsed`, `SendsAreBounded`, `OrderIsKept` | `FullBudgetUsed`, `BoundedSends`, `SettledInOrder` |
| | `RelayIsALossyQueue` | `Spec => ImplementsLossyQueue`, for one worker |
| | `ClaimsAreExclusive` | `ClaimedByOne`, also for several workers |
| | `ReplaysAreBounded` | `ReplaysAreCharged` |
| `TransactionProofs` | `Atomicity`, `NoLeaks`, `NoDeadlock` | `TransactionsAreAtomic`, `NothingLeaks`, `SomebodyProceeds` |
| `ProcessProofs` | `SchemaComplete`, `FilesAreOwn` | `SchemaIsComplete`, `ServesFromOwnFiles` |
| | `Pacing`, `DelaysGrow`, `RangesStayOpen` | `LoopIsPaced`, `GrowsFromBase`, `RangeStaysOpen` |
| `VerificationProofs` | `RangesAreAlwaysExact` | `RangesAreExact`, for hosts that are names, any IPv4 or any IPv6 address |
| | `OnlyGenuineAccepted`, `AllGenuineAccepted` | `AcceptedIsGenuine`, `GenuineIsAccepted` |
| | `PartsKept` | `PartsAreKept` |

The argument. Almost none of the properties is inductive.

**`IndInv`** (`RelayInvariant`) has three parts.

* *Structure* (`RowsOK`, `LettersOK`, `WorkersOK`, `ReplayersOK`,
  `IngestersOK`): what each actor still remembers of rows that may have changed
  since. It is proved first, in its own right (`Structure`), by one lemma per
  component.
* `LossesAreFew`, which counts. An event is *doomed* when it is lost or will be
  without anything else going wrong, and a *requeuer* is a worker that is about
  to requeue an event that is there: it has seen one of the two faults that a
  loss takes. Twice the doomed plus the requeuers never exceed two for every
  worker and restart plus one for every fault. So the fault of a delivery makes
  a requeuer, the fault of its requeue makes the requeuer a doomed event, and a
  restart, which takes all requeuers away, dooms at most what each worker held.
  With no restart and at most one fault nobody is doomed, which is
  `NoStrandedEvent` and `FailedIsReplayable`; in general it is `LossIsBounded`.

  Doomed is more than lost, in two ways, and both are needed. A PROCESSING event
  is doomed unless a worker holds it that will still *write its status*
  (`Carries`); one at `bury` has already written FAILED and will not. With
  several workers and replays, a worker at `bury` and another that re-claimed
  the replayed event can hold the same event, and the weaker count would not
  survive the first one leaving. And a FAILED event is doomed if its letter is
  the one that a replay past its UPDATE is going to remove (`LetterIsStale`) and
  nobody is about to write the next. This is what makes the replay's DELETE
  harmless: either it deletes by an id that is no longer there, or a new letter
  is on its way. The mutant `ReplayRemoveByEvent` (delete by event) shows it is
  not automatic.
* `ProbeIsOwned` is inductive together with the structure: `CheckBreaker` is
  the only step that takes the slot, and both outcomes of the answer free it.

**`IntakeInv`.** `AcceptedOK` says that an accepted event leaves the database
only with its endpoint, and endpoint ids are never drawn twice, so a key stays
taken (`AcceptedOnce`) as long as anybody can name it. `AdmittedOK` (a request
let through has found its endpoint) turns the foreign-key error of a late insert
into "the endpoint was deleted", and `IntakeGrows`, what no step ever takes
back, keeps given answers true.

**`DeliveryInv`** is for the deployment with one worker. `DeliveryIsPending`:
the event in hand is PROCESSING, or RECEIVED if a late replay has already queued
it again; both make a delete wait, so the target stays. `PendingIsOpen`: a
breaker in its recovery window is Open in every interleaving, the wrap of its
counter included, so whoever is admitted is admitted outside the window, and no
other worker can trip the breaker while the request is under way.

**`TripInv`** holds for any number of workers. While a breaker is closed, its
`failure_count` is the number of bad answers in a row and is below the threshold,
hence below the width of the counter; so the counter wraps only in a breaker
that is not closed, where `record_failure` trips whatever the count says or
leaves it open. The threshold itself may be zero: the first bad answer trips.

**`QueueInv`** holds under one replay at a time and no faults. `ReplayIsTimely`
is the heart: a replay that has selected a letter and not yet done its UPDATE
still finds the event FAILED, with that letter, and no worker about to write
another; so the unguarded UPDATE of `replay_dlq` hits a FAILED event or nothing.
That needs `OldLettersGo` (an out-of-date letter is one the replay is about to
remove, so nobody can select it), and that in turn needs `HandsOK` (an event
is in one hand and its status says so, so the worker's unguarded UPDATEs hit the
event they mean). The refinement adds `UnusedOK` for events that are still to
come; then every action of `Relay` is an action of `DeliveryQueue` or leaves
`place` and `owner` alone. A second replay falsifies `ReplayIsTimely`, which is
finding `replay_twice`.

**`BudgetInv`** relates four numbers of an event: `sends`, the rows in
`delivery_attempts`, the `attempt_num` a worker counted several awaits ago, and
the faults so far. `AttemptsWentOut` is the lower bound: each row has its
request, and a count that a worker carries is still the count in the table
when it decides about the budget. `SendsAreFew` is the upper one: at most one
request more than rows is on its way, plus one for every fault and restart that
kept a row from being written. Both rest on `SingleHand`, which also gives
`ClaimedByOne` until the first replay; after it `HandsOK` of `QueueInv` does.
`OldestInHand`, on top of `ProcessingIsCarried`, gives the order.

**The lossy queue.** `LossyPlace` says "lost" of a PROCESSING event whose worker
is gone. `RelayIsALossyQueue` uses `SingleHand` and `NobodyReplays` (so it ends
with the first replay): a worker about to requeue holds an event that is
PROCESSING, FAILED without its letter or gone, never a DELIVERED one, so what
the requeue does is `LetGo`, `Replay` or nothing. Only a restart or a failing
requeue takes a worker away from a PROCESSING event, and that is `Lose`.

**`RoomInv`** is for replays, under one at a time and no faults. Between its
UPDATE and its DELETE of the attempts an event is `Uncleared`: the worker counts
with the attempts of the old budget, and what it sends then is not charged to
the new one. `HasRoom` says what is left for an event that waits or is in hand:
before the DELETE every request since the replay was charged to the old budget,
so there were at most as many as rows and fewer than a budget; after it, they
exceed the rows by less than a budget, and the rows themselves are fewer than
one and, once nobody is about to clear them, not more than the requests since
the replay. `HadRoom` is the same while one request is under way. The invariant rests
on `QueueInv`: no hand is on an event whose replay is about to do its UPDATE, so
`sends` is not set to zero under a request.

**`TxInv`** says of each closure what its SELECT found and that it is still true
as long as the closure may commit: because it has held the write lock since
before the SELECT (claim, accept), or because it can tell that somebody has
committed (`snapshot = version`, delete). `NothingLeaks` is part of it, by
counting: every caller outside `idle` and `pool` has one connection.
`NoDeadlock` follows from the two: the holder of the lock is in a transaction
and waits for nothing more; if there is none, whoever has a connection can go
on, and if nobody has one, the pool is full.

**`ProcessInv`** is a progress measure: at each step of `main()` it says how much
of the schema and which files are done, and a recorded version implies the whole
schema. For the loop it relates `slept` to `passes` and `prev_sleep` to both
`Base` and `ceiling`; `prev_sleep` may be *below* the base, if the cap is.

**`WireInv`** says that what is on the wire was made for the registered endpoint
and that a verdict is what the verification said at its time; the row is written
once, so both last. The work is in `VerdictIsExact`, one lemma per provider
over what it sends. For stripe it rests on `Orders`: a permutation of a finite
set has each element in exactly one place, so there is one readable timestamp
and every signature is found. For midtrans and discord the equivalence ends in
an equation between two texts that were each joined from parts, `SignedAsSent`;
it is all that `AcceptedIsGenuine` claims. `PartsKept` goes on from there with
`SplitsAlike`: two equal texts that are cut after equally many characters have
equal parts. The address ranges need no invariant: `BlockedPairs`
and `MaskedRanges` relate octet tests and masks to intervals.

The invariants of `RelayInvariant` were checked with TLC, on the constants of the
runs above, before they were proved.

## 5. What is only model-checked, and what is not modelled

Liveness (`QueueSettles`, `CallsReturn`, `EventuallyServes`) is out of the
prover's reach and stays with TLC.

Not modelled:

* Cryptographic primitives, HTTP transport, JSON and TOML parsing, URL parsing,
  SQLite and the pool's own code: libraries, taken by what they promise.
* How a header's text becomes bytes: the texts that decode to the MAC they spell
  are a set per provider (`Readable`).
* API keys: that a wrong one is refused first is in `Ingest`, the comparison is
  not; error bodies and logging.
* Metrics and health, listings: nothing reads them back. Listings return at most
  100 letters (`list_dlq`), and every dispatch attempt that returns `Ok` is
  counted under the label "success", a refused or deferred one too
  (`runner.rs:115`), although `metrics.rs:35` calls it the outcome.
* Routing and configuration: wiring; configured values are the constants.
* `transition_status`: only the tests call it.
* Loss of power. With `synchronous = NORMAL`, SQLite in WAL mode keeps every
  commit across a kill of the process but may lose the last ones when the
  machine goes down. `Crash` is the former.

Notes that are neither findings nor properties:

* With two or more workers a late answer to a request sent before the trip can
  clear another worker's probe slot or close the breaker; with the deployed
  single worker this cannot happen.
* A repeated request is answered 409 without the id of the first event;
  `README.md:76` says it gets the original id.
* `restrict_db_permissions` restricts the main file first (`db/mod.rs:128`); its
  comment (`db/mod.rs:118`) says last. `ServesFromOwnFiles` holds either way.
* midtrans' three fields and the key, and discord's timestamp and body, are
  joined without a separator (`midtrans.rs:22`, `discord.rs:24`), as the
  providers have it (midtrans: `docs/SPEC.md:228`). So the signature fixes the
  joined text and not where a part ends: order `A1` with status `200` and order
  `A` with status `1200` are the same text. Nothing in the repository promises
  more; `AcceptedIsGenuine` claims no more, and `PartsAreKept` says what that
  leaves open.
* A stripe header with several readable `t` elements is verified by the last of
  them; no provider sends such a header.

## 6. Where the code and its documents disagree

Each of these is a run that is expected to fail; the property quotes the
sentence.

| Run, property | Said | Done |
|---|---|---|
| `lost_by_restart`, `NothingLost` | `dispatcher.rs:21`: every path that abandons a delivery must requeue it; `README.md:94`: zero event loss across `kill -9` | Nothing looks for PROCESSING rows at start, so an event whose delivery a kill, a graceful shutdown or a failing `bind()` interrupts stays PROCESSING for ever, and its endpoint can no longer be deleted. Two more ways to the same end: `requeue_event` fails too and its result is dropped (two faults, no restart); FAILED is committed and the process ends before the dead letter is, so that the event can be neither listed nor replayed. |
| `replay_budget`, `ReplayRestoresBudget` | `tests/dispatch_loop_test.rs:327`: a replayed event gets a full budget | The event is RECEIVED before its attempts are deleted; a worker that counts in between gives it up after its first failure. |
| `replay_twice`, `ReplayIsAtomic` | `docs/rust/PRD.md:36`: atomic replay API | The slower of two replays of one letter puts the event back in the queue after it was delivered. |
| `retry_spacing`, `RetriesAreSpaced` | `runner.rs:133`: spacing retries with the backoff | A failed attempt returns `Settled`; the loop claims the same event again at once. |
| `dead_endpoint`, `RegisteredCanVerify` | `endpoints.rs:31`: a bad configuration fails on the operator's request instead of silently poisoning every later ingest | Any non-empty secret is taken, but discord's has to be the hex of a public key; with another one every ingest is answered 401. |

## 7. Plan

Done: the core, the transactions under it, the abstract queues and their
refinements, startup, backoff, signatures and registration, and the proofs of
section 4. Left, in this order:

1. **The lossy queue across replays**: `ImplementsLossyQueue` ends with the
   first replay. With one replay at a time and failing calls, a replay that
   failed between its statements leaves a letter of an event that is in the queue
   or delivered, and the queue would have to say what becomes of it.
2. **Several workers**: a queue with several hands, and what of the breaker's
   promises survives a late answer.
3. **Pool and worker in one model**: `Transactions` below `Dispatch`, so that
   timeouts of the pool are the faults of `Relay` rather than any call failing.
