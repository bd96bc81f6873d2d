# A formal model of the waste-collection backend

The backend (Go, `src/`) lets households order waste pickups and pay for them:
a Fiber HTTP API over services, PostgreSQL repositories and an S3-compatible
store for payment proofs, plus a background worker that cancels organic pickups
nobody collected. Each request is a handful of SQL statements; the correctness
of the data rests on what those statements check, on the locks PostgreSQL takes
for them, and on what happens when a request stops between two of them. This
directory models that, checks it with TLC and proves the main results with TLAPS.
Around this core it models what surrounds a request: the chain of middlewares
and handlers it passes, the reads, the connection pool, the rate limiter, the
configuration, and the life of the process.

## 1. Inventory

| Component (source under `src/`) | State | Operations | Talks to | Hard behaviour | What makes it correct |
|---|---|---|---|---|---|
| Domain (`internal/core/domain`) | none | `CanSchedule`, `Pricing.AmountFor`, statuses | used by the services | – | price and schedulability depend on fields that never change or that are checked again by the UPDATE |
| Pickup service (`internal/core/service/pickup`) | none of its own | `Create`, `Schedule`, `Complete`, `Cancel`, `CancelStaleOrganic`, `List` | repositories, transaction manager, clock | check-then-insert; guarded UPDATE then explaining read; UPDATE + INSERT in a transaction; a bulk UPDATE | final pickups stay final; completion and bill are one; answers are true; Rule 1 |
| Payment service (`.../service/payment`) | none of its own | `Create`, `Confirm`, `List` | repositories, storage, clock | read, then insert outside a transaction; read, upload, then update, with two stores that do not share a transaction | one bill per pickup, agreeing with it; paid exactly when a proof of one's own exists |
| Household service (`.../service/household`) | none of its own | `Create`, `Get`, `List`, `Delete` | repository | deletion beside inserts that refer to the household | no dangling reference |
| Report service (`.../service/report`) | none | `HouseholdHistory`, the two summaries | repository | three reads without a common snapshot; summaries asked for one after the other | a history shows the bill of every completed pickup in it; summaries never contradict earlier ones |
| Repositories, transactions (`internal/adapter/out/postgres`, `db/migrations`) | tables `households`, `waste_pickups`, `payments`; open transactions and their locks | one statement per method; `TxManager.Do` | PostgreSQL | READ COMMITTED, row locks, foreign-key share locks, waits on a unique index, COMMIT of unknown outcome | the constraints of the migration; no statement sees half a transaction |
| Error mapping (`postgres/errors.go`, `internal/pkg/apperr`) | none | `mapError`, `apperr.From`, `StatusCode` | – | which failures are a 503, which a 500, which the client's | an outage is a 503; the status is that of the cause, through every layer |
| Proof storage (`internal/adapter/out/storage`) | bucket of objects | `Put`, startup | MinIO | an upload that reports an error and is stored all the same | keys are fresh, objects never overwritten |
| HTTP edge (`internal/adapter/in/http`: server, router, middlewares, handlers, presenter, health) | the response being built | the chain request-id, recover, access-log, CORS, timeout, rate-limit; a handler per route; `/healthz`, `/readyz` | services | panics unwind past what lies inside `recover`; the access log is written before `ErrorHandler` writes the status; checks precede the service call | every request is answered and logged with the same truth; a refusal has left no change behind |
| DTOs and validation (`dto`, `internal/pkg/validator`) | none | field checks | handlers | – | only typed ids and known types reach the services |
| Request timeout (`middleware/timeout.go`) | a deadline per request | passes the deadline to every statement | repositories, storage | the deadline passes between or during statements | nothing is half done |
| Rate limiter (`middleware/ratelimit.go`) | bucket per address, last use | `Allow`, `evict` by a janitor | – | eviction beside requests, an evicted bucket comes back full | only an address that was idle for the TTL finds its bucket full again; nobody loses a token or has two buckets |
| Auto-cancel worker (`internal/adapter/in/worker`) | ticker, running job | tick, run, stop on cancel | pickup service | its UPDATE meets rows that change under it; failing runs | only stale open organic pickups are canceled, and they are in the end |
| Lifecycle (`internal/app`, `cmd/api`) | goroutines of an errgroup, server state | `Run`, signal, shutdown, `Close` | server, worker, janitor, pool | a signal before `Listen`; a shutdown deadline; an error of one goroutine stops the others | everything ends, the pool is closed last |
| Connection pool (`postgres/pool.go`) | at most `MaxConns` connections | acquire, release | every statement | a request that needs a second connection while holding one | no request waits for itself |
| Pagination (`internal/pkg/pagination`) | none | `Parse`, `Offset`, `NewMeta` | list handlers | 64-bit multiplication | a page is read at the offset it names, as long as an int can count the rows before it |
| Configuration (`internal/config`) | environment, `Config` | `Load`, `Validate`, first use by `NewPool` | pool, server, services | empty and malformed values become defaults before `Validate` judges them; narrowing to 32 bits | what serves is what was allowed; no amount is billed at a mistyped price's default |
| Migrations runner, wiring of the MinIO client, logging | – | startup, formatting | – | – | – |

Components interact by calls inside one request, and across requests only through
the three tables, the locks on their rows and the clock. Nothing is cached
in memory except the rate limiter's buckets.

The hazards this gives rise to are listed, each at its line, in `PROJECT.json`
under `hazards`, with the property that watches it or a note why none does.

## 2. Modules

| Module | Models | Extends |
|---|---|---|
| `Domain` | entities, statuses, pricing, `CanSchedule`; ids and prices as CONSTANTS | – |
| `Database` | the committed state (three tables, the bucket, the clock), the WHERE conditions of the statements, the integrity of the data, what a step may never do to it | `Domain` |
| `Ledger` | the abstract specification: each business operation happens at one instant or not at all; no requests, statements, locks, failures | `Database` |
| `LedgerSteps` | the operations of the ledger as steps of the tables of a module that extends it | `Database`, instance of `Ledger` |
| `WasteBackend` | the service: requests in slots, one action per SQL statement, upload and COMMIT; the worker; timeouts, crashes, late effects | `Database` |
| `BackendProperties` | the locking discipline, what clients are told, progress, `ImplementsLedger` | `WasteBackend`, `LedgerSteps` |
| `MCBackend` | seeds, request forms and symmetry for the runs | `BackendProperties` |
| `TokenBuckets` | what rate limiting promises: a bucket per address that only time and its own admissions change, unless it was idle | – |
| `RateLimiter` | the limiter of `POST /pickups`: look-up under the mutex, `Allow` outside it, the janitor that deletes idle addresses | instance of `TokenBuckets` |
| `MCRateLimiter` | symmetry for its run | `RateLimiter` |
| `Pagination` | `Parse`, `Offset`, `NewMeta` on machine integers | – |
| `Reads` | one reader of everything that can be read, statement by statement, beside the operations of the ledger | `LedgerSteps`, `Pagination` |
| `MCReads` | filters and seeds for its run | `Reads` |
| `ConnPool` | requests, their transactions and a row lock beside a bounded pool of connections | – |
| `Pipeline` | one request through the chain of middlewares, the checks of its handler, the statements of the service and what they leave behind, the mapping of errors, and back | – |
| `Config`, `MCConfig` | `Load`, `Validate`, `NewPool` over every environment a condition distinguishes | – |
| `Lifecycle` | the process: connecting, the goroutines of the errgroup, signals, the shutdown deadline, its exits | – |
| `MCLifecycle` | sweep intervals of its runs | `Lifecycle` |
| `LedgerProofs` | what an operation of the ledger keeps: types, integrity, everything final | `LedgerSteps` |
| `BackendProofs` | in three parts: types and locking discipline; the service implements the ledger and so keeps the data whole; what clients are told is true | `BackendProperties`, `LedgerProofs` |
| `ReadsProofs` | histories, pages and walks | `Reads`, `LedgerProofs` |
| `RateLimiterProofs`, `LifecycleProofs`, `PipelineProofs`, `ConnPoolProofs`, `ConfigProofs` | the safety properties of the module each is named after | that module |

### How state and actions correspond to the code

* `households`, `pickups`, `payments` hold the committed rows, `objects` the
  bucket: an object key is `payments/<payment id>/<uuid>`, so `objects[k]` is
  the payment in its path. `clock` is `time.Now()`.
* A slot serves one request at a time. `pc[s]` names the statement it executes
  next, `req[s]` holds the handler's and service's local variables (the ids, the
  row read or about to be inserted), `answer[s]` what the client was told. A
  request that starts has passed the handler: ids parse, the type is known.
  Clients may name any id, stored or not, except a uuid that exists only inside
  another request's open transaction (`Minted`).
* Each repository call is one action, named for what the service does with it.
  `pickup.Service.Complete`, for instance, is `CompletePickup` (the guarded
  UPDATE), then `InsertCompletionPayment`, then `CommitCompletion`; if the UPDATE
  matched nothing, `ExplainComplete` reads the row to choose between 404 and 409.
* Rows written by an open transaction are kept in `req` and reach the tables
  with its commit, because nobody else sees them (READ COMMITTED). What others
  do notice are its locks: `RowLocked` (UPDATEs of a row wait for the one that
  updated it), `HouseholdShared` (a DELETE of a household waits for an
  uncommitted row that refers to it), `BillUncommitted` (an INSERT waits for an
  uncommitted entry of the unique index on `payments(waste_id)`).
* A guarded `UPDATE ... WHERE status = ... RETURNING` is one action. If the
  committed row does not match, it ends at once, locked or not; if it matches
  and somebody holds the row, PostgreSQL waits for the holder and evaluates the
  WHERE clause again on the version committed by then, so the action is not
  enabled meanwhile.
* `PaymentInsertError` follows PostgreSQL's order: unique index first, foreign
  keys at the end of the statement (`FOREIGN_KEY_VIOLATION`). `mapError` would turn
  the latter into a 500.
* `Abandon` is a deadline, a broken connection or a crash at any statement; the
  client gets `FAILED`, which is a 503 or, for a connection that ends in the middle
  of an answer, a 500 (`Pipeline` says which). An open transaction is rolled back. A statement that commits on its own, a COMMIT
  or an upload may still take effect later (the slot keeps its `pc`, the client
  has been told `FAILED`) or never (`LateDrop`). When the server learns of a broken
  connection only later, the rollback comes later: the model's `Abandon` then
  happens at that later time.
* `PutFails` is an error of the store's client: the object may be there or not.
* The worker reads the clock (`SweepTick`), takes the snapshot of its UPDATE
  (`SweepScan`), locks matching rows one after the other, looking at the committed
  version of each again (`SweepRow`), and commits them together (`SweepCommit`).
  `SweepFail` ends a run anywhere without effect. Runs of one process do not
  overlap: the job is called in the ticker's loop, and `statement_timeout` (5 s)
  ends an UPDATE on the server before the next tick (1 min) if the configuration
  keeps that order. One worker, hence one process.
* `RateLimiter` stands alone: it shares no state with the database and decides
  before the handler of `POST /pickups` runs. `LimiterFor` is the critical section
  of `limiterFor`; the request then holds a pointer to the limiter (`held[s]`)
  until `Allow`, which has a lock of its own. `Evict` is one run of `evict`, once
  per TTL. `visitors[a] = None` means the map has no entry. Time is counted in
  units in which `Rate` tokens arrive, so a bucket holds whole tokens. `asked` is a
  history variable no action reads: when an address last got an answer.
* `Reads` lets one reader loose beside the writers of `Ledger` (`LedgerSpec!Next`):
  since `WasteBackend` implements the ledger, whatever a reader sees between two
  statements of the service it sees between two operations of the ledger. `asks`
  is the kind of request this reader makes; `request` holds the rows it has
  read so far; `walk`, `waste` and `money` remember what earlier answers showed.
  `Pages` is every page that `ORDER BY created_at DESC LIMIT OFFSET` may return:
  rows created at the same instant come in any order.
* `Pagination` has integers of the width `MaxInt` says, in two's complement, so
  `(page - 1) * per_page` wraps as in the code; a number too large for an `int`
  is an error of `Atoi` and becomes the default.
* `ConnPool` gives each kind of request the list of what it asks of the database
  (`Program`, read off the services). `inTx` is the context that carries a
  transaction, in which `Executor` uses the connection the transaction holds.
  pgxpool is external: it serves its queue in order.
* `Pipeline` follows one request. `depth` counts the middlewares it has entered;
  `Chain` is their order in `NewServer`; `outcome` is what the inner layer returned
  (nil, an error, a panic) and `reply` what is written so far. `Checks`
  are the checks of each handler in their order, `Statements` what each service
  executes: a read, a write or the upload, each with the domain errors that may
  come of it. A guarded UPDATE and the read that explains its failure are one
  entry, since together they change nothing when they refuse. `change` is
  what the request has done to the database (`open` in a transaction), `stored` whether
  its proof is in the bucket; `Undone` is the rollback of `TxManager.Do`. `Faults` are
  the errors of pgx that `isUnavailable` tells apart, with `eof` for the unexpected
  end of a connection, which it does not know. Two faults are the mirror of each
  other: `offset`, the SQL error of a page number that overflows, which the client
  has caused, and `file`, an upload that cannot be read back, which it has not.
* `Config`: a variable is unset, empty, malformed or has a value; `Loaded` sends
  each through the helper `Load` uses for it; `Valid` is `Validate`, and `NewPool` the
  first to judge the narrowed `POSTGRES_MAX_CONNS`. Variables no condition reads are
  left out.
* `Lifecycle` has one variable per goroutine (`main`, `listener`, `worker`,
  `janitor`, `stopper`). `interval` is `SWEEP_INTERVAL`, any integer: `time.NewTicker`
  panics for zero and below. Fiber is external: `Shutdown` without a listener returns at once
  and leaves no trace. A request cut off by the end of the process goes to `cut`.
* `uuid.New` never returns an id in use (`Fresh...`). The clock does not go back.

Definitions named `Bug...` are plausible mistakes in the definition that follows
them (a forgotten condition, a missing lock). Nothing uses them; they exist so
that each property can be seen to fail when the code is wrong in that way
(`PROJECT.json`, `mutants`).

## 3. Runs

In `MCBackend` the constant `Ops` names the requests clients send; `"sweep"` in it
starts the worker.

| Run | Instance | Shows |
|---|---|---|
| `progress` | `MCBackend`: 2 requests, an organic pickup, all operations that wait for each other (schedule, complete, cancel, bill by hand, delete the household), TTL 0, clock 0–1, worker, fairness (28,920 states) | every request ends of itself; stale waste is swept |
| `billing` | `MCBackend`: 2 requests, 2 organic pickups, 2 payment ids, schedule, complete, cancel, bill by hand, worker, TTL 0, clock 0–1 (140,349) | types; the locking discipline; one bill per completed pickup; a billed pickup never completes; final pickups stay final; the worker cancels only what is overdue; refusals are true; the ledger is implemented |
| `households` | `MCBackend`: 2 requests, 2 households, 2 pickup and payment ids, 2 proofs, organic and unchecked electronic waste, confirmations (811,815) | no dangling reference or disagreeing bill; no 500 from a foreign key; paid exactly with one's own proof; refusals are true and "ok" means done; the ledger is implemented |
| `rule1_concurrent` | `MCBackend`: 2 requests | Rule 1 is violated (section 6) |
| `rate_limit` | `MCRateLimiter`: 2 requests, 2 addresses, 3 limiters, 1 token per unit of time, burst 3, TTL 2, a stall of 1, clock 0–7 (335,953) | `RateLimiter` implements `TokenBuckets`: only who was idle finds a bucket full; no request uses a deleted limiter; the map keeps no address longer than two TTLs |
| `reads` | `MCReads`: 2 households, pickups and payments, 1 proof, clock 0–1; pages of 1 and 2 rows, integers of 4 bits (843,244) | histories are coherent; pages and totals agree; a walk through the pages misses nothing; summaries never contradict earlier ones; page numbers up to the last whose offset fits an `int` do not wrap |
| `conn_pool` | `ConnPool`: 3 requests of 6 kinds, 2 connections, fairness | who waits for a connection holds none; none is lost; uploads hold none; every request is served |
| `pipeline` | `Pipeline`: all 15 routes, probes, preflight, oversized and unrouted requests, each with every statement, refusal, fault and panic (2,785) | the answer is true of what was left in both stores; the status is that of the cause; one line in the log agrees with it; every request is answered |
| `outage` | `Pipeline`, as above | an outage answered 500 (section 6) |
| `config` | `MCConfig`: every combination of values a condition distinguishes | what serves is allowed; prices are deliberate |
| `shutdown` | `MCLifecycle`: 2 requests, `SWEEP_INTERVAL` -1, 0 or 60, fairness (586) | the pool outlives its users; each exit leaves what it should; a signal after `Listen`, and a failed goroutine at any time, end the process |
| `early_signal` | `MCLifecycle`, as above | a signal before `Listen` that ends nothing (section 6) |

Bounds. `MaxClock` bounds the clock: with a TTL of 0 a clock that reaches 1 lets a
pickup created at 0 be exactly as old as the TTL and older, and lets the worker's
reading of the clock lag behind. The sets of ids bound how many rows ever exist; a
pickup has at most one bill, so as many payment ids as pickups suffice. Each hazard in
the list involves at most two requests, or one and the worker, on the same row, so two
slots on two pickups exhibit it; the theorems of section 5 cover any number, and
all operations at once. The requests themselves are unbounded: slots serve one
after the other for ever. Organic pickups are stored from the start in `progress`
and `billing` (as `db/seeds` does), to leave room for interleavings of the later
operations; `households` and `reads` create pickups. No run has all operations:
`billing` has those around a pickup and its bill, `households` those around
references, proofs and answers, and what a claim says of an operation its run does
not have (the completion in `StepsAcknowledgeTruthfully`, the confirmation in
`StepsKeepFinalData`) rests on its theorem alone. Symmetry is used in
runs without liveness properties, over ids no definition of the instance
distinguishes.

TLC's check for deadlock says nothing about the requests of `MCBackend`: a busy one can
always be abandoned, so no state is without a successor. That requests do not wait for
one another is what `EveryRequestEnds` is for: under its premise that deadlines and
broken connections do not go on for ever (`FailuresCease`), with no help from
`Abandon`, each request still ends.

In `rate_limit` a clock up to 7 sees the janitor run three times and the address it
deleted come back; a limiter per address and one that a request may still hold
are all that can be in use. The bucket takes longer to fill than the TTL, which is
the hazardous case: `config.Validate` excludes no rate and no burst, and neither does
the model. `ImplementsTokenBuckets` then says what the janitor's forgetting
amounts to: an address may find its bucket full if it has got no answer, not even a
refusal, for more than the TTL less the time `MaxStall` a request may spend between
the look-up and `Allow`. With the defaults (30 per minute, burst 10, TTL 10 minutes)
a bucket fills in 20 seconds, so nobody notices.

In `reads` one reader suffices, for readers do not disturb each other. Two pickups
are enough for a page boundary with a row on each side, and for a row that is
created while the reader stands on it; pages of one row make that the usual case.
Two households let the one asked about appear and vanish. Integers of four bits
(`MaxInt` 7) take pages 2 and 4 of two rows each, the last whose offset fits (6), and
page 5, which wraps around; with one row a page all fit.

In `conn_pool` three requests on two connections queue, also behind a row lock. In
`pipeline` one request at a time is enough, since requests share nothing in the
edge but the rate limiter. `config` takes a value on each side of every comparison.
`shutdown` has a request that ends and one that does not.

That a request is not stalled for the TTL, and that the janitor's ticker is
punctual (for `IdleAreForgotten`), is assumed.

## 4. Fairness

`BackendProperties!FairSpec` assumes, for `progress` only:

* `WF(Serve(s))`: goroutines are scheduled and the database executes a statement
  that is not blocked. No request is helped by its deadline (`Abandon` and
  `LateDrop` are not fair).
* `SF(UpdatePickup(s))` and `SF(SweepRow(p))`: PostgreSQL queues the waiters of a row's
  lock in order of arrival, so an UPDATE of a request or of the sweep is not
  overtaken for ever by others that hold the row again and again.
* `WF` of the worker's tick, scan and commit: a `time.Ticker` in a loop.
* `<>[][SweepFail => SweepCommit]`: from some time on the worker's runs succeed.
  Without it a database that always fails would refute `StaleIsSwept`. (The commit
  of a run that found nothing changes what its failure changes, hence the form.)
* `WF(Tick)`: time passes.

`EveryRequestEnds` has the premise `FailuresCease`: from some time on no deadline passes
and no connection breaks. Without it the bill of another request could be aborted
and tried again for ever while a third waits for its entry in the unique index, a
wait for which the model assumes no queue. It says that no wait for a lock is
circular, not that timeouts cut the waits short.

`ConnPool!FairSpec` (`conn_pool`): a request asks for its connection, the pool grants
(`WF`), and a statement that is again and again executable is executed (`SF`, the
queue of the row lock). No error and no deadline helps.

`Lifecycle!FairSpec` (`shutdown`, `early_signal`): `WF` of every step of a goroutine, and
of the shutdown's timer; `SF(WorkerReturns)`, because `select` chooses at random
between a tick and the end of the context. A request may be served for ever and no
signal need come.

`Pipeline!FairSpec` (`pipeline`): `WF(Handle)`: a handler runs on, as what it waits for
ends by the request's deadline.

## 5. Proofs

TLAPS checks every safety property of the runs but `SummariesAgree`, for all values of the constants:
any number of concurrent requests, rows, addresses and connections, any ids and
seeds, any width of `int`. It relies on the assumptions the modules state, and TLC
evaluates each of them on the instances:

* ids are distinct from `None`; `OrganicTTL` and `SweepIntervals` are integers, for
  `Validate` checks no duration; prices (in `Reads`) and `MaxClock` are naturals; seeds
  and forms are rows and inputs the program can have (`Domain`, `Database`,
  `WasteBackend`, `Reads`);
* pickup and payment ids are finitely many (`Reads`: a uuid has 128 bits), and so are
  the requests at one time (`ConnPool`), for rows and connections are counted;
* `RateLimiter`: a request does not stall longer than the TTL; rate and burst are any
  naturals (zero stands for negative ones, too);
* `Pagination`: the default and the largest page size are in range of `int`;
* `Config`: the defaults fit together and into 32 bits, as those in `config.go` do;
* `Pipeline`: the names of codes, faults and markers differ.

The arguments, module by module. Every one rests on an inductive invariant
called `IInv` (`Sound` and `Explained` add to it in `BackendProofs`), because none of
the properties is inductive by itself.

1. `LedgerProofs` shows once that an operation of the ledger keeps the types and
   `Integrity` and changes nothing final. `BackendProofs` uses this for the service,
   `ReadsProofs` for the writers beside a reader.
2. `BackendProofs`, first part: `IInv == TypeOK /\ LocksExclude` is inductive
   (`TypeCorrect`, `LocksAlwaysExclude`). `TypeOK` alone says nothing about the
   copies of rows a request carries. `LocksExclude` says what each request may
   rely on before each statement (`Relies`): before its COMMIT, Complete's row is
   still scheduled in the table, not being swept, not billed, and its copy is
   that row with the new status; the id it is about to insert is unused; what
   `POST /payments` read is still true; the uploaded proof is there. It holds because
   no two requests hold one row or mint one id (`Apart`), and every other
   statement either respects the lock or leaves the fields in question alone.
   Most lemmas show one action; `OthersRely` states once what a step must leave
   alone for all other requests.
3. Second part: under `IInv` every step is one operation of the ledger or
   leaves the tables alone, hence `Refines == Spec => ImplementsLedger`. The
   refinement mapping is the identity on the tables: a transaction takes place at
   its COMMIT. With the lemmas of `LedgerProofs`, `Sound == IInv /\ Integrity` is
   inductive; from it `BillsMatchPickups`, `CompletedAreBilledOnce`, `PaidHaveProof`,
   `UnsafeNeverScheduled`, the step properties `FinalDataKept`,
   `BilledNeverComplete` and `SweepOnlyOverdue`, and `ForeignKeysHold`, which
   needs both halves: the request's copy agrees with the pickup
   (`LocksExclude`), and the pickup's household exists (`BillMatchesPickup`).
4. Third part: what clients are told. A refusal is often explained by a
   statement later than the one that refused, so it rests on facts that last between
   the two: the invariant `Explained` says that a row that refused an UPDATE goes on
   to refuse it, that an id minted by an open transaction is known to nobody else
   (else a pickup could appear under a request that was told there is none), that
   what is being confirmed is stored, and that a payment never fails. With it
   `RefusalsTrue` and `AcksKept`. One refusal has no lasting fact behind it:
   `PICKUP_NOT_SCHEDULED` was true when Complete's UPDATE ran, but another request may have
   scheduled the pickup before the answer is sent, so only the pickup's existence is
   claimed. `Rule1WithBillsApart` shows that Rule 1 is broken by the race of
   section 6 and nothing else: for any number of requests, if no bill of a
   household is about to be inserted or committed (`BillsApart`; a COMMIT whose
   client is gone counts) while a pickup of it is between its check and its commit,
   the rule holds. The code does not see to that; a lock on the household would.
5. `ReadsProofs`. A history (`HistoriesAreCoherent`) is coherent though its three
   statements see different states, because what an earlier one has shown stands
   (`PickupsStand`, `PaymentsStand`): a completed pickup stays completed, its bill was
   committed with it and cannot go. For a filter that rows never leave (`Lasting`) a
   page that was read remains inside the selection, so a later count covers it
   (`TotalsCoverPages`). `PagesAreThoseNamed` is arithmetic: an offset that fits
   an `int` is not changed by two's complement. `NothingIsMissed` follows a reader through
   all pages while rows are added and offsets shift: with creation times apart, a
   pickup that was there at the start and was not shown yet has at least as many newer ones as
   the pages turned hold (`Behind`). The next page either is full, and its rows are then
   newer than any row it leaves out, or it is the last. Pages of this ordering are
   only ever pushed back, since a new pickup is newer than all. The invariant also has to
   exclude that a page number that no longer fits an `int` ends the walk: `Parse` turns
   it into page 1, which is never the last one once there was a second.
6. `RateLimiterProofs`. `NoOrphans` needs the order of the clocks the limiter compares
   (`ClocksInOrder`): an address whose request is between `limiterFor` and `Allow` was
   seen at most `MaxStall` ago and is not deleted. `KnownAreFresh` bounds how long ago the
   bucket of a known address was used, hence `Forgetting`, and that an address that is deleted
   has got no answer for the TTL less `MaxStall`. `OnlyIdleAreForgotten` shows step by step that
   the limiter implements `TokenBuckets`: the mapping gives an address without an entry a
   full bucket, `Evict` then maps to `Forget` of the addresses it deletes, and `Allow` to the
   same answer. Nothing is assumed of how fast buckets fill.
7. `LifecycleProofs`. `PoolIsThere` says of every interleaving of start, failures, signal and
   shutdown that nobody uses a closed pool. `Close` comes after `Wait`, and the invariant says what
   `Wait` without an error implies: the listener was closed by `Shutdown` (`ListenerIsStopped`),
   which has drained the requests (`ShutdownDrains`), and the worker has returned from its run.
   `ExitsAreClean` follows from the same facts (`EndsInOrder`). It does not say that a process
   that ends through `logger.Fatal` after `Run` has closed its pool, for it has not (section 6).
8. `PipelineProofs` follows a request: nothing has happened to it on the way in
   (`OnTheWayIn`); what is on its way out (`Outgoing`: the response, or what `ErrorHandler`
   or `Recover` will make of the error or panic) is the final answer already, true, and is
   logged at the place of the access log in the chain (`OnTheWayOut`). What it has done to the database and the bucket is tied to how far its service has got.
   Hence `TheLogIsRight`, `AnswersTellOutcomes`, `StatusesTellCauses`. The kinds, codes and
   statuses of all refusals and faults of every route are gone through in lemmas.
9. `ConnPoolProofs`. `Discipline` says who occupies a connection: a request that was granted one
   for its next statement, and a transaction until its end. What is left of a transaction
   that has begun is statements and its commit (`TxRest`), so it never
   queues or uploads, which is `NobodyHoldsAndWaits`. `ConnectionsReturn` counts.
10. `ConfigProofs`: between `Load` and serving the configuration stays what `Load` made of the
   environment and what `Validate` has accepted.

Only model-checked:

* `EveryRequestEnds`, `StaleIsSwept`, `EveryRequestIsServed`, `EveryRequestIsAnswered`,
  `ProcessEnds`: liveness under fairness, and with it `ENABLED`, is outside what the prover handles;
* `SummariesAgree` of `Reads`: that the sums of two summaries compare as their parts do is an
  induction over the rows summed, which the installed provers cannot do;
* the absence of deadlock (as part of the liveness properties, section 3), and what the three runs that expect a violation show.

## 6. Where code and documentation disagree

`src/README.md:151` promises that a household with a pending payment cannot
create a pickup, and line 206 that check and insert run in one transaction. The
transaction is READ COMMITTED and locks nothing the check read. In the run
`rule1_concurrent` the check finds no pending payment, another request then
completes (or bills) a pickup of the same household and commits, and the first
transaction inserts and commits its pickup. Nothing else breaks
the rule (`Rule1WithBillsApart`, section 5). `Ledger` therefore leaves the rule out.

`src/README.md:274` promises that unavailable dependencies are a 503, never a 500. In
the run `outage` a connection breaks while the answer of a statement is awaited
(the server process is killed): pgx reports `io.ErrUnexpectedEOF`, which is none of the
errors `isUnavailable` (`postgres/errors.go:27`) looks for, and the request ends 500.

`src/README.md:269` promises that a signal drains requests, stops the worker and
closes the pool. In the run `early_signal` the signal arrives before `Listen` has
opened its listener: the goroutine at `internal/app/app.go:115` calls `Shutdown`, which
finds nothing to stop, `Listen` then runs on, `Wait` never returns, and further
signals are absorbed.

Smaller differences, visible in the definitions, without a run of their own:

* The same sentence of `src/README.md:269`: when requests outlive `SHUTDOWN_TIMEOUT`, `main`
  ends through `logger.Fatal`, and the deferred `Close` of the pool does not run
  (`WaitReturns` leads to `Exit("fatal")` with the pool open).
* `src/README.md:83`: `Validate` is to refuse an empty secret in production. An empty variable
  counts as unset (`Env`), so the secret is the development default by then and
  the conditions in `Valid` are never false. No property speaks of secrets: the one the
  sentence states is false of the code, and `ServesOnlyWhatIsAllowed` leaves it out.
* `src/README.md:198` has the access log outside `recover`; `NewServer` installs them the
  other way round (`Chain`), so a request whose handler panics is not in the
  access log. `LogAgreesWithAnswer` makes exceptions of a panic and of an
  oversized body, and so claims less than that line.
* `src/README.md:273` promises a request id per request; a body above
  `BODY_LIMIT_BYTES` is answered before the chain begins (`Arrive`), without one.

Observations that are not disagreements: a pickup billed by `POST /payments`
before its completion can never be completed (`src/README.md:238` allows the
bill; the completion's own insert then always hits the unique index), and a
proof uploaded by the loser of two confirmations stays in the bucket
(`src/README.md:250` says so; `AnswerTellsOutcome` allows this object and no other). A file that
`Open`, `ReadFull` or `Seek` cannot read is answered 400, as if the client had sent a bad one. A page number near the largest `int` makes the offset
wrap around and the request a 500. Pickups created at the same instant have no fixed
order, so a reader who turns pages may miss one of them (`WalkMissesNothing`
excludes ties, and is violated without that); so may one who filters by a status
that rows leave, like `pending`. `SummariesAgree` supposes prices that are not negative;
`Validate` does not check them, and with a negative price revenue may fall.

## 7. Not modelled

* The formats of ids, dates, JSON and multipart bodies, file type sniffing and the
  rules of each field (`dto`, `internal/pkg/validator`): `Pipeline` has a check that
  fails or passes at its place in the handler; what it looks for is data.
* Wording of messages, failure logs, request ids as such, CORS headers.
* `-health` and `-migrate` of `cmd/api`, the migrations runner (`db/embed.go`), creation of the bucket, escaping in the DSN: I/O or formatting
  without state of the program.
* Idle and lifetime limits of the pool; variables of `Config` no condition reads.
* Nested `TxManager.Do` (no service nests it) and a panic inside `Do`, which would
  leak its transaction (nothing the services do there panics), in `WasteBackend` and
  `ConnPool`; `Pipeline` has the panic.
* `pickup_date`, `payment_date`, `updated_at` and names, which no condition reads.
* Two processes against one database: the repository deploys one.

## 8. Plan

Done, in this order: `Domain`, `Database`, `Ledger`, `WasteBackend`,
`BackendProperties` with its runs and `BackendProofs`; `RateLimiter`; `Reads` with
`Pagination`, `ConnPool`, `Lifecycle`, `Config`, `Pipeline`; then the proofs of all of these,
with `LedgerProofs` as their common ground.

All components that keep state or decide anything are modelled, and all safety
properties but `SummariesAgree` are proved. What is left to prove: that no two
requests wait for each other (the order in which `WasteBackend` takes its locks, the
safety half of `EveryRequestEnds`), and the parts of `SummariesAgree` that need no sum: the
rows behind a waste summary's counts are a set that only grows.
