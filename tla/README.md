# Verification of mnp-datamart

TLA+ modules, TLC runs and TLAPS proofs about **mnp-datamart**, the service that
copies number-portation data from the databases of MNP HUB into a data mart. The
repository also holds the service that fills its main source, portin-requests,
under `examples from old project/`. Both are modelled: the jobs of the datamart in
`PortInJob`, `CdbMessageJob` and `SessionLock`, the service in `PortInRequests`. They
meet in the source database, of which each has its view, and the service's is
shown to implement the datamart's.

Line references are to the repository: `job.go` is `internal/jobs/portin/job.go`,
`cdb job.go` is `internal/jobs/cdbmessage/job.go`, `store.go` is
`internal/target/store.go`, and *old* stands for `examples from old project/`.

## The system

| Component | State | Operations | Interacts with |
|---|---|---|---|
| Source orders DB (*old* migrations, repository) | `orders` with `changing_date`, `orders_log`, `portation_numbers` | create, patch; the trigger `orders_bru` logs the replaced version | written by portin-requests, read by portin-dag |
| Cancel DB (another service) | rows with `status`, `changing_date` | status 50 is recorded | read by portin-dag |
| Messaging DB (another service) | `mnp_message`, `mnp_process` | messages are recorded | read by cdb-message-dag |
| portin-dag (`job.go`) | one transaction, depth, cancellations, two result sets | lock, depth, cancellations, orders, numbers, history, commit, unlock | source, cancel and target DB |
| cdb-message-dag (`cdb job.go`) | one transaction, depth, one result set | lock, depth, messages, commit, unlock | messaging and target DB |
| Mart store (`store.go`, migration) | `mnp_request`, `mnp_request_h`, `req_number`, `mnp_raw_request` | watermarks, upserts | both jobs |
| Job lock and pool (`store.go:49-58`, `database/sql`) | advisory locks of sessions, idle and lent connections | lend, take back, lock, unlock, lose | both jobs and the health checks share one pool per process |
| Scheduler and HTTP (`cmd/main.go`) | one ticker per job, handlers | start a run with a time limit, or for a request | the jobs |
| Transformation (`internal/transform`) | none | parse payload, subscriber type, dates, reject reason | the jobs |
| Start-up (`cmd/dependencies`), configuration (*old* Consul) | settings, pings sent | read and check settings, ping with retries, start | Consul, the databases |
| portin-requests: patches (*old* service, Kafka) | an order row locked in a transaction, the patch at hand | validate, lock, apply, commit, publish, reject, acknowledge | orders DB, Kafka |
| portin-requests: creation, queries (*old* service, REST, FTP) | the request at hand | validate, look for the document and for open orders, insert, publish; reads | orders DB, SFTP, Kafka |

What is hard: runs of one job may overlap (two callers, several replicas); the
lock is tied to a database session that the pool hands to others; each query of a
run sees the source at another moment; the watermark is made of the dates of
events, which arrive out of order and are cut into batches by LIMIT; runs are
broken off by time limits, lost connections and crashes; one bad row ends a run.
In portin-requests nothing spans the database and Kafka: an order or a patch is
committed first and announced after, patches are delivered again and out of order,
several replicas handle patches of one order, and the look for open orders is a
query of its own.
What makes it correct: runs of a job in two replicas meet only when a replica has
lost its lock, a run is refused for a cause, nothing falls behind the watermark, the
mart shows real versions of real orders and does not go back, a transaction is all or
nothing, and the mart catches up in the end. For the service: no patch disappears, a
change that was never announced has its patch in the rejected topic, no event is ahead
of the database, a caller is told 200 only of an announced order, an order is stored
whole, its state changes only when a patch or its numbers say so.
`PROJECT.json` lists each hazard with its line and the properties that cover it.

## The modules

`OrdersDB` is the source as the datamart sees it. One action per write:
`CreateOrder` (*old* repository `Create`, `changing_date` stays NULL),
`PatchOrder` (a patch that passed `ValidatePortInPatchDate`, with
`UpdateOrderPatch` and the trigger `orders_bru`, which run in one transaction on a
row locked FOR UPDATE, hence one step) and `CancelOrder` (another service,
external). Dates are those of the events. A new date may lie up to `MaxLate`
behind the newest one recorded: patches carry the date of their event and are
stored when they arrive. One tick is one second, the unit of `job.go:174`.
`logColumns` are the columns `orders_log` has, one of the sets in `Schemas`, settled
when the database is set up.

`PortInJob` extends it with `Run` of `job.go`. Each run has a program counter
(`idle, cancels, query, orders, history`), and one action per query, per row and
per end of a run. Reading a result set and writing its rows are different steps,
so the source and other runs move in between. `staged*` are the run's uncommitted
rows; `Commit` puts them in the mart; `GiveUp` is what the deferred `Rollback` and
`UnlockJob` leave. `Blocked` and `Deadlocked` are PostgreSQL's row locks and
deadlock detector. `Kind` says what parsing and the filters make of an order:
`person` is loaded, `filtered` skipped, `broken` fails the run. A row is the part
of it the properties tell apart: order, date, status. A request is one step
(`UpsertRequest`) and each of its numbers another (`UpsertReqNumber`); `pending` are
the numbers still to come. The query of
the history names eight columns of `orders_log` (`HistoryColumns`, `job.go:170-182`);
where one is missing it fails and the run is rolled back (`FailOnHistoryQuery`). `Overlap` says whether runs
are kept apart, which is SessionLock's question, and `Tickers` which of them a ticker
starts.

`CdbMessageJob` is `Run` of `cdb job.go` in the same style. Its depth is made of
`request_data` and compared with `message_date`; the two differ by up to
`MaxSkew`. The lock is left out: a refused run changes nothing, and runs overlap
freely here, so what holds does not depend on it. `req_id`, direction and the
copied columns are left out.

`JobMutex` is what the lock really promises, which is less than "one run at a time":
a run is let in beside runs of its own replica, and beside those of another replica
only when that one has lost its lock while they were in progress. `SessionLock` is the
lock as the code makes it: `pg_try_advisory_lock`
and `pg_advisory_unlock` each sent on a connection that `database/sql` lends for
one statement. The advisory lock counts per session, so a session that holds it is
granted it again. `Lend` takes the connection returned last or opens one,
`TakeBack` keeps at most `MaxIdle` idle ones (2 unless configured, and the code
does not configure it) and closes the others, `Lose`, `LoseIdle` and `Restart` end
sessions and with them their locks. Two history variables say why the lock fails:
`dropped` are the jobs in progress whose lock has gone with its session, `leaked` those
for which an unlock has missed the session that holds the lock. No guard reads them.

`StatusCodes` is the table of states by name and code with the defaults built on
it. `PortInStore` is the database of portin-requests with one operator per
statement of the repository, the topic of events, the row locks and the count of
faults; `order_data` is the status of each number. `NumberStatuses` are the names a
number's status may have, any strings, and `Patches` the messages of the topic. `ImplementsOrdersDB` maps it to
`OrdersDB`: a service step either leaves `orders` and `orders_log` alone or is one of
`SrcNext`, with lateness unbounded. The mapping gives `orders_log` the columns of the
service's migration, which are not all that the datamart's history query names: of this
source `NothingWithoutHistory` is what the datamart's model says.

`Startup` is `runApplication` up to the start of the consumers and the server:
settings from Consul, checked and completed by defaults, `pingWithRetry` in units of
its first pause of 100 ms, the other clients.

`PortInPatch` is `handlePortInPatchEvent` and `UpdatePortInOrder`. A consumer is in one
of the steps `get, commit, status, duedate, reject, return`: between them other
consumers, requests and faults come in. `get` takes the row lock, compares the date
and makes the new row (`Form`: of several entries for one number the last stays, and
`Aggregated` says whether the numbers have earned a state of the order); `commit`
writes it; `status` and `duedate` publish; `reject` sends to the rejected topic;
`return` acknowledges. `Panic` is the nil status that `portin_update_order.go:292`
dereferences. `ReceiveAgain` is a message whose partition
moved while it was handled.

`OrderCreate` is the handler of POST from `ToModel` to the answer, in the steps
`new, check, insert, publish`, with every answer of the code; `seen` records which
orders were there when the request looked. The two reads of GET are operators in it.

`PortInRequests` puts them together: `Boot`, then consumers and handlers next to each
other, sharing tables, locks, events and one budget of faults.

`MCPortInJob`, `MCCdbMessageJob`, `MCSessionLock` and `MCPortInRequests` give the
constants values.

The proofs are beside the modules they speak of:

| Module | Proves about |
|---|---|
| `PortInJobProofs` | types, watermark and order of versions in `PortInJob` |
| `PortInJobDataProofs` | rows, intervals and numbers in `PortInJob` |
| `CdbMessageJobProofs` | watermark and row locks in `CdbMessageJob` |
| `SessionLockProofs` | `SessionLock` and its refinement of `JobMutex` |
| `StartupProofs` | settings and pings in `PortInRequests` |
| `PortInRequestsProofs` | types of `PortInRequests`, and its orders (`OrderCreate`) |
| `PortInPatchProofs` | its patches (`PortInPatch`), and the refinement of `OrdersDB` |

Operators whose comment starts with
*Mutant* are plausible mistakes in the code; each property is known to fail when
one of them replaces the operator `PROJECT.json` pairs it with.

## The runs

| Run | Shows |
|---|---|
| `portin_exclusive` | One run at a time, two callers, LIMIT 1, late events, and dates that run past the lookback, so the depth excludes some: no change of an order falls behind the watermark; history intervals stay exact although orders and history are read at different moments; no request goes back. |
| `portin_overlap` | Two runs at once, with row locks and deadlocks: rows, intervals and numbers stay right. (Order among versions does not, see below.) |
| `portin_partial` | Two persons' orders, one of them cancelled, a filtered one, a broken one, on both sets of columns of `orders_log`: a run that fails half-way or is broken off, also between a request and its numbers, leaves no request without its numbers and no number without its request; status 11 is that of the cancelled order alone; without the columns of the history every run fails after its orders and none leaves anything behind. |
| `portin_catches_up` | Orders change again after the depth has moved, also with late events, and a run is broken off: when from some moment every row can be read, the mart shows the current version of every order for good. |
| `cdb_overlap` | Two overlapping runs, one of them broken off: no message falls behind the watermark, no two runs wait for each other, every message arrives as long as none is recorded that cannot be scanned. |
| `lock_replicas` | A replica with a ticker, the HTTP handler of the same job and the health check on one pool that keeps two connections, so the third to come back is closed, next to the ticker of another replica; a connection breaks or a replica restarts. The session holds the lock twice, unlocks miss it, and still runs of two replicas meet only when a lock was dropped, refusals have a cause, and the lock implements `JobMutex`; the job goes on being run, unless an unlock has missed a session that lives on with the lock. |
| `requests` | Start-up, two requests with a number in common, three patches of the first order in any order of arrival (one with two numbers that ask for different aggregations), one of them by its process id, two consumers, one fault anywhere: the ten invariants of the service and `ImplementsOrdersDB`. |
| `requests_liveness` | Every patch is acknowledged although one thing fails, unless it meets an order without number statuses for ever; a patch with an unknown state, one whose process id does not parse and is only looked at when the numbers did not panic, bodies that are refused, the check for open orders disabled, settings of the operator's own, no retries. |
| `portin_history` | **Violation.** A version that started before the watermark and ended after it is not loaded into `mnp_request_h`: it enters `orders_log` when it ends and is selected by when it started (`job.go:179`). |
| `portin_never_updated` | **Violation.** An order that was not patched yet has `changing_date` NULL: the first load fails scanning it (`job.go:111`), later ones do not select it (`job.go:100`). |
| `lock_overlap` | **Violation.** The ticker and the HTTP handler of one process run the job at once: the second is lent the session that holds the lock and is granted it again. |
| `lock_stuck` | **Violation.** Both tickers and the health check of a process, no failure: the unlock goes to another session, the lock stays in the pool, and every later run is refused as "job already running". |

Bounds, all named in the modules and set in the cfg files. Two orders are enough
for the watermark (one moves it, the other falls behind), two runs for an overlap
or a deadlock, batch 1 for a cut result. `portin_exclusive` has five dates and
`portin_catches_up` four, with a lookback of 2 and lateness 1: the depth reaches 3
and 2, so earlier dates are out of reach, an order is patched again after that, and
late events lie inside the lookback and at its edge (with a lookback of 1 both runs
fail). The other runs of the job have three dates, or two where the dates do not
matter. Liveness uses a batch that holds all orders: with a smaller one the same batch
is read again for ever as soon as `BATCH_SIZE` rows lie within the lookback, a limit
of the query that operators have to respect. Failures are bounded by `MaxFailures`.
The cdb run has dates 1..2, skew 1 and lookback 3, so the depth does exclude a message
of date 1 once a request time of 3 is in the mart. A replica of the lock has as many
session names as users (`MaxSessions`), so none of them waits for one; `MaxIdle` is 2
as in the code. Hold counts stop at `MaxHeld`, which exceeds the number of callers.
`lock_replicas` has one job; sessions that hold the locks of two are in `lock_stuck` and
in the theorems, which hold of any jobs and users. `portin_exclusive` and
`portin_overlap` use symmetry of the runs, runs with liveness use none. The runs of the
job have an `orders_log` with the columns it reads (`ReadableHistory`), since otherwise
they would show nothing; `portin_partial` has also one without them (`AnySchema`).

The bounds of `requests`. Two consumers are what a race for one row, or a
redelivery, needs. The three patches are one with state, due date and process id,
one for both numbers, whose entries ask for different aggregations, of which the first
counts, and one that is found by the process id the first brings, completes one number
and repeats the due date: it changes nothing after the other two and finds no order
before the first. The first is refused when it comes after the second. The settings
are none, ones with an unknown allowed state, and an aggregate wrong in each way the
validation knows. Two requests are
what the race for a number needs; their bodies include two that the database
refuses (no `temp_msisdn`, a number given twice) and one whose numbers have no
status. The sequence starts at 1 or 2, and with two ids it may run past the
partitions of the table. One fault (`MaxFailures`) may be a
crash, a failing statement, a COMMIT whose answer is lost, a failing publish or a
redelivery. Retries 3 and outages up to 8 lie on both sides of what is survived.
The consumers are symmetric; `requests_liveness` uses no symmetry.

Fairness. `WF(Start(r))` for the tickers: they fire again and again
(`main.go:111-128`). `WF(Proceed(r))` for every run: the server answers statements and
the loop goes on, or the deadlock detector ends a run. For the lock, `WF(AskLock(r))`
for the tickers and `WF(GoOn(r))` for every run that has asked, and nothing for the
health checks or the failures. No fairness is assumed of the
source, of losses or of HTTP requests; `CatchesUp` has "once every row can be
read" as its condition, `EveryMessageArrives` that no unreadable message comes. In
portin-requests `WF(HandleStep(c))`: a consumer goes on with its message, since
statements are answered and a lock ends with its transaction; `WF(ReceiveStep(m))`:
Kafka delivers a message that was not acknowledged, to some consumer. The consumer
library is not in the repository; that a message whose handler returned an error or
panicked comes again is the assumption behind it. Nothing is assumed of requests,
of start-up (`PatchesHandled` speaks of a service that came up) or of faults.

### What was explored besides

With `Overlap` TRUE a stale reading can be committed last: `from_date` goes back
and, with lookback 1 and four dates, `NoChangeSkipped` fails for good. This is why
`portin_exclusive` and the theorems of its properties assume that runs are kept apart, which the lock does not guarantee, and why the lock findings matter. Cancellations are windowed by the same depth, so a
cancellation older than the lookback is forgotten when its order changes again;
`RowsComeFromSource` allows for it. `README.md:157` calls the history an
idempotent insert, the code updates on conflict (`store.go:119-132`): since the
intervals are exact, a second load writes the same interval.

The schema of the source in this repository is that of the *old* service, whose
`orders_log` has no `creation_date`, `due_date`, `cdb_process_id` and `order_type`
(`20250422124556_create_mnpportin.sql:79-85`; no later migration adds them). On it
`portin-dag` never loads anything: every run fails at its history and is rolled back,
which `portin_partial` and the theorem `NothingKept` state of any set without one of the
eight columns; `CatchesUp` fails there within one order and one run. The other theorems
about the job hold for any `Schemas`.

No failure and no second caller is needed for two replicas to run one job at once. Give
`SessionLock` both tickers of replica A, its health check and the portin ticker of B,
and let no connection break: the connection that took A's lock comes back to the pool
as the third and is closed (`TakeBack`: no `SetMaxIdleConns`, so two stay), the lock goes
with it, and B is granted it while A's run goes on. `ExclusiveRuns` fails so, besides
the shorter way of `lock_overlap`; `dropped` is what `ReplicasExclude` and `JobMutex`
allow for it. On the same users the safety properties of
`lock_replicas` hold (778,633 states).

In portin-requests, seen while modelling and kept in the model as the code does it:

* A patch of an order that has a number without a status (the status is optional
  in the request) panics as soon as one of its numbers asks for an aggregation
  (`portin_update_order.go:292`), each time it is delivered. `PatchesHandled` has the
  exception for it; without it the run fails.
* Two requests for one number may both pass the look for open orders
  (`portin_create_order.go:29-34`); nothing in the database prevents it.
  `DuplicatesAreRaces` says that this is the only way, but for reopened orders.
* A patch whose event cannot be published is rejected although it was applied; when
  it is delivered again after a crash it is refused as not newer, so the rejected
  topic may name patches that are in the database (`portin_update_order.go:49, 81`).
  The same holds of 500 on creation: the order is stored (`portin_create_order.go:40`).
* A patch that changes nothing does not record its date, so an older one is still
  applied after it. With two faults this leaves a change without its event: one
  delivery of a patch finds nothing to change; an older patch then changes the order;
  a second delivery of the first patch changes it back, commits and dies before it
  publishes; and the first delivery acknowledges. `UnannouncedIsRejected` without
  `noops` fails so with `MaxFailures = 2`. The run has one fault and did not show
  it: the attempt to prove the property did. A patch found by its process id may in
  the same way change two orders and announce one, which its last disjunct allows.
* A crash after the COMMIT, a COMMIT without an answer and a failing publish each leave
  a change for ever without its events. No document promises that there are none;
  `UnannouncedIsRejected` says what remains: the rejected topic names the patch.
* `Search` leaves `cdb_process_id` out of its columns (`portin_order_repository.go:357`).
* `telcoAccount.id` without `msisdn` passes validation
  (`validators/create_portin_order.go:52`) and fails on the NOT NULL column with 500.
* `idDocuments` of a company or a government may be absent and is dereferenced
  (`dto_converter.go:71`): the recovery middleware answers 500.
* The code of a missing document is that of a forbidden one (`error.go:54-55`).
* With no retries `pingWithRetry` reports success without a ping, and it pauses
  once more after its last failed one (`dependencies.go:141`).

## The proofs

All theorems hold for every value of the constants that satisfies the named
assumptions of the modules (`JobAssumption`, `StoreAssumption` and so on; a run
evaluates each), and for any number of runs, replicas, consumers, patches,
requests and faults. Some have one more hypothesis, named in their module:

| Hypothesis | Says | Why it is needed |
|---|---|---|
| `Strict` | runs are kept apart, `MaxLate < Lookback` | a stale reading that is committed last moves `from_date` back; an event as late as the lookback is below the depth |
| `Timely` | `MaxLate + MaxSkew + 1 < Lookback` | the same for messages: the depth is made of `request_data` and compared with `message_date` |

Neither is guaranteed by the code; they are what an operator has to see to.
`portin_exclusive` and `cdb_overlap` are instances that satisfy them. The theorems
about the lock have none: they hold of any number of users of a pool.

| Theorem | Property | Hypothesis |
|---|---|---|
| `PortInJobProofs!TypeCorrect` | `TypeOK` | |
| `NothingSkipped` | `NoChangeSkipped` | `Strict` |
| `NeverRegresses` | `MartNeverRegresses` | `Strict` |
| `NumbersArrive` | `NumbersArriveWithRequest` | |
| `RowsAreVersions` | `RowsComeFromSource` | |
| `IntervalsExact` | `HistoryIntervalsExact` | |
| `NothingKept` | `NothingWithoutHistory` | |
| `NothingMissed` | `NoMessageSkipped` | `Timely` |
| `NoCircularWait` | `NoWaitCycle` | |
| `SessionLockProofs!TypeCorrect` | `TypeOK` | |
| `RunsExclude` | `ReplicasExclude` | |
| `LockIsMutex` | `MutexSpec` | |
| `RefusalsHaveCause` | `RefusedForCause` | |
| `ConfigUsable` | `ConfigIsUsable` | |
| `OutagesSurvived` | `OutageSurvived` | |
| `TypesCorrect` | `TypeOK` of `PortInRequests` | |
| `OrdersStoredWhole` | `OrdersAreWhole` | |
| `ConfirmationsHold` | `ConfirmedIsAnnounced` | |
| `OnlyRacesDuplicate` | `DuplicatesAreRaces` | |
| `PatchesKept` | `NoPatchLost` | |
| `UnannouncedRejected` | `UnannouncedIsRejected` | |
| `EventsHold` | `EventsTellCommitted` | |
| `StatesEarned` | `StatesAreEarned` | |
| `SourceImplemented` | `ImplementsOrdersDB` | |

### The watermark

`NoChangeSkipped` is not inductive: it speaks of the mart, and a run in progress
carries dates that are not there yet. `IInv` adds what such a run knows:

* every date in the mart, staged or in a result lies between what the mart shows
  and what the source has (`MartInv`, `StagedInv`, `RowsInv`);
* a result has one row of an order, not staged yet (`OnceInv`); rows and staged
  rows exist only in the steps that use them (`Tidy`); one run at a time (`Alone`);
* the depth of a run is still the one the mart gives (`DepthInv`);
* `CoverInv`: for the current version of each order, the mart has it and the run
  does not touch it, or it is staged, or in the result, or it is above
  everything the run has read or staged, so that committing cannot bury it.

`LateIsAbove` gives the last case for changes made while the run goes on (late by
less than the lookback), `QueryCovers` and `BatchFirst` for rows that LIMIT leaves
out: what is left out does not precede what is taken. There is one lemma per
action, joined in `StepInv`.

The message job has the same argument with overlapping runs: messages never
change, and the depth of a run was made of a row that the mart still has (`DepthInv`), so
one that another run has overtaken is only too low and `Alone` is not needed.
`NoCircularWait` rests on `OrderInv`: the query sorts its result, so what a run has
staged precedes what it is about to write (`InOrder`).

### Rows, intervals, numbers

These hold with overlapping runs, where the watermark does not. `SourcedInv` says of
every place a row may be in (result, staged, mart) that it is a version of its order
that stays one: replaced versions stay in the log, and the current one enters it
unchanged. `HistoryInv` says of every interval that its end is the start of the next
version: it is made from a version in the log, whose successor is known by then and
never gets a version in between. `NumbersInv` ties the numbers a run has staged to the
requests it has staged: the numbers of the last request are staged or still `pending`.
`NoHistoryInv`: without a column of the history no run ever gets to the step that
commits.

### The lock

`PoolInv`: the sessions of a replica are distinct, each is idle or lent to one user.
`HeldInv` is an account of the grants. At most one session holds the lock of a job
(`SoleHolder`). A replica whose lock was not dropped has a session that holds it at
least as often as runs are in progress (`Guarded`), and a session holds it no more often
than that unless an unlock has missed it (`Accounted`). Neither half is inductive
without the other: a grant counts one more on both sides, an unlock that reaches the
session one less, one that misses it is leaked. `Accounts` proves this once, of what a
statement does to one session (`Changes`), and `ReturnChanges` reduces the steps to it;
the sizes of the sets of runs come from `Joins`, `Leaves` and `Same`.
`RunsExclude` follows since two replicas that both guard their lock would be two
holders, `RefusalsHaveCause` since a session that holds the lock without cause would be
in nobody's account. `LockIsMutex` maps each step to one of `JobMutex` or to a stutter;
`DropAllowed` says that the locks dropped with it are those the mutex allows.

### Start-up

`PingInv` says that after `n` failed pings `PowerOf2[n] - 1` units have passed. What
`PowerOf2` is for every `n` needs induction over the naturals; the induction theorems
of the library take an operator, which the provers cannot instantiate, so
`SmallestOf` and `InductionOn` state induction on *sets* of naturals, from the
well-foundedness of `<`. `LargestOf`, from the same facts, gives the patches their last
entry for a number, and the tables their newest date.

### Orders

`TypeInv` joins the types with what start-up and the steps of a consumer add
(`StartInv`, `BusyInv`). `StoreInv` ties the tables together: every number row has its
order, every id in the tables was given by the sequence, and (`CommitInv`) from the
SELECT FOR UPDATE to the COMMIT the row of a consumer is the one it locked and its new
row is the successor of that one by its patch. That is where the row lock does its
work, and what the mutant `ApplyUnlocked` breaks. `CreationInv` is about handlers: an
order that a request has inserted is its own and has all its numbers (`MineInv`,
`NumbersInv`), one whose request was answered 200 has its event (`AnnouncedInv`), and two
open orders with a number in common are a race or a reopening (`SeenInv`). The lemma
`TableSteps` reduces each of the many steps to three effects: the tables stay, an order
is inserted, or a locked row is replaced; the invariants are proved once per effect.

### Patches

`VersionsInv`: of an order the current version is the newest, dates are unique, and a
version made by a patch has the date of the patch. With it, `ReplacedIsCurrent` and
`ReplacesStays` say that the relation `Replaces` never changes for versions that exist.
`PublishInv`: a consumer in a publishing step has a version of its own in the tables
(`Committed`), its flags say what of it changed, and it has published the events of the
steps behind it. `SettledInv`: a patch that is acknowledged, or about to be, was
rejected, changed nothing, or made a version whose change is announced (`Told`).
`NoPatchLost` and `UnannouncedIsRejected` follow from that, since versions are never removed.

`SourceImplemented` is a refinement with the mapping of `PortInStore`: the datamart's
`newest` is the newest of the dates in the tables (`NewestExists`, `NewestAfter`).
`InsertIsCreate` maps the insert to `CreateOrder` and `ChangeIsPatch` the commit to
`PatchOrder`, for which `CommitInv` says that the date is later and the logged row is
the replaced one. It needs `SourceAssumption`: NULL is not a row of the mapped table.

### Only model-checked

The liveness properties `CatchesUp`, `EveryMessageArrives`, `StopsOnlyWhenLeaked` and
`PatchesHandled`: the prover treats neither fairness nor ENABLED. The four runs that find a violation are of statements that do not hold.

## Not modelled

Of the datamart: copied columns, `req_id` and `order_number` as strings, contract
dates and reject reasons (pure functions of `internal/transform`, whose verdict on a
row is the constant `Kind`); HTTP status codes (a refused run answers 202); shutdown;
time zones; connection strings. `etl_state` is created by the migration and used by
nothing.

Of portin-requests: the copied fields of customer, operator and contract, the
filter of temporary numbers, the prefix of identifiers in events; the OpenAPI
validation in front of the handlers (the bodies of the model have passed it) and
the generated code (`server_gen.go`); parameters and status codes of the GET
operations; the client libraries of Kafka, SFTP and Consul; migrations and shutdown.
The order of events in their topic is left open: each has a random key.

## Plan

1. *Done*: `OrdersDB`, `PortInJob`, `SessionLock` with `JobMutex`,
   `CdbMessageJob`; types, nothing skipped and no regress proved.
2. *Done*: `PortInPatch`, `OrderCreate`, `Startup` over `PortInStore`, composed in
   `PortInRequests`; the refinement of `OrdersDB`; liveness of patches.
3. *Done*: every safety and action property of a passing run, and both refinements,
   proved for all constants (*The proofs*).
4. `Transform`: reject reason, contract date, `req_id` prefix as operators, checked
   against reference definitions.
5. Composition of `SessionLock` with `PortInJob` in place of the constant `Overlap`:
   nothing is skipped and nothing goes back while no lock is dropped and no job has a
   second caller in its replica.
