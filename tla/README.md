# Verification of the workbench services

TLA+ models of the parts of this repository that store, interact and fail: the workspace row that
the Python and the Rust service share, both services' job repositories and worker processes, the
decision sessions, the object store with its publishers and its collector, the delivery to Iceberg,
the registry of native pricing graphs, and the daily replay of the balance-sheet ledger. TLC checks them on small
instances; TLAPS proves the safety of all but the ledger for every instance.

    tlasany NativeRepo.tla                              # parse
    tlc -workers 2 -config MCAttempts.cfg MCNativeRepo  # one run
    tlapm NativeRepo_proofs.tla                         # the proofs of one module

`PROJECT.json` lists components, runs, mutants, findings, hazards and theorems, and says which
lines of the source each definition stands for.

## 1. The system

The repository is a treasury workbench. Nine tenths of its lines are valuation and cash-flow
mathematics (`packages/*`); there is a web client (`apps/web`), an MCP server (`apps/mcp`) and
fixtures. What interacts, stores and fails is the following.

| Component | State | Operations | Hard behaviour | Correct when |
|---|---|---|---|---|
| **Workspace lease and routing** `apps/api/app/repository.py`, `apps/api-rust/src/repo.rs` | one row of `workspaces` (head revision, lease owner, lease end) and of `worker_routes` (engine, epoch) | acquire, renew, release, cutover, compare-and-swap of the head | two services in two languages share one lease; `acquire` does not take the row lock; leases expire under their holder | a live lease belongs to the routed engine; a cutover leaves no work behind |
| **Native job repository** `apps/api-rust/src/repo.rs` | `jobs` rows with `native_*` status, `native_job_authority`, `native_publications` | admit, cancel, claim, progress, fail, publish | any replica and any stale worker calls at any time; requeues; retries of submissions; deadlines | one publication, of the last attempt, under the epoch, lease, token and deadline of its claim; one job per idempotency key; a bounded queue |
| **Native worker** `apps/api-rust/src/worker.rs` | a tenure (lease identity, epoch), `lost` flag, the claim being executed | take a tenure, heartbeat, claim, run, publish or fail, next tenure | crash anywhere; replies lost after commit; heartbeat against main thread; a failure to record a failure | no running job is stranded; every job ends |
| **Python job repository** `repository.py`, `persistence.py` | `jobs`, `revisions`, `sessions`, `libraries` | submit, enqueue, claim, complete, cancel, save_revision, close_session | idempotency look-up outside the transaction; a completion carries a session version or a library | as above; a result, its session and its library appear together, from the head's inputs |
| **Python worker** `worker.py` | in-memory mirror of sessions, `STOP`, `READY`, `BUSY` | lease loop, heartbeat, execute, recover | one refused renewal ends it; memory is ahead of the journal until the commit; requests evaluate meanwhile | only committed sessions are served; no job is stranded |
| **Decision sessions** `decision_store.py` | `DECISIONS` in memory, journal in `sessions` | build, update, evaluate, close, recover | inputs change during a build or update; close against update | a journal can be replayed; nothing is published after a close |
| **Documents, objects, publication** `repo.rs`, `objects.rs`, `publish.rs`, `artifacts.py` | immutable content-addressed objects; rows that name them | put, get, commit_document, write, reread | objects shared between jobs and services; damaged objects; a crash between put and commit; concurrent edits | no row names a missing object; no edit is lost |
| **Object collection** `maintenance.py` | none of its own | roots, reachable, delete | both services' rows; old garbage that is used again | no reachable object is removed; fails only on damage |
| **Iceberg delivery** `iceberg.py` | catalog tables with run markers, `catalog_publications` | publish | crash between catalog commit and receipt; several publishers; commits by others | rows appended once; receipts true; retries agree |
| **Native graph runtime** `portfolio-risk-native/src/graph`, `runtime/control.rs`, `portfolio_risk/core/graph_control_native.py` | registry of owners, tokens, a cache per owner | create, price, clear, drop under a token | cancellation, timeout and close between any two steps; a monitor that signals late; eviction with shared keys | no leak, no misdirected signal, an accurate budget |
| **Daily ledger replay** `portfolio-ledger-native/src/replay/daily/mod.rs` | accounts, positions, general ledger, claims, recoveries, transfers, pending policies | open, a day of each position, cash flows, margins, carrying costs, policies, tax, close | one piece of collateral under opening links and claims of policies, released from four sides; policies that act on what earlier ones of the day left; an accounting class that changes in the middle of a day | the books agree at every close; nothing is pledged twice, and a pledge ends with the debt it secures (but for finding 3); the order of the input does not matter |
| **In-memory queue** `job_queue.py`, `store.py` | heap and `JOBS` | submit, run, cancel, prune | threads | development only |
| **HTTP, migration, contract generation, allocation** | none / DDL | translation, pure functions | - | - |
| **Numerical engines, web client, MCP, scripts** | none shared | pure computation, user interface | - | - |

Interactions: API replicas of both services call the repositories; the repositories interact
only through the database rows; a worker calls its repository from two or three threads and runs
native code; objects are written before, and on the Rust side reread before, the transaction that
names them; the cutover command changes the route that other transactions read; the collector reads
the rows of both services; the publisher to the catalog reads finished Python jobs.

## 2. The modules

| Module | Models | Extends |
|---|---|---|
| `Workspace` | the shared row: lease, route, epoch, head | |
| `NativeRepo` | every state-changing transaction of `repo.rs`, with the freest possible callers | `Workspace` |
| `LegacyRepo` | the same for `repository.py`, and the submission of `persistence.py` | `Workspace` |
| `JobLifecycle` | what a client is promised about a job; abstract; implemented by both repositories | |
| `Deployment` | both repositories on one workspace | `NativeRepo`, instance of `LegacyRepo` |
| `NativeWorker` | the threads of `worker.rs` on top of `NativeRepo`, and their faults | `NativeRepo` |
| `LegacyWorker` | the threads of `worker.py` and the sessions of `decision_store.py` on top of `LegacyRepo` | `LegacyRepo` |
| `Storage` | objects, the rows that name them, writers of both services, the collector | |
| `Delivery` | publishers to an Iceberg catalog | `Storage` |
| `GraphCache` | the cache of a pricing graph, as functions on a record | |
| `GraphRuntime` | registry, tokens and controlled calls | `GraphCache` |
| `DailyReplay` | the daily replay of the ledger, one scenario of one specification | |
| `MCNativeRepo`, `MCNativeWorker`, `MCDeployment`, `MCLegacyWorker`, `MCDelivery`, `MCGraphRuntime`, `MCDailyReplay` | instances and symmetry for TLC | |
| `NativeRepo_proofs`, `LegacyRepo_proofs`, `Deployment_proofs`, `NativeWorker_proofs`, `LegacyWorker_proofs`, `Delivery_proofs`, `GraphCache_proofs`, `GraphRuntime_proofs` | theorems and their proofs | the module they are about, and the proofs they build on |

**Time.** The code compares stored instants with `now()`. The models keep each instant as the
number of time units left until it: `leaseLeft > 0` is `lease_until > now()`, `leaseLeft < 0` is
`lease_until < now()`, and 0 is the instant itself, at which the code lets nobody but the old
owner take the lease. `Elapse` moves one unit; it is always possible, so that time passes between
any two steps of any process. Each transaction reads the clock once, when it commits.

**Atomicity.** A transaction that takes the workspace row lock first (`lock`, `_lock`) is one
action; so is every transaction on SQLite, whose writers are serialised (`BEGIN IMMEDIATE` in Rust;
in Python a write from an outdated WAL snapshot fails). `acquire` of both services reads the route
and then updates the row without the lock. With `Serializable = FALSE` (PostgreSQL, READ COMMITTED)
it is two actions, `AcquireRead` and `Acquire`, and anything may commit in between; `reading[o]`
is the epoch an open transaction has read. `renew` of the Rust service also reads the route before
it updates the row, but a cutover away from Rust that commits in between needs the lease to be over,
and then the update finds no live lease to extend; so it is one action.

**`Workspace` to code.** `TakeLease`, `ExtendLease`, `ReleaseLease` are `acquire`, `renew`,
`release` of `repository.py`; `NativeRepo` adds what the Rust versions do on top (the epoch an
acquire returns, the epoch check of a renewal). `SetRoute` is the route change of `cutover`.
`AdvanceRevision` is the compare-and-swap of `save_revision` and `commit_document`.

**`NativeRepo` to code.** One action per transaction: `AdmitAgain` and `AdmitNew` (the two
successful ends of `admit`), `Cancel`, `CommitDocument`, `Cutover`, `Acquire`, `Renew`, `Release`,
`ClaimJob` and `ClaimNothing` (`claim` with and without a job to return; both requeue and both fail
the jobs the walk passes), `Fail`, `Publish`. A refusal is rolled back and is no step. `progress`
writes a column nothing reads back. The callers keep whatever they were ever given: `granted` is the
epoch of each tenure's last lease, `claims` the attempts handed out and not forgotten, `receipts`
the answers to submissions with a key. So a claim can be used late, twice, or after its job ended.
`EditAuthority` edits or deletes an admission row from outside, as `tests/fencing.rs` does; an edit
leaves the deadline as it is, since no job of an edited row is ever run. The
primary key of `native_publications` and the unique index on idempotency keys are left out: what is
checked and proved is that the transactions' own guards suffice.

**`LegacyRepo` to code.** `submit` is several actions: `SubmitAgain` (the look-up finds an exact
retry), `SubmitCheck` (it finds nothing, and the request object is written) and then `Enqueue`,
`EnqueueSame` or `SubmitRefused` in a later transaction; without a key there is no look-up and
`EnqueueKeyless` is all. `stamp` stands for what admission derives anew, a deadline for instance, so
that two equal requests need not be the same object. `ClaimJob` and `ClaimExhausted` are `claim`,
which requeues other owners' jobs, picks one and either starts it or fails it and returns nothing.
`Complete` writes result, session version and library in one transaction; `CompleteError` is its use
for a failure. `Attachments` is what a completion may come with. A cancelled job ends as an error.

**`Deployment` to code.** The two repositories share only `Workspace`'s variables. A cutover to Rust
counts the Python jobs in its own transaction (`LegacyDrained`), everything else of either service
ignores the other's rows.

**`JobLifecycle`.** A job is admitted once with a fixed request; is started at most `MaxAttempts`
times, never after its deadline; ends once, with the result of its last start if the deadline has
not passed, or with an error or a cancellation. `ImplementsLifecycle` and
`LegacyImplementsLifecycle` are the refinements: the request is key, input and revision; the outcome
is the status; the answer is the attempt in `native_publications`, or the attempt of a `done` row; a
Rust deadline is expired when no time is left to it, and Python jobs have none in the repository.

**`NativeWorker` to code.** `pc` is the place of the main thread in `run` and `attempt`: `acquire`,
`claim`, `prepare` (checks before the run), `native` (run, verification, writing, rereading),
`publish`, `fail` (recording a refusal), `drop`, `join` (after a loss), `drained`. The heartbeat
thread is `Beat` or `BeatRefused`. A member of `Faults` names a transaction whose reply may be lost,
after or before it committed. `Crash` ends a process anywhere. `Fresh` is the new UUID of
`tenure_owner`. `stop` is never set by `main.rs` and is left out. A worker process that ends with
`--exit-when-idle` may give up at any round of the acquire loop; the code does at the twenty-first.

**`LegacyWorker` to code.** `phase` is the place of `loop`, `recover` and `execute`. A session is
what its journal says, so `journals[s]` (in the row) and `memory[o][s].journal` (in the process) are
sequences of the jobs whose updates were applied. `RecoverRead` reads all saved sessions at once,
`RecoverSession` and `RecoverFailed` rebuild one. An update takes three steps before the commit:
`UpdateStart` (entry and version checks), `UpdateAdopt` (memory takes the candidate on) and
`ReadJournal`. `Restore` is the `finally` of `execute` that closes and rebuilds what an aborted job may
have changed. `EvalStart` and `EvalEnd` are a request that holds `BUSY`. `BeatRefused` sets `STOP` for
good. An exception that leaves `execute` or a failed recovery ends the loop, while the process stays up.
`db.refresh` needs no variable: every use of the loaded inputs is preceded by it and compared with the head.

**`Storage` to code.** An object is named by its content, so an object is its content, and `Refs`
is a function of it. `objects[o]` is whether its bytes are intact. `Put` reuses a present object
(Rust only if it hashes to its name, Python always) or replaces it by a renamed temporary file.
A writer's task is what it is about to put; `ReadBase`, `WriteManifest`, `Reread` and the three
commits follow `commit_document`, `write` and `reread` of `publish.rs`, the durable submission and `complete`.
The collector plans (`Plan`: guard, roots, closure, candidates by age), deletes one by one and may stop anywhere.
`AllDescriptors` says what `reachable` needs of the rows; see finding 2.

**`Delivery` to code.** Per table: `Load` (marker found or rows appended), `CommitTable` (rows and
marker in one optimistic commit), `CommitRefused` (three attempts). `WriteReceipt` and `Record` end a
delivery. `OtherCommit` is anybody else's commit. `EndDelivery` is a crash or refusal anywhere.

**`GraphCache` and `GraphRuntime` to code.** The cache operations are functions: `Get`, `Put`, `Batch`
with `Touch` (recency), `Retain` and `Release` (shared keys, counted once), `MakeRoom` (eviction). `identities` is a
count for every key, 0 for those the map of the code does not hold, so that the recursion through the parents is a function.
A call goes through `Begin` (token), `Claim`, then `Precheck` and `Register`, or `Admit`, `Lookup`,
`Enter`, `PriceBatch` (one of `Batches` each) and `Leave`, and back through `Finish` (Rust), `Receive` and `Decode` (Python).
`LoseLease` and `Expire` may happen before any of them; `Notice` and `Signal` are the monitor thread.
`Owners` keeps an owner alive while the registry or a call refers to it, as `Arc` does.

**`DailyReplay` to code.** `sim` is `struct Sim`, and an operator from `sim` to `sim` is one of its methods,
or a section of `position_day`, `policies` or `run_days`. The actions are the stages of `run_days` in their
order: `OpenBooks` (`opening`), `Openings` (recoveries and claims that fall due), `HandlePosition`
(`position_day`, one position at a time), `PayFlows`, `CarryAccounts` (margins and carrying costs),
`SchedulePolicies` and `ExecutePolicy` (`policies`), `CloseDay` (tax and `observe`). An `Err` of a method is
`sim.error`, and the stage is then `failed`. `sim.gl` is the general ledger as `raw_post` moves it, `Subledger`
is what `observe` expects of it; both are functions from keys to amounts, without the zeros. An encumbered fraction is
kept as the face it stands for (`pledged`), which is exact where the fraction is only changed together with
the balance, as it is for securities. Money is whole: the specifications are such that the divisions that
matter leave no remainder, policies trade in `Lot`s, and prices count in quarters of face (`Par`). What the code
computes from rates, powers and stress factors (a day's interest, defaults, runoff, draws, a stressed price) is an amount given by
the specification: the properties are about where an amount goes, not how large it is.

## 3. What the runs show

| Run | Instance | Checked |
|---|---|---|
| `attempts` | PostgreSQL, 2 jobs, 2 tenures, 2 tokens, 1 key and none, 2 revisions, a queue of 1, 2 attempts, deadline 1, lease 1, 3 route changes | type; `PublishedIffDone`, `OneCurrentAttempt`, `NativeWorkNeedsRoute`, `FencedPublication`, `OneJobPerKey`, `QueueBounded` |
| `worker` | PostgreSQL, 2 Rust processes (one `--exit-when-idle`), 3 tenures, replies of claim, publish and fail lost | `NoStrandedJob`, `UsesRepository`, `ImplementsLifecycle` |
| `liveness` | SQLite, 1 Rust process, 1 Python worker, all faults, admission rows edited and deleted | `EveryJobEnds`, `OnlyAdmittedAuthority` |
| `deployment` | SQLite, 2 Python workers, 2 Python jobs, 2 submissions at a time, 2 stamps, 1 Rust tenure, 1 Rust job, 2 route changes | `LegacyJobsWait`, `LeaseFollowsRoute`, `LegacyOneJobPerKey`, `LegacyResultsNeedRoute`, `LegacyImplementsLifecycle` |
| `legacy_worker` | PostgreSQL, 2 Python processes, 2 jobs, 1 session, 2 revisions, all faults | type; `LegacyOneCurrentAttempt`, `PublishedTogether`, `ServesWhatIsCommitted`, `JournalsReplay`, `NoStrandedLegacyJob`, `SessionsAdvance` |
| `legacy_liveness` | SQLite, 2 Python processes that replace each other, endless interactive and background jobs, 3 tokens, lease 2, the reply to a recorded failure lost | `EveryLegacyJobEnds` |
| `storage` | 1 writer, 1 document, 2 revisions, a Rust and a Python job that share a part, 2 publishers, 1 table, 1 damaged object | `NothingDangles`, `EachRevisionAddsOne`, `PublishesWhatItReread`, `DeliveredOnce`, `ReceiptsAreTrue`, `RetriesAgree` |
| `graph` | 2 threads, 2 kinds of owner, 1 handle, 2 tokens at a time and 3 in all, 5 keys with shared parents, a cache of 2 values and 6 bytes, last recency number 5 | `NothingLeaks`, `SignalsMeantForIt`, `WorksOnItsOwner`, `CachesSound`, `ResultsOutlast` |
| `daily` | 6 days, a bank and an affiliate, 2 securities, a loan, a deposit and a repo; 912 specifications: 3 classes, maturities, schedules, pledges, repos and both orders of the input; policies that borrow, sell, transfer and cut dividends, with outages and 3 materialities | `BooksAgree`, `PledgesBacked`, `TaintFollowsSales`, `PositionOrderIrrelevant` |
| `legacy_lease` | PostgreSQL, 1 job, 2 tenures, 1 Python worker, 3 tokens, deadlines 2 and 5, lease 2, 3 route changes | `LegacyLeaseNeedsRoute` is violated (finding 1) |
| `collection_fails` | as `storage`, without a catalog | `FailsOnlyOnDamage` is violated (finding 2) |
| `repaid_on_schedule` | a repo that matures, with and without a cash-flow schedule of its own | `FundingReleases` is violated (finding 3) |

`UsesRepository` says that every step of the Rust worker processes is a step of `NativeRepo`'s free
callers (or changes nothing there). Hence whatever is checked or proved of `NativeRepo` holds with
real workers; `WorkersUseTheRepository` proves it for any number of processes. Each property of a passing run has a mutant of the code that TLC finds to violate it
(`PROJECT.json`, "mutants"): a token not compared, a deadline not checked again, an identity kept
after a loss, a session left as an aborted job made it, a marker not looked at, and so on.

**Bounds.** `LeaseSeconds` 1 separates a live lease from the instant at which it is neither live nor free and
from one that is over. A lost attempt and its successor need two tenures and two tokens. A tenure
gives way by release, by expiry or to a cutover. Three route changes lead to Rust, back, and to
Rust again, so that a tenure of the first epoch meets the third. A second job meets a queue of one that the
first fills, and two revisions let a client use a key for something else. In `attempts` the deadline of 1 passes before an expired lease can be taken, so an attempt run again in time follows
a release; one that follows an expired lease is in `worker` and `liveness` (deadline 3, lease 2). Larger instances of
`NativeRepo` take too long for a run, and are what its theorems are for. Two attempts (`MaxAttempts`) suffice wherever the count itself is not the question. Two stamps and
two submissions under way are what the race of `submit` needs. Two jobs build and update a session, and
one revision more than the first lets inputs change under it. In `graph` one handle fills the registry,
three tokens let one be released, another be issued and a third signal come late, and the cache must evict at
the third value and wrap its recency number within a request or two. In `storage` one writer is
enough for the collector, the reread and shared objects, and it may abandon a document commit or a result
and take it up again at another revision; two writers between put and commit at once are left to the theorem
`StorageCorrect`. `MaxRevision`, `MaxEpoch`, `MaxVersion` (of a catalog table), `Versions` (of a session), `MaxDamage` and `LastToken` bound the steps that count them, in their guards. Tokens and job
identifiers run out where the code draws fresh UUIDs; a behaviour that needs more of them is not explored. `legacy_liveness`
is the exception, because submissions must not end there: `Recycle` gives the identifier of an ended job out again once no row and no process
names it, and its action constraints keep to steps that give identifiers and tokens out in order (`InOrder`). Two processes are enough for a takeover after every
kind of end; `OneAtATime` starts one when the other is down, and a deposed process that lives on beside its successor is left to
`legacy_worker` and its theorems. The lease is 2 there: a lease of 1 does not survive a tick, and the property would hold of nothing. `graph` is
checked without deadlock: its tokens run out; so is `daily`: a replay ends. In `daily` six days hold an opening, the first day
of stress, a maturity or repayment of each kind, a claim that falls due, and a policy that waits out an outage or an
approval. The product of choices makes a security mature before, with and after the repo it secures, and lets policies
sell into, out of and after a tainted portfolio.

**Fairness.** `FairWorkerSpec`: the clock advances (WF of `Elapse`). A process that is up goes on
executing and a process that is down is started again (WF of `Progress`, the main thread's local
steps; main threads are never blocked for ever, since every database call returns or fails and the
watchdog kills the child). Taking the lease and claiming are strongly fair: `run` retries every 250
and 200 ms, so that an opportunity that keeps coming back is taken at last. This assumes that the
Python worker does not win every single race for the lease, that not every reply to an acquire is lost,
and that a worker does not crash each time before it can claim. Crashes, lost replies and heartbeats are
not fair: they may happen always or never. `EveryJobEnds` excepts a job whose refusal could not be
recorded, the first of the observations below.

`LegacyFairness`: the clock advances, an evaluation ends, and a process takes some step of its loop whenever one is
possible all the time. All of it is weak fairness: `BUSY` is a `threading.Lock`, which promises no order among those who wait
for it. What the code cannot promise is therefore said in the property. `LedInTheEnd` is its hypothesis: from some moment on
one worker goes on and keeps the lease, whatever crashed or was taken over before (nothing starts a Python process, and one refused renewal, one failed
recovery or one database error ends a loop), and from some moment on evaluations leave `BUSY` alone (a stream of
requests may take it before the loop for ever). And a background job may wait as long as interactive jobs keep coming, since `claim` takes those
first by design (`repository.py:265`): it ends, or interactive jobs are waiting again and again (`InteractiveWaits`). Interactive jobs end without exception,
as each kind is served in the order of admission. Without the second hypothesis, or without the exception, TLC finds the run that never ends.

**Findings.**
1. *The Python worker does not always refuse the lease of a workspace routed to Rust.* On PostgreSQL
   `acquire` may take it after a cutover that committed since it read the route; `renew` and `claim` of
   `repository.py` never look at the route again. The Rust worker is then kept out for as long as the
   Python worker renews. `SELECT ... FOR UPDATE` or `_lock` at the start of `acquire` would close it.
   No safety property of native jobs depends on it (run `attempts`, theorem `PublicationIsFenced`).
2. *The collection fails for good once a workspace has admitted a native job.* `reachable` takes the
   request and result of every job row for a descriptor; those of a native job hold theirs one level
   down (`raw`, `manifest`). The first one raises `KeyError`, with every object intact. Nothing is
   lost, but the documented maintenance cannot be done. Passing such rows to `visit` would close it.
3. *Funding that is repaid by its own schedule keeps its collateral.* Only the maturity of opening funding releases its
   pledge (`replay/daily/mod.rs:1604`), and a position with a cash-flow schedule does not mature (`:1509`); `cashflow`
   releases what others have pledged on the position that pays, not what it has pledged itself. The collateral of a debt of zero
   can then be neither sold nor pledged until it is repaid itself, while `docs/balance-sheet-ledger.md:58` says "Funding maturity releases collateral".
   `PledgesBacked` excepts just this funding, and holds of all other: no claim and no repo without a debt holds collateral.

Three observations have no run of their own, since a property of a passing run states them as its exception or they are outside the models.
When `repo.fail` itself fails, `execute` logs it and the tenure continues (`worker.rs:310`), while `claim` requeues only the jobs of other owners: the job
stays `native_running` until the tenure ends, its deadline notwithstanding ("Jobs past their original deadline ... fail here", `repo.rs:681`). It is the one step
`NoStrandedJob` allows to leave a job behind, and `NoStrandedJob` fails without it; treating that error like a lost lease would close it.
`cleanup_created` (`graph_control_native.py:31`) names two of
the three creations that `is_creation` (`incremental.rs:124`) does, so an owner of the third kind leaks
when the lease is lost after the native call returned; `NothingLeaks` excepts it, and fails without the
exception. And a Python build whose output cannot be written leaves a session in memory that no row
knows (`worker.py:162`); it is harmless but for the limit of four.

## 4. What is proved

For any sets of owners, keys, tokens, jobs, sessions, processes, objects and deadlines, any bounds, and both databases
unless said otherwise. The assumptions are the named ASSUMEs of the modules: Rust and Python identities
differ, the NULL values are not identities, bounds are natural numbers, sets of jobs are finite, a job's
first session version is one the instance has, there are finitely many keys, a key is built from keys built before it (`ParentsFirst`), and a batch
is of one stage and too short for all ticks (`Batches`; in the code 256 keys, and ticks of 64 bits). Four theorems assume `Serializable` (SQLite), one assumes that the
write of a refusal does not fail (`"fail" \notin Faults`). Run `legacy_lease` shows what goes wrong without the first, and without the second
a job may be left behind as the observation says.

| Module | Theorem | Property |
|---|---|---|
| `NativeRepo_proofs` | `TypeCorrect` | `[]TypeOK` |
| | `AttemptsAreFenced` | `[]OneCurrentAttempt` |
| | `PublishedExactlyOnce` | `[]PublishedIffDone` |
| | `NativeWorkIsRouted` | `[]NativeWorkNeedsRoute` |
| | `PublicationIsFenced` | `FencedPublication` (action property) |
| | `LeaseIsRouted` | `Serializable => []LeaseFollowsRoute` |
| | `KeysNameOneJob` | `[]OneJobPerKey` |
| | `QueueIsBounded` | `[]QueueBounded` |
| | `RepositoryKeepsPromise` | `ImplementsLifecycle` (refinement) |
| `LegacyRepo_proofs` | `LegacyTypeCorrect` | `[]LegacyTypeOK` |
| | `LegacyAttemptsAreFenced` | `[]LegacyOneCurrentAttempt` |
| | `LegacyResultsStayTogether` | `[]PublishedTogether` |
| | `SessionVersionsAdvance` | `SessionsAdvance` (action property) |
| | `LegacyKeysNameOneJob` | `[]LegacyOneJobPerKey` |
| | `LegacyKeepsPromise` | `LegacyImplementsLifecycle` (refinement) |
| `Deployment_proofs` | `NativeServiceAsAlone` | `DeploymentSpec => Spec` of `NativeRepo` |
| | `LegacyJobsWaitForRoute` | `Serializable => []LegacyJobsWait` |
| | `DeploymentLeaseIsRouted` | `Serializable => []LeaseFollowsRoute` |
| | `LegacyResultsAreRouted` | `Serializable => LegacyResultsNeedRoute` (action property) |
| | `DeploymentPublishesTogether`, `DeploymentKeysNameOneJob`, `DeploymentKeepsLegacyPromise` | what `LegacyRepo_proofs` proves, in the presence of the Rust service |
| `NativeWorker_proofs` | `WorkersUseTheRepository` | `UsesRepository` (refinement of `NativeRepo`) |
| | `ServiceKeepsPromise` | `ImplementsLifecycle`, of the worker processes |
| | `PublishesOnlyTheAdmitted` | `OnlyAdmittedAuthority` (action property) |
| | `RunningJobsAreRun` | `NoStrandedJob` (action property) |
| | `ExpiredJobsFail` | `[]ExpiredJobsFailAtClaim`, if no write of a refusal fails |
| `LegacyWorker_proofs` | `LegacyWorkersTyped` | `[]LegacyWorkerTypeOK` |
| | `PythonWorkersUseTheRepository` | `LegacyWorkerSpec => Spec` of `LegacyRepo` |
| | `PythonWorkersAreFenced` | `LegacyOneCurrentAttempt`, `PublishedTogether` and `SessionsAdvance`, of the worker processes |
| | `CandidatesAreNotServed` | `[]ServesWhatIsCommitted` |
| | `JournalsAreComplete` | `[]JournalsReplay` |
| | `LoopsLeaveNoJob` | `[]NoStrandedLegacyJob` |
| `Delivery_proofs` | `StorageCorrect` | `[](NothingDangles /\ EachRevisionAddsOne)` and types |
| | `StorageRereads` | `PublishesWhatItReread` (action property) |
| | `NothingEverDangles`, `PublicationIsReread` | the same with publishers to a catalog at work |
| | `DeliveryIsIdempotent` | `[]DeliveredOnce` and types |
| | `ReceiptsHold` | `[]ReceiptsAreTrue` |
| | `RetriesAreAccepted` | `[]RetriesAgree` |
| `GraphRuntime_proofs` | `RuntimeLeaksNothing` | `[]NothingLeaks` |
| | `SignalsHitTheirCall` | `[]SignalsMeantForIt` |
| | `CallsWorkOnTheirOwner` | `[]WorksOnItsOwner` |
| | `CachesKeepTheirBooks` | `[]CachesSound` |
| | `ResultsGiveWayToResults` | `ResultsOutlast` (action property) |

TLC checked each inductive invariant on its component's instance, with ranges such as `[Tables -> Nat]` cut to a few
numbers for it to enumerate.

**`NativeRepo_proofs`.** Neither `OneCurrentAttempt` nor `PublishedIffDone` is inductive: nothing in them
says that an older claim cannot share the row's token, nor that a job that is not done has no publication
under its attempt. `AttemptInv` joins them with `TypeOK`, `NativeWorkNeedsRoute` (a job may be admitted or
claimed only while the route says Rust, and a cutover finds no active job) and two facts no run states:
two attempts never share a token (`UniqueTokens`), and every admitted job has had an admission row
(`AdmittedHasAuthority`, which is what lets `ClaimJob` copy a row into a well-typed claim).
The transactions are then taken one by one; `ClaimJob` is the case that matters, since it is the only
one that creates a claim and it voids the token of every older claim on the job.
`KeyInv` strengthens `OneJobPerKey` with "every receipt is of an admitted job" (`ReceiptsOfAdmitted`);
`SameRequests` names what all actions but `AdmitNew` leave alone. `QueueIsBounded` compares the active
jobs before and after: only `AdmitNew` adds one, and it counts first; a requeue moves a job within the
set. `LeaseIsRouted` needs `Serializable`: run `legacy_lease` is the counterexample without it.
The refinement adds to `AttemptInv` what a job's start count and publication say of each other
(`PromiseInv`), and shows that each transaction is one `LifeStep` of every job.

**`LegacyRepo_proofs`.** One lemma carries most of it: `StepRows` says that every step takes every job row
through one `RowStep` (unchanged, inserted, requeued, started, finished), so that each property is
preserved by cases on that and not on the actions. Sessions and libraries change in `Complete` only,
which needs the current token and the head's revision.

**`Deployment_proofs`** instantiates `LegacyRepo_proofs` and so reuses its lemmas. A step of the Rust
service is for the Python repository an edit of the head, a lease step or a route change, all of which its own
specification has. `LegacyJobsWait` is not inductive: it needs that a live Python lease means the legacy
route (`LeaseFollowsRoute`) and that a cutover waits for running jobs. That is why it holds
where `acquire` is one step, and why finding 1 matters.

**`NativeWorker_proofs`.** `WorkerInv` adds to `AttemptInv` where each process is: processes that are up have different
tenures, and each claim is that of a process, which has exactly one while it executes a job; a claim that came to the native run
is of a row as it was admitted. From it every step of a process is a step of `NativeRepo` or
a stutter, main thread, heartbeat and lost replies alike, so that the theorems of `NativeRepo_proofs` hold of the service
by citing them. `NoStrandedJob` needs `StrandInv`: a running job carries the tenure of a Rust process, no process runs a job under a tenure
that is still trying for the lease, and no lease is granted under an epoch yet to come, so that a lost lease is lost for good. A step that loses
the reply of a claim or of a publication must therefore give the tenure up, which `run` and `execute` do; a `fail` that is not recorded is
the one step the property excepts. `ExpiredJobsFail` follows where that never happens.

**`LegacyWorker_proofs`.** The inductive invariant `WorkerInv` has a part for the claims (`ClaimsAreHeld`), one for sessions that have
no row yet and so are in the memory of one process only (`UnsavedIsOwn`), one for every session row (`SessionOK`: the version counts the
journal, whose updates are all those that were reported done, asked for at the version they have there and at the inputs of the
session) and one for every process (`ProcessOK`). The latter says how the memory of a process may differ from the rows: a copy of
a journal is the journal itself while the lease row names the process, and otherwise that or a shorter one (`Recent`); only the session of an
update that was adopted may be one entry ahead (`Ahead`); what is about to be published is what was read of the row, one
longer; and an evaluation is against the journal. A step of one process leaves the parts of the others alone, by one lemma per
kind of step; what `complete` commits is compared with the memory of the process that commits. `ServesWhatIsCommitted`,
`JournalsReplay` and `NoStrandedLegacyJob` are read off it.

**`Delivery_proofs`.** It has the theorems of `Storage` and of `Delivery`. A writer relies on objects that no row names yet. `WriterOK` says
of every task what it has put (`RestsOn`), and of a result that was read back that it is still intact but for damage since;
`CollectsAlone` says that the collector runs only while no task relies on anything. `NothingDangles` follows
because a commit adds to the roots only what its task rests on, and the collector deletes only outside the closure of
the roots. The invariant of `Delivery` adds that a marker never moves once it is set (`NamesCommits`), and that what a publisher loaded
is either the last snapshot without the run in it, or older, in which case its commit is refused (`LoadedIsOldOrUnmarked`).

**`GraphRuntime_proofs`.** `RuntimeInv` joins `NothingLeaks` with what the numbers guarantee: handles and tokens are below the next number,
callers have different tokens, only registered tokens are cancelled, and whoever has a signalled token noticed its own lease lost. A call
in `waiting` or `inside` keeps its owner alive, one inside has its lock, and a created handle is of the caller's kind and stamp as
long as its owner lives. The steps of one caller leave the others' part alone if they keep the owners' kind, stamp and
locks and the others' tokens (`OwnersStep`, `TokensStep`). The caches come into it through one lemma, `CachesStep`: a step leaves each
cache as it is, makes an empty one, clears one, or takes one through a batch, and each of these keeps good caches good; the action property is read off the same cases.

**`GraphCache_proofs`** is about the operators of `GraphCache`, whatever calls them. The invariant is `GoodCaches`: every value is
in the one order it belongs to, under a tick no later than the cache's; every key is referred to exactly as often as values and kept keys mention it
(`Counted`); and the bytes are those of what is kept, within the budget. The orders are stated both ways, which `SoundCache` only counts, because an eviction
starts from a tick and not from a key. `GetIsGood`, `PutKeepsGood`, `BatchIsGood` and `ClearIsGood` preserve it; `GoodIsSound` reads the property off.
`Retain` and `Release` recurse through the parents of a key, the sums and `MakeRoom` are folds, and none of it can be expanded. The induction theorems
of the library that take an operator as a parameter cannot be used, so each fact is stated of a set instead: a set of numbers closed under
successor (`UptoInduction`), of finite sets (`SubsetInduction`), or of keys that has a key whenever it has its parents (`AncestorsInduction`, from
`ParentsFirst`). `FoldExists` and `RecursionExists` show that the functions exist which the folds and the recursion describe, and `Chain` makes a fold
over a sequence a sequence of values. `GainedCounts` and `LostCounts` are then what `Retain` and `Release` do to
the counts, and `GainedSpends` says that `Additional` is what `Retain` will spend. For `ResultsOutlast` a batch is followed key by key: before a wrap
(`Near`) the puts so far have spared the results, or put one, or emptied the cache (`Lasting`), and after one the tick is below where the batch began
(`Behind`), because a batch is too short to get there again.

**Only model-checked.** Liveness (`EveryJobEnds`, `EveryLegacyJobEnds`), which needs ENABLED and fairness. `BooksAgree`, `PledgesBacked`,
`TaintFollowsSales` and `PositionOrderIrrelevant` of `DailyReplay`: a day is a chain of folds over positions, claims, links and policies. To say anything
of the value of a fold, the argument of `GraphCache_proofs` needs a set that holds all values it passes through, which is here the type of the whole `Sim` with its ledger;
on top of it `BooksAgree` and `PledgesBacked` compare sums over functions, and the amounts are products and floor divisions, whose nonlinear
arithmetic the provers do not decide. For these the run's choice of specifications stands alone.

## 5. What is not modelled

**The numerical code.** Of some 145 thousand implementation lines about 130 thousand value instruments,
account for products, fit models, generate cash flows and verify the results against documents. They are
functions from documents to numbers, in floating-point or decimal arithmetic, without
state that outlives a call, without concurrency but data-parallel loops, and their correctness is about contract terms and
real numbers, which TLC does not have. Where such code is a state machine whose steps disturb each other, it can be
modelled: `DailyReplay` does it for the daily replay of the ledger, on the path without external owners of positions.
Not modelled of that file: the hooks of those owners (dated, consumer, mortgage, commercial and derivative products,
lifecycle, deposits), which replace the day of their positions; liquidity and capital ratios, breaches and outputs, which
nothing reads back; streamed cash flows, which are the listed ones from another source, and the order of the list within a day (the model goes by position); the difference between cash interest and the accrual of a flow
(`mod.rs:2307-2310`; here they are equal); the step-up of a rate at a rollover (`:1620`); eligible fractions between 0 and 1 (`:2593`); credit migration, counterparty losses and received margin, which post like the losses
that are modelled; pledged loans. `replay/historical` is an older copy of the same replay for comparing outputs. So the
models cover few of all lines, but most of those in which processes, transactions, threads and failures meet.

**Abstracted.** Contents of documents, requests, results, manifests, details and progress. How `publish.rs` cuts a
stream into chunks and pages. Identity of code and models: a worker of
another version refuses a job, which is one of the refusals a computation may end with. The Python
library cache in memory, the limit of four sessions, idle times. The priority of a Python job is fixed when it is admitted; the code keeps it in the progress
record, which a heartbeat may overwrite with an empty one just after a loop broke off its job (`worker.py:277`), so that a background job counts as interactive when it is claimed again.
`Deployment` has no session and leaves out `CloseSession`. The prepared-statement cache, the connection pool and
migrations. `renew`, `cutover` and `acquire` read the clock before an UPDATE that may wait for the row
lock on PostgreSQL; the models read it at the commit. A native run is one step that succeeds or refuses, so a replaced
executable that is put back goes unnoticed. The collector's grace period and its second look at an object's
age, which matter only to a publisher that runs against the rules; the model takes the operator's word that
all publishers are stopped. In the graph runtime: a cancellation between the
batches of one chunk, where there is no checkpoint to notice it (`PriceBatch` is one step); calls without control,
refused token creation, poisoned locks, panics, and parallelism inside one pricing.

**Left out.** The in-memory queue of the development mode; the web client, MCP server and scripts,
which keep no shared state. `PROJECT.json` gives the reason for every component left out.

## 6. What is left

1. Theorems about the deployment with both kinds of worker processes at once; `Deployment` has free callers.
2. The time an open transaction has read as part of `Workspace`, for the wait at the row lock.
3. `DailyReplay`: the owners of positions, each a module that `HandlePosition` and the day's stages call; the credit replay.
4. The in-memory queue, and the caches of market data in the native packages.
