------------------------------ MODULE NativeRepo ------------------------------
(***************************************************************************)
(* The Rust service's repository (apps/api-rust/src/repo.rs): every        *)
(* transaction on native jobs, in the order the database serialises them.  *)
(*                                                                         *)
(* The callers are left as free as they can be.  Any API replica may call  *)
(* admit, cancel, commit or cutover at any time; any worker that was ever  *)
(* given a lease may use it, and any attempt that was ever claimed may     *)
(* report, fail or publish, however late and however often.  What a worker *)
(* does with these transactions is module NativeWorker.  A refused         *)
(* transaction is rolled back and is a step that changes nothing.          *)
(***************************************************************************)
EXTENDS Workspace, FiniteSets

CONSTANTS
    Jobs,           \* job identifiers
    Keys, NoKey,    \* idempotency keys, and the request that has none
    Inputs,         \* schema and raw bytes of a request, as one identity
    Tokens, NoToken,\* attempt tokens, and SQL NULL
    MaxQueue,       \* MAX_QUEUE, 32 in the code
    MaxAttempts,    \* MAX_ATTEMPTS, 3 in the code
    Deadlines,      \* the deadlines a request may ask for, in time units
    AuthorityEdits  \* what may happen to an admission row from outside

Active == {"native_queued", "native_running"}
Terminal == {"native_done", "native_error", "native_cancelled"}
Statuses == {"absent"} \cup Active \cup Terminal

ASSUME NativeRepoAssumption ==
    /\ IsFiniteSet(Jobs)
    /\ NoKey \notin Keys
    /\ NoToken \notin Tokens
    /\ MaxQueue \in Nat \ {0}
    /\ MaxAttempts \in Nat \ {0}
    /\ Deadlines \subseteq Nat \ {0}
    /\ Inputs # {}
    /\ AuthorityEdits \subseteq {"edited", "missing"}

VARIABLES
    jobs,           \* the `jobs` rows with a native status
    authority,      \* the `native_job_authority` rows, told apart by content
    deadlineLeft,   \* their deadline_at, as the time left
    publications,   \* the `native_publications` rows: attempts published
    granted,        \* the epoch a tenure's last lease was granted under
    claims,         \* attempts handed out and not yet forgotten
    receipts        \* answers given to submissions that carried a key

repoVars == <<jobs, authority, deadlineLeft, publications>>
callerVars == <<granted, claims, receipts>>
vars == <<workspaceVars, repoVars, callerVars>>

JobRow == [status: Statuses, owner: Owners \cup {NoOwner},
           token: Tokens \cup {NoToken}, attempt: Nat, created: Nat,
           key: Keys \cup {NoKey}, input: Inputs, revision: Nat]

Claim == [job: Jobs, owner: RustOwners, token: Tokens, attempt: Nat,
          epoch: Nat, authority: {"admitted", "edited"}]

Receipt == [key: Keys, input: Inputs, revision: Nat, job: Jobs]

TypeOK ==
    /\ WorkspaceTypeOK
    /\ jobs \in [Jobs -> JobRow]
    /\ authority \in [Jobs -> {"absent", "admitted", "edited", "missing"}]
    /\ deadlineLeft \in [Jobs -> Nat]
    /\ publications \in [Jobs -> SUBSET [attempt: Nat, epoch: Nat]]
    /\ granted \in [RustOwners -> Nat]
    /\ claims \in SUBSET Claim
    /\ receipts \in SUBSET Receipt

NoJob == [status |-> "absent", owner |-> NoOwner, token |-> NoToken,
          attempt |-> 0, created |-> 0, key |-> NoKey,
          input |-> CHOOSE i \in Inputs : TRUE, revision |-> 0]

Init ==
    /\ WorkspaceInit
    /\ jobs = [j \in Jobs |-> NoJob]
    /\ authority = [j \in Jobs |-> "absent"]
    /\ deadlineLeft = [j \in Jobs |-> 0]
    /\ publications = [j \in Jobs |-> {}]
    /\ granted = [o \in RustOwners |-> 0]
    /\ claims = {}
    /\ receipts = {}

-----------------------------------------------------------------------------
Admitted == {j \in Jobs : jobs[j].status # "absent"}
ActiveJobs == {j \in Jobs : jobs[j].status \in Active}

\* `lease_valid`: the caller's lease is live and the route is still the one
\* its lease was granted under.
\* Mutant: only the lease is looked at.
LeaseValidOnAnyRoute(o, e) == Holds(o)

LeaseValid(o, e) == Holds(o) /\ engine = "rust" /\ epoch = e

\* The guard of progress, current, fail and publish: this attempt's token is
\* the row's, and the job was not cancelled, requeued or finished.
\* Mutant: the token is not compared.
CurrentByStatus(c) == jobs[c.job].status = "native_running"

Current(c) ==
    jobs[c.job].status = "native_running" /\ jobs[c.job].token = c.token

UsedTokens == {jobs[j].token : j \in Jobs} \cup {c.token : c \in claims}

-----------------------------------------------------------------------------
(* Submissions, from any API replica.                                      *)

\* A row that already holds the key is returned to a submission of the same
\* input at the same revision, whatever the route, the head and the queue.
AdmitAgain(k, i, rev) ==
    \E j \in Admitted :
        /\ jobs[j].key = k
        /\ jobs[j].input = i
        /\ jobs[j].revision = rev
        /\ receipts' = receipts \cup
               {[key |-> k, input |-> i, revision |-> rev, job |-> j]}
        /\ UNCHANGED <<workspaceVars, repoVars, granted, claims>>

\* Mutant: the key of a job that has ended may be used again.
KeyUnusedByActive(k) == k = NoKey \/ \A j \in ActiveJobs : jobs[j].key # k
KeyUnused(k) == k = NoKey \/ \A j \in Admitted : jobs[j].key # k

\* Mutant: only the waiting jobs count.
QueueHasRoomToWait ==
    Cardinality({j \in Jobs : jobs[j].status = "native_queued"}) < MaxQueue
QueueHasRoom == Cardinality(ActiveJobs) < MaxQueue

AdmitNew(k, i, rev, seconds) ==
    /\ KeyUnused(k)
    /\ engine = "rust"
    /\ revision = rev
    /\ QueueHasRoom
    /\ \E j \in Jobs \ Admitted :
        /\ jobs' = [jobs EXCEPT ![j] =
               [status |-> "native_queued", owner |-> NoOwner,
                token |-> NoToken, attempt |-> 0,
                created |-> Cardinality(Admitted) + 1,
                key |-> k, input |-> i, revision |-> rev]]
        /\ authority' = [authority EXCEPT ![j] = "admitted"]
        /\ deadlineLeft' = [deadlineLeft EXCEPT ![j] = seconds]
        /\ receipts' = IF k = NoKey THEN receipts ELSE receipts \cup
               {[key |-> k, input |-> i, revision |-> rev, job |-> j]}
    /\ UNCHANGED <<workspaceVars, publications, granted, claims>>

\* Mutant: whatever has not been cancelled yet can be.
CancellableTwice(j) == jobs[j].status \notin {"absent", "native_cancelled"}
Cancellable(j) == jobs[j].status \in Active

Cancel(j) ==
    /\ Cancellable(j)
    /\ authority[j] # "missing"
    /\ jobs' = [jobs EXCEPT ![j].status = "native_cancelled",
                            ![j].token = NoToken]
    /\ UNCHANGED <<workspaceVars, authority, deadlineLeft, publications,
                   callerVars>>

CommitDocument(expected) ==
    /\ AdvanceRevision(expected)
    /\ UNCHANGED <<repoVars, callerVars>>

\* Mutant: a running job does not stand in the way.
NativeQueueEmpty == \A j \in Jobs : jobs[j].status # "native_queued"
NativeDrained == ActiveJobs = {}

\* legacyDrained: no job of the Python service is queued or running.
Cutover(target, legacyDrained) ==
    /\ SetRoute(target, IF target = "rust" THEN legacyDrained ELSE NativeDrained)
    /\ UNCHANGED <<repoVars, callerVars>>

-----------------------------------------------------------------------------
(* The lease, for Rust tenures and for Python workers.                     *)

AcquireRead(o) == ReadRoute(o) /\ UNCHANGED <<repoVars, callerVars>>
AcquireAbandon(o) == AbandonRead(o) /\ UNCHANGED <<repoVars, callerVars>>

Acquire(o) ==
    /\ TakeLease(o)
    /\ granted' = IF o \in RustOwners
                  THEN [granted EXCEPT ![o] = EpochRead(o)] ELSE granted
    /\ UNCHANGED <<repoVars, claims, receipts>>

Renew(o) ==
    /\ o \in RustOwners => engine = "rust" /\ epoch = granted[o]
    /\ ExtendLease(o)
    /\ UNCHANGED <<repoVars, callerVars>>

Release(o) == ReleaseLease(o) /\ UNCHANGED <<repoVars, callerVars>>

-----------------------------------------------------------------------------
(* `claim`: requeue what another owner left running, then walk the queue   *)
(* from the oldest job, failing every job that may not run (again), up to  *)
(* and including the first that may.                                       *)

Abandoned(o) ==
    {j \in Jobs : jobs[j].status = "native_running" /\ jobs[j].owner # o}

Pending(o) ==
    {j \in Jobs : jobs[j].status = "native_queued"} \cup Abandoned(o)

Runnable(j) ==
    /\ authority[j] # "missing"
    /\ deadlineLeft[j] > 0
    /\ jobs[j].attempt < MaxAttempts

Before(i, j) == jobs[i].created < jobs[j].created

FirstRunnable(o, j) ==
    /\ j \in Pending(o)
    /\ Runnable(j)
    /\ \A i \in Pending(o) : Before(i, j) => ~ Runnable(i)

\* Mutant: a requeued job starts its count of attempts anew.
RequeuedAnew(r) ==
    [r EXCEPT !.status = "native_queued", !.owner = NoOwner, !.token = NoToken,
              !.attempt = 0]

Requeued(r) ==
    [r EXCEPT !.status = "native_queued", !.owner = NoOwner, !.token = NoToken]

\* Mutant: a job that may not run again is skipped, and waits on.
Skipped(r) == Requeued(r)
Refused(r) == [Requeued(r) EXCEPT !.status = "native_error"]

\* The rows after the walk passed the jobs in S.
Walked(o, S) ==
    [i \in Jobs |-> IF i \in S THEN Refused(jobs[i])
                    ELSE IF i \in Abandoned(o) THEN Requeued(jobs[i])
                    ELSE jobs[i]]

ClaimJob(o, j, t) ==
    /\ LeaseValid(o, granted[o])
    /\ FirstRunnable(o, j)
    /\ t \notin UsedTokens
    /\ jobs' = [Walked(o, {i \in Pending(o) : Before(i, j)}) EXCEPT ![j] =
           [jobs[j] EXCEPT !.status = "native_running", !.owner = o,
                           !.token = t, !.attempt = @ + 1]]
    /\ claims' = claims \cup
           {[job |-> j, owner |-> o, token |-> t,
             attempt |-> jobs[j].attempt + 1, epoch |-> granted[o],
             authority |-> authority[j]]}
    /\ UNCHANGED <<workspaceVars, authority, deadlineLeft, publications,
                   granted, receipts>>

ClaimNothing(o) ==
    /\ LeaseValid(o, granted[o])
    /\ \A j \in Pending(o) : ~ Runnable(j)
    /\ jobs' = Walked(o, Pending(o))
    /\ UNCHANGED <<workspaceVars, authority, deadlineLeft, publications,
                   callerVars>>

-----------------------------------------------------------------------------
(* What an attempt reports.                                                *)

Fail(c) ==
    /\ LeaseValid(c.owner, c.epoch)
    /\ Current(c)
    /\ jobs' = [jobs EXCEPT ![c.job].status = "native_error",
                            ![c.job].token = NoToken]
    /\ UNCHANGED <<workspaceVars, authority, deadlineLeft, publications,
                   callerVars>>

\* The deadline was checked before the run, and is checked again.
InTime(c) == deadlineLeft[c.job] > 0

\* The row of `native_publications` keeps the attempt; the epoch is kept here
\* so that properties can speak of it.
Publish(c) ==
    /\ LeaseValid(c.owner, c.epoch)
    /\ authority[c.job] = c.authority
    /\ Current(c)
    /\ InTime(c)
    /\ publications' = [publications EXCEPT ![c.job] = @ \cup
           {[attempt |-> c.attempt, epoch |-> c.epoch]}]
    /\ jobs' = [jobs EXCEPT ![c.job].status = "native_done"]
    /\ UNCHANGED <<workspaceVars, authority, deadlineLeft, callerVars>>

\* The caller drops the attempt, or its process ends.
Forget(c) ==
    /\ claims' = claims \ {c}
    /\ UNCHANGED <<workspaceVars, repoVars, granted, receipts>>

-----------------------------------------------------------------------------
(* The environment.                                                        *)

\* The admission row is edited or deleted behind the service's back.  The
\* deadline stays: an edited row is refused by `attempt` whatever it says.
EditAuthority(j, content) ==
    /\ authority[j] = "admitted"
    /\ authority' = [authority EXCEPT ![j] = content]
    /\ UNCHANGED <<workspaceVars, jobs, deadlineLeft, publications, callerVars>>

\* One time unit passes.  The deadline of a finished job is of no interest.
Elapse ==
    /\ LeaseElapses
    /\ deadlineLeft' = [j \in Jobs |->
           IF j \in ActiveJobs /\ deadlineLeft[j] > 0
           THEN deadlineLeft[j] - 1 ELSE deadlineLeft[j]]
    /\ UNCHANGED <<jobs, authority, publications, callerVars>>

Submissions ==
    \/ \E k \in Keys, i \in Inputs, rev \in 0 .. MaxRevision :
           AdmitAgain(k, i, rev)
    \/ \E k \in Keys \cup {NoKey}, i \in Inputs, rev \in 0 .. MaxRevision,
          seconds \in Deadlines : AdmitNew(k, i, rev, seconds)
    \/ \E j \in Jobs : Cancel(j)
    \/ \E expected \in 0 .. MaxRevision : CommitDocument(expected)
    \/ \E target \in {"rust", "legacy"}, legacyDrained \in BOOLEAN :
           Cutover(target, legacyDrained)

Leasing ==
    \E o \in Owners :
        AcquireRead(o) \/ AcquireAbandon(o) \/ Acquire(o) \/ Renew(o)
        \/ Release(o)

Working ==
    \/ \E o \in RustOwners, j \in Jobs, t \in Tokens : ClaimJob(o, j, t)
    \/ \E o \in RustOwners : ClaimNothing(o)
    \/ \E c \in claims : Fail(c) \/ Publish(c) \/ Forget(c)

Environment ==
    \/ \E j \in Jobs, content \in AuthorityEdits : EditAuthority(j, content)
    \/ Elapse

Next == Submissions \/ Leasing \/ Working \/ Environment

Spec == Init /\ [][Next]_vars

-----------------------------------------------------------------------------
(* Safety.                                                                 *)

\* A job is done exactly when it has a publication, it has only one, and that
\* one is the job's last attempt: neither a cancellation, a requeue nor a
\* late or repeated publish leaves a result without its status or a status
\* without its result (`publish`, `cancel`, `fail`, `claim`).
PublishedIffDone ==
    \A j \in Jobs :
        /\ jobs[j].status = "native_done" <=> publications[j] # {}
        /\ \A p \in publications[j] :
               p.attempt = jobs[j].attempt /\ publications[j] = {p}

\* Of all the attempts of a job that any worker still holds, at most one may
\* report, and it is the last one claimed, held by the owner in the row
\* (`claim` gives a new token and voids the old one).
OneCurrentAttempt ==
    \A c \in claims : Current(c) =>
        /\ c.attempt = jobs[c.job].attempt
        /\ c.owner = jobs[c.job].owner
        /\ \A d \in claims : d.job = c.job /\ Current(d) => d = c

\* No native job is waiting or running while the workspace is routed to the
\* Python service: `admit` needs the Rust route, `cutover` a drained queue.
NativeWorkNeedsRoute == engine = "legacy" => ActiveJobs = {}

\* A live lease belongs to the engine the workspace is routed to, so neither
\* service is kept out of its own queue by the other (`acquire`, `cutover`).
LeaseFollowsRoute == LeaseLive => engine = EngineOf(owner)

\* While the workspace is routed to Rust no Python worker holds the lease ("The
\* Python worker refuses the lease of a workspace routed to Rust").
LegacyLeaseNeedsRoute == engine = "rust" => ~ (LeaseLive /\ owner \in LegacyOwners)

\* All answers to one idempotency key name one job, and that job was admitted
\* for exactly that input and revision (`admit`).
OneJobPerKey ==
    /\ \A r \in receipts, s \in receipts : r.key = s.key => r = s
    /\ \A r \in receipts :
           /\ jobs[r.job].key = r.key
           /\ jobs[r.job].input = r.input
           /\ jobs[r.job].revision = r.revision
    /\ \A i, j \in Admitted :
           jobs[i].key = jobs[j].key /\ jobs[i].key # NoKey => i = j

\* The queue stays within MAX_QUEUE, requeued attempts included.
QueueBounded == Cardinality(ActiveJobs) <= MaxQueue

\* A result is published only under the route epoch its attempt was claimed
\* in, by the tenure that holds the lease, and before the deadline.
FencedPublication ==
    [][\A j \in Jobs : publications'[j] # publications[j] =>
           /\ \E p \in publications'[j] : p.epoch = epoch
           /\ engine = "rust"
           /\ Holds(jobs[j].owner)
           /\ deadlineLeft[j] > 0]_vars

\* The client's view of every job is the one module JobLifecycle promises.
Outcome(j) ==
    CASE jobs[j].status = "absent" -> "none"
      [] jobs[j].status \in Active -> "pending"
      [] jobs[j].status = "native_done" -> "done"
      [] jobs[j].status = "native_error" -> "error"
      [] jobs[j].status = "native_cancelled" -> "cancelled"

Answer(j) ==
    IF publications[j] = {} THEN 0
    ELSE (CHOOSE p \in publications[j] : TRUE).attempt

RequestOf(j) ==
    IF jobs[j].status = "absent" THEN "none"
    ELSE <<jobs[j].key, jobs[j].input, jobs[j].revision>>

Lifecycle == INSTANCE JobLifecycle WITH
    Requests <- (Keys \cup {NoKey}) \X Inputs \X (0 .. MaxRevision),
    NoRequest <- "none",
    request <- [j \in Jobs |-> RequestOf(j)],
    outcome <- [j \in Jobs |-> Outcome(j)],
    starts <- [j \in Jobs |-> jobs[j].attempt],
    answer <- [j \in Jobs |-> Answer(j)],
    expired <- [j \in Jobs |-> j \in Admitted /\ deadlineLeft[j] = 0]

\* The repository implements JobLifecycle.
ImplementsLifecycle == Lifecycle!Spec
==============================================================================
