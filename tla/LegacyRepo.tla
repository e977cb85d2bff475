------------------------------ MODULE LegacyRepo ------------------------------
(***************************************************************************)
(* The Python service's repository (apps/api/app/repository.py): its jobs, *)
(* decision sessions and unit libraries, and the durable submission of     *)
(* persistence.py, which looks for an earlier job of its idempotency key   *)
(* before and outside the transaction that enqueues.                       *)
(*                                                                         *)
(* As in NativeRepo the callers are free: any attempt ever claimed may     *)
(* report at any time and as often as it likes, with any session version   *)
(* or library.  What a worker does with this is module LegacyWorker.       *)
(***************************************************************************)
EXTENDS Workspace, FiniteSets

CONSTANTS
    Jobs,           \* job identifiers
    Keys, NoKey,    \* idempotency keys, and the request that has none
    Bodies,         \* what a client may ask for: operation and arguments
    Background,     \* the bodies submitted with background priority
    Stamps,         \* what admission derives anew, such as a deadline
    Callers,        \* bound: submissions under way at a time
    Sids,           \* decision session identifiers
    Versions,       \* session versions: all positive numbers, TLC has a few
    Tokens, NoToken,\* attempt tokens, and SQL NULL
    MaxQueue,       \* MAX_QUEUE of store.py
    MaxAttempts     \* 3 in the code

Active == {"queued", "running"}
Statuses == {"absent", "done", "error"} \cup Active

ASSUME LegacyRepoAssumption ==
    /\ IsFiniteSet(Jobs)
    /\ NoKey \notin Keys
    /\ NoToken \notin Tokens
    /\ Background \subseteq Bodies
    /\ Bodies # {} /\ Stamps # {}
    /\ Versions \subseteq Nat \ {0}
    /\ MaxQueue \in Nat \ {0}
    /\ MaxAttempts \in Nat \ {0}

VARIABLES
    jobs,       \* the `jobs` rows of the Python service
    sessions,   \* the `sessions` rows; version 0 while there is no row
    libraries,  \* the `libraries` rows: the jobs that built them, by revision
    submitting, \* the submissions between the look-up and the transaction
    claims,     \* attempts handed out and not yet forgotten
    receipts    \* answers given to submissions that carried a key

repoVars == <<jobs, sessions, libraries>>
callerVars == <<submitting, claims, receipts>>
vars == <<workspaceVars, repoVars, callerVars>>

\* The immutable request object a job row refers to.
Submission == [key: Keys \cup {NoKey}, body: Bodies, stamp: Stamps,
               revision: 0 .. MaxRevision]

JobRow == [status: Statuses, owner: Owners \cup {NoOwner},
           token: Tokens \cup {NoToken}, attempt: Nat, created: Nat,
           request: Submission]

SessionRow == [version: Nat, revision: Nat, closed: BOOLEAN,
               manifest: SUBSET Jobs]

Claim == [job: Jobs, owner: LegacyOwners, token: Tokens, attempt: Nat]

Receipt == [key: Keys, body: Bodies, revision: 0 .. MaxRevision, job: Jobs]

LegacyTypeOK ==
    /\ WorkspaceTypeOK
    /\ revision <= MaxRevision
    /\ jobs \in [Jobs -> JobRow]
    /\ sessions \in [Sids -> SessionRow]
    /\ libraries \in [0 .. MaxRevision -> SUBSET Jobs]
    /\ submitting \in [Callers -> SUBSET Submission]
    /\ claims \in SUBSET Claim
    /\ receipts \in SUBSET Receipt

NoJob == [status |-> "absent", owner |-> NoOwner, token |-> NoToken,
          attempt |-> 0, created |-> 0,
          request |-> [key |-> NoKey, body |-> CHOOSE b \in Bodies : TRUE,
                       stamp |-> CHOOSE t \in Stamps : TRUE, revision |-> 0]]

NoRow == [version |-> 0, revision |-> 0, closed |-> FALSE, manifest |-> {}]

Init ==
    /\ WorkspaceInit
    /\ jobs = [j \in Jobs |-> NoJob]
    /\ sessions = [s \in Sids |-> NoRow]
    /\ libraries = [n \in 0 .. MaxRevision |-> {}]
    /\ submitting = [h \in Callers |-> {}]
    /\ claims = {}
    /\ receipts = {}

-----------------------------------------------------------------------------
Admitted == {j \in Jobs : jobs[j].status # "absent"}
ActiveJobs == {j \in Jobs : jobs[j].status \in Active}
Drained == ActiveJobs = {}

\* The token of the row is the attempt's, and nothing ended or requeued it.
\* Mutant: the token is not compared.
CurrentByStatus(c) == jobs[c.job].status = "running"
Current(c) == jobs[c.job].status = "running" /\ jobs[c.job].token = c.token

UsedTokens == {jobs[j].token : j \in Jobs} \cup {c.token : c \in claims}

-----------------------------------------------------------------------------
(* Submissions, from any API process.                                      *)

Answered(q, j) ==
    IF q.key = NoKey THEN receipts ELSE receipts \cup
        {[key |-> q.key, body |-> q.body, revision |-> q.revision, job |-> j]}

KeyUnused(k) == k = NoKey \/ \A j \in Admitted : jobs[j].request.key # k

\* The look-up of `submit` finds the job of an exact retry: the same HTTP
\* request, at the revision the caller sees now.
SubmitAgain(q) ==
    \E j \in Admitted :
        /\ q.key # NoKey
        /\ q.revision <= revision
        /\ jobs[j].request = [q EXCEPT !.stamp = jobs[j].request.stamp]
        /\ receipts' = Answered(q, j)
        /\ UNCHANGED <<workspaceVars, repoVars, submitting, claims>>

\* It finds nothing, and the request object is written.  The revision is that
\* of the snapshot the process has loaded, which may be behind the head.
SubmitCheck(h, q) ==
    /\ submitting[h] = {}
    /\ q.key # NoKey
    /\ q.revision <= revision
    /\ KeyUnused(q.key)
    /\ submitting' = [submitting EXCEPT ![h] = {q}]
    /\ UNCHANGED <<workspaceVars, repoVars, claims, receipts>>

\* Mutant: the transaction trusts the look-up.
KeyFreeAtLookUp(k) == TRUE
KeyFree(k) == KeyUnused(k)

QueueHasRoom == Cardinality(ActiveJobs) < MaxQueue

Insert(q) ==
    /\ QueueHasRoom
    /\ \E j \in Jobs \ Admitted :
        /\ jobs' = [jobs EXCEPT ![j] =
               [status |-> "queued", owner |-> NoOwner, token |-> NoToken,
                attempt |-> 0, created |-> Cardinality(Admitted) + 1,
                request |-> q]]
        /\ receipts' = Answered(q, j)
    /\ UNCHANGED <<workspaceVars, sessions, libraries, claims>>

Enqueue(h, q) ==
    /\ q \in submitting[h]
    /\ KeyFree(q.key)
    /\ Insert(q)
    /\ submitting' = [submitting EXCEPT ![h] = {}]

\* Without a key there is nothing to look up first.
EnqueueKeyless(q) ==
    /\ q.key = NoKey
    /\ q.revision <= revision
    /\ Insert(q)
    /\ UNCHANGED submitting

\* Another submission of the key came first, with the very same object.
EnqueueSame(h, q) ==
    /\ q \in submitting[h]
    /\ \E j \in Admitted :
        /\ jobs[j].request = q
        /\ receipts' = Answered(q, j)
    /\ submitting' = [submitting EXCEPT ![h] = {}]
    /\ UNCHANGED <<workspaceVars, repoVars, claims>>

\* The submission is refused, as a conflict or for want of room, or its
\* process ends.
SubmitRefused(h) ==
    /\ submitting[h] # {}
    /\ submitting' = [submitting EXCEPT ![h] = {}]
    /\ UNCHANGED <<workspaceVars, repoVars, claims, receipts>>

\* Mutant: a job that has ended can still be cancelled.
CancellableTwice(j) == jobs[j].status \in Active \cup {"done"}
Cancellable(j) == jobs[j].status \in Active

Cancel(j) ==
    /\ Cancellable(j)
    /\ jobs' = [jobs EXCEPT ![j].status = "error", ![j].token = NoToken]
    /\ UNCHANGED <<workspaceVars, sessions, libraries, callerVars>>

SaveRevision(expected) ==
    /\ AdvanceRevision(expected)
    /\ UNCHANGED <<repoVars, callerVars>>

\* A session may be closed by any process, with or without the lease.
CloseSession(s) ==
    /\ sessions[s].version > 0 /\ ~ sessions[s].closed
    /\ sessions' = [sessions EXCEPT ![s].closed = TRUE]
    /\ UNCHANGED <<workspaceVars, jobs, libraries, callerVars>>

-----------------------------------------------------------------------------
(* The lease and `claim`.                                                  *)

AcquireRead(o) == ReadRoute(o) /\ UNCHANGED <<repoVars, callerVars>>
AcquireAbandon(o) == AbandonRead(o) /\ UNCHANGED <<repoVars, callerVars>>
Acquire(o) == TakeLease(o) /\ UNCHANGED <<repoVars, callerVars>>
Renew(o) == ExtendLease(o) /\ UNCHANGED <<repoVars, callerVars>>
Release(o) == ReleaseLease(o) /\ UNCHANGED <<repoVars, callerVars>>

\* Mutant: what earlier owners left running stays as it is.
LeftRunning(o) == {}
Abandoned(o) ==
    {j \in Jobs : jobs[j].status = "running" /\ jobs[j].owner # o}

InBackground(j) == jobs[j].request.body \in Background

Pending(o) ==
    {j \in Jobs : jobs[j].status = "queued"} \cup Abandoned(o)

\* Mutant: the priorities are the wrong way round.
BackgroundBefore(i, j) ==
    IF InBackground(i) = InBackground(j)
    THEN jobs[i].created < jobs[j].created ELSE InBackground(i)
\* Interactive jobs come before background ones, and older before younger.
Before(i, j) ==
    IF InBackground(i) = InBackground(j)
    THEN jobs[i].created < jobs[j].created ELSE InBackground(j)

Picked(o, j) ==
    j \in Pending(o) /\ \A i \in Pending(o) \ {j} : Before(j, i)

Requeued(r) ==
    [r EXCEPT !.status = "queued", !.owner = NoOwner, !.token = NoToken]

\* The rows after the first statement of a claim.
Requeue(o) ==
    [j \in Jobs |-> IF j \in Abandoned(o) THEN Requeued(jobs[j]) ELSE jobs[j]]

MayStart(j) == jobs[j].attempt < MaxAttempts

\* The attempt reaches the caller, unless the reply is lost.
ClaimJob(o, j, t) ==
    /\ Holds(o)
    /\ Picked(o, j)
    /\ MayStart(j)
    /\ t \notin UsedTokens
    /\ jobs' = [Requeue(o) EXCEPT ![j] =
           [jobs[j] EXCEPT !.status = "running", !.owner = o, !.token = t,
                           !.attempt = @ + 1]]
    /\ claims' \in {claims, claims \cup
           {[job |-> j, owner |-> o, token |-> t,
             attempt |-> jobs[j].attempt + 1]}}
    /\ UNCHANGED <<workspaceVars, sessions, libraries, submitting, receipts>>

\* A job that was interrupted in its last attempt fails, and the claim
\* returns nothing although other jobs may be waiting.
ClaimExhausted(o, j) ==
    /\ Holds(o)
    /\ Picked(o, j)
    /\ ~ MayStart(j)
    /\ jobs' = [Requeue(o) EXCEPT ![j] =
           [Requeued(jobs[j]) EXCEPT !.status = "error"]]
    /\ UNCHANGED <<workspaceVars, sessions, libraries, callerVars>>

-----------------------------------------------------------------------------
(* `complete`: result, session and library in one transaction.             *)

\* What a result may come with: nothing, a session version, a library.
Attachments ==
    {[kind |-> "none"], [kind |-> "library"]}
    \cup [kind: {"session"}, sid: Sids, version: Versions]

\* Mutant: the head is not compared with the job's revision.
InputsAsRead(c) == TRUE
InputsUnchanged(c) == revision = jobs[c.job].request.revision

SessionAccepts(s, version) ==
    sessions[s].version > 0 =>
        ~ sessions[s].closed /\ sessions[s].version = version - 1

\* Mutant: the lease is not looked at.
AnyReporter(c) == TRUE
MayReport(c) == Holds(c.owner)

\* Mutant: the UPDATE of a row forgets the version.
SavedInPlace(s, version, j) ==
    [sessions[s] EXCEPT !.manifest = {j},
        !.version = IF @ = 0 THEN version ELSE @,
        !.revision = IF sessions[s].version = 0 THEN revision ELSE @]
Saved(s, version, j) ==
    [sessions[s] EXCEPT !.version = version, !.manifest = {j},
        !.revision = IF sessions[s].version = 0 THEN revision ELSE @]

\* The caller may keep the attempt, or be done with it.
Report(c) ==
    /\ claims' \in {claims, claims \ {c}}
    /\ UNCHANGED <<workspaceVars, submitting, receipts>>

Complete(c, a) ==
    /\ MayReport(c)
    /\ a.kind # "none" => InputsUnchanged(c)
    /\ Current(c)
    /\ a.kind = "session" => SessionAccepts(a.sid, a.version)
    /\ jobs' = [jobs EXCEPT ![c.job].status = "done"]
    /\ sessions' =
           IF a.kind = "session"
           THEN [sessions EXCEPT ![a.sid] = Saved(a.sid, a.version, c.job)]
           ELSE sessions
    /\ libraries' =
           IF a.kind = "library"
           THEN [libraries EXCEPT ![revision] = {c.job}] ELSE libraries
    /\ Report(c)

CompleteError(c) ==
    /\ MayReport(c)
    /\ Current(c)
    /\ jobs' = [jobs EXCEPT ![c.job].status = "error"]
    /\ UNCHANGED <<sessions, libraries>>
    /\ Report(c)

\* The caller drops the attempt, or its process ends.
Forget(c) ==
    /\ claims' = claims \ {c}
    /\ UNCHANGED <<workspaceVars, repoVars, submitting, receipts>>

Elapse == LeaseElapses /\ UNCHANGED <<repoVars, callerVars>>

\* `admin cutover` of the Rust service, which may change the route whenever
\* its own conditions hold.
RouteChange(target, drained) ==
    SetRoute(target, drained) /\ UNCHANGED <<repoVars, callerVars>>

-----------------------------------------------------------------------------
Submissions ==
    \/ \E q \in Submission : SubmitAgain(q)
    \/ \E h \in Callers, q \in Submission : SubmitCheck(h, q)
    \/ \E h \in Callers : \E q \in submitting[h] :
           Enqueue(h, q) \/ EnqueueSame(h, q)
    \/ \E h \in Callers : SubmitRefused(h)
    \/ \E q \in Submission : EnqueueKeyless(q)
    \/ \E j \in Jobs : Cancel(j)

Editing ==
    \/ \E expected \in 0 .. MaxRevision : SaveRevision(expected)
    \/ \E s \in Sids : CloseSession(s)

Leasing ==
    \E o \in LegacyOwners :
        AcquireRead(o) \/ AcquireAbandon(o) \/ Acquire(o) \/ Renew(o)
        \/ Release(o)

Working ==
    \/ \E o \in LegacyOwners, j \in Jobs, t \in Tokens : ClaimJob(o, j, t)
    \/ \E o \in LegacyOwners, j \in Jobs : ClaimExhausted(o, j)
    \/ \E c \in claims, a \in Attachments : Complete(c, a)
    \/ \E c \in claims : CompleteError(c) \/ Forget(c)

Environment ==
    \/ \E target \in {"rust", "legacy"}, drained \in BOOLEAN :
           RouteChange(target, drained)
    \/ Elapse

Next == Submissions \/ Editing \/ Leasing \/ Working \/ Environment

Spec == Init /\ [][Next]_vars

-----------------------------------------------------------------------------
(* Safety.                                                                 *)

\* Of all the attempts of a job that any Python worker still holds at most
\* one may report, and it is the last one claimed, held by the owner in the
\* row ("The old attempt token cannot publish even if its process eventually
\* resumes", `claim`).
LegacyOneCurrentAttempt ==
    \A c \in claims : Current(c) =>
        /\ c.attempt = jobs[c.job].attempt
        /\ c.owner = jobs[c.job].owner
        /\ \A d \in claims : d.job = c.job /\ Current(d) => d = c

\* A result, the session version and the library it comes with are published
\* together and stay together: what a session row or a library row refers to
\* was written by a job that is done, computed from the inputs of the
\* library's own revision (`complete`, `cancel`, `claim`).
PublishedTogether ==
    /\ \A n \in 0 .. MaxRevision : \A j \in libraries[n] :
           jobs[j].status = "done" /\ jobs[j].request.revision = n
    /\ \A s \in Sids : \A j \in sessions[s].manifest :
           jobs[j].status = "done"
    /\ \A s \in Sids, z \in Sids :
           sessions[s].manifest \cap sessions[z].manifest # {} => s = z

\* All answers to one idempotency key name one job, admitted for exactly that
\* request at that revision, although two submissions may both have found
\* nothing when they looked (`submit`, `enqueue`).
LegacyOneJobPerKey ==
    /\ \A r \in receipts, s \in receipts : r.key = s.key => r = s
    /\ \A r \in receipts :
           /\ jobs[r.job].request.key = r.key
           /\ jobs[r.job].request.body = r.body
           /\ jobs[r.job].request.revision = r.revision
    /\ \A i, j \in Admitted :
           jobs[i].request.key = jobs[j].request.key
           /\ jobs[i].request.key # NoKey => i = j

\* A saved session is superseded only while it is open and only by its next
\* version, which stays with the inputs it was built from, and only for a job
\* of the current inputs whose owner holds the lease (`complete`).
SessionsAdvance ==
    [][\A s \in Sids :
           sessions'[s].version # sessions[s].version
               \/ sessions'[s].manifest # sessions[s].manifest =>
           /\ sessions[s].version > 0 =>
                  /\ ~ sessions[s].closed
                  /\ sessions'[s].version = sessions[s].version + 1
                  /\ sessions'[s].revision = sessions[s].revision
           /\ \A j \in sessions'[s].manifest :
                  /\ jobs[j].request.revision = revision
                  /\ Holds(jobs[j].owner)]_vars

\* The client's view of a job is the one module JobLifecycle promises; a
\* cancelled job of the Python service ends as an error, and has no deadline.
Outcome(j) ==
    CASE jobs[j].status = "absent" -> "none"
      [] jobs[j].status \in Active -> "pending"
      [] jobs[j].status = "done" -> "done"
      [] jobs[j].status = "error" -> "error"

RequestOf(j) ==
    IF jobs[j].status = "absent" THEN {} ELSE {jobs[j].request}

Lifecycle == INSTANCE JobLifecycle WITH
    Requests <- {{q} : q \in Submission},
    NoRequest <- {},
    request <- [j \in Jobs |-> RequestOf(j)],
    outcome <- [j \in Jobs |-> Outcome(j)],
    starts <- [j \in Jobs |-> jobs[j].attempt],
    answer <- [j \in Jobs |->
                  IF jobs[j].status = "done" THEN jobs[j].attempt ELSE 0],
    expired <- [j \in Jobs |-> FALSE]

\* The Python repository implements JobLifecycle.
LegacyImplementsLifecycle == Lifecycle!Spec
==============================================================================
