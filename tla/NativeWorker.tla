---------------------------- MODULE NativeWorker ----------------------------
(***************************************************************************)
(* The worker processes of the Rust service (apps/api-rust/src/worker.rs)  *)
(* on top of the transactions of NativeRepo: the main thread, which takes  *)
(* the lease, claims a job, runs it and reports, and the heartbeat thread, *)
(* which renews the lease and raises `lost`.  Processes stall (time passes *)
(* between any two steps), crash and restart, and lose database replies.   *)
(*                                                                         *)
(* granted[tenure[p]] is the local variable `epoch` of `run`, and the      *)
(* claim of a tenure is the `Claim` its main thread is executing.          *)
(***************************************************************************)
EXTENDS NativeRepo

CONSTANTS
    Workers,        \* worker processes
    ExitWhenIdle,   \* those of them started with --exit-when-idle
    Faults          \* transactions that may fail after or before committing

ASSUME NativeWorkerAssumption ==
    /\ ExitWhenIdle \subseteq Workers
    /\ Faults \subseteq {"acquire", "renew", "claim", "publish", "fail"}

VARIABLES
    pc,         \* where the main thread is
    tenure,     \* `owner` of `run`; NoOwner when the process is down
    lost,       \* the flag the heartbeat raises for the main thread
    beating     \* the heartbeat thread is running

processVars == <<pc, tenure, lost, beating>>
workerVars == <<vars, processVars>>

WorkerInit ==
    /\ Init
    /\ pc = [p \in Workers |-> "down"]
    /\ tenure = [p \in Workers |-> NoOwner]
    /\ lost = [p \in Workers |-> FALSE]
    /\ beating = [p \in Workers |-> FALSE]

Held(p) == CHOOSE c \in claims : c.owner = tenure[p]
Epoch(p) == granted[tenure[p]]

Goto(p, next) ==
    pc' = [pc EXCEPT ![p] = next] /\ UNCHANGED <<tenure, lost, beating>>

-----------------------------------------------------------------------------
(* `run`: one tenure after the other.                                      *)

\* `tenure_owner`: an identity that nothing in the system still names.
Fresh(o) ==
    /\ o # owner
    /\ reading[o] = NoRead
    /\ \A p \in Workers : tenure[p] # o
    /\ \A j \in ActiveJobs : jobs[j].owner # o
    /\ \A c \in claims : c.owner # o

BeginTenure(p) ==
    /\ \E o \in RustOwners : Fresh(o) /\ tenure' = [tenure EXCEPT ![p] = o]
    /\ pc' = [pc EXCEPT ![p] = "acquire"]
    /\ lost' = [lost EXCEPT ![p] = FALSE]
    /\ beating' = [beating EXCEPT ![p] = FALSE]

EndProcess(p) ==
    /\ pc' = [pc EXCEPT ![p] = "down"]
    /\ tenure' = [tenure EXCEPT ![p] = NoOwner]
    /\ lost' = [lost EXCEPT ![p] = FALSE]
    /\ beating' = [beating EXCEPT ![p] = FALSE]

\* What a process leaves behind in memory goes with it.
DropClaims(p) ==
    /\ claims' = {c \in claims : c.owner # tenure[p]}
    /\ UNCHANGED <<workspaceVars, repoVars, granted, receipts>>

StartWorker(p) == pc[p] = "down" /\ BeginTenure(p) /\ UNCHANGED vars

TryRead(p) ==
    pc[p] = "acquire" /\ AcquireRead(tenure[p]) /\ UNCHANGED processVars

TryAbandon(p) ==
    pc[p] = "acquire" /\ AcquireAbandon(tenure[p]) /\ UNCHANGED processVars

TakeTenure(p) ==
    /\ pc[p] = "acquire"
    /\ Acquire(tenure[p])
    /\ pc' = [pc EXCEPT ![p] = "claim"]
    /\ beating' = [beating EXCEPT ![p] = TRUE]
    /\ UNCHANGED <<tenure, lost>>

\* The lease was taken but the reply is lost: the loop tries again.
TakeUnnoticed(p) ==
    /\ "acquire" \in Faults
    /\ pc[p] = "acquire"
    /\ Acquire(tenure[p])
    /\ UNCHANGED processVars

\* Twenty rounds without the lease.
GiveUpTrying(p) ==
    /\ p \in ExitWhenIdle
    /\ pc[p] = "acquire"
    /\ EndProcess(p)
    /\ UNCHANGED vars

NoticeLost(p) ==
    pc[p] = "claim" /\ lost[p] /\ Goto(p, "join") /\ UNCHANGED vars

TakeJob(p) ==
    /\ pc[p] = "claim" /\ ~ lost[p]
    /\ \E j \in Jobs, t \in Tokens : ClaimJob(tenure[p], j, t)
    /\ Goto(p, "prepare")

FindNothing(p) ==
    /\ pc[p] = "claim" /\ ~ lost[p]
    /\ ClaimNothing(tenure[p])
    /\ Goto(p, IF p \in ExitWhenIdle THEN "drained" ELSE "claim")

LoseAndJoin(p) ==
    /\ pc' = [pc EXCEPT ![p] = "join"]
    /\ lost' = [lost EXCEPT ![p] = TRUE]
    /\ UNCHANGED <<tenure, beating>>

ClaimRefused(p) ==
    /\ pc[p] = "claim" /\ ~ lost[p]
    /\ ~ LeaseValid(tenure[p], Epoch(p))
    /\ LoseAndJoin(p)
    /\ UNCHANGED vars

\* `claim` returned an error, whether or not it had committed.
ClaimBroken(p) ==
    /\ "claim" \in Faults
    /\ pc[p] = "claim" /\ ~ lost[p]
    /\ \/ \E j \in Jobs, t \in Tokens : ClaimJob(tenure[p], j, t)
       \/ UNCHANGED vars
    /\ LoseAndJoin(p)

\* Mutant: the tenure after a loss keeps the identity of the lost one.
NextTenureOfSameOwner(p) ==
    /\ pc[p] = "join"
    /\ DropClaims(p)
    /\ pc' = [pc EXCEPT ![p] = "acquire"]
    /\ lost' = [lost EXCEPT ![p] = FALSE]
    /\ beating' = [beating EXCEPT ![p] = FALSE]
    /\ UNCHANGED tenure

\* The heartbeat has been joined.  A lost lease is left to expire.
NextTenure(p) ==
    /\ pc[p] = "join"
    /\ DropClaims(p)
    /\ BeginTenure(p)

ReleaseAndExit(p) ==
    /\ pc[p] = "drained"
    /\ IF ~ lost[p] /\ owner = tenure[p] THEN Release(tenure[p]) ELSE UNCHANGED vars
    /\ EndProcess(p)

-----------------------------------------------------------------------------
(* `execute` and `attempt`.                                                *)

\* Mutant: the view is believed without the admission row.
PrepareFromView(p) ==
    /\ pc[p] = "prepare"
    /\ \/ deadlineLeft[Held(p).job] > 0 /\ Goto(p, "native")
       \/ Goto(p, "fail")
    /\ UNCHANGED vars

\* The checks before the native run.  Any of them may refuse: the view, the
\* schema, the stored input, the executable, a failed progress report.
Prepare(p) ==
    /\ pc[p] = "prepare"
    /\ \/ /\ Held(p).authority = "admitted"
          /\ deadlineLeft[Held(p).job] > 0
          /\ Goto(p, "native")
       \/ Goto(p, "fail")
    /\ UNCHANGED vars

\* The native process under its watchdog, the verification of its stream, the
\* writing and the rereading of the objects: all went well, or one refused.
RunNative(p) ==
    /\ pc[p] = "native"
    /\ Goto(p, "publish") \/ Goto(p, "fail")
    /\ UNCHANGED vars

\* The watchdog's two reasons that record nothing.
KillNative(p) ==
    /\ pc[p] = "native"
    /\ lost[p] \/ ~ Current(Held(p))
    /\ Goto(p, "drop")
    /\ UNCHANGED vars

PublishResult(p) ==
    pc[p] = "publish" /\ Publish(Held(p)) /\ Goto(p, "drop")

\* LEASE_LOST, ROUTE_CHANGED and SUPERSEDED are discarded; AUTHORITY_CHANGED
\* and DEADLINE_EXPIRED are recorded.
PublishRefused(p) ==
    /\ pc[p] = "publish"
    /\ LET c == Held(p)
           valid == LeaseValid(c.owner, c.epoch)
           same == authority[c.job] = c.authority
       IN \/ /\ ~ valid \/ (same /\ ~ Current(c))
             /\ Goto(p, "drop")
          \/ /\ valid
             /\ ~ same \/ (Current(c) /\ deadlineLeft[c.job] = 0)
             /\ Goto(p, "fail")
    /\ UNCHANGED vars

PublishBroken(p) ==
    /\ "publish" \in Faults
    /\ pc[p] = "publish"
    /\ Publish(Held(p)) \/ UNCHANGED vars
    /\ Goto(p, "fail")

\* Mutant: the refusal is written without the token being compared.
RecordRefusalOfAny(p) ==
    /\ pc[p] = "fail"
    /\ jobs' = [jobs EXCEPT ![Held(p).job].status = "native_error",
                            ![Held(p).job].token = NoToken]
    /\ UNCHANGED <<workspaceVars, authority, deadlineLeft, publications,
                   callerVars>>
    /\ Goto(p, "drop")

RecordRefusal(p) == pc[p] = "fail" /\ Fail(Held(p)) /\ Goto(p, "drop")

\* `fail` refuses, and the refusal is only logged.
RefusalRefused(p) ==
    /\ pc[p] = "fail"
    /\ ~ (LeaseValid(Held(p).owner, Held(p).epoch) /\ Current(Held(p)))
    /\ Goto(p, "drop")
    /\ UNCHANGED vars

RefusalBroken(p) ==
    /\ "fail" \in Faults
    /\ pc[p] = "fail"
    /\ Fail(Held(p)) \/ UNCHANGED vars
    /\ Goto(p, "drop")

\* `execute` returns and the claim goes out of scope.
DropClaim(p) == pc[p] = "drop" /\ DropClaims(p) /\ Goto(p, "claim")

-----------------------------------------------------------------------------
(* The heartbeat thread.                                                   *)

Beat(p) == beating[p] /\ Renew(tenure[p]) /\ UNCHANGED processVars

StopBeating(p) ==
    /\ lost' = [lost EXCEPT ![p] = TRUE]
    /\ beating' = [beating EXCEPT ![p] = FALSE]
    /\ UNCHANGED <<vars, pc, tenure>>

BeatRefused(p) ==
    /\ beating[p]
    /\ ~ LeaseValid(tenure[p], Epoch(p))
    /\ StopBeating(p)

BeatBroken(p) == "renew" \in Faults /\ beating[p] /\ StopBeating(p)

-----------------------------------------------------------------------------
Crash(p) == pc[p] # "down" /\ DropClaims(p) /\ EndProcess(p)

\* The server rolls back the open transaction of a process that is gone.
RollBackDead(o) ==
    /\ \A p \in Workers : tenure[p] # o
    /\ AcquireAbandon(o)
    /\ UNCHANGED processVars

MainThread(p) ==
    \/ StartWorker(p) \/ TryRead(p) \/ TryAbandon(p) \/ TakeTenure(p)
    \/ TakeUnnoticed(p) \/ GiveUpTrying(p) \/ NoticeLost(p) \/ TakeJob(p)
    \/ FindNothing(p) \/ ClaimRefused(p) \/ ClaimBroken(p) \/ NextTenure(p)
    \/ ReleaseAndExit(p) \/ Prepare(p) \/ RunNative(p) \/ KillNative(p)
    \/ PublishResult(p) \/ PublishRefused(p) \/ PublishBroken(p)
    \/ RecordRefusal(p) \/ RefusalRefused(p) \/ RefusalBroken(p)
    \/ DropClaim(p)

Heartbeat(p) == Beat(p) \/ BeatRefused(p) \/ BeatBroken(p)

LegacyLeasing ==
    \E o \in LegacyOwners :
        AcquireRead(o) \/ AcquireAbandon(o) \/ Acquire(o) \/ Renew(o)
        \/ Release(o)

WorkerNext ==
    \/ \E p \in Workers : MainThread(p) \/ Heartbeat(p) \/ Crash(p)
    \/ \E o \in RustOwners : RollBackDead(o)
    \/ (Submissions \/ LegacyLeasing \/ Environment) /\ UNCHANGED processVars

WorkerSpec == WorkerInit /\ [][WorkerNext]_workerVars

\* Fairness.  A process that is up keeps running and is restarted when it is
\* down; time passes.  Strong fairness where another process, or the clock,
\* can take the opportunity away again: a worker that keeps trying gets the
\* lease at last, and one that keeps getting it claims within it at last.
Progress(p) ==
    \/ StartWorker(p) \/ NoticeLost(p) \/ ClaimRefused(p) \/ NextTenure(p)
    \/ Prepare(p) \/ RunNative(p) \/ KillNative(p) \/ PublishResult(p)
    \/ PublishRefused(p) \/ RecordRefusal(p) \/ RefusalRefused(p)
    \/ DropClaim(p) \/ ReleaseAndExit(p)

FairWorkerSpec ==
    /\ WorkerSpec
    /\ WF_workerVars(Elapse /\ UNCHANGED processVars)
    /\ \A p \in Workers :
           /\ WF_workerVars(Progress(p))
           /\ SF_workerVars(TakeTenure(p))
           /\ SF_workerVars(TakeJob(p) \/ FindNothing(p))

-----------------------------------------------------------------------------
(* Properties.                                                             *)

\* The worker's steps, heartbeats, lost replies and crashes included, are
\* steps of the repository's callers: all that holds of NativeRepo holds of
\* the service (`run`, `execute`).
UsesRepository == Spec

\* A running job whose tenure goes on claiming, though no attempt of it is under
\* way there: no claim of that tenure would ever requeue it.
Unattended(p, j) ==
    /\ jobs[j].status = "native_running" /\ tenure[p] = jobs[j].owner
    /\ ~ lost[p] /\ LeaseValid(tenure[p], Epoch(p))
    /\ ~ /\ pc[p] \in {"prepare", "native", "publish", "fail"}
         /\ Held(p).job = j
         /\ Current(Held(p))

\* A job that is running is being run, by the process of the tenure in its row
\* that holds its token, or that tenure can claim no more, so that the next
\* claim, of another tenure, requeues the job (`run` takes a new tenure after
\* every loss).  Only one step leaves a job behind: `execute` could not record a
\* refusal, logs that, and goes on with the tenure.
NoStrandedJob ==
    [][\A p \in Workers, j \in Jobs :
           Unattended(p, j)' /\ ~ Unattended(p, j) => RefusalBroken(p)]_workerVars

\* A claim reaches every job that is past its original deadline, and fails it
\* ("Jobs past their original deadline ... fail here", `claim`).
ExpiredJobsFailAtClaim ==
    \A p \in Workers, j \in Jobs :
        /\ pc[p] = "claim" /\ ~ lost[p] /\ LeaseValid(tenure[p], Epoch(p))
        /\ jobs[j].status \in Active /\ deadlineLeft[j] = 0
        => j \in Pending(tenure[p])

\* Nothing is published of a job whose admission row was edited or deleted,
\* before or after the claim (`attempt`, `publish`).
OnlyAdmittedAuthority ==
    [][\A j \in Jobs : publications'[j] # publications[j] =>
           authority[j] = "admitted"]_workerVars

\* Every job that was admitted ends, whatever crashes, losses and takeovers
\* there are: the attempts and the deadline run out.  The one exception is a
\* job that stays running under a tenure that no longer knows of it, because
\* its refusal could not be recorded (`execute`, `fail`).
Stranded(j) ==
    /\ jobs[j].status = "native_running"
    /\ \E p \in Workers : tenure[p] = jobs[j].owner
    /\ ~ \E c \in claims : c.job = j /\ Current(c)

EveryJobEnds ==
    \A j \in Jobs :
        jobs[j].status \in Active ~>
            \/ jobs[j].status \in Terminal
            \/ "fail" \in Faults /\ Stranded(j)
==============================================================================
