----------------------------- MODULE LegacyWorker -----------------------------
(***************************************************************************)
(* The Python worker process (apps/api/app/worker.py) and the decision     *)
(* sessions it keeps in memory (decision_store.py), on top of LegacyRepo.  *)
(* A process is named by its lease identity, db.WORKER.  Its threads are   *)
(* the loop that recovers, claims, computes and publishes; the heartbeat;  *)
(* and the request thread that evaluates an allocation in a session.  BUSY *)
(* keeps the loop's computations and the evaluations apart.                *)
(*                                                                         *)
(* A session is what its journal says: the updates applied since it was    *)
(* built, here the jobs that asked for them, so that its version is one    *)
(* more than their number.  `db.refresh` needs no variable: every use of   *)
(* the loaded inputs is preceded by it and compared with the head.         *)
(***************************************************************************)
EXTENDS LegacyRepo, Sequences

CONSTANT Faults     \* transactions that may commit without the reply arriving

ASSUME LegacyWorkerAssumption ==
    /\ Bodies \subseteq [op: {"run", "build", "library"}]
                  \cup [op: {"update"}, sid: Sids, version: Nat]
    /\ \A b \in Bodies : b.op = "build" => 1 \in Versions
    /\ \A b \in Bodies : b.op = "update" => b.version + 1 \in Versions
    /\ Faults \subseteq {"claim", "complete", "error"}

VARIABLES
    journals,   \* the journal the manifest of a `sessions` row holds
    phase,      \* where the loop is; "down" while the process does not exist
    stopping,   \* STOP
    memory,     \* store.DECISIONS
    restoring,  \* the rows `recover` still has to rebuild
    doing,      \* session and journal the current job is about to publish
    serving     \* the evaluation under way, if any

workVars == <<phase, stopping, memory, restoring, doing, serving>>
workerVars == <<vars, journals, workVars>>

Journal == Seq(Jobs)
Item == [revision: 0 .. MaxRevision, journal: Journal]
NoItem == [revision |-> -1, journal |-> <<>>]
NoItems == [s \in Sids |-> NoItem]

Nothing == [kind |-> "none"]
Work == {Nothing, [kind |-> "library"]}
        \cup [kind: {"session"}, sid: Sids, journal: Journal]

Phases == {"down", "starting", "recovering", "rebuilding", "idle", "claimed",
           "computing", "adopted", "publishing", "failing", "ended"}

LegacyWorkerTypeOK ==
    /\ LegacyTypeOK
    /\ journals \in [Sids -> Journal]
    /\ phase \in [LegacyOwners -> Phases]
    /\ stopping \in [LegacyOwners -> BOOLEAN]
    /\ memory \in [LegacyOwners -> [Sids -> Item \cup {NoItem}]]
    /\ restoring \in [LegacyOwners -> [Sids -> Item \cup {NoItem}]]
    /\ doing \in [LegacyOwners -> Work]
    /\ serving \in [LegacyOwners -> SUBSET (Sids \X Journal)]

LegacyWorkerInit ==
    /\ Init
    /\ journals = [s \in Sids |-> <<>>]
    /\ phase = [o \in LegacyOwners |-> "down"]
    /\ stopping = [o \in LegacyOwners |-> FALSE]
    /\ memory = [o \in LegacyOwners |-> NoItems]
    /\ restoring = [o \in LegacyOwners |-> NoItems]
    /\ doing = [o \in LegacyOwners |-> Nothing]
    /\ serving = [o \in LegacyOwners |-> {}]

-----------------------------------------------------------------------------
Held(o) == CHOOSE c \in claims : c.owner = o
Body(o) == jobs[Held(o).job].request.body
InputsOf(o) == jobs[Held(o).job].request.revision

Goto(o, next) == phase' = [phase EXCEPT ![o] = next]

\* `assert_current`: the head is the revision and the lease is held.
AssertCurrent(o, n) == revision = n /\ Holds(o)

\* `entry`: the session may be used at this revision.
Entry(o, s, n) ==
    /\ AssertCurrent(o, n)
    /\ ~ sessions[s].closed
    /\ memory[o][s].revision = n

VersionOf(item) == 1 + Len(item.journal)
InMemory(o) == {s \in Sids : memory[o][s] # NoItem}

\* An identity no row, transaction or process names any more: uuid4.
Fresh(o) ==
    /\ phase[o] = "down"
    /\ o # owner
    /\ reading[o] = NoRead
    /\ \A j \in ActiveJobs : jobs[j].owner # o

-----------------------------------------------------------------------------
(* The life of a process.                                                  *)

Start(o) ==
    /\ Fresh(o)
    /\ Goto(o, "starting")
    /\ UNCHANGED <<vars, journals, stopping, memory, restoring, doing, serving>>

AskRoute(o) ==
    phase[o] = "starting" /\ AcquireRead(o) /\ UNCHANGED <<journals, workVars>>

Lead(o) ==
    /\ phase[o] = "starting"
    /\ Acquire(o)
    /\ Goto(o, "recovering")
    /\ UNCHANGED <<journals, stopping, memory, restoring, doing, serving>>

End(o) ==
    /\ Goto(o, "ended")
    /\ stopping' = [stopping EXCEPT ![o] = TRUE]
    /\ restoring' = [restoring EXCEPT ![o] = NoItems]
    /\ doing' = [doing EXCEPT ![o] = Nothing]
    /\ UNCHANGED <<journals, memory, serving>>

\* The lease is another's or the route is Rust's: the loop ends at once.
LeadRefused(o) ==
    /\ phase[o] = "starting"
    /\ \/ Serializable /\ engine # EngineOf(o) /\ UNCHANGED vars
       \/ Serializable /\ leaseLeft >= 0 /\ owner # o /\ UNCHANGED vars
       \/ ~ Serializable /\ reading[o] = NoRead /\ engine # EngineOf(o)
              /\ UNCHANGED vars
       \/ leaseLeft >= 0 /\ owner # o /\ AcquireAbandon(o)
    /\ End(o)

Gone(o) ==
    /\ Goto(o, "down")
    /\ stopping' = [stopping EXCEPT ![o] = FALSE]
    /\ memory' = [memory EXCEPT ![o] = NoItems]
    /\ restoring' = [restoring EXCEPT ![o] = NoItems]
    /\ doing' = [doing EXCEPT ![o] = Nothing]
    /\ serving' = [serving EXCEPT ![o] = {}]
    /\ UNCHANGED journals

\* An orderly shutdown of a process whose loop has ended.
Quit(o) ==
    /\ phase[o] = "ended"
    /\ \/ Release(o)
       \/ owner # o /\ UNCHANGED vars
    /\ Gone(o)

\* The process ends at any other point, or is told to while it computes: the
\* loop is a daemon thread, and the lease is left to expire.
Crash(o) ==
    /\ phase[o] # "down"
    /\ claims' = {c \in claims : c.owner # o}
    /\ UNCHANGED <<workspaceVars, repoVars, submitting, receipts>>
    /\ Gone(o)

\* The database server rolls the dead process's open transaction back.
RollBackDead(o) ==
    /\ phase[o] \in {"down", "ended"}
    /\ AcquireAbandon(o)
    /\ UNCHANGED <<journals, workVars>>

-----------------------------------------------------------------------------
(* The heartbeat thread.  A renewal that fails is tried again.             *)

Beat(o) ==
    /\ phase[o] # "down" /\ ~ stopping[o]
    /\ Renew(o)
    /\ UNCHANGED <<journals, workVars>>

\* One refused renewal, also one that comes before the lease is acquired,
\* stops the process for good.
BeatRefused(o) ==
    /\ phase[o] # "down" /\ ~ stopping[o]
    /\ ~ Holds(o)
    /\ stopping' = [stopping EXCEPT ![o] = TRUE]
    /\ UNCHANGED <<vars, journals, phase, memory, restoring, doing, serving>>

-----------------------------------------------------------------------------
(* `recover`: rebuild every open session of the head from its journal.     *)

\* All of `saved_sessions` is read at once; what was in memory is closed.
RecoverRead(o) ==
    /\ phase[o] = "recovering"
    /\ memory' = [memory EXCEPT ![o] = NoItems]
    /\ restoring' = [restoring EXCEPT ![o] = [s \in Sids |->
           IF sessions[s].version > 0 /\ ~ sessions[s].closed
                  /\ sessions[s].revision = revision
           THEN [revision |-> revision, journal |-> journals[s]]
           ELSE NoItem]]
    /\ Goto(o, "rebuilding")
    /\ UNCHANGED <<vars, journals, stopping, doing, serving>>

\* Build and replay; `update` looks the session up, and so minds a close.
CanRebuild(o, s) ==
    /\ AssertCurrent(o, restoring[o][s].revision)
    /\ restoring[o][s].journal # <<>> => ~ sessions[s].closed

RecoverSession(o, s) ==
    /\ phase[o] = "rebuilding"
    /\ restoring[o][s] # NoItem
    /\ CanRebuild(o, s)
    /\ memory' = [memory EXCEPT ![o][s] = restoring[o][s]]
    /\ restoring' = [restoring EXCEPT ![o][s] = NoItem]
    /\ UNCHANGED <<vars, journals, phase, stopping, doing, serving>>

\* An input edit, a close or a lost lease during recovery ends the loop.
RecoverFailed(o, s) ==
    /\ phase[o] = "rebuilding"
    /\ restoring[o][s] # NoItem
    /\ ~ CanRebuild(o, s)
    /\ End(o)
    /\ UNCHANGED vars

Recovered(o) ==
    /\ phase[o] = "rebuilding"
    /\ restoring[o] = NoItems
    /\ Goto(o, "idle")
    /\ UNCHANGED <<vars, journals, stopping, memory, restoring, doing, serving>>

-----------------------------------------------------------------------------
(* The loop between two jobs.                                              *)

Stopped(o) ==
    /\ phase[o] = "idle" /\ stopping[o]
    /\ End(o)
    /\ UNCHANGED vars

Unowned(o) ==
    /\ phase[o] = "idle" /\ ~ stopping[o]
    /\ ~ Holds(o)
    /\ End(o)
    /\ UNCHANGED vars

\* What is still open is kept in memory; the rest is closed before the claim.
StillOpen(o) == [s \in Sids |->
    IF sessions[s].closed THEN NoItem ELSE memory[o][s]]

MayClaim(o) == phase[o] = "idle" /\ ~ stopping[o] /\ Holds(o)

Claimed(o) ==
    /\ MayClaim(o)
    /\ \E j \in Jobs, t \in Tokens : ClaimJob(o, j, t)
    /\ \E c \in claims' : c.owner = o
    /\ memory' = [memory EXCEPT ![o] = StillOpen(o)]
    /\ Goto(o, "claimed")
    /\ UNCHANGED <<journals, stopping, restoring, doing, serving>>

\* There is nothing to claim, or the job to claim has had its attempts.
ClaimedNothing(o) ==
    /\ MayClaim(o)
    /\ \/ Pending(o) = {} /\ UNCHANGED vars
       \/ \E j \in Jobs : ClaimExhausted(o, j)
    /\ memory' = [memory EXCEPT ![o] = StillOpen(o)]
    /\ UNCHANGED <<journals, phase, stopping, restoring, doing, serving>>

\* Mutant: the loop catches the error and goes on.
LoopSurvives(o) ==
    /\ Goto(o, "idle")
    /\ doing' = [doing EXCEPT ![o] = Nothing]
    /\ UNCHANGED <<journals, stopping, memory, restoring, serving>>
\* A database error in the loop is not caught there: the loop ends.
LoopBreaks(o) == End(o)

\* The claim may have been committed.
ClaimBroken(o) ==
    /\ "claim" \in Faults
    /\ MayClaim(o)
    /\ \/ \E j \in Jobs, t \in Tokens : ClaimJob(o, j, t) /\ claims' = claims
       \/ UNCHANGED vars
    /\ LoopBreaks(o)

-----------------------------------------------------------------------------
(* `execute`, under BUSY.                                                  *)

\* The loop waits for an evaluation to end.
MayCompute(o) == serving[o] = {}

\* What the handler computes without touching a session.
Compute(o) ==
    /\ phase[o] = "claimed" /\ MayCompute(o)
    /\ Body(o).op \in {"run", "library"}
    /\ doing' = [doing EXCEPT ![o] =
           IF Body(o).op = "run" THEN Nothing ELSE [kind |-> "library"]]
    /\ Goto(o, "publishing")
    /\ UNCHANGED <<vars, journals, stopping, memory, restoring, serving>>

\* The handler or its verification refuses, whatever the job.
ComputeRefused(o) ==
    /\ phase[o] \in {"claimed", "computing"} /\ MayCompute(o)
    /\ Goto(o, "failing")
    /\ UNCHANGED <<vars, journals, stopping, memory, restoring, doing, serving>>

\* `build` closes, durably and with or without the lease, the sessions of
\* this process that are idle for long, of other inputs or closed by now.
BuildExpires(o, s) ==
    /\ phase[o] = "claimed" /\ MayCompute(o)
    /\ Body(o).op = "build"
    /\ memory[o][s] # NoItem
    /\ \/ CloseSession(s)
       \/ sessions[s].closed /\ UNCHANGED vars
    /\ memory' = [memory EXCEPT ![o][s] = NoItem]
    /\ UNCHANGED <<journals, phase, stopping, restoring, doing, serving>>

\* Session identifiers no row and no process names: uuid4.
FreshSids ==
    {s \in Sids : sessions[s].version = 0
                  /\ \A o \in LegacyOwners : memory[o][s] = NoItem}

\* The session under a new identifier, once nothing expired is left.
Build(o) ==
    /\ phase[o] = "claimed" /\ MayCompute(o)
    /\ Body(o).op = "build"
    /\ \A s \in InMemory(o) : memory[o][s].revision = InputsOf(o)
    /\ AssertCurrent(o, InputsOf(o))
    /\ \E s \in FreshSids :
        /\ memory' = [memory EXCEPT ![o][s] =
               [revision |-> InputsOf(o), journal |-> <<>>]]
        /\ doing' = [doing EXCEPT ![o] =
               [kind |-> "session", sid |-> s, journal |-> <<>>]]
    /\ Goto(o, "publishing")
    /\ UNCHANGED <<vars, journals, stopping, restoring, serving>>

\* The entry check and the version check an update starts with.
UpdateMayStart(o, s) ==
    /\ Entry(o, s, InputsOf(o))
    /\ Body(o).version = VersionOf(memory[o][s])

UpdateStart(o) ==
    /\ phase[o] = "claimed" /\ MayCompute(o)
    /\ Body(o).op = "update"
    /\ UpdateMayStart(o, Body(o).sid)
    /\ Goto(o, "computing")
    /\ UNCHANGED <<vars, journals, stopping, memory, restoring, doing, serving>>

\* The session takes the candidate on, under the publication guard: from here
\* memory is ahead of the journal until the job commits.
UpdateAdopt(o) ==
    /\ phase[o] = "computing"
    /\ AssertCurrent(o, InputsOf(o))
    /\ memory' = [memory EXCEPT ![o][Body(o).sid].journal =
           Append(@, Held(o).job)]
    /\ Goto(o, "adopted")
    /\ UNCHANGED <<vars, journals, stopping, restoring, doing, serving>>

\* The journal to publish: the one of the row, with this update appended.
ReadJournal(o) ==
    LET s == Body(o).sid IN
    /\ phase[o] = "adopted"
    /\ sessions[s].version > 0 /\ ~ sessions[s].closed
    /\ doing' = [doing EXCEPT ![o] =
           [kind |-> "session", sid |-> s,
            journal |-> Append(journals[s], Held(o).job)]]
    /\ Goto(o, "publishing")
    /\ UNCHANGED <<vars, journals, stopping, memory, restoring, serving>>

ReadJournalRefused(o) ==
    LET s == Body(o).sid IN
    /\ phase[o] = "adopted"
    /\ sessions[s].version = 0 \/ sessions[s].closed
    /\ Goto(o, "failing")
    /\ UNCHANGED <<vars, journals, stopping, memory, restoring, doing, serving>>

\* The version published is the one the session in memory reports.
Attachment(o) ==
    IF doing[o].kind = "session"
    THEN [kind |-> "session", sid |-> doing[o].sid,
          version |-> VersionOf(memory[o][doing[o].sid])]
    ELSE doing[o]

JournalsAfter(o) ==
    IF doing[o].kind = "session"
    THEN [journals EXCEPT ![doing[o].sid] = doing[o].journal] ELSE journals

\* The attempt is over, and the process forgets it.
Dismiss(o) == claims' = claims \ {Held(o)}

Publish(o) ==
    /\ phase[o] = "publishing"
    /\ Complete(Held(o), Attachment(o))
    /\ Dismiss(o)
    /\ journals' = JournalsAfter(o)
    /\ doing' = [doing EXCEPT ![o] = Nothing]
    /\ Goto(o, "idle")
    /\ UNCHANGED <<stopping, memory, restoring, serving>>

\* `complete` is a conflict, or something before it fails.
PublishFailed(o) ==
    /\ phase[o] = "publishing"
    /\ Goto(o, "failing")
    /\ UNCHANGED <<vars, journals, stopping, memory, restoring, doing, serving>>

\* The output of a build cannot be written: the new session is in memory, but
\* `sid` is not set yet.
PublishFailedEarly(o) ==
    /\ phase[o] = "publishing"
    /\ Body(o).op = "build"
    /\ doing' = [doing EXCEPT ![o] = Nothing]
    /\ Goto(o, "failing")
    /\ UNCHANGED <<vars, journals, stopping, memory, restoring, serving>>

\* `complete` commits and its reply is lost.
PublishUnnoticed(o) ==
    /\ "complete" \in Faults
    /\ phase[o] = "publishing"
    /\ Complete(Held(o), Attachment(o))
    /\ claims' = claims
    /\ journals' = JournalsAfter(o)
    /\ Goto(o, "failing")
    /\ UNCHANGED <<stopping, memory, restoring, doing, serving>>

\* The sessions an aborted job may have changed: closed in memory, and a
\* reason to recover.
Touched(o) ==
    IF Body(o).op = "update" THEN {Body(o).sid}
    ELSE IF doing[o].kind = "session" THEN {doing[o].sid} ELSE {}

\* Mutant: the sessions are left as the aborted job made them.
NothingRestored(o) ==
    Goto(o, "idle") /\ UNCHANGED memory
\* "Restore the last committed session after a failed/aborted mutation."
Restore(o) ==
    /\ Goto(o, IF Touched(o) # {} /\ Holds(o) THEN "recovering" ELSE "idle")
    /\ memory' = [memory EXCEPT ![o] = [s \in Sids |->
           IF s \in Touched(o) THEN NoItem ELSE memory[o][s]]]

Aborted(o) ==
    /\ Restore(o)
    /\ doing' = [doing EXCEPT ![o] = Nothing]
    /\ UNCHANGED <<journals, stopping, restoring, serving>>

RecordError(o) ==
    /\ phase[o] = "failing"
    /\ CompleteError(Held(o)) /\ Dismiss(o)
    /\ Aborted(o)

\* "Cancellation or a replacement owner already won publication."
ErrorRefused(o) ==
    /\ phase[o] = "failing"
    /\ ~ (MayReport(Held(o)) /\ Current(Held(o)))
    /\ Forget(Held(o))
    /\ Aborted(o)

\* Any other exception leaves `execute`, and ends the loop.
ErrorBroken(o) ==
    /\ "error" \in Faults
    /\ phase[o] = "failing"
    /\ \/ CompleteError(Held(o)) /\ Dismiss(o)
       \/ Forget(Held(o))
    /\ LoopBreaks(o)

-----------------------------------------------------------------------------
(* The request thread: `evaluate`, with BUSY held, and only while the loop *)
(* does not hold it.                                                       *)

\* Mutant: the request does not take BUSY.
Ready(o) == phase[o] \notin {"down", "starting", "ended"}
Free(o) == phase[o] \in {"idle", "claimed"}

EvalStart(o, s) ==
    /\ Free(o) /\ serving[o] = {}
    /\ sessions[s].version > 0
    /\ memory[o][s] # NoItem
    /\ Entry(o, s, memory[o][s].revision)
    /\ serving' = [serving EXCEPT ![o] = {<<s, memory[o][s].journal>>}]
    /\ UNCHANGED <<vars, journals, phase, stopping, memory, restoring, doing>>

\* The session is looked up once more, and the result returned or not.
EvalEnd(o) ==
    /\ serving[o] # {}
    /\ serving' = [serving EXCEPT ![o] = {}]
    /\ UNCHANGED <<vars, journals, phase, stopping, memory, restoring, doing>>

-----------------------------------------------------------------------------
Life(o) ==
    \/ Start(o) \/ AskRoute(o) \/ Lead(o) \/ LeadRefused(o)
    \/ Quit(o) \/ Crash(o) \/ RollBackDead(o)
    \/ Beat(o) \/ BeatRefused(o)

Recovery(o) ==
    \/ RecoverRead(o) \/ Recovered(o)
    \/ \E s \in Sids : RecoverSession(o, s) \/ RecoverFailed(o, s)

Loop(o) ==
    \/ Stopped(o) \/ Unowned(o)
    \/ Claimed(o) \/ ClaimedNothing(o) \/ ClaimBroken(o)

Execution(o) ==
    \/ Compute(o) \/ ComputeRefused(o)
    \/ \E s \in Sids : BuildExpires(o, s)
    \/ Build(o) \/ UpdateStart(o) \/ UpdateAdopt(o)
    \/ ReadJournal(o) \/ ReadJournalRefused(o)
    \/ Publish(o) \/ PublishFailed(o) \/ PublishFailedEarly(o)
    \/ PublishUnnoticed(o)
    \/ RecordError(o) \/ ErrorRefused(o) \/ ErrorBroken(o)

Requests(o) == EvalEnd(o) \/ \E s \in Sids : EvalStart(o, s)

\* The API processes, the Rust tooling and the clock.
Others ==
    /\ Submissions \/ Editing \/ Environment
    /\ UNCHANGED <<journals, workVars>>

LegacyWorkerNext ==
    \/ \E o \in LegacyOwners :
           Life(o) \/ Recovery(o) \/ Loop(o) \/ Execution(o) \/ Requests(o)
    \/ Others

LegacyWorkerSpec == LegacyWorkerInit /\ [][LegacyWorkerNext]_workerVars

\* The threads of a process go on, and time passes.  Weak fairness only: BUSY is
\* a threading.Lock, which promises no order among those who wait for it, and
\* claims, jobs and processes may come and go for ever.  Nothing has to start a
\* process, to renew a lease or to submit anything.
LegacyFairness ==
    /\ \A o \in LegacyOwners :
        /\ WF_workerVars(Recovery(o) \/ Loop(o) \/ Execution(o))
        /\ WF_workerVars(EvalEnd(o))
    /\ WF_workerVars(Elapse /\ UNCHANGED <<journals, workVars>>)

-----------------------------------------------------------------------------
(* Safety.                                                                 *)

\* What a worker would evaluate an allocation against is the session as its
\* last committed update left it: "Never expose a candidate before its
\* durable journal commits" (`evaluate`, `entry`, `execute`, `recover`).  It
\* holds of an evaluation under way as long as its result would be returned,
\* and of every session that could be asked for.
ServesWhatIsCommitted ==
    \A o \in LegacyOwners, s \in Sids :
        memory[o][s] # NoItem /\ Entry(o, s, memory[o][s].revision)
            /\ sessions[s].version > 0 =>
            /\ \A e \in serving[o] : e[1] = s => e[2] = journals[s]
            /\ Free(o) => memory[o][s].journal = journals[s]

\* A journal can be replayed: its k-th update was asked for at version k, and
\* at the inputs the session was built from; it holds every update of the
\* session that was reported done, once; and the row's version counts them.
JournalsReplay ==
    \A s \in Sids : sessions[s].version > 0 =>
        /\ sessions[s].version = 1 + Len(journals[s])
        /\ \A j \in sessions[s].manifest :
               jobs[j].request.revision = sessions[s].revision
        /\ \A k \in DOMAIN journals[s] :
               LET q == jobs[journals[s][k]].request IN
               q.body = [op |-> "update", sid |-> s, version |-> k]
               /\ q.revision = sessions[s].revision
        /\ {j \in Jobs : jobs[j].status = "done"
                /\ jobs[j].request.body.op = "update"
                /\ jobs[j].request.body.sid = s}
               = {journals[s][k] : k \in DOMAIN journals[s]}

\* A worker that goes on claiming left none of its jobs running: no claim of
\* its own would ever requeue it (`claim`, `execute`, `loop`).
NoStrandedLegacyJob ==
    \A o \in LegacyOwners : phase[o] = "idle" /\ Holds(o) =>
        \A j \in Jobs : jobs[j].status = "running" => jobs[j].owner # o

\* A worker whose loop goes on and which keeps the lease.
Leads(o) ==
    Holds(o) /\ ~ stopping[o] /\ phase[o] \notin {"down", "starting", "ended"}

\* What the loop needs: from some moment on one worker leads, whatever crashes,
\* takeovers and failures came before, and evaluations do not take BUSY before
\* the loop for ever, as the lock would let them (`loop`, `heartbeat`).
LedInTheEnd ==
    /\ <>[](\E o \in LegacyOwners : Leads(o))
    /\ <>[](\A o \in LegacyOwners : serving[o] = {})

InteractiveWaits ==
    \E j \in Jobs : jobs[j].status = "queued" /\ ~ InBackground(j)

\* Then every interactive job ends, also one that an earlier worker left
\* running, however many jobs of either priority are submitted after it.  A
\* background job ends too, or whenever it is looked at an interactive one will
\* be waiting again: `claim` takes those first, however long the other has
\* waited (`claim`, `recover`, `execute`).
EveryLegacyJobEnds ==
    LedInTheEnd =>
        \A j \in Jobs :
            jobs[j].status \in Active ~>
                \/ jobs[j].status \in {"done", "error"}
                \/ InBackground(j) /\ InteractiveWaits
==============================================================================
