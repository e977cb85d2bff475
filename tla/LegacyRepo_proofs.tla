-------------------------- MODULE LegacyRepo_proofs --------------------------
(***************************************************************************)
(* Proofs about LegacyRepo, for every number of workers, jobs, sessions,   *)
(* keys and submissions under way, every length of lease and of queue, and *)
(* on both databases.                                                      *)
(***************************************************************************)
EXTENDS LegacyRepo, FiniteSetTheorems, TLAPS

-----------------------------------------------------------------------------
(* Type correctness.                                                       *)

\* What the shared row and the route are is kept by every action on them.
LEMMA WorkspaceTyped ==
    ASSUME WorkspaceTypeOK, revision <= MaxRevision, Leasing \/ Editing \/ Environment
    PROVE  WorkspaceTypeOK' /\ revision' <= MaxRevision
<1>. USE WorkspaceAssumption DEF WorkspaceTypeOK, row, route
<1>1. CASE Leasing
  <2>1. PICK o \in LegacyOwners :
            AcquireRead(o) \/ AcquireAbandon(o) \/ Acquire(o) \/ Renew(o) \/ Release(o)
    BY <1>1 DEF Leasing
  <2>2. o \in Owners
    BY DEF Owners
  <2>3. CASE AcquireRead(o)
    BY <2>2, <2>3 DEF AcquireRead, ReadRoute, NoRead
  <2>4. CASE AcquireAbandon(o)
    BY <2>2, <2>4 DEF AcquireAbandon, AbandonRead, NoRead
  <2>5. CASE Acquire(o)
    BY <2>2, <2>5 DEF Acquire, TakeLease, NoRead
  <2>6. CASE Renew(o)
    BY <2>2, <2>6 DEF Renew, ExtendLease
  <2>7. CASE Release(o)
    BY <2>2, <2>7 DEF Release, ReleaseLease
  <2>. QED BY <2>1, <2>3, <2>4, <2>5, <2>6, <2>7
<1>2. CASE Editing
  <2>1. CASE \E expected \in 0 .. MaxRevision : SaveRevision(expected)
    BY <2>1 DEF SaveRevision, AdvanceRevision
  <2>2. CASE \E s \in Sids : CloseSession(s)
    BY <2>2 DEF CloseSession, workspaceVars
  <2>. QED BY <1>2, <2>1, <2>2 DEF Editing
<1>3. CASE Environment
  <2>1. CASE \E target \in {"rust", "legacy"}, drained \in BOOLEAN :
                 RouteChange(target, drained)
    BY <2>1 DEF RouteChange, SetRoute
  <2>2. CASE Elapse
    BY <2>2 DEF Elapse, LeaseElapses
  <2>. QED BY <1>3, <2>1, <2>2 DEF Environment
<1>. QED BY <1>1, <1>2, <1>3

LEMMA RequeuedTyped ==
    ASSUME NEW r \in JobRow
    PROVE  Requeued(r) \in JobRow
BY DEF JobRow, Requeued, Statuses, Active

LEMMA FailedTyped ==
    ASSUME NEW r \in JobRow
    PROVE  [r EXCEPT !.status = "error"] \in JobRow
BY DEF JobRow, Statuses

LEMMA StartedTyped ==
    ASSUME NEW r \in JobRow, NEW o \in Owners, NEW t \in Tokens
    PROVE  [r EXCEPT !.status = "running", !.owner = o, !.token = t,
                     !.attempt = @ + 1] \in JobRow
<1>1. r.attempt + 1 \in Nat
  BY DEF JobRow
<1>2. "running" \in Statuses /\ o \in Owners \cup {NoOwner} /\ t \in Tokens \cup {NoToken}
  BY DEF Statuses, Active
<1>. QED BY <1>1, <1>2 DEF JobRow

LEMMA RequeueTyped ==
    ASSUME LegacyTypeOK, NEW o
    PROVE  Requeue(o) \in [Jobs -> JobRow]
<1>. SUFFICES ASSUME NEW j \in Jobs
              PROVE  jobs[j] \in JobRow /\ Requeued(jobs[j]) \in JobRow
  BY DEF Requeue
<1>. QED BY RequeuedTyped DEF LegacyTypeOK

LEMMA InitTyped == Init => LegacyTypeOK
<1>. SUFFICES ASSUME Init PROVE LegacyTypeOK
  OBVIOUS
<1>1. WorkspaceTypeOK /\ revision <= MaxRevision
  BY WorkspaceAssumption DEF Init, WorkspaceInit, WorkspaceTypeOK, NoRead
<1>2. NoJob \in JobRow
  <2>1. (CHOOSE b \in Bodies : TRUE) \in Bodies /\ (CHOOSE t \in Stamps : TRUE) \in Stamps
    BY LegacyRepoAssumption
  <2>2. 0 \in 0 .. MaxRevision
    BY WorkspaceAssumption
  <2>. QED BY <2>1, <2>2 DEF NoJob, JobRow, Submission, Statuses
<1>3. NoRow \in SessionRow
  BY DEF NoRow, SessionRow
<1>. QED BY <1>1, <1>2, <1>3 DEF Init, LegacyTypeOK

\* A submission adds an answer for its key, if it has one.
LEMMA AnsweredTyped ==
    ASSUME LegacyTypeOK, NEW q \in Submission, NEW j \in Jobs
    PROVE  Answered(q, j) \in SUBSET Receipt
BY DEF LegacyTypeOK, Answered, Submission, Receipt

LEMMA SubmissionsTyped ==
    ASSUME LegacyTypeOK, Submissions
    PROVE  LegacyTypeOK'
<1>. USE DEF LegacyTypeOK, repoVars, callerVars
<1>1. UNCHANGED workspaceVars => WorkspaceTypeOK' /\ revision' <= MaxRevision
  BY DEF WorkspaceTypeOK, workspaceVars
<1>2. ASSUME NEW q \in Submission, SubmitAgain(q) PROVE LegacyTypeOK'
  BY <1>1, <1>2, AnsweredTyped DEF SubmitAgain, Admitted
<1>3. ASSUME NEW h \in Callers, NEW q \in Submission, SubmitCheck(h, q)
      PROVE  LegacyTypeOK'
  BY <1>1, <1>3 DEF SubmitCheck
<1>4. ASSUME NEW q \in Submission, Insert(q),
             submitting' \in [Callers -> SUBSET Submission]
      PROVE  LegacyTypeOK'
  <2>1. PICK j \in Jobs \ Admitted :
            /\ jobs' = [jobs EXCEPT ![j] =
                   [status |-> "queued", owner |-> NoOwner, token |-> NoToken,
                    attempt |-> 0, created |-> Cardinality(Admitted) + 1,
                    request |-> q]]
            /\ receipts' = Answered(q, j)
    BY <1>4 DEF Insert
  <2>2. Cardinality(Admitted) \in Nat
    BY LegacyRepoAssumption, FS_CardinalityType, FS_Subset DEF Admitted
  <2>3. jobs' \in [Jobs -> JobRow]
    BY <2>1, <2>2 DEF JobRow, Statuses, Active
  <2>. QED BY <1>1, <1>4, <2>1, <2>3, AnsweredTyped DEF Insert
<1>5. ASSUME NEW q \in Submission, EnqueueKeyless(q) PROVE LegacyTypeOK'
  BY <1>4, <1>5 DEF EnqueueKeyless
<1>6. ASSUME NEW h \in Callers, NEW q \in submitting[h], Enqueue(h, q)
      PROVE  LegacyTypeOK'
  BY <1>4, <1>6 DEF Enqueue
<1>7. ASSUME NEW h \in Callers, NEW q \in submitting[h], EnqueueSame(h, q)
      PROVE  LegacyTypeOK'
  BY <1>1, <1>7, AnsweredTyped DEF EnqueueSame, Admitted
<1>8. ASSUME NEW h \in Callers, SubmitRefused(h) PROVE LegacyTypeOK'
  BY <1>1, <1>8 DEF SubmitRefused
<1>9. ASSUME NEW j \in Jobs, Cancel(j) PROVE LegacyTypeOK'
  <2>1. [jobs[j] EXCEPT !.status = "error", !.token = NoToken] \in JobRow
    BY DEF JobRow, Statuses
  <2>. QED BY <1>1, <1>9, <2>1 DEF Cancel
<1>. QED BY <1>2, <1>3, <1>5, <1>6, <1>7, <1>8, <1>9 DEF Submissions

LEMMA SessionAttachment ==
    ASSUME NEW a \in Attachments, a.kind = "session"
    PROVE  a.sid \in Sids /\ a.version \in Nat /\ a.version > 0
<1>1. a \in [kind: {"session"}, sid: Sids, version: Versions]
  BY DEF Attachments
<1>2. a.sid \in Sids /\ a.version \in Versions
  BY <1>1
<1>3. a.version \in Nat \ {0}
  BY <1>2, LegacyRepoAssumption
<1>. QED BY <1>2, <1>3

LEMMA WorkingTyped ==
    ASSUME LegacyTypeOK, Working
    PROVE  LegacyTypeOK'
<1>. USE DEF LegacyTypeOK, repoVars, callerVars
<1>1. UNCHANGED workspaceVars => WorkspaceTypeOK' /\ revision' <= MaxRevision
  BY DEF WorkspaceTypeOK, workspaceVars
<1>2. ASSUME NEW o \in LegacyOwners, NEW j \in Jobs, NEW t \in Tokens, ClaimJob(o, j, t)
      PROVE  LegacyTypeOK'
  <2>1. o \in Owners
    BY DEF Owners
  <2>2. [jobs[j] EXCEPT !.status = "running", !.owner = o, !.token = t,
                        !.attempt = @ + 1] \in JobRow
    BY <2>1, StartedTyped
  <2>3. jobs' \in [Jobs -> JobRow]
    BY <1>2, <2>2, RequeueTyped DEF ClaimJob
  <2>4. [job |-> j, owner |-> o, token |-> t, attempt |-> jobs[j].attempt + 1] \in Claim
    BY DEF Claim, JobRow
  <2>. QED BY <1>1, <1>2, <2>3, <2>4 DEF ClaimJob
<1>3. ASSUME NEW o \in LegacyOwners, NEW j \in Jobs, ClaimExhausted(o, j)
      PROVE  LegacyTypeOK'
  <2>1. [Requeued(jobs[j]) EXCEPT !.status = "error"] \in JobRow
    BY RequeuedTyped, FailedTyped
  <2>. QED BY <1>1, <1>3, <2>1, RequeueTyped DEF ClaimExhausted
<1>4. ASSUME NEW c \in claims, NEW a \in Attachments, Complete(c, a)
      PROVE  LegacyTypeOK'
  <2>1. c \in Claim /\ c.job \in Jobs
    BY DEF Claim
  <2>2. jobs' \in [Jobs -> JobRow]
    BY <1>4, <2>1 DEF Complete, JobRow, Statuses
  <2>3. sessions' \in [Sids -> SessionRow]
    <3>1. ASSUME a.kind = "session" PROVE Saved(a.sid, a.version, c.job) \in SessionRow
      <4>1. a.sid \in Sids /\ a.version \in Nat
        BY <3>1, SessionAttachment
      <4>2. sessions[a.sid] \in SessionRow /\ revision \in Nat
        BY <4>1 DEF WorkspaceTypeOK
      <4>. QED BY <2>1, <4>1, <4>2 DEF Saved, SessionRow
    <3>. QED BY <1>4, <3>1 DEF Complete
  <2>4. libraries' \in [0 .. MaxRevision -> SUBSET Jobs]
    BY <1>4, <2>1 DEF Complete
  <2>. QED BY <1>1, <1>4, <2>2, <2>3, <2>4 DEF Complete, Report
<1>5. ASSUME NEW c \in claims, CompleteError(c) PROVE LegacyTypeOK'
  <2>1. c.job \in Jobs
    BY DEF Claim
  <2>2. jobs' \in [Jobs -> JobRow]
    BY <1>5, <2>1 DEF CompleteError, JobRow, Statuses
  <2>. QED BY <1>1, <1>5, <2>2 DEF CompleteError, Report
<1>6. ASSUME NEW c \in claims, Forget(c) PROVE LegacyTypeOK'
  BY <1>1, <1>6 DEF Forget
<1>. QED BY <1>2, <1>3, <1>4, <1>5, <1>6 DEF Working

LEMMA OthersTyped ==
    ASSUME LegacyTypeOK, Leasing \/ Editing \/ Environment
    PROVE  LegacyTypeOK'
<1>. USE DEF LegacyTypeOK, repoVars, callerVars
<1>1. WorkspaceTypeOK' /\ revision' <= MaxRevision
  BY WorkspaceTyped
<1>2. ASSUME NEW s \in Sids, CloseSession(s) PROVE LegacyTypeOK'
  <2>1. [sessions[s] EXCEPT !.closed = TRUE] \in SessionRow
    BY DEF SessionRow
  <2>. QED BY <1>1, <1>2, <2>1 DEF CloseSession
<1>3. CASE UNCHANGED <<repoVars, callerVars>>
  BY <1>1, <1>3
<1>. QED BY <1>2, <1>3
     DEF Leasing, Editing, Environment, AcquireRead, AcquireAbandon, Acquire,
         Renew, Release, SaveRevision, RouteChange, Elapse

LEMMA LegacyTypeStep == LegacyTypeOK /\ [Next]_vars => LegacyTypeOK'
<1>1. LegacyTypeOK /\ UNCHANGED vars => LegacyTypeOK'
  BY DEF LegacyTypeOK, WorkspaceTypeOK, vars, workspaceVars, repoVars, callerVars
<1>. QED BY <1>1, SubmissionsTyped, WorkingTyped, OthersTyped DEF Next

\* The rows, the attempts handed out and the answers given are what their
\* types say, in every reachable state of the Python repository.
THEOREM LegacyTypeCorrect == Spec => []LegacyTypeOK
BY InitTyped, LegacyTypeStep, PTL DEF Spec

-----------------------------------------------------------------------------
(* What a step does to one row of `jobs`.                                  *)

RowAdmitted(j) ==
    /\ jobs[j].status = "absent" /\ jobs'[j].status = "queued"
    /\ jobs'[j].token = NoToken /\ jobs'[j].attempt = 0

RowReleased(j) ==
    /\ jobs[j].status \in Active /\ jobs'[j].status \in {"queued", "error"}
    /\ jobs'[j].token = NoToken /\ jobs'[j].attempt = jobs[j].attempt

RowStarted(j) ==
    /\ jobs[j].status \in Active /\ jobs'[j].status = "running"
    /\ jobs'[j].token \notin UsedTokens
    /\ jobs[j].attempt < MaxAttempts /\ jobs'[j].attempt = jobs[j].attempt + 1

RowEnded(j) ==
    /\ jobs[j].status = "running" /\ jobs'[j].status \in {"done", "error"}
    /\ jobs'[j].token = jobs[j].token /\ jobs'[j].owner = jobs[j].owner
    /\ jobs'[j].attempt = jobs[j].attempt

RowStep(j) ==
    \/ jobs'[j] = jobs[j]
    \/ RowAdmitted(j)
    \/ /\ RowReleased(j) \/ RowStarted(j) \/ RowEnded(j)
       /\ jobs'[j].request = jobs[j].request

LEMMA RequeueRow ==
    ASSUME LegacyTypeOK, NEW o, NEW j \in Jobs
    PROVE  \/ Requeue(o)[j] = jobs[j]
           \/ /\ jobs[j].status = "running"
              /\ Requeue(o)[j] \in JobRow
              /\ Requeue(o)[j].status = "queued" /\ Requeue(o)[j].token = NoToken
              /\ Requeue(o)[j].attempt = jobs[j].attempt
              /\ Requeue(o)[j].request = jobs[j].request
<1>1. jobs[j] \in JobRow
  BY DEF LegacyTypeOK
<1>2. /\ Requeued(jobs[j]).status = "queued" /\ Requeued(jobs[j]).token = NoToken
      /\ Requeued(jobs[j]).attempt = jobs[j].attempt
      /\ Requeued(jobs[j]).request = jobs[j].request
  BY <1>1 DEF Requeued, JobRow
<1>. QED BY <1>1, <1>2, RequeuedTyped DEF Requeue, Abandoned

LEMMA PendingActive ==
    ASSUME NEW o, NEW j, Picked(o, j)
    PROVE  j \in Jobs /\ jobs[j].status \in Active
BY DEF Picked, Pending, Abandoned, Active

LEMMA ClaimRows ==
    ASSUME LegacyTypeOK, NEW o \in LegacyOwners, NEW j \in Jobs, NEW t \in Tokens,
           ClaimJob(o, j, t)
    PROVE  /\ \A i \in Jobs : RowStep(i)
           /\ jobs'[j].token = t /\ jobs'[j].owner = o
           /\ jobs'[j].attempt = jobs[j].attempt + 1
<1>1. /\ jobs[j] \in JobRow /\ jobs[j].status \in Active /\ jobs[j].attempt < MaxAttempts
      /\ t \notin UsedTokens
  BY PendingActive DEF ClaimJob, MayStart, LegacyTypeOK
<1>2. jobs'[j] = [jobs[j] EXCEPT !.status = "running", !.owner = o, !.token = t,
                                 !.attempt = @ + 1]
  BY RequeueTyped DEF ClaimJob
<1>3. RowStep(j) /\ jobs'[j].token = t /\ jobs'[j].owner = o
      /\ jobs'[j].attempt = jobs[j].attempt + 1
  BY <1>1, <1>2 DEF RowStep, RowStarted, JobRow
<1>4. ASSUME NEW i \in Jobs \ {j} PROVE jobs'[i] = Requeue(o)[i]
  BY RequeueTyped DEF ClaimJob
<1>5. ASSUME NEW i \in Jobs \ {j}
      PROVE  RowStep(i)
  BY <1>4, RequeueRow DEF RowStep, RowReleased, Active
<1>. QED BY <1>3, <1>5

LEMMA ExhaustedRows ==
    ASSUME LegacyTypeOK, NEW o \in LegacyOwners, NEW j \in Jobs, ClaimExhausted(o, j)
    PROVE  \A i \in Jobs : RowStep(i)
<1>1. jobs[j] \in JobRow /\ jobs[j].status \in Active
  BY PendingActive DEF ClaimExhausted, LegacyTypeOK
<1>2. jobs'[j] = [Requeued(jobs[j]) EXCEPT !.status = "error"]
  BY RequeueTyped DEF ClaimExhausted
<1>3. RowStep(j)
  BY <1>1, <1>2 DEF RowStep, RowReleased, JobRow, Requeued
<1>4. ASSUME NEW i \in Jobs \ {j} PROVE jobs'[i] = Requeue(o)[i]
  BY RequeueTyped DEF ClaimExhausted
<1>5. ASSUME NEW i \in Jobs \ {j} PROVE RowStep(i)
  BY <1>4, RequeueRow DEF RowStep, RowReleased, Active
<1>. QED BY <1>3, <1>5

LEMMA CompleteRows ==
    ASSUME LegacyTypeOK, NEW c \in claims, NEW status \in {"done", "error"}, Current(c),
           jobs' = [jobs EXCEPT ![c.job].status = status]
    PROVE  /\ \A i \in Jobs : RowStep(i)
           /\ jobs[c.job].status = "running"
           /\ jobs'[c.job].status = status
           /\ jobs'[c.job].request = jobs[c.job].request
<1>1. c.job \in Jobs
  BY DEF LegacyTypeOK, Claim
<1>2. jobs[c.job] \in JobRow /\ jobs[c.job].status = "running"
  BY <1>1 DEF LegacyTypeOK, Current
<1>3. jobs'[c.job] = [jobs[c.job] EXCEPT !.status = status]
  BY <1>1 DEF LegacyTypeOK
<1>4. RowStep(c.job) /\ jobs'[c.job].status = status
      /\ jobs'[c.job].request = jobs[c.job].request
  BY <1>2, <1>3 DEF RowStep, RowEnded, JobRow
<1>5. ASSUME NEW i \in Jobs \ {c.job} PROVE jobs'[i] = jobs[i]
  BY DEF LegacyTypeOK
<1>. QED BY <1>2, <1>4, <1>5 DEF RowStep

LEMMA InsertRows ==
    ASSUME LegacyTypeOK, NEW q \in Submission, Insert(q)
    PROVE  \E j \in Jobs :
               /\ jobs[j].status = "absent" /\ RowAdmitted(j)
               /\ jobs'[j].request = q
               /\ receipts' = Answered(q, j)
               /\ \A i \in Jobs \ {j} : jobs'[i] = jobs[i]
<1>1. PICK j \in Jobs \ Admitted :
          /\ jobs' = [jobs EXCEPT ![j] =
                 [status |-> "queued", owner |-> NoOwner, token |-> NoToken,
                  attempt |-> 0, created |-> Cardinality(Admitted) + 1,
                  request |-> q]]
          /\ receipts' = Answered(q, j)
  BY DEF Insert
<1>2. jobs[j].status = "absent"
  BY <1>1 DEF Admitted
<1>3. jobs'[j].status = "queued" /\ jobs'[j].token = NoToken /\ jobs'[j].attempt = 0
      /\ jobs'[j].request = q
  BY <1>1 DEF LegacyTypeOK
<1>4. \A i \in Jobs \ {j} : jobs'[i] = jobs[i]
  BY <1>1 DEF LegacyTypeOK
<1>. QED BY <1>1, <1>2, <1>3, <1>4 DEF RowAdmitted

LEMMA CancelRows ==
    ASSUME LegacyTypeOK, NEW j \in Jobs, Cancel(j)
    PROVE  \A i \in Jobs : RowStep(i)
<1>1. jobs[j] \in JobRow /\ jobs[j].status \in Active
  BY DEF Cancel, Cancellable, LegacyTypeOK
<1>2. jobs'[j] = [jobs[j] EXCEPT !.status = "error", !.token = NoToken]
  BY DEF Cancel, LegacyTypeOK
<1>3. RowStep(j)
  BY <1>1, <1>2 DEF RowStep, RowReleased, JobRow
<1>4. ASSUME NEW i \in Jobs \ {j} PROVE jobs'[i] = jobs[i]
  BY DEF Cancel, LegacyTypeOK
<1>. QED BY <1>3, <1>4 DEF RowStep

\* A submission or a cancellation starts no attempt and ends none with a result.
LEMMA SubmissionRows ==
    ASSUME LegacyTypeOK, Submissions, NEW j \in Jobs
    PROVE  jobs'[j] = jobs[j] \/ jobs'[j].status \in {"queued", "error"}
<1>1. CASE UNCHANGED jobs
  BY <1>1
<1>2. ASSUME NEW q \in Submission, Insert(q)
      PROVE  jobs'[j] = jobs[j] \/ jobs'[j].status \in {"queued", "error"}
  BY <1>2, InsertRows DEF RowAdmitted
<1>3. ASSUME NEW i \in Jobs, Cancel(i)
      PROVE  jobs'[j] = jobs[j] \/ jobs'[j].status \in {"queued", "error"}
  <2>1. jobs[i] \in JobRow
    BY DEF LegacyTypeOK
  <2>. QED BY <1>3, <2>1 DEF Cancel, LegacyTypeOK, JobRow
<1>4. ASSUME NEW h \in Callers, NEW q \in submitting[h], Enqueue(h, q) \/ EnqueueSame(h, q)
      PROVE  jobs'[j] = jobs[j] \/ jobs'[j].status \in {"queued", "error"}
  BY <1>1, <1>2, <1>4 DEF Enqueue, EnqueueSame, LegacyTypeOK, repoVars
<1>. QED BY <1>1, <1>2, <1>3, <1>4
     DEF Submissions, SubmitAgain, SubmitCheck, SubmitRefused, EnqueueKeyless, repoVars

\* A result is reported by the current attempt, under its owner's lease.
LEMMA ResultRows ==
    ASSUME LegacyTypeOK, Working, NEW j \in Jobs,
           jobs'[j].status = "done", jobs[j].status # "done"
    PROVE  \E c \in claims : c.job = j /\ Holds(c.owner) /\ Current(c)
<1>1. ASSUME NEW o PROVE Requeue(o)[j] = jobs[j] \/ Requeue(o)[j].status = "queued"
  BY RequeueRow
<1>2. ASSUME NEW o \in LegacyOwners, NEW i \in Jobs, NEW t \in Tokens, ClaimJob(o, i, t)
      PROVE  FALSE
  <2>1. i = j => jobs'[j] = [jobs[j] EXCEPT !.status = "running", !.owner = o,
                                            !.token = t, !.attempt = @ + 1]
    BY <1>2, RequeueTyped DEF ClaimJob
  <2>2. i # j => jobs'[j] = Requeue(o)[j]
    BY <1>2, RequeueTyped DEF ClaimJob
  <2>3. jobs[j] \in JobRow
    BY DEF LegacyTypeOK
  <2>. QED BY <1>1, <2>1, <2>2, <2>3 DEF JobRow
<1>3. ASSUME NEW o \in LegacyOwners, NEW i \in Jobs, ClaimExhausted(o, i)
      PROVE  FALSE
  <2>1. i = j => jobs'[j] = [Requeued(jobs[j]) EXCEPT !.status = "error"]
    BY <1>3, RequeueTyped DEF ClaimExhausted
  <2>2. i # j => jobs'[j] = Requeue(o)[j]
    BY <1>3, RequeueTyped DEF ClaimExhausted
  <2>3. jobs[j] \in JobRow
    BY DEF LegacyTypeOK
  <2>. QED BY <1>1, <2>1, <2>2, <2>3 DEF JobRow, Requeued
<1>4. ASSUME NEW c \in claims, NEW status,
             jobs' = [jobs EXCEPT ![c.job].status = status]
      PROVE  c.job = j
  BY <1>4 DEF LegacyTypeOK
<1>. QED BY <1>2, <1>3, <1>4
     DEF Working, Complete, MayReport, CompleteError, Forget, repoVars

\* Every step takes every row one step of those above.
LEMMA StepRows ==
    ASSUME LegacyTypeOK, [Next]_vars
    PROVE  \A j \in Jobs : RowStep(j)
<1>1. CASE UNCHANGED jobs
  BY <1>1 DEF RowStep
<1>2. ASSUME NEW q \in Submission, Insert(q) PROVE \A j \in Jobs : RowStep(j)
  BY <1>2, InsertRows DEF RowStep
<1>3. CASE Submissions
  <2>1. \A h \in Callers : submitting[h] \subseteq Submission
    BY DEF LegacyTypeOK
  <2>2. ASSUME NEW h \in Callers, NEW q \in submitting[h], Enqueue(h, q) \/ EnqueueSame(h, q)
        PROVE  \A j \in Jobs : RowStep(j)
    BY <1>1, <1>2, <2>1, <2>2 DEF Enqueue, EnqueueSame, repoVars
  <2>. QED BY <1>1, <1>2, <1>3, <2>2, CancelRows
       DEF Submissions, SubmitAgain, SubmitCheck, SubmitRefused, EnqueueKeyless, repoVars
<1>4. CASE Working
  <2>1. ASSUME NEW c \in claims, NEW a \in Attachments, Complete(c, a)
        PROVE  \A j \in Jobs : RowStep(j)
    BY <2>1, CompleteRows DEF Complete
  <2>2. ASSUME NEW c \in claims, CompleteError(c) \/ Forget(c)
        PROVE  \A j \in Jobs : RowStep(j)
    BY <1>1, <2>2, CompleteRows DEF CompleteError, Forget, repoVars
  <2>. QED BY <1>4, <2>1, <2>2, ClaimRows, ExhaustedRows DEF Working
<1>5. Editing \/ Leasing \/ Environment \/ UNCHANGED vars => UNCHANGED jobs
  BY DEF Editing, SaveRevision, CloseSession, Leasing, AcquireRead, AcquireAbandon,
         Acquire, Renew, Release, Environment, RouteChange, Elapse, repoVars, vars
<1>. QED BY <1>1, <1>3, <1>4, <1>5 DEF Next

-----------------------------------------------------------------------------
(* Attempts.                                                               *)

\* An attempt has a token of its own, and while the row still has that token
\* it is the row's last attempt, of the row's owner.
AttemptInv ==
    /\ LegacyTypeOK
    /\ \A c \in claims, d \in claims : c.token = d.token => c = d
    /\ \A c \in claims : jobs[c.job].token = c.token =>
           c.attempt = jobs[c.job].attempt /\ c.owner = jobs[c.job].owner

\* Attempts are handed out one at a time, with a new token that the row has.
ClaimsStep ==
    \A d \in claims' \ claims :
        /\ d.token \notin UsedTokens
        /\ jobs'[d.job].token = d.token
        /\ d.attempt = jobs'[d.job].attempt /\ d.owner = jobs'[d.job].owner
        /\ \A e \in claims' \ claims : e = d

LEMMA StepClaims ==
    ASSUME LegacyTypeOK, [Next]_vars
    PROVE  ClaimsStep
<1>1. CASE claims' \subseteq claims
  BY <1>1 DEF ClaimsStep
<1>2. CASE Working
  <2>1. ASSUME NEW o \in LegacyOwners, NEW j \in Jobs, NEW t \in Tokens, ClaimJob(o, j, t)
        PROVE  ClaimsStep
    <3>1. claims' \subseteq claims \cup
              {[job |-> j, owner |-> o, token |-> t, attempt |-> jobs[j].attempt + 1]}
      BY <2>1 DEF ClaimJob
    <3>2. t \notin UsedTokens
      BY <2>1 DEF ClaimJob
    <3>. QED BY <2>1, <3>1, <3>2, ClaimRows DEF ClaimsStep
  <2>2. ASSUME NEW c \in claims PROVE Report(c) => claims' \subseteq claims
    BY DEF Report
  <2>. QED BY <1>1, <1>2, <2>1, <2>2
       DEF Working, ClaimExhausted, Complete, CompleteError, Forget, callerVars
<1>3. Submissions \/ Editing \/ Leasing \/ Environment \/ UNCHANGED vars
          => UNCHANGED claims
  BY DEF Submissions, SubmitAgain, SubmitCheck, Enqueue, EnqueueSame, EnqueueKeyless,
         Insert, SubmitRefused, Cancel,
         Editing, SaveRevision, CloseSession, Leasing, AcquireRead, AcquireAbandon,
         Acquire, Renew, Release, Environment, RouteChange, Elapse, callerVars, vars
<1>. QED BY <1>1, <1>2, <1>3 DEF Next

LEMMA AttemptStep == AttemptInv /\ [Next]_vars /\ LegacyTypeOK' => AttemptInv'
<1>. SUFFICES ASSUME AttemptInv, [Next]_vars, LegacyTypeOK'
              PROVE  AttemptInv'
  OBVIOUS
<1>1. ClaimsStep /\ \A j \in Jobs : RowStep(j)
  BY StepClaims, StepRows DEF AttemptInv
<1>2. \A c \in claims : c.token \in UsedTokens /\ c.token # NoToken /\ c.job \in Jobs
  BY LegacyRepoAssumption DEF AttemptInv, LegacyTypeOK, UsedTokens, Claim
<1>3. ASSUME NEW c \in claims', NEW d \in claims', c.token = d.token PROVE c = d
  BY <1>1, <1>2, <1>3 DEF AttemptInv, ClaimsStep
<1>4. ASSUME NEW c \in claims', jobs'[c.job].token = c.token
      PROVE  c.attempt = jobs'[c.job].attempt /\ c.owner = jobs'[c.job].owner
  <2>1. CASE c \in claims
    BY <1>1, <1>2, <1>4, <2>1
    DEF AttemptInv, RowStep, RowAdmitted, RowReleased, RowStarted, RowEnded
  <2>2. CASE c \notin claims
    BY <1>1, <2>2 DEF ClaimsStep
  <2>. QED BY <2>1, <2>2
<1>. QED BY <1>3, <1>4 DEF AttemptInv

LEMMA AttemptInvariant == Spec => []AttemptInv
<1>1. Init => AttemptInv
  BY InitTyped DEF Init, AttemptInv
<1>2. AttemptInv /\ [Next]_vars /\ LegacyTypeOK' => AttemptInv'
  BY AttemptStep
<1>. QED BY <1>1, <1>2, LegacyTypeCorrect, PTL DEF Spec

\* Of the attempts of a job at most one may report, the last: an attempt that
\* resumes after its job was requeued is refused by its token.
THEOREM LegacyAttemptsAreFenced == Spec => []LegacyOneCurrentAttempt
<1>1. AttemptInv => LegacyOneCurrentAttempt
  BY DEF AttemptInv, LegacyOneCurrentAttempt, Current
<1>. QED BY <1>1, AttemptInvariant, PTL

-----------------------------------------------------------------------------
(* Results and what they come with.                                        *)

LEMMA DoneKept ==
    ASSUME LegacyTypeOK, [Next]_vars, NEW j \in Jobs, jobs[j].status = "done"
    PROVE  jobs'[j] = jobs[j]
BY StepRows DEF RowStep, RowAdmitted, RowReleased, RowStarted, RowEnded, Active

\* Only a result writes a manifest or a library, and only a close closes.
LEMMA Attached ==
    ASSUME [Next]_vars
    PROVE  \/ UNCHANGED <<sessions, libraries>>
           \/ \E s \in Sids : CloseSession(s)
           \/ \E c \in claims, a \in Attachments : Complete(c, a)
<1>1. CASE Submissions
  BY <1>1
  DEF Submissions, SubmitAgain, SubmitCheck, Enqueue, EnqueueSame, EnqueueKeyless,
      Insert, SubmitRefused, Cancel, repoVars
<1>2. CASE Working
  BY <1>2 DEF Working, ClaimJob, ClaimExhausted, CompleteError, Forget, repoVars
<1>3. CASE Editing
  BY <1>3 DEF Editing, SaveRevision, repoVars
<1>4. CASE Leasing \/ Environment \/ UNCHANGED vars
  BY <1>4
  DEF Leasing, AcquireRead, AcquireAbandon, Acquire, Renew, Release,
      Environment, RouteChange, Elapse, repoVars, vars
<1>. QED BY <1>1, <1>2, <1>3, <1>4 DEF Next

LEMMA ClosedRow ==
    ASSUME LegacyTypeOK, NEW z \in Sids, CloseSession(z), NEW s \in Sids
    PROVE  /\ sessions'[s].manifest = sessions[s].manifest
           /\ sessions'[s].version = sessions[s].version
           /\ sessions'[s].closed => sessions[s].version > 0 \/ sessions[s].closed
<1>1. sessions[s] \in SessionRow
  BY DEF LegacyTypeOK
<1>. QED BY <1>1 DEF CloseSession, LegacyTypeOK, SessionRow

LEMMA SavedRow ==
    ASSUME LegacyTypeOK, NEW c \in claims, NEW a \in Attachments, Complete(c, a),
           NEW s \in Sids
    PROVE  \/ sessions'[s] = sessions[s]
           \/ /\ a.kind = "session" /\ a.sid = s
              /\ sessions'[s].manifest = {c.job}
              /\ sessions'[s].version = a.version
              /\ sessions[s].version > 0 => sessions'[s].revision = sessions[s].revision
<1>1. sessions[s] \in SessionRow
  BY DEF LegacyTypeOK
<1>2. /\ Saved(s, a.version, c.job).manifest = {c.job}
      /\ Saved(s, a.version, c.job).version = a.version
      /\ sessions[s].version > 0 =>
             Saved(s, a.version, c.job).revision = sessions[s].revision
  BY <1>1 DEF Saved, SessionRow
<1>. QED BY <1>2 DEF Complete, LegacyTypeOK

LEMMA PublishedStep == LegacyTypeOK /\ PublishedTogether /\ [Next]_vars => PublishedTogether'
<1>. SUFFICES ASSUME LegacyTypeOK, PublishedTogether, [Next]_vars
              PROVE  PublishedTogether'
  OBVIOUS
<1>1. /\ \A n \in 0 .. MaxRevision : libraries[n] \subseteq Jobs
      /\ \A s \in Sids : sessions[s].manifest \subseteq Jobs
  BY DEF LegacyTypeOK, SessionRow
<1>2. CASE UNCHANGED <<sessions, libraries>> \/ \E s \in Sids : CloseSession(s)
  <2>1. libraries' = libraries
    BY <1>2 DEF CloseSession
  <2>2. \A s \in Sids : sessions'[s].manifest = sessions[s].manifest
    BY <1>2, ClosedRow
  <2>. QED BY <1>1, <2>1, <2>2, DoneKept DEF PublishedTogether
<1>3. ASSUME NEW c \in claims, NEW a \in Attachments, Complete(c, a)
      PROVE  PublishedTogether'
  <2>1. /\ c.job \in Jobs /\ jobs[c.job].status = "running"
        /\ jobs'[c.job].status = "done"
        /\ jobs'[c.job].request = jobs[c.job].request
    <3>1. Current(c) /\ jobs' = [jobs EXCEPT ![c.job].status = "done"]
      BY <1>3 DEF Complete
    <3>. QED BY <3>1, CompleteRows DEF LegacyTypeOK, Claim
  <2>2. ASSUME NEW n \in 0 .. MaxRevision, NEW j \in libraries'[n]
        PROVE  jobs'[j].status = "done" /\ jobs'[j].request.revision = n
    <3>1. \/ j \in libraries[n]
          \/ j = c.job /\ n = revision /\ a.kind = "library"
      BY <1>3 DEF Complete, LegacyTypeOK
    <3>2. CASE j \in libraries[n]
      BY <1>1, <3>2, DoneKept DEF PublishedTogether
    <3>3. CASE j = c.job /\ n = revision /\ a.kind = "library"
      BY <1>3, <2>1, <3>3 DEF Complete, InputsUnchanged
    <3>. QED BY <3>1, <3>2, <3>3
  <2>3. ASSUME NEW s \in Sids, NEW j \in sessions'[s].manifest
        PROVE  jobs'[j].status = "done"
    BY <1>1, <1>3, <2>1, DoneKept, SavedRow DEF PublishedTogether
  <2>4. ASSUME NEW s \in Sids, NEW z \in Sids,
               sessions'[s].manifest \cap sessions'[z].manifest # {}
        PROVE  s = z
    <3>1. \A x \in Sids : c.job \notin sessions[x].manifest
      BY <2>1 DEF PublishedTogether
    <3>. QED BY <1>3, <2>4, <3>1, SavedRow DEF PublishedTogether
  <2>. QED BY <2>2, <2>3, <2>4 DEF PublishedTogether
<1>. QED BY <1>2, <1>3, Attached

\* A session version or a unit library is there only if the job that computed
\* it is done, whatever attempts, cancellations and edits came between: no
\* crash or late report publishes half of a result.
THEOREM LegacyResultsStayTogether == Spec => []PublishedTogether
<1>1. Init => PublishedTogether
  BY DEF Init, PublishedTogether, NoRow
<1>2. LegacyTypeOK /\ PublishedTogether /\ [Next]_vars => PublishedTogether'
  BY PublishedStep
<1>. QED BY <1>1, <1>2, LegacyTypeCorrect, PTL DEF Spec

-----------------------------------------------------------------------------
(* Session versions.                                                       *)

\* A session that has no row is not closed.
SessionInv ==
    /\ AttemptInv
    /\ \A s \in Sids : sessions[s].closed => sessions[s].version > 0

LEMMA SessionStep == SessionInv /\ [Next]_vars /\ AttemptInv' => SessionInv'
<1>. SUFFICES ASSUME SessionInv, [Next]_vars, AttemptInv', NEW s \in Sids,
                     sessions'[s].closed
              PROVE  sessions'[s].version > 0
  BY DEF SessionInv
<1>. LegacyTypeOK
  BY DEF SessionInv, AttemptInv
<1>1. CASE UNCHANGED <<sessions, libraries>>
  BY <1>1 DEF SessionInv
<1>2. CASE \E z \in Sids : CloseSession(z)
  BY <1>2, ClosedRow DEF SessionInv
<1>3. ASSUME NEW c \in claims, NEW a \in Attachments, Complete(c, a)
      PROVE  sessions'[s].version > 0
  <2>1. a.kind = "session" => a.version > 0
    BY SessionAttachment
  <2>. QED BY <1>3, <2>1, SavedRow DEF SessionInv
<1>. QED BY <1>1, <1>2, <1>3, Attached

\* A saved session is superseded only while it is open and by its next version,
\* which keeps its revision, and only from inputs that are still the head, by a
\* worker that holds the lease.
THEOREM SessionVersionsAdvance == Spec => SessionsAdvance
<1>. DEFINE Superseded(s) ==
                sessions[s].version > 0 =>
                    /\ ~ sessions[s].closed
                    /\ sessions'[s].version = sessions[s].version + 1
                    /\ sessions'[s].revision = sessions[s].revision
            Reported(s) ==
                \A j \in sessions'[s].manifest :
                    /\ jobs[j].request.revision = revision
                    /\ Holds(jobs[j].owner)
            Advance ==
                \A s \in Sids :
                    sessions'[s].version # sessions[s].version
                        \/ sessions'[s].manifest # sessions[s].manifest =>
                    /\ sessions[s].version > 0 =>
                           /\ ~ sessions[s].closed
                           /\ sessions'[s].version = sessions[s].version + 1
                           /\ sessions'[s].revision = sessions[s].revision
                    /\ \A j \in sessions'[s].manifest :
                           /\ jobs[j].request.revision = revision
                           /\ Holds(jobs[j].owner)
<1>1. Init => SessionInv
  BY InitTyped DEF Init, SessionInv, AttemptInv, NoRow
<1>2. SessionInv /\ [Next]_vars /\ AttemptInv' => SessionInv'
  BY SessionStep
<1>3. SessionInv /\ [Next]_vars => Advance
  <2>. SUFFICES ASSUME SessionInv, [Next]_vars, NEW s \in Sids,
                       sessions'[s].version # sessions[s].version
                           \/ sessions'[s].manifest # sessions[s].manifest
                PROVE  Superseded(s) /\ Reported(s)
    OBVIOUS
  <2>. LegacyTypeOK
    BY DEF SessionInv, AttemptInv
  <2>1. PICK c \in claims, a \in Attachments : Complete(c, a)
    BY Attached, ClosedRow
  <2>2. /\ a.kind = "session" /\ a.sid = s
        /\ sessions'[s].manifest = {c.job}
        /\ sessions'[s].version = a.version
        /\ sessions[s].version > 0 => sessions'[s].revision = sessions[s].revision
    BY <2>1, SavedRow
  <2>3. InputsUnchanged(c) /\ SessionAccepts(s, a.version) /\ Holds(c.owner) /\ Current(c)
    BY <2>1, <2>2 DEF Complete, MayReport
  <2>4. Superseded(s)
    <3>1. a.version \in Nat /\ sessions[s].version \in Nat
      BY <2>2, SessionAttachment DEF LegacyTypeOK, SessionRow
    <3>. QED BY <2>2, <2>3, <3>1 DEF SessionAccepts
  <2>5. jobs[c.job].request.revision = revision /\ jobs[c.job].owner = c.owner
    BY <2>3 DEF InputsUnchanged, Current, SessionInv, AttemptInv
  <2>6. Reported(s)
    BY <2>2, <2>3, <2>5
  <2>. QED BY <2>4, <2>6
<1>4. [][Advance]_vars <=> SessionsAdvance
  BY DEF SessionsAdvance
<1>. QED BY <1>1, <1>2, <1>3, <1>4, AttemptInvariant, PTL DEF Spec

-----------------------------------------------------------------------------
(* Idempotency keys.                                                       *)

KeyInv ==
    /\ LegacyTypeOK
    /\ \A r \in receipts : r.job \in Admitted
    /\ LegacyOneJobPerKey

LEMMA AdmittedKept ==
    ASSUME LegacyTypeOK, [Next]_vars, NEW j \in Admitted
    PROVE  j \in Admitted' /\ jobs'[j].request = jobs[j].request
<1>1. RowStep(j)
  BY StepRows DEF Admitted
<1>. QED BY <1>1
     DEF Admitted, RowStep, RowAdmitted, RowReleased, RowStarted, RowEnded, Active

\* An answer names an admitted job of the key that was asked for.
LEMMA AnsweredStep ==
    ASSUME KeyInv, [Next]_vars, NEW q \in Submission, NEW j \in Jobs,
           j \in Admitted', jobs'[j].request.key = q.key,
           jobs'[j].request.body = q.body, jobs'[j].request.revision = q.revision,
           \A i \in Admitted' : i = j \/ i \in Admitted,
           j \in Admitted \/ KeyUnused(q.key),
           receipts' = Answered(q, j)
    PROVE  /\ \A r \in receipts' : r.job \in Admitted'
           /\ LegacyOneJobPerKey'
<1>. LegacyTypeOK
  BY DEF KeyInv
<1>1. \A i \in Admitted : i \in Admitted' /\ jobs'[i].request = jobs[i].request
  BY AdmittedKept
<1>2. ASSUME NEW i \in Admitted', NEW k \in Admitted',
             jobs'[i].request.key = jobs'[k].request.key, jobs'[i].request.key # NoKey
      PROVE  i = k
  BY <1>1, <1>2 DEF KeyInv, LegacyOneJobPerKey, KeyUnused
<1>3. ASSUME NEW r \in receipts'
      PROVE  /\ r.job \in Admitted' /\ r.key \in Keys
             /\ jobs'[r.job].request.key = r.key
             /\ jobs'[r.job].request.body = r.body
             /\ jobs'[r.job].request.revision = r.revision
  <2>1. CASE r \in receipts
    BY <1>1, <2>1 DEF KeyInv, LegacyOneJobPerKey, LegacyTypeOK, Receipt
  <2>2. CASE r \notin receipts
    BY <2>2 DEF Answered, Submission
  <2>. QED BY <2>1, <2>2
<1>4. ASSUME NEW r \in receipts', NEW s \in receipts', r.key = s.key PROVE r = s
  <2>1. r.job = s.job
    BY <1>2, <1>3, <1>4, LegacyRepoAssumption
  <2>2. r \in Receipt /\ s \in Receipt
    BY AnsweredTyped
  <2>. QED BY <1>3, <1>4, <2>1, <2>2 DEF Receipt
<1>. QED BY <1>2, <1>3, <1>4 DEF LegacyOneJobPerKey

LEMMA KeyStep == KeyInv /\ [Next]_vars /\ LegacyTypeOK' => KeyInv'
<1>. SUFFICES ASSUME KeyInv, [Next]_vars, LegacyTypeOK'
              PROVE  (\A r \in receipts : r.job \in Admitted)' /\ LegacyOneJobPerKey'
  BY DEF KeyInv
<1>. LegacyTypeOK
  BY DEF KeyInv
<1>1. \A i \in Admitted : i \in Admitted' /\ jobs'[i].request = jobs[i].request
  BY AdmittedKept
<1>2. CASE UNCHANGED receipts /\ Admitted' \subseteq Admitted
  BY <1>1, <1>2 DEF KeyInv, LegacyOneJobPerKey
<1>3. ASSUME UNCHANGED jobs PROVE Admitted' = Admitted
  BY <1>3 DEF Admitted
<1>4. ASSUME NEW q \in Submission, NEW j \in Admitted, jobs[j].request.key = q.key,
             jobs[j].request.body = q.body, jobs[j].request.revision = q.revision,
             receipts' = Answered(q, j), UNCHANGED jobs
      PROVE  (\A r \in receipts : r.job \in Admitted)' /\ LegacyOneJobPerKey'
  <2>1. j \in Jobs /\ Admitted' = Admitted
    BY <1>3, <1>4 DEF Admitted
  <2>. QED BY <1>4, <2>1, AnsweredStep
<1>5. ASSUME NEW q \in Submission, KeyUnused(q.key), Insert(q)
      PROVE  (\A r \in receipts : r.job \in Admitted)' /\ LegacyOneJobPerKey'
  <2>1. PICK j \in Jobs :
            /\ jobs[j].status = "absent" /\ RowAdmitted(j)
            /\ jobs'[j].request = q
            /\ receipts' = Answered(q, j)
            /\ \A i \in Jobs \ {j} : jobs'[i] = jobs[i]
    BY <1>5, InsertRows
  <2>2. j \in Admitted' /\ \A i \in Admitted' : i = j \/ i \in Admitted
    BY <2>1 DEF Admitted, RowAdmitted
  <2>. QED BY <1>5, <2>1, <2>2, AnsweredStep
<1>6. CASE Submissions
  <2>1. ASSUME NEW q \in Submission, SubmitAgain(q)
        PROVE  (\A r \in receipts : r.job \in Admitted)' /\ LegacyOneJobPerKey'
    <3>1. PICK j \in Admitted :
              /\ jobs[j].request = [q EXCEPT !.stamp = jobs[j].request.stamp]
              /\ receipts' = Answered(q, j)
      BY <2>1 DEF SubmitAgain
    <3>2. /\ jobs[j].request.key = q.key /\ jobs[j].request.body = q.body
          /\ jobs[j].request.revision = q.revision
      BY <3>1 DEF Submission
    <3>. QED BY <1>4, <2>1, <3>1, <3>2 DEF SubmitAgain, repoVars
  <2>2. ASSUME NEW h \in Callers, NEW q \in submitting[h], Enqueue(h, q)
        PROVE  (\A r \in receipts : r.job \in Admitted)' /\ LegacyOneJobPerKey'
    BY <1>5, <2>2 DEF Enqueue, KeyFree, LegacyTypeOK
  <2>3. ASSUME NEW h \in Callers, NEW q \in submitting[h], EnqueueSame(h, q)
        PROVE  (\A r \in receipts : r.job \in Admitted)' /\ LegacyOneJobPerKey'
    BY <1>4, <2>3 DEF EnqueueSame, LegacyTypeOK, repoVars
  <2>4. ASSUME NEW q \in Submission, EnqueueKeyless(q)
        PROVE  (\A r \in receipts : r.job \in Admitted)' /\ LegacyOneJobPerKey'
    BY <1>5, <2>4 DEF EnqueueKeyless, KeyUnused
  <2>5. ASSUME NEW h \in Callers, NEW q \in Submission, SubmitCheck(h, q)
        PROVE  (\A r \in receipts : r.job \in Admitted)' /\ LegacyOneJobPerKey'
    BY <1>2, <1>3, <2>5 DEF SubmitCheck, repoVars
  <2>6. ASSUME NEW h \in Callers, SubmitRefused(h)
        PROVE  (\A r \in receipts : r.job \in Admitted)' /\ LegacyOneJobPerKey'
    BY <1>2, <1>3, <2>6 DEF SubmitRefused, repoVars
  <2>7. ASSUME NEW j \in Jobs, Cancel(j)
        PROVE  (\A r \in receipts : r.job \in Admitted)' /\ LegacyOneJobPerKey'
    <3>1. Admitted' \subseteq Admitted
      BY <2>7 DEF Cancel, Cancellable, Active, Admitted, LegacyTypeOK
    <3>. QED BY <1>2, <2>7, <3>1 DEF Cancel, callerVars
  <2>. QED BY <1>6, <2>1, <2>2, <2>3, <2>4, <2>5, <2>6, <2>7 DEF Submissions
<1>7. CASE Working
  <2>1. UNCHANGED receipts
    BY <1>7
    DEF Working, ClaimJob, ClaimExhausted, Complete, CompleteError, Forget, Report,
        callerVars
  <2>2. ASSUME NEW i \in Jobs, jobs[i].status = "absent" PROVE jobs'[i].status = "absent"
    <3>1. ASSUME NEW o \in LegacyOwners, NEW j \in Jobs, Picked(o, j) PROVE i # j
      BY <2>2, <3>1, PendingActive DEF Active
    <3>2. ASSUME NEW o PROVE Requeue(o)[i] = jobs[i]
      BY <2>2 DEF Requeue, Abandoned
    <3>3. ASSUME NEW o \in LegacyOwners, NEW j \in Jobs, NEW t \in Tokens, ClaimJob(o, j, t)
          PROVE  jobs'[i] = jobs[i]
      BY <3>1, <3>2, <3>3 DEF ClaimJob, Requeue
    <3>4. ASSUME NEW o \in LegacyOwners, NEW j \in Jobs, ClaimExhausted(o, j)
          PROVE  jobs'[i] = jobs[i]
      BY <3>1, <3>2, <3>4 DEF ClaimExhausted, Requeue
    <3>5. ASSUME NEW c \in claims, Current(c), NEW status,
                 jobs' = [jobs EXCEPT ![c.job].status = status]
          PROVE  jobs'[i] = jobs[i]
      BY <2>2, <3>5 DEF Current, LegacyTypeOK
    <3>. QED BY <1>7, <2>2, <3>3, <3>4, <3>5
         DEF Working, Complete, CompleteError, Forget, repoVars
  <2>3. Admitted' \subseteq Admitted
    BY <2>2 DEF Admitted
  <2>. QED BY <1>2, <2>1, <2>3
<1>8. CASE Editing \/ Leasing \/ Environment \/ UNCHANGED vars
  <2>1. UNCHANGED receipts /\ UNCHANGED jobs
    BY <1>8
    DEF Editing, SaveRevision, CloseSession, Leasing, AcquireRead, AcquireAbandon,
        Acquire, Renew, Release, Environment, RouteChange, Elapse, repoVars,
        callerVars, vars
  <2>. QED BY <1>2, <1>3, <2>1
<1>. QED BY <1>6, <1>7, <1>8 DEF Next

\* Submissions that both found nothing when they looked still name one job:
\* the key is looked for once more in the transaction that enqueues.
THEOREM LegacyKeysNameOneJob == Spec => []LegacyOneJobPerKey
<1>1. Init => KeyInv
  BY InitTyped DEF Init, KeyInv, LegacyOneJobPerKey, Admitted, NoJob
<1>2. KeyInv /\ [Next]_vars /\ LegacyTypeOK' => KeyInv'
  BY KeyStep
<1>3. KeyInv => LegacyOneJobPerKey
  BY DEF KeyInv
<1>. QED BY <1>1, <1>2, <1>3, LegacyTypeCorrect, PTL DEF Spec

-----------------------------------------------------------------------------
(* The promise to the client.                                              *)

\* A running job has been started.
StartedInv ==
    /\ LegacyTypeOK
    /\ \A j \in Jobs : jobs[j].status = "running" => jobs[j].attempt > 0

LEMMA StartedStep == StartedInv /\ [Next]_vars /\ LegacyTypeOK' => StartedInv'
<1>. SUFFICES ASSUME StartedInv, [Next]_vars, LegacyTypeOK', NEW j \in Jobs,
                     jobs'[j].status = "running"
              PROVE  jobs'[j].attempt > 0
  BY DEF StartedInv
<1>1. RowStep(j) /\ jobs[j].attempt \in Nat
  BY StepRows DEF StartedInv, LegacyTypeOK, JobRow
<1>. QED BY <1>1
     DEF StartedInv, RowStep, RowAdmitted, RowReleased, RowStarted, RowEnded

\* Every step of a row is a step of the job's life, or none.
LEMMA LifecycleStep ==
    ASSUME StartedInv, LegacyTypeOK', [Next]_vars, NEW j \in Jobs
    PROVE  \/ Lifecycle!Same(j) \/ Lifecycle!Admit(j) \/ Lifecycle!Start(j)
           \/ Lifecycle!Deliver(j) \/ Lifecycle!GiveUp(j)
<1>1. /\ RowStep(j) /\ jobs[j].attempt \in Nat /\ jobs'[j].request \in Submission
      /\ jobs[j].status = "running" => jobs[j].attempt > 0
      /\ jobs[j].status \in Statuses
  BY StepRows DEF StartedInv, LegacyTypeOK, JobRow
<1>2. CASE jobs'[j] = jobs[j]
  BY <1>1, <1>2 DEF Lifecycle!Same, RequestOf, Outcome, Statuses, Active
<1>3. CASE RowAdmitted(j)
  BY <1>1, <1>3 DEF RowAdmitted, Lifecycle!Admit, RequestOf, Outcome, Active
<1>4. CASE RowReleased(j) /\ jobs'[j].request = jobs[j].request
  <2>1. CASE jobs'[j].status = "queued"
    BY <1>4, <2>1 DEF RowReleased, Lifecycle!Same, RequestOf, Outcome, Active
  <2>2. CASE jobs'[j].status = "error"
    BY <1>4, <2>2 DEF RowReleased, Lifecycle!GiveUp, RequestOf, Outcome, Active
  <2>. QED BY <1>4, <2>1, <2>2 DEF RowReleased
<1>5. CASE RowStarted(j) /\ jobs'[j].request = jobs[j].request
  BY <1>5 DEF RowStarted, Lifecycle!Start, RequestOf, Outcome, Active
<1>6. CASE RowEnded(j) /\ jobs'[j].request = jobs[j].request
  <2>1. CASE jobs'[j].status = "done"
    BY <1>1, <1>6, <2>1 DEF RowEnded, Lifecycle!Deliver, RequestOf, Outcome, Active
  <2>2. CASE jobs'[j].status = "error"
    BY <1>6, <2>2 DEF RowEnded, Lifecycle!GiveUp, RequestOf, Outcome, Active
  <2>. QED BY <1>6, <2>1, <2>2 DEF RowEnded
<1>. QED BY <1>1, <1>2, <1>3, <1>4, <1>5, <1>6 DEF RowStep

LEMMA LifecycleInit == Init => Lifecycle!Init
<1>1. NoJob.status = "absent" /\ NoJob.attempt = 0
  BY DEF NoJob
<1>. SUFFICES ASSUME Init PROVE Lifecycle!Init
  OBVIOUS
<1>2. \A j \in Jobs : jobs[j].status = "absent" /\ jobs[j].attempt = 0
  BY <1>1 DEF Init
<1>3. \A j \in Jobs : RequestOf(j) = {} /\ Outcome(j) = "none"
  BY <1>2 DEF RequestOf, Outcome, Active
<1>4. \A j \in Jobs : (IF jobs[j].status = "done" THEN jobs[j].attempt ELSE 0) = 0
  BY <1>2
<1>5. /\ [j \in Jobs |-> RequestOf(j)] = [j \in Jobs |-> {}]
      /\ [j \in Jobs |-> Outcome(j)] = [j \in Jobs |-> "none"]
  BY <1>3
<1>6. [j \in Jobs |-> jobs[j].attempt] = [j \in Jobs |-> 0]
  BY <1>2
<1>7. [j \in Jobs |-> IF jobs[j].status = "done" THEN jobs[j].attempt ELSE 0]
          = [j \in Jobs |-> 0]
  BY <1>4
<1>. QED BY <1>5, <1>6, <1>7 DEF Lifecycle!Init

LEMMA LifecycleNext ==
    ASSUME StartedInv, LegacyTypeOK', [Next]_vars
    PROVE  [Lifecycle!Next]_(Lifecycle!vars)
BY LifecycleStep DEF Lifecycle!Next, Lifecycle!Clock

\* The Python repository keeps the promise of JobLifecycle to its clients: a
\* job ends once, with the result of its last start, is started a bounded
\* number of times and never changes what it was admitted for.
THEOREM LegacyKeepsPromise == Spec => LegacyImplementsLifecycle
<1>1. Init => StartedInv
  BY InitTyped DEF Init, StartedInv, NoJob
<1>2. StartedInv /\ [Next]_vars /\ LegacyTypeOK' => StartedInv'
  BY StartedStep
<1>3. Init => Lifecycle!Init
  BY LifecycleInit
<1>4. StartedInv /\ LegacyTypeOK' /\ [Next]_vars => [Lifecycle!Next]_(Lifecycle!vars)
  BY LifecycleNext
<1>. QED BY <1>1, <1>2, <1>3, <1>4, LegacyTypeCorrect, PTL
     DEF Spec, LegacyImplementsLifecycle, Lifecycle!Spec
==============================================================================
