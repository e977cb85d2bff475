-------------------------- MODULE NativeRepo_proofs --------------------------
(***************************************************************************)
(* Proofs about NativeRepo, for every number of tenures, jobs, keys and    *)
(* tokens, every length of lease and of queue, and on both databases       *)
(* unless the statement says otherwise.                                    *)
(***************************************************************************)
EXTENDS NativeRepo, FiniteSetTheorems, TLAPS

\* The actions that read or write only the shared row and the route keep its
\* types (module Workspace).
LEMMA WorkspaceSteps ==
    ASSUME WorkspaceTypeOK, NEW o \in Owners,
           \/ ReadRoute(o)
           \/ AbandonRead(o)
           \/ TakeLease(o)
           \/ ExtendLease(o)
           \/ ReleaseLease(o)
    PROVE  WorkspaceTypeOK'
<1>. USE WorkspaceAssumption DEF WorkspaceTypeOK, row, route, NoRead
<1>1. CASE ReadRoute(o)
  BY <1>1 DEF ReadRoute
<1>2. CASE AbandonRead(o)
  BY <1>2 DEF AbandonRead
<1>3. CASE TakeLease(o)
  BY <1>3 DEF TakeLease
<1>4. CASE ExtendLease(o)
  BY <1>4 DEF ExtendLease
<1>5. CASE ReleaseLease(o)
  BY <1>5 DEF ReleaseLease
<1>. QED BY <1>1, <1>2, <1>3, <1>4, <1>5

\* The same for the commits, the cutovers and the clock.
LEMMA WorkspaceChanges ==
    ASSUME WorkspaceTypeOK,
           \/ \E expected \in 0 .. MaxRevision : AdvanceRevision(expected)
           \/ \E target \in {"rust", "legacy"}, drained \in BOOLEAN :
                  SetRoute(target, drained)
           \/ LeaseElapses
    PROVE  WorkspaceTypeOK'
<1>. USE WorkspaceAssumption DEF WorkspaceTypeOK, row, route
<1>1. CASE \E expected \in 0 .. MaxRevision : AdvanceRevision(expected)
  BY <1>1 DEF AdvanceRevision
<1>2. CASE \E target \in {"rust", "legacy"}, drained \in BOOLEAN :
               SetRoute(target, drained)
  BY <1>2 DEF SetRoute
<1>3. CASE LeaseElapses
  BY <1>3 DEF LeaseElapses
<1>. QED BY <1>1, <1>2, <1>3

LEMMA WorkspaceStutters ==
    ASSUME WorkspaceTypeOK, UNCHANGED workspaceVars
    PROVE  WorkspaceTypeOK'
BY DEF WorkspaceTypeOK, workspaceVars

-----------------------------------------------------------------------------
\* Every admitted job has its row of native_job_authority, which may have been
\* edited or deleted since but was never absent (`admit` writes both rows).
AdmittedHasAuthority == \A j \in Admitted : authority[j] # "absent"

\* Type correctness, and what the steps do to the rows of `jobs`.

LEMMA RowTypes ==
    ASSUME NEW r \in JobRow
    PROVE  /\ Requeued(r) \in JobRow
           /\ Refused(r) \in JobRow
BY DEF JobRow, Requeued, Refused, Statuses, Active, Terminal

LEMMA WalkedType ==
    ASSUME TypeOK, NEW o \in RustOwners, NEW S
    PROVE  Walked(o, S) \in [Jobs -> JobRow]
<1>. SUFFICES ASSUME NEW i \in Jobs
              PROVE  /\ jobs[i] \in JobRow
                     /\ Requeued(jobs[i]) \in JobRow
                     /\ Refused(jobs[i]) \in JobRow
  BY DEF Walked
<1>1. jobs[i] \in JobRow
  BY DEF TypeOK
<1>. QED BY <1>1, RowTypes

LEMMA EndedType ==
    ASSUME NEW r \in JobRow, NEW status \in Terminal, NEW token \in {r.token, NoToken}
    PROVE  [r EXCEPT !.status = status, !.token = token] \in JobRow
BY DEF JobRow, Statuses

LEMMA InitTyped == Init => TypeOK
<1>. SUFFICES ASSUME Init PROVE TypeOK
  OBVIOUS
<1>1. WorkspaceTypeOK
  BY WorkspaceAssumption DEF Init, WorkspaceInit, WorkspaceTypeOK, NoRead
<1>2. NoJob \in JobRow
  <2>1. (CHOOSE i \in Inputs : TRUE) \in Inputs
    BY NativeRepoAssumption
  <2>. QED BY <2>1 DEF NoJob, JobRow, Statuses
<1>. QED BY <1>1, <1>2 DEF Init, TypeOK

LEMMA SubmissionsTyped ==
    ASSUME TypeOK, Submissions
    PROVE  TypeOK'
<1>. USE DEF TypeOK, callerVars, repoVars
<1>1. CASE \E k \in Keys, i \in Inputs, rev \in 0 .. MaxRevision :
               AdmitAgain(k, i, rev)
  <2>1. PICK k \in Keys, i \in Inputs, rev \in 0 .. MaxRevision :
            AdmitAgain(k, i, rev)
    BY <1>1
  <2>2. rev \in Nat
    BY WorkspaceAssumption
  <2>. QED BY <2>1, <2>2, WorkspaceStutters DEF AdmitAgain, Admitted, Receipt
<1>2. CASE \E k \in Keys \cup {NoKey}, i \in Inputs, rev \in 0 .. MaxRevision,
              seconds \in Deadlines : AdmitNew(k, i, rev, seconds)
  <2>1. PICK k \in Keys \cup {NoKey}, i \in Inputs, rev \in 0 .. MaxRevision,
             seconds \in Deadlines : AdmitNew(k, i, rev, seconds)
    BY <1>2
  <2>2. PICK j \in Jobs \ Admitted :
            /\ jobs' = [jobs EXCEPT ![j] =
                   [status |-> "native_queued", owner |-> NoOwner,
                    token |-> NoToken, attempt |-> 0,
                    created |-> Cardinality(Admitted) + 1,
                    key |-> k, input |-> i, revision |-> rev]]
            /\ authority' = [authority EXCEPT ![j] = "admitted"]
            /\ deadlineLeft' = [deadlineLeft EXCEPT ![j] = seconds]
            /\ receipts' = IF k = NoKey THEN receipts ELSE receipts \cup
                   {[key |-> k, input |-> i, revision |-> rev, job |-> j]}
    BY <2>1 DEF AdmitNew
  <2>3. rev \in Nat /\ seconds \in Nat
    BY WorkspaceAssumption, NativeRepoAssumption
  <2>4. Cardinality(Admitted) + 1 \in Nat
    <3>1. IsFiniteSet(Admitted)
      BY FS_Subset, NativeRepoAssumption DEF Admitted
    <3>. QED BY <3>1, FS_CardinalityType
  <2>5. jobs' \in [Jobs -> JobRow]
    BY <2>2, <2>3, <2>4 DEF JobRow, Statuses, Active
  <2>6. receipts' \in SUBSET Receipt
    BY <2>2, <2>3 DEF Receipt
  <2>7. UNCHANGED <<workspaceVars, publications, granted, claims>>
    BY <2>1 DEF AdmitNew
  <2>. QED BY <2>2, <2>3, <2>5, <2>6, <2>7, WorkspaceStutters
<1>3. CASE \E j \in Jobs : Cancel(j)
  <2>1. PICK j \in Jobs : Cancel(j)
    BY <1>3
  <2>2. [jobs[j] EXCEPT !.status = "native_cancelled", !.token = NoToken] \in JobRow
    BY EndedType DEF Terminal
  <2>3. jobs' = [jobs EXCEPT ![j] =
            [jobs[j] EXCEPT !.status = "native_cancelled", !.token = NoToken]]
    BY <2>1 DEF Cancel
  <2>. QED BY <2>1, <2>2, <2>3, WorkspaceStutters DEF Cancel
<1>4. CASE \E expected \in 0 .. MaxRevision : CommitDocument(expected)
  BY <1>4, WorkspaceChanges DEF CommitDocument
<1>5. CASE \E target \in {"rust", "legacy"}, legacyDrained \in BOOLEAN :
               Cutover(target, legacyDrained)
  <2>1. PICK target \in {"rust", "legacy"}, legacyDrained \in BOOLEAN :
            Cutover(target, legacyDrained)
    BY <1>5
  <2>2. \E drained \in BOOLEAN : SetRoute(target, drained)
    BY <2>1 DEF Cutover, NativeDrained
  <2>. QED BY <2>1, <2>2, WorkspaceChanges DEF Cutover
<1>. QED BY <1>1, <1>2, <1>3, <1>4, <1>5 DEF Submissions

LEMMA LeasingTyped ==
    ASSUME TypeOK, Leasing
    PROVE  TypeOK'
<1>. USE DEF TypeOK, callerVars, repoVars
<1>1. PICK o \in Owners : \/ AcquireRead(o) \/ AcquireAbandon(o) \/ Acquire(o)
                         \/ Renew(o) \/ Release(o)
  BY DEF Leasing
<1>2. WorkspaceTypeOK'
  BY <1>1, WorkspaceSteps
  DEF AcquireRead, AcquireAbandon, Acquire, Renew, Release
<1>3. CASE Acquire(o)
  <2>1. EpochRead(o) \in Nat
    BY <1>3, WorkspaceAssumption
    DEF EpochRead, Acquire, TakeLease, MayTake, WorkspaceTypeOK
  <2>. QED BY <1>2, <1>3, <2>1 DEF Acquire
<1>4. CASE AcquireRead(o) \/ AcquireAbandon(o) \/ Renew(o) \/ Release(o)
  BY <1>2, <1>4 DEF AcquireRead, AcquireAbandon, Renew, Release
<1>. QED BY <1>1, <1>3, <1>4

LEMMA WorkingTyped ==
    ASSUME TypeOK, AdmittedHasAuthority, Working
    PROVE  TypeOK'
<1>. USE DEF TypeOK, callerVars, repoVars
<1>1. CASE \E o \in RustOwners, j \in Jobs, t \in Tokens : ClaimJob(o, j, t)
  <2>1. PICK o \in RustOwners, j \in Jobs, t \in Tokens : ClaimJob(o, j, t)
    BY <1>1
  <2>2. jobs[j] \in JobRow /\ jobs[j].attempt + 1 \in Nat
    BY DEF JobRow
  <2>3. [jobs[j] EXCEPT !.status = "native_running", !.owner = o,
                        !.token = t, !.attempt = @ + 1] \in JobRow
    BY <2>2 DEF JobRow, Statuses, Active, Owners
  <2>4. jobs' \in [Jobs -> JobRow]
    BY <2>1, <2>3, WalkedType DEF ClaimJob
  <2>5. authority[j] \in {"admitted", "edited"}
    <3>1. j \in Admitted
      BY <2>1 DEF ClaimJob, FirstRunnable, Pending, Abandoned, Admitted
    <3>. QED BY <2>1, <3>1
             DEF ClaimJob, FirstRunnable, Runnable, AdmittedHasAuthority
  <2>6. claims' \in SUBSET Claim
    BY <2>1, <2>2, <2>5 DEF ClaimJob, Claim
  <2>. QED BY <2>1, <2>4, <2>6, WorkspaceStutters DEF ClaimJob
<1>2. CASE \E o \in RustOwners : ClaimNothing(o)
  BY <1>2, WalkedType, WorkspaceStutters DEF ClaimNothing
<1>3. ASSUME NEW c \in claims, Fail(c) PROVE TypeOK'
  <2>1. c.job \in Jobs
    BY DEF Claim
  <2>2. [jobs[c.job] EXCEPT !.status = "native_error", !.token = NoToken] \in JobRow
    BY <2>1, EndedType DEF Terminal
  <2>3. jobs' = [jobs EXCEPT ![c.job] =
            [jobs[c.job] EXCEPT !.status = "native_error", !.token = NoToken]]
    BY <1>3, <2>1 DEF Fail
  <2>. QED BY <1>3, <2>1, <2>2, <2>3, WorkspaceStutters DEF Fail
<1>4. ASSUME NEW c \in claims, Publish(c) PROVE TypeOK'
  <2>1. c.job \in Jobs /\ [attempt |-> c.attempt, epoch |-> c.epoch]
                           \in [attempt: Nat, epoch: Nat]
    BY DEF Claim
  <2>2. [jobs[c.job] EXCEPT !.status = "native_done"] \in JobRow
    BY <2>1 DEF JobRow, Statuses, Terminal
  <2>3. jobs' \in [Jobs -> JobRow]
    BY <1>4, <2>1, <2>2 DEF Publish
  <2>4. publications' \in [Jobs -> SUBSET [attempt: Nat, epoch: Nat]]
    BY <1>4, <2>1 DEF Publish
  <2>. QED BY <1>4, <2>3, <2>4, WorkspaceStutters DEF Publish
<1>5. CASE \E c \in claims : Forget(c)
  BY <1>5, WorkspaceStutters DEF Forget
<1>. QED BY <1>1, <1>2, <1>3, <1>4, <1>5 DEF Working

LEMMA EnvironmentTyped ==
    ASSUME TypeOK, Environment
    PROVE  TypeOK'
<1>. USE NativeRepoAssumption DEF TypeOK, callerVars, repoVars
<1>1. CASE \E j \in Jobs, content \in AuthorityEdits : EditAuthority(j, content)
  BY <1>1, WorkspaceStutters DEF EditAuthority
<1>2. CASE Elapse
  BY <1>2, WorkspaceChanges DEF Elapse
<1>. QED BY <1>1, <1>2 DEF Environment

LEMMA WalkedStatus ==
    ASSUME TypeOK, NEW o \in RustOwners, NEW S, NEW i \in Jobs
    PROVE  \/ Walked(o, S)[i] = jobs[i]
           \/ i \in S /\ Walked(o, S)[i] = Refused(jobs[i])
           \/ i \in Abandoned(o) /\ Walked(o, S)[i] = Requeued(jobs[i])
BY DEF Walked

LEMMA AuthorityStep ==
    ASSUME TypeOK, AdmittedHasAuthority, [Next]_vars
    PROVE  AdmittedHasAuthority'
<1>. USE NativeRepoAssumption
     DEF TypeOK, AdmittedHasAuthority, Admitted, repoVars, callerVars
<1>1. ASSUME UNCHANGED <<jobs, authority>>
      PROVE  AdmittedHasAuthority'
  BY <1>1
<1>2. CASE Submissions
  <2>1. CASE \E k \in Keys \cup {NoKey}, i \in Inputs, rev \in 0 .. MaxRevision,
                seconds \in Deadlines : AdmitNew(k, i, rev, seconds)
    BY <2>1 DEF AdmitNew
  <2>2. CASE \E j \in Jobs : Cancel(j)
    BY <2>2 DEF Cancel, Cancellable, Active
  <2>. QED BY <1>1, <1>2, <2>1, <2>2
           DEF Submissions, AdmitAgain, CommitDocument, Cutover
<1>3. CASE Leasing
  BY <1>1, <1>3
  DEF Leasing, AcquireRead, AcquireAbandon, Acquire, Renew, Release
<1>4. CASE Working
  <2>1. CASE \E o \in RustOwners, j \in Jobs, t \in Tokens : ClaimJob(o, j, t)
    <3>1. PICK o \in RustOwners, j \in Jobs, t \in Tokens : ClaimJob(o, j, t)
      BY <2>1
    <3>2. ASSUME NEW i \in Admitted' PROVE i \in Admitted
      BY <3>1, <3>2, WalkedStatus, WalkedType
      DEF ClaimJob, FirstRunnable, Pending, Abandoned, Active
    <3>. QED BY <3>1, <3>2 DEF ClaimJob
  <2>2. CASE \E o \in RustOwners : ClaimNothing(o)
    <3>1. PICK o \in RustOwners : ClaimNothing(o)
      BY <2>2
    <3>2. ASSUME NEW i \in Admitted' PROVE i \in Admitted
      BY <3>1, <3>2, WalkedStatus DEF ClaimNothing, Pending, Abandoned
    <3>. QED BY <3>1, <3>2 DEF ClaimNothing
  <2>3. CASE \E c \in claims : Fail(c) \/ Publish(c)
    BY <2>3 DEF Fail, Publish, Current, Claim
  <2>. QED BY <1>1, <1>4, <2>1, <2>2, <2>3 DEF Working, Forget
<1>5. CASE Environment
  <2>1. CASE \E j \in Jobs, content \in AuthorityEdits : EditAuthority(j, content)
    BY <2>1 DEF EditAuthority
  <2>2. CASE Elapse
    BY <1>1, <2>2 DEF Elapse
  <2>. QED BY <1>5, <2>1, <2>2 DEF Environment
<1>6. CASE UNCHANGED vars
  BY <1>1, <1>6 DEF vars
<1>. QED BY <1>2, <1>3, <1>4, <1>5, <1>6 DEF Next

\* Every reachable state has the types TypeOK gives.
THEOREM TypeCorrect == Spec => []TypeOK
<1>1. Init => TypeOK /\ AdmittedHasAuthority
  BY InitTyped DEF Init, NoJob, AdmittedHasAuthority, Admitted
<1>2. TypeOK /\ AdmittedHasAuthority /\ [Next]_vars
      => (TypeOK /\ AdmittedHasAuthority)'
  <2>1. ASSUME TypeOK, UNCHANGED vars PROVE TypeOK'
    BY <2>1, WorkspaceStutters DEF TypeOK, vars, repoVars, callerVars
  <2>. QED BY <2>1, AuthorityStep, SubmissionsTyped, LeasingTyped,
              WorkingTyped, EnvironmentTyped DEF Next
<1>. QED BY <1>1, <1>2, PTL DEF Spec

-----------------------------------------------------------------------------
\* What a step does to the rows of `jobs`: nothing, or one of six actions.

AdmitsNew == \E k \in Keys \cup {NoKey}, i \in Inputs, rev \in 0 .. MaxRevision,
                seconds \in Deadlines : AdmitNew(k, i, rev, seconds)

LEMMA StepCases ==
    ASSUME TypeOK, [Next]_vars
    PROVE  \/ UNCHANGED <<jobs, publications>> /\ claims' \subseteq claims
           \/ AdmitsNew
           \/ \E j \in Jobs : Cancel(j)
           \/ \E o \in RustOwners, j \in Jobs, t \in Tokens : ClaimJob(o, j, t)
           \/ \E o \in RustOwners : ClaimNothing(o)
           \/ \E c \in claims : Fail(c)
           \/ \E c \in claims : Publish(c)
<1>. DEFINE Quiet == UNCHANGED <<jobs, publications>> /\ claims' \subseteq claims
<1>. USE DEF repoVars, callerVars
<1>1. Submissions => Quiet \/ AdmitsNew \/ \E j \in Jobs : Cancel(j)
  BY DEF Submissions, AdmitAgain, CommitDocument, Cutover, AdmitsNew
<1>2. Leasing => Quiet
  BY DEF Leasing, AcquireRead, AcquireAbandon, Acquire, Renew, Release
<1>3. ASSUME NEW c \in claims, Forget(c) PROVE Quiet
  BY <1>3 DEF Forget
<1>4. Environment => Quiet
  BY DEF Environment, EditAuthority, Elapse
<1>5. UNCHANGED vars => Quiet
  BY DEF vars
<1>. QED BY <1>1, <1>2, <1>3, <1>4, <1>5 DEF Next, Working

LEMMA AdmitNewRows ==
    ASSUME TypeOK, AdmitsNew
    PROVE  /\ UNCHANGED <<workspaceVars, publications, granted, claims>>
           /\ engine = "rust"
           /\ \E j \in Jobs \ Admitted :
                /\ jobs'[j].status = "native_queued"
                /\ \A i \in Jobs \ {j} : jobs'[i] = jobs[i]
BY DEF AdmitsNew, AdmitNew, TypeOK

\* A cancellation or a recorded refusal ends one active job.
LEMMA EndedRows ==
    ASSUME TypeOK,
           (\E j \in Jobs : Cancel(j)) \/ (\E c \in claims : Fail(c))
    PROVE  /\ UNCHANGED <<workspaceVars, publications, claims>>
           /\ \E j \in Jobs :
                /\ jobs[j].status \in Active
                /\ jobs'[j].status \in {"native_cancelled", "native_error"}
                /\ jobs'[j].key = jobs[j].key
                /\ jobs'[j].input = jobs[j].input
                /\ jobs'[j].revision = jobs[j].revision
                /\ \A i \in Jobs \ {j} : jobs'[i] = jobs[i]
<1>. USE DEF callerVars
<1>1. ASSUME NEW j \in Jobs, jobs[j] \in JobRow, NEW status, 
             jobs' = [jobs EXCEPT ![j].status = status, ![j].token = NoToken]
      PROVE  /\ jobs'[j].status = status
             /\ jobs'[j].key = jobs[j].key
             /\ jobs'[j].input = jobs[j].input
             /\ jobs'[j].revision = jobs[j].revision
             /\ \A i \in Jobs \ {j} : jobs'[i] = jobs[i]
  BY <1>1 DEF TypeOK, JobRow
<1>2. ASSUME NEW j \in Jobs, Cancel(j) PROVE jobs[j] \in JobRow
  BY DEF TypeOK
<1>3. CASE \E j \in Jobs : Cancel(j)
  BY <1>1, <1>2, <1>3 DEF Cancel, Cancellable, TypeOK
<1>4. CASE \E c \in claims : Fail(c)
  <2>1. PICK c \in claims : Fail(c)
    BY <1>4
  <2>2. c.job \in Jobs /\ jobs[c.job] \in JobRow
    BY DEF TypeOK, Claim
  <2>. QED BY <1>1, <2>1, <2>2 DEF Fail, Current, Active
<1>. QED BY <1>3, <1>4

\* What a claim does to a job that it does not hand out.
PassedOver(i) ==
    \/ jobs'[i] = jobs[i]
    \/ jobs[i].status \in Active /\ jobs'[i] \in {Requeued(jobs[i]), Refused(jobs[i])}

\* The fields of the rows `claim` and `publish` write.
LEMMA RowFields ==
    ASSUME NEW r \in JobRow, NEW o, NEW t
    PROVE  /\ LET q == [r EXCEPT !.status = "native_running", !.owner = o,
                               !.token = t, !.attempt = @ + 1]
              IN  /\ q.status = "native_running"
                  /\ q.owner = o
                  /\ q.token = t
                  /\ q.attempt = r.attempt + 1
                  /\ q.key = r.key /\ q.input = r.input /\ q.revision = r.revision
           /\ LET q == [r EXCEPT !.status = "native_done"]
              IN  /\ q.status = "native_done"
                  /\ q.attempt = r.attempt
                  /\ q.key = r.key /\ q.input = r.input /\ q.revision = r.revision
BY DEF JobRow

LEMMA ClaimRows ==
    ASSUME TypeOK, NEW o \in RustOwners, NEW j \in Jobs, NEW t \in Tokens,
           ClaimJob(o, j, t)
    PROVE  /\ jobs[j].status \in Active
           /\ jobs'[j].status = "native_running"
           /\ jobs'[j].owner = o
           /\ jobs'[j].token = t
           /\ jobs'[j].attempt = jobs[j].attempt + 1
           /\ jobs'[j].key = jobs[j].key
           /\ jobs'[j].input = jobs[j].input
           /\ jobs'[j].revision = jobs[j].revision
           /\ \A i \in Jobs \ {j} : PassedOver(i)
<1>1. j \in Pending(o)
  BY DEF ClaimJob, FirstRunnable
<1>2. jobs[j].status \in Active
  BY <1>1 DEF Pending, Abandoned, Active
<1>3. ASSUME NEW i \in Jobs \ {j} PROVE PassedOver(i)
  <2>. DEFINE S == {k \in Pending(o) : Before(k, j)}
  <2>1. jobs'[i] = Walked(o, S)[i]
    BY <1>3, WalkedType DEF ClaimJob
  <2>2. i \in S \cup Abandoned(o) => jobs[i].status \in Active
    BY DEF Pending, Abandoned, Active
  <2>. QED BY <2>1, <2>2, WalkedStatus DEF PassedOver
<1>4. jobs'[j] = [jobs[j] EXCEPT !.status = "native_running", !.owner = o,
                                 !.token = t, !.attempt = @ + 1]
  BY WalkedType DEF ClaimJob
<1>5. jobs[j] \in JobRow
  BY DEF TypeOK
<1>. QED BY <1>2, <1>3, <1>4, <1>5, RowFields

LEMMA ClaimNothingRows ==
    ASSUME TypeOK, NEW o \in RustOwners, ClaimNothing(o), NEW i \in Jobs
    PROVE  PassedOver(i)
<1>1. i \in Pending(o) \cup Abandoned(o) => jobs[i].status \in Active
  BY DEF Pending, Abandoned, Active
<1>2. jobs'[i] = Walked(o, Pending(o))[i]
  BY DEF ClaimNothing
<1>. QED BY <1>1, <1>2, WalkedStatus DEF PassedOver

LEMMA PassedOverRow ==
    ASSUME TypeOK, NEW i \in Jobs, PassedOver(i), jobs'[i] # jobs[i]
    PROVE  /\ jobs[i].status \in Active
           /\ jobs'[i].status \in {"native_queued", "native_error"}
           /\ jobs'[i].key = jobs[i].key
           /\ jobs'[i].input = jobs[i].input
           /\ jobs'[i].revision = jobs[i].revision
BY DEF PassedOver, Requeued, Refused, TypeOK, JobRow

LEMMA PublishRows ==
    ASSUME TypeOK, NEW c \in claims, Publish(c)
    PROVE  /\ c.job \in Jobs
           /\ jobs[c.job].status = "native_running"
           /\ jobs'[c.job].status = "native_done"
           /\ jobs'[c.job].attempt = jobs[c.job].attempt
           /\ jobs'[c.job].key = jobs[c.job].key
           /\ jobs'[c.job].input = jobs[c.job].input
           /\ jobs'[c.job].revision = jobs[c.job].revision
           /\ publications'[c.job] = publications[c.job]
                  \cup {[attempt |-> c.attempt, epoch |-> c.epoch]}
           /\ \A i \in Jobs \ {c.job} : /\ jobs'[i] = jobs[i]
                                      /\ publications'[i] = publications[i]
           /\ UNCHANGED <<workspaceVars, claims>>
<1>1. c.job \in Jobs /\ jobs[c.job] \in JobRow
  BY DEF TypeOK, Claim
<1>2. jobs'[c.job] = [jobs[c.job] EXCEPT !.status = "native_done"]
      /\ \A i \in Jobs \ {c.job} : jobs'[i] = jobs[i]
  BY <1>1 DEF Publish, TypeOK
<1>3. publications'[c.job] = publications[c.job]
          \cup {[attempt |-> c.attempt, epoch |-> c.epoch]}
      /\ \A i \in Jobs \ {c.job} : publications'[i] = publications[i]
  BY <1>1 DEF Publish, TypeOK
<1>4. jobs[c.job].status = "native_running" /\ UNCHANGED <<workspaceVars, claims>>
  BY DEF Publish, Current, callerVars
<1>. QED BY <1>1, <1>2, <1>3, <1>4, RowFields

-----------------------------------------------------------------------------
\* The invariant about attempts.  No two attempts share a token, so the token
\* in a row names at most one of them; a done job has its last attempt's
\* publication; and no native work outlives the Rust route.

UniqueTokens == \A c, d \in claims : c.token = d.token => c = d

AttemptInv ==
    /\ TypeOK
    /\ AdmittedHasAuthority
    /\ UniqueTokens
    /\ OneCurrentAttempt
    /\ PublishedIffDone
    /\ NativeWorkNeedsRoute

\* Steps that hand out no attempt.
LEMMA AttemptsKept ==
    ASSUME TypeOK, UniqueTokens, OneCurrentAttempt, claims' \subseteq claims,
           \A j \in Jobs : \/ jobs'[j] = jobs[j]
                          \/ jobs'[j].status # "native_running"
    PROVE  (UniqueTokens /\ OneCurrentAttempt)'
<1>1. ASSUME NEW c \in claims', Current(c)'
      PROVE  jobs'[c.job] = jobs[c.job] /\ Current(c)
  <2>1. c.job \in Jobs
    BY DEF TypeOK, Claim
  <2>. QED BY <1>1, <2>1 DEF Current
<1>2. OneCurrentAttempt'
  <2>. SUFFICES ASSUME NEW c \in claims', Current(c)'
                PROVE  /\ c.attempt = jobs'[c.job].attempt
                       /\ c.owner = jobs'[c.job].owner
                       /\ \A d \in claims' :
                              d.job = c.job /\ Current(d)' => d = c
    BY DEF OneCurrentAttempt
  <2>. QED BY <1>1 DEF OneCurrentAttempt
<1>. QED BY <1>2 DEF UniqueTokens

LEMMA AttemptGiven ==
    ASSUME TypeOK, UniqueTokens, OneCurrentAttempt,
           NEW o \in RustOwners, NEW j \in Jobs, NEW t \in Tokens,
           ClaimJob(o, j, t)
    PROVE  (UniqueTokens /\ OneCurrentAttempt)'
<1>. DEFINE new == [job |-> j, owner |-> o, token |-> t,
                    attempt |-> jobs[j].attempt + 1, epoch |-> granted[o],
                    authority |-> authority[j]]
<1>1. claims' = claims \cup {new} /\ t \notin UsedTokens
  BY DEF ClaimJob
<1>2. \A c \in claims : c.token # t
  BY <1>1 DEF UsedTokens
<1>3. UniqueTokens'
  BY <1>1, <1>2 DEF UniqueTokens
<1>4. jobs'[j].token = t /\ jobs'[j].owner = o
      /\ jobs'[j].attempt = jobs[j].attempt + 1
  BY ClaimRows
<1>5. ASSUME NEW c \in claims, Current(c)'
      PROVE  c.job # j /\ jobs'[c.job] = jobs[c.job] /\ Current(c)
  <2>1. c.job \in Jobs
    BY DEF TypeOK, Claim
  <2>2. c.job # j
    BY <1>2, <1>4, <1>5 DEF Current
  <2>3. jobs'[c.job] = jobs[c.job]
    BY <1>5, <2>1, <2>2, ClaimRows, PassedOverRow DEF Current
  <2>. QED BY <1>5, <2>2, <2>3 DEF Current
<1>6. OneCurrentAttempt'
  <2>. SUFFICES ASSUME NEW c \in claims', Current(c)'
                PROVE  /\ c.attempt = jobs'[c.job].attempt
                       /\ c.owner = jobs'[c.job].owner
                       /\ \A d \in claims' :
                              d.job = c.job /\ Current(d)' => d = c
    BY DEF OneCurrentAttempt
  <2>1. CASE c = new
    BY <1>1, <1>4, <1>5, <2>1
  <2>2. CASE c # new
    BY <1>1, <1>5, <2>2 DEF OneCurrentAttempt
  <2>. QED BY <2>1, <2>2
<1>. QED BY <1>3, <1>6

\* Steps that publish nothing.
LEMMA PublicationsKept ==
    ASSUME PublishedIffDone, UNCHANGED publications,
           \A j \in Jobs : \/ jobs'[j] = jobs[j]
                          \/ /\ jobs[j].status # "native_done"
                             /\ jobs'[j].status # "native_done"
    PROVE  PublishedIffDone'
BY DEF PublishedIffDone

LEMMA PublicationAdded ==
    ASSUME TypeOK, OneCurrentAttempt, PublishedIffDone,
           NEW c \in claims, Publish(c)
    PROVE  PublishedIffDone'
<1>. DEFINE p == [attempt |-> c.attempt, epoch |-> c.epoch]
<1>1. c.attempt = jobs[c.job].attempt
  BY DEF Publish, OneCurrentAttempt
<1>2. publications[c.job] = {}
  BY PublishRows DEF PublishedIffDone
<1>4. publications'[c.job] = {p} /\ jobs'[c.job].status = "native_done"
      /\ jobs'[c.job].attempt = p.attempt
  BY <1>1, <1>2, PublishRows
<1>5. \A i \in Jobs \ {c.job} : jobs'[i] = jobs[i]
                               /\ publications'[i] = publications[i]
  BY PublishRows
<1>6. ASSUME NEW i \in Jobs
      PROVE  /\ jobs'[i].status = "native_done" <=> publications'[i] # {}
             /\ \A q \in publications'[i] :
                    q.attempt = jobs'[i].attempt /\ publications'[i] = {q}
  <2>1. CASE i = c.job
    BY <1>4, <2>1
  <2>2. CASE i # c.job
    BY <1>5, <2>2 DEF PublishedIffDone
  <2>. QED BY <2>1, <2>2
<1>. QED BY <1>6 DEF PublishedIffDone

LEMMA RouteKept ==
    ASSUME TypeOK, NativeWorkNeedsRoute, [Next]_vars
    PROVE  NativeWorkNeedsRoute'
<1>. USE DEF NativeWorkNeedsRoute, ActiveJobs
<1>1. CASE \E target \in {"rust", "legacy"}, legacyDrained \in BOOLEAN :
               Cutover(target, legacyDrained)
  BY <1>1 DEF Cutover, SetRoute, NativeDrained, repoVars
<1>2. CASE UNCHANGED <<engine, jobs>>
  BY <1>2
<1>3. ASSUME engine = "rust", UNCHANGED engine
      PROVE  NativeWorkNeedsRoute'
  BY <1>3
<1>4. CASE AdmitsNew
  BY <1>3, <1>4, AdmitNewRows DEF workspaceVars
<1>5. CASE (\E j \in Jobs : Cancel(j)) \/ (\E c \in claims : Fail(c))
  BY <1>5, EndedRows DEF workspaceVars, Active
<1>6. CASE \/ \E o \in RustOwners, j \in Jobs, t \in Tokens : ClaimJob(o, j, t)
           \/ \E o \in RustOwners : ClaimNothing(o)
           \/ \E c \in claims : Publish(c)
  BY <1>3, <1>6 DEF ClaimJob, ClaimNothing, Publish, LeaseValid, workspaceVars
<1>7. Submissions => \/ UNCHANGED <<engine, jobs>>
                     \/ AdmitsNew
                     \/ \E j \in Jobs : Cancel(j)
                     \/ \E target \in {"rust", "legacy"}, legacyDrained \in BOOLEAN :
                            Cutover(target, legacyDrained)
  BY DEF Submissions, AdmitAgain, CommitDocument, AdvanceRevision, AdmitsNew,
         repoVars, workspaceVars, route
<1>8. Leasing => UNCHANGED <<engine, jobs>>
  BY DEF Leasing, AcquireRead, AcquireAbandon, Acquire, Renew, Release,
         ReadRoute, AbandonRead, TakeLease, ExtendLease, ReleaseLease,
         repoVars, route
<1>9. Environment \/ UNCHANGED vars => UNCHANGED <<engine, jobs>>
  BY DEF Environment, EditAuthority, Elapse, LeaseElapses, vars, repoVars,
         workspaceVars, route
<1>10. ASSUME NEW c \in claims, Forget(c) PROVE UNCHANGED <<engine, jobs>>
  BY <1>10 DEF Forget, repoVars, workspaceVars
<1>. QED BY <1>1, <1>2, <1>4, <1>5, <1>6, <1>7, <1>8, <1>9, <1>10
         DEF Next, Working

LEMMA AttemptStep == AttemptInv /\ [Next]_vars => AttemptInv'
<1>. SUFFICES ASSUME AttemptInv, [Next]_vars PROVE AttemptInv'
  OBVIOUS
<1>. USE DEF AttemptInv
<1>1. TypeOK'
  <2>1. CASE UNCHANGED vars
    BY <2>1, WorkspaceStutters DEF TypeOK, vars, repoVars, callerVars
  <2>. QED BY <2>1, SubmissionsTyped, LeasingTyped, WorkingTyped,
              EnvironmentTyped DEF Next
<1>2. AdmittedHasAuthority'
  BY AuthorityStep
<1>3. (UniqueTokens /\ OneCurrentAttempt /\ PublishedIffDone)'
  <2>1. CASE UNCHANGED <<jobs, publications>> /\ claims' \subseteq claims
    BY <2>1, AttemptsKept, PublicationsKept
  <2>2. CASE AdmitsNew
    <3>1. claims' \subseteq claims /\ UNCHANGED publications
      BY <2>2, AdmitNewRows
    <3>2. \A j \in Jobs : \/ jobs'[j] = jobs[j]
                         \/ /\ jobs[j].status = "absent"
                            /\ jobs'[j].status = "native_queued"
      BY <2>2, AdmitNewRows DEF Admitted
    <3>. QED BY <3>1, <3>2, AttemptsKept, PublicationsKept
  <2>3. CASE (\E j \in Jobs : Cancel(j)) \/ (\E c \in claims : Fail(c))
    <3>1. claims' \subseteq claims /\ UNCHANGED publications
      BY <2>3, EndedRows
    <3>2. \A j \in Jobs : \/ jobs'[j] = jobs[j]
                         \/ /\ jobs[j].status \in Active
                            /\ jobs'[j].status \in {"native_cancelled", "native_error"}
      BY <2>3, EndedRows
    <3>. QED BY <3>1, <3>2, AttemptsKept, PublicationsKept DEF Active
  <2>4. ASSUME NEW o \in RustOwners, NEW j \in Jobs, NEW t \in Tokens,
               ClaimJob(o, j, t)
        PROVE  (UniqueTokens /\ OneCurrentAttempt /\ PublishedIffDone)'
    <3>1. \A i \in Jobs : \/ jobs'[i] = jobs[i]
                         \/ /\ jobs[i].status # "native_done"
                            /\ jobs'[i].status # "native_done"
      BY <2>4, ClaimRows, PassedOverRow DEF Active
    <3>2. UNCHANGED publications
      BY <2>4 DEF ClaimJob
    <3>. QED BY <2>4, <3>1, <3>2, AttemptGiven, PublicationsKept
  <2>5. ASSUME NEW o \in RustOwners, ClaimNothing(o)
        PROVE  (UniqueTokens /\ OneCurrentAttempt /\ PublishedIffDone)'
    <3>1. \A i \in Jobs : \/ jobs'[i] = jobs[i]
                         \/ /\ jobs[i].status \in Active
                            /\ jobs'[i].status \in {"native_queued", "native_error"}
      BY <2>5, ClaimNothingRows, PassedOverRow
    <3>2. UNCHANGED publications /\ claims' \subseteq claims
      BY <2>5 DEF ClaimNothing, callerVars
    <3>. QED BY <3>1, <3>2, AttemptsKept, PublicationsKept DEF Active
  <2>6. ASSUME NEW c \in claims, Publish(c)
        PROVE  (UniqueTokens /\ OneCurrentAttempt /\ PublishedIffDone)'
    <3>1. claims' \subseteq claims
      BY <2>6, PublishRows
    <3>2. \A i \in Jobs : \/ jobs'[i] = jobs[i]
                         \/ jobs'[i].status = "native_done"
      BY <2>6, PublishRows
    <3>. QED BY <2>6, <3>1, <3>2, AttemptsKept, PublicationAdded
  <2>. QED BY <2>1, <2>2, <2>3, <2>4, <2>5, <2>6, StepCases
<1>4. NativeWorkNeedsRoute'
  BY RouteKept
<1>. QED BY <1>1, <1>2, <1>3, <1>4

LEMMA InitAttempts == Init => AttemptInv
<1>. SUFFICES ASSUME Init PROVE AttemptInv
  OBVIOUS
<1>1. TypeOK
  BY InitTyped
<1>2. \A j \in Jobs : jobs[j].status = "absent" /\ publications[j] = {}
  BY DEF Init, NoJob
<1>3. claims = {}
  BY DEF Init
<1>. QED BY <1>1, <1>2, <1>3
         DEF AttemptInv, AdmittedHasAuthority, Admitted, UniqueTokens,
             OneCurrentAttempt, PublishedIffDone, NativeWorkNeedsRoute,
             ActiveJobs, Active

LEMMA AttemptInvariant == Spec => []AttemptInv
BY InitAttempts, AttemptStep, PTL DEF Spec

\* Of the attempts of a job that are still about, at most one may report, and
\* it is the last one claimed (`claim`, `fail`, `publish`).
THEOREM AttemptsAreFenced == Spec => []OneCurrentAttempt
BY AttemptInvariant, PTL DEF AttemptInv

\* A job has a publication exactly when it is done, only one, and of its last
\* attempt (`publish`, `cancel`, `fail`, `claim`).
THEOREM PublishedExactlyOnce == Spec => []PublishedIffDone
BY AttemptInvariant, PTL DEF AttemptInv

\* No native job waits or runs while the Python service has the workspace.
THEOREM NativeWorkIsRouted == Spec => []NativeWorkNeedsRoute
BY AttemptInvariant, PTL DEF AttemptInv

\* A step that publishes does it in the current epoch, routed to Rust, with the
\* lease in the hands of the job's owner and before the deadline (`publish`).
THEOREM PublicationIsFenced == Spec => FencedPublication
<1>. DEFINE Fenced(j) ==
       publications'[j] # publications[j] =>
           /\ \E p \in publications'[j] : p.epoch = epoch
           /\ engine = "rust"
           /\ Holds(jobs[j].owner)
           /\ deadlineLeft[j] > 0
<1>1. AttemptInv /\ [Next]_vars => [\A j \in Jobs : Fenced(j)]_vars
  <2>. SUFFICES ASSUME AttemptInv, [Next]_vars, NEW j \in Jobs,
                       publications'[j] # publications[j]
                PROVE  /\ \E p \in publications'[j] : p.epoch = epoch
                       /\ engine = "rust"
                       /\ Holds(jobs[j].owner)
                       /\ deadlineLeft[j] > 0
    OBVIOUS
  <2>1. PICK c \in claims : Publish(c)
    <3>1. TypeOK
      BY DEF AttemptInv
    <3>. QED BY <3>1, StepCases, AdmitNewRows, EndedRows
             DEF ClaimJob, ClaimNothing
  <2>2. c.job = j
    BY <2>1, PublishRows DEF AttemptInv
  <2>3. [attempt |-> c.attempt, epoch |-> c.epoch] \in publications'[j]
    BY <2>1, <2>2, PublishRows DEF AttemptInv
  <2>4. c.owner = jobs[j].owner
    BY <2>1, <2>2 DEF Publish, AttemptInv, OneCurrentAttempt
  <2>. QED BY <2>1, <2>2, <2>3, <2>4 DEF Publish, LeaseValid, InTime
<1>. QED BY <1>1, AttemptInvariant, PTL DEF Spec, FencedPublication

-----------------------------------------------------------------------------
\* The lease and the route, where `acquire` runs as one statement.

LEMMA LeaseStep ==
    ASSUME Serializable, WorkspaceTypeOK, LeaseFollowsRoute, [Next]_vars
    PROVE  LeaseFollowsRoute'
<1>. USE WorkspaceAssumption
     DEF LeaseFollowsRoute, LeaseLive, WorkspaceTypeOK, row, route
<1>1. CASE UNCHANGED <<row, route>>
  BY <1>1 DEF EngineOf
<1>2. ASSUME NEW o \in Owners, TakeLease(o) PROVE LeaseFollowsRoute'
  BY <1>2 DEF TakeLease, MayTake, EngineOf
<1>3. ASSUME NEW o \in Owners, ExtendLease(o) \/ ReleaseLease(o)
      PROVE  LeaseFollowsRoute'
  BY <1>3 DEF ExtendLease, ReleaseLease, Holds, EngineOf
<1>4. ASSUME NEW target \in {"rust", "legacy"}, NEW drained, SetRoute(target, drained)
      PROVE  LeaseFollowsRoute'
  BY <1>4 DEF SetRoute, LeaseInTheWay, EngineOf
<1>5. CASE LeaseElapses
  BY <1>5 DEF LeaseElapses, EngineOf
<1>6. Submissions => \/ UNCHANGED <<row, route>>
                     \/ \E target \in {"rust", "legacy"}, legacyDrained \in BOOLEAN :
                            Cutover(target, legacyDrained)
  BY DEF Submissions, AdmitAgain, AdmitNew, Cancel, CommitDocument,
         AdvanceRevision, workspaceVars
<1>7. CASE \E target \in {"rust", "legacy"}, legacyDrained \in BOOLEAN :
               Cutover(target, legacyDrained)
  BY <1>4, <1>7 DEF Cutover
<1>8. CASE Leasing
  BY <1>1, <1>2, <1>3, <1>8
  DEF Leasing, AcquireRead, AcquireAbandon, Acquire, Renew, Release,
      ReadRoute, AbandonRead
<1>9. Working => UNCHANGED <<row, route>>
  BY DEF Working, ClaimJob, ClaimNothing, Fail, Publish, Forget, workspaceVars
<1>10. CASE Environment
  BY <1>1, <1>5, <1>10 DEF Environment, EditAuthority, Elapse, workspaceVars
<1>11. UNCHANGED vars => UNCHANGED <<row, route>>
  BY DEF vars, workspaceVars
<1>. QED BY <1>1, <1>6, <1>7, <1>8, <1>9, <1>10, <1>11 DEF Next

\* On SQLite the live lease always belongs to the engine the workspace is
\* routed to.  On PostgreSQL it does not: see the run legacy_lease.
THEOREM LeaseIsRouted ==
    ASSUME Serializable
    PROVE  Spec => []LeaseFollowsRoute
<1>1. Init => LeaseFollowsRoute
  BY DEF Init, WorkspaceInit, LeaseFollowsRoute, LeaseLive
<1>2. TypeOK /\ LeaseFollowsRoute /\ [Next]_vars => LeaseFollowsRoute'
  BY LeaseStep DEF TypeOK
<1>. QED BY <1>1, <1>2, TypeCorrect, PTL DEF Spec

-----------------------------------------------------------------------------
\* Idempotency keys.

ReceiptsOfAdmitted == \A r \in receipts : r.job \in Admitted /\ r.key \in Keys

KeyInv == TypeOK /\ ReceiptsOfAdmitted /\ OneJobPerKey

\* Steps after which every job still has the key, input and revision it was
\* admitted with, and no job is new.
SameRequests ==
    \A j \in Jobs :
        /\ (jobs'[j].status = "absent") <=> (jobs[j].status = "absent")
        /\ jobs'[j].key = jobs[j].key
        /\ jobs'[j].input = jobs[j].input
        /\ jobs'[j].revision = jobs[j].revision

LEMMA SameRequestsStep ==
    ASSUME TypeOK, [Next]_vars, ~ AdmitsNew
    PROVE  SameRequests
<1>. USE DEF SameRequests
<1>1. CASE UNCHANGED jobs
  BY <1>1
<1>2. CASE (\E j \in Jobs : Cancel(j)) \/ (\E c \in claims : Fail(c))
  BY <1>2, EndedRows DEF Active
<1>3. ASSUME NEW o \in RustOwners, NEW j \in Jobs, NEW t \in Tokens,
             ClaimJob(o, j, t)
      PROVE  SameRequests
  BY <1>3, ClaimRows, PassedOverRow DEF Active
<1>4. ASSUME NEW o \in RustOwners, ClaimNothing(o) PROVE SameRequests
  BY <1>4, ClaimNothingRows, PassedOverRow DEF Active
<1>5. ASSUME NEW c \in claims, Publish(c) PROVE SameRequests
  BY <1>5, PublishRows
<1>. QED BY <1>1, <1>2, <1>3, <1>4, <1>5, StepCases

LEMMA KeysKept ==
    ASSUME KeyInv, SameRequests, UNCHANGED receipts
    PROVE  (ReceiptsOfAdmitted /\ OneJobPerKey)'
<1>1. Admitted' = Admitted
  BY DEF SameRequests, Admitted
<1>2. \A r \in receipts : r.job \in Jobs
  BY DEF KeyInv, TypeOK, Receipt
<1>. QED BY <1>1, <1>2
         DEF KeyInv, SameRequests, ReceiptsOfAdmitted, OneJobPerKey, Admitted

LEMMA ReceiptAdded ==
    ASSUME KeyInv, UNCHANGED jobs, NEW j \in Admitted, jobs[j].key \in Keys,
           receipts' = receipts \cup
               {[key |-> jobs[j].key, input |-> jobs[j].input,
                 revision |-> jobs[j].revision, job |-> j]}
    PROVE  (ReceiptsOfAdmitted /\ OneJobPerKey)'
<1>. DEFINE new == [key |-> jobs[j].key, input |-> jobs[j].input,
                    revision |-> jobs[j].revision, job |-> j]
<1>1. Admitted' = Admitted
  BY DEF Admitted
<1>2. ASSUME NEW r \in receipts, r.key = new.key PROVE r = new
  <2>1. r.job \in Admitted /\ jobs[r.job].key = jobs[j].key
    BY <1>2 DEF KeyInv, ReceiptsOfAdmitted, OneJobPerKey
  <2>2. r.job = j
    BY <2>1, NativeRepoAssumption DEF KeyInv, OneJobPerKey
  <2>3. r.input = new.input /\ r.revision = new.revision
    BY <2>2 DEF KeyInv, OneJobPerKey
  <2>. QED BY <1>2, <2>2, <2>3 DEF KeyInv, TypeOK, Receipt
<1>3. \A r, s \in receipts' : r.key = s.key => r = s
  BY <1>2 DEF KeyInv, OneJobPerKey
<1>4. ReceiptsOfAdmitted'
  BY <1>1 DEF KeyInv, ReceiptsOfAdmitted
<1>. QED BY <1>1, <1>3, <1>4 DEF KeyInv, OneJobPerKey

LEMMA RequestAdmitted ==
    ASSUME KeyInv, AdmitsNew
    PROVE  (ReceiptsOfAdmitted /\ OneJobPerKey)'
<1>1. PICK k \in Keys \cup {NoKey}, i \in Inputs, rev \in 0 .. MaxRevision,
           seconds \in Deadlines : AdmitNew(k, i, rev, seconds)
  BY DEF AdmitsNew
<1>2. PICK j \in Jobs \ Admitted :
          /\ jobs' = [jobs EXCEPT ![j] =
                 [status |-> "native_queued", owner |-> NoOwner,
                  token |-> NoToken, attempt |-> 0,
                  created |-> Cardinality(Admitted) + 1,
                  key |-> k, input |-> i, revision |-> rev]]
          /\ receipts' = IF k = NoKey THEN receipts ELSE receipts \cup
                 {[key |-> k, input |-> i, revision |-> rev, job |-> j]}
  BY <1>1 DEF AdmitNew
<1>. DEFINE new == [key |-> k, input |-> i, revision |-> rev, job |-> j]
<1>3. /\ jobs'[j].status = "native_queued" /\ jobs'[j].key = k
      /\ jobs'[j].input = i /\ jobs'[j].revision = rev
      /\ \A m \in Jobs \ {j} : jobs'[m] = jobs[m]
  BY <1>2 DEF KeyInv, TypeOK
<1>4. Admitted' = Admitted \cup {j}
  BY <1>3 DEF Admitted
<1>5. KeyUnused(k)
  BY <1>1 DEF AdmitNew
<1>6. \A r \in receipts : r.job \in Admitted /\ r.job # j /\ r.key \in Keys
                         /\ r.key # k
  BY <1>5, NativeRepoAssumption
  DEF KeyInv, ReceiptsOfAdmitted, OneJobPerKey, KeyUnused
<1>7. ReceiptsOfAdmitted'
  BY <1>2, <1>4, <1>6 DEF ReceiptsOfAdmitted
<1>8. \A r, s \in receipts' : r.key = s.key => r = s
  BY <1>2, <1>6 DEF KeyInv, OneJobPerKey
<1>9. ASSUME NEW r \in receipts'
      PROVE  /\ jobs'[r.job].key = r.key
             /\ jobs'[r.job].input = r.input
             /\ jobs'[r.job].revision = r.revision
  <2>1. CASE r \in receipts
    <3>1. jobs'[r.job] = jobs[r.job]
      BY <1>3, <1>6, <2>1 DEF Admitted
    <3>. QED BY <2>1, <3>1 DEF KeyInv, OneJobPerKey
  <2>2. CASE r = new
    BY <1>3, <2>2
  <2>. QED BY <1>2, <1>9, <2>1, <2>2
<1>10. \A m, n \in Admitted' :
           jobs'[m].key = jobs'[n].key /\ jobs'[m].key # NoKey => m = n
  BY <1>3, <1>4, <1>5 DEF KeyInv, OneJobPerKey, KeyUnused, Admitted
<1>. QED BY <1>7, <1>8, <1>9, <1>10 DEF OneJobPerKey

LEMMA KeyStep == KeyInv /\ [Next]_vars /\ TypeOK' => KeyInv'
<1>. SUFFICES ASSUME KeyInv, [Next]_vars, TypeOK' PROVE KeyInv'
  OBVIOUS
<1>1. CASE AdmitsNew
  BY <1>1, RequestAdmitted DEF KeyInv
<1>2. CASE ~ AdmitsNew /\ UNCHANGED receipts
  <2>1. SameRequests
    BY <1>2, SameRequestsStep DEF KeyInv
  <2>. QED BY <1>2, <2>1, KeysKept DEF KeyInv
<1>3. CASE \E k \in Keys, i \in Inputs, rev \in 0 .. MaxRevision :
               AdmitAgain(k, i, rev)
  <2>1. PICK k \in Keys, i \in Inputs, rev \in 0 .. MaxRevision :
            AdmitAgain(k, i, rev)
    BY <1>3
  <2>2. PICK j \in Admitted :
            /\ jobs[j].key = k /\ jobs[j].input = i /\ jobs[j].revision = rev
            /\ receipts' = receipts \cup
                   {[key |-> k, input |-> i, revision |-> rev, job |-> j]}
            /\ UNCHANGED jobs
    BY <2>1 DEF AdmitAgain, repoVars
  <2>. QED BY <2>2, ReceiptAdded DEF KeyInv
<1>4. Submissions => \/ UNCHANGED receipts
                     \/ AdmitsNew
                     \/ \E k \in Keys, i \in Inputs, rev \in 0 .. MaxRevision :
                            AdmitAgain(k, i, rev)
  BY DEF Submissions, AdmitsNew, Cancel, CommitDocument, Cutover, callerVars
<1>5. Leasing \/ Working \/ Environment \/ UNCHANGED vars => UNCHANGED receipts
  <2>1. Leasing => UNCHANGED receipts
    BY DEF Leasing, AcquireRead, AcquireAbandon, Acquire, Renew, Release,
           callerVars
  <2>2. Working => UNCHANGED receipts
    BY DEF Working, ClaimJob, ClaimNothing, Fail, Publish, Forget, callerVars
  <2>. QED BY <2>1, <2>2 DEF Environment, EditAuthority, Elapse, vars, callerVars
<1>. QED BY <1>1, <1>2, <1>3, <1>4, <1>5 DEF Next

\* All the answers ever given to one idempotency key name the one job that was
\* admitted for exactly that input and revision (`admit`).
THEOREM KeysNameOneJob == Spec => []OneJobPerKey
<1>1. Init => KeyInv
  <2>. SUFFICES ASSUME Init PROVE KeyInv
    OBVIOUS
  <2>1. receipts = {} /\ Admitted = {}
    BY DEF Init, NoJob, Admitted
  <2>. QED BY <2>1, InitTyped DEF KeyInv, ReceiptsOfAdmitted, OneJobPerKey
<1>2. KeyInv => OneJobPerKey
  BY DEF KeyInv
<1>. QED BY <1>1, <1>2, KeyStep, TypeCorrect, PTL DEF Spec

-----------------------------------------------------------------------------
\* The bound of the queue.

LEMMA QueueStep ==
    ASSUME TypeOK, QueueBounded, [Next]_vars
    PROVE  QueueBounded'
<1>1. IsFiniteSet(ActiveJobs) /\ Cardinality(ActiveJobs) \in Nat
  <2>1. ActiveJobs \subseteq Jobs
    BY DEF ActiveJobs
  <2>. QED BY <2>1, NativeRepoAssumption, FS_Subset, FS_CardinalityType
<1>2. ASSUME ActiveJobs' \subseteq ActiveJobs PROVE QueueBounded'
  <2>1. Cardinality(ActiveJobs') <= Cardinality(ActiveJobs)
    BY <1>1, <1>2, FS_Subset
  <2>2. Cardinality(ActiveJobs') \in Nat
    BY <1>1, <1>2, FS_Subset, FS_CardinalityType
  <2>. QED BY <1>1, <2>1, <2>2, NativeRepoAssumption DEF QueueBounded
<1>3. CASE AdmitsNew
  <2>1. PICK j \in Jobs \ Admitted : \A i \in Jobs \ {j} : jobs'[i] = jobs[i]
    BY <1>3, AdmitNewRows
  <2>2. ActiveJobs' \subseteq ActiveJobs \cup {j}
    BY <2>1 DEF ActiveJobs
  <2>3. Cardinality(ActiveJobs) < MaxQueue
    BY <1>3 DEF AdmitsNew, AdmitNew, QueueHasRoom
  <2>4. /\ IsFiniteSet(ActiveJobs \cup {j})
        /\ Cardinality(ActiveJobs \cup {j}) \in Nat
        /\ Cardinality(ActiveJobs \cup {j}) <= Cardinality(ActiveJobs) + 1
    <3>1. /\ IsFiniteSet(ActiveJobs \cup {j})
          /\ \/ Cardinality(ActiveJobs \cup {j}) = Cardinality(ActiveJobs)
             \/ Cardinality(ActiveJobs \cup {j}) = Cardinality(ActiveJobs) + 1
      BY <1>1, FS_AddElement
    <3>. QED BY <1>1, <3>1
  <2>5. /\ Cardinality(ActiveJobs') \in Nat
        /\ Cardinality(ActiveJobs') <= Cardinality(ActiveJobs \cup {j})
    BY <2>2, <2>4, FS_Subset, FS_CardinalityType
  <2>. QED BY <1>1, <2>3, <2>4, <2>5, NativeRepoAssumption DEF QueueBounded
<1>4. CASE UNCHANGED jobs
  BY <1>2, <1>4 DEF ActiveJobs
<1>5. CASE (\E j \in Jobs : Cancel(j)) \/ (\E c \in claims : Fail(c))
  BY <1>2, <1>5, EndedRows DEF ActiveJobs
<1>6. ASSUME NEW o \in RustOwners, NEW j \in Jobs, NEW t \in Tokens,
             ClaimJob(o, j, t)
      PROVE  QueueBounded'
  BY <1>2, <1>6, ClaimRows, PassedOverRow DEF ActiveJobs
<1>7. ASSUME NEW o \in RustOwners, ClaimNothing(o) PROVE QueueBounded'
  BY <1>2, <1>7, ClaimNothingRows, PassedOverRow DEF ActiveJobs
<1>8. ASSUME NEW c \in claims, Publish(c) PROVE QueueBounded'
  BY <1>2, <1>8, PublishRows DEF ActiveJobs, Active
<1>. QED BY <1>3, <1>4, <1>5, <1>6, <1>7, <1>8, StepCases

\* Waiting, running and requeued jobs together never exceed MAX_QUEUE.
THEOREM QueueIsBounded == Spec => []QueueBounded
<1>1. Init => QueueBounded
  <2>. SUFFICES ASSUME Init PROVE QueueBounded
    OBVIOUS
  <2>1. ActiveJobs = {}
    BY DEF Init, NoJob, ActiveJobs, Active
  <2>. QED BY <2>1, FS_EmptySet, NativeRepoAssumption DEF QueueBounded
<1>2. TypeOK /\ QueueBounded /\ [Next]_vars => QueueBounded'
  BY QueueStep
<1>. QED BY <1>1, <1>2, TypeCorrect, PTL DEF Spec

-----------------------------------------------------------------------------
\* The promise to the client: every step of a row is a step of the job's life
\* in JobLifecycle, or none.

LifeStep(j) ==
    \/ Lifecycle!Same(j) \/ Lifecycle!Admit(j) \/ Lifecycle!Start(j)
    \/ Lifecycle!Deliver(j) \/ Lifecycle!GiveUp(j)

\* With one publication per result, the answer is the last start.
AnswerIsLast == \A j \in Jobs :
    Answer(j) = IF jobs[j].status = "native_done" THEN jobs[j].attempt ELSE 0

LEMMA AnswersAreLast ==
    /\ PublishedIffDone => AnswerIsLast
    /\ PublishedIffDone' => AnswerIsLast'
BY DEF PublishedIffDone, AnswerIsLast, Answer

PromiseInv ==
    /\ AttemptInv
    /\ \A j \in Jobs : jobs[j].status = "native_running" => jobs[j].attempt > 0

LEMMA RunningStep == PromiseInv /\ [Next]_vars /\ AttemptInv' => PromiseInv'
<1>. SUFFICES ASSUME PromiseInv, [Next]_vars, NEW j \in Jobs,
                     jobs'[j].status = "native_running"
              PROVE  jobs'[j].attempt > 0
  BY DEF PromiseInv
<1>. TypeOK
  BY DEF PromiseInv, AttemptInv
<1>1. jobs[j] \in JobRow /\ jobs[j].attempt \in Nat
  BY DEF TypeOK, JobRow
<1>2. ASSUME jobs'[j] = jobs[j] PROVE jobs'[j].attempt > 0
  BY <1>2 DEF PromiseInv
<1>3. CASE UNCHANGED jobs
  BY <1>2, <1>3
<1>4. CASE AdmitsNew
  BY <1>2, <1>4, AdmitNewRows
<1>5. CASE (\E i \in Jobs : Cancel(i)) \/ (\E c \in claims : Fail(c))
  BY <1>2, <1>5, EndedRows
<1>6. ASSUME PassedOver(j) PROVE jobs'[j].attempt > 0
  BY <1>2, <1>6, PassedOverRow
<1>7. ASSUME NEW o \in RustOwners, NEW i \in Jobs, NEW t \in Tokens, ClaimJob(o, i, t)
      PROVE  jobs'[j].attempt > 0
  BY <1>1, <1>6, <1>7, ClaimRows
<1>8. ASSUME NEW o \in RustOwners, ClaimNothing(o) PROVE jobs'[j].attempt > 0
  BY <1>6, <1>8, ClaimNothingRows
<1>9. ASSUME NEW c \in claims, Publish(c) PROVE jobs'[j].attempt > 0
  BY <1>2, <1>9, PublishRows
<1>. QED BY <1>3, <1>4, <1>5, <1>7, <1>8, <1>9, StepCases

\* What LifeStep needs of a row, field by field.
RowSame(j) ==
    /\ jobs'[j].key = jobs[j].key /\ jobs'[j].input = jobs[j].input
    /\ jobs'[j].revision = jobs[j].revision
    /\ jobs'[j].attempt = jobs[j].attempt

LEMMA SameLife ==
    ASSUME TypeOK, AnswerIsLast, AnswerIsLast', NEW j \in Jobs, jobs'[j] = jobs[j]
    PROVE  LifeStep(j)
<1>1. jobs[j].status \in Statuses
  BY DEF TypeOK, JobRow
<1>. QED BY <1>1
     DEF AnswerIsLast, LifeStep, Lifecycle!Same, RequestOf, Outcome, Statuses,
         Active, Terminal

LEMMA QueuedLife ==
    ASSUME AnswerIsLast, AnswerIsLast', NEW j \in Jobs, RowSame(j),
           jobs[j].status \in Active, jobs'[j].status = "native_queued"
    PROVE  LifeStep(j)
BY DEF AnswerIsLast, LifeStep, Lifecycle!Same, RequestOf, Outcome, Active, RowSame

LEMMA EndedLife ==
    ASSUME AnswerIsLast, AnswerIsLast', NEW j \in Jobs, RowSame(j),
           jobs[j].status \in Active,
           jobs'[j].status \in {"native_error", "native_cancelled"}
    PROVE  LifeStep(j)
BY DEF AnswerIsLast, LifeStep, Lifecycle!GiveUp, RequestOf, Outcome, Active, RowSame

LEMMA PassedOverLife ==
    ASSUME TypeOK, AnswerIsLast, AnswerIsLast', NEW j \in Jobs, PassedOver(j)
    PROVE  LifeStep(j)
<1>1. jobs[j] \in JobRow
  BY DEF TypeOK
<1>2. CASE jobs'[j] = jobs[j]
  BY <1>2, SameLife
<1>3. CASE jobs[j].status \in Active /\ jobs'[j] = Requeued(jobs[j])
  BY <1>1, <1>3, QueuedLife DEF RowSame, Requeued, JobRow
<1>4. CASE jobs[j].status \in Active /\ jobs'[j] = Refused(jobs[j])
  BY <1>1, <1>4, EndedLife DEF RowSame, Requeued, Refused, JobRow
<1>. QED BY <1>2, <1>3, <1>4 DEF PassedOver

LEMMA CancelLife ==
    ASSUME TypeOK, AnswerIsLast, AnswerIsLast', NEW j \in Jobs,
           (\E i \in Jobs : Cancel(i)) \/ (\E c \in claims : Fail(c))
    PROVE  LifeStep(j)
<1>1. ASSUME NEW i \in Jobs, jobs[i].status \in Active,
             NEW status \in {"native_error", "native_cancelled"},
             jobs' = [jobs EXCEPT ![i].status = status, ![i].token = NoToken]
      PROVE  LifeStep(j)
  <2>1. jobs[j] \in JobRow
    BY DEF TypeOK
  <2>2. CASE i = j
    <3>1. RowSame(j) /\ jobs'[j].status = status
      BY <1>1, <2>1, <2>2 DEF TypeOK, JobRow, RowSame
    <3>. QED BY <1>1, <2>2, <3>1, EndedLife
  <2>3. CASE i # j
    BY <1>1, <2>3, SameLife DEF TypeOK
  <2>. QED BY <2>2, <2>3
<1>2. ASSUME NEW c \in claims, Fail(c) PROVE c.job \in Jobs /\ jobs[c.job].status \in Active
  BY <1>2 DEF Fail, Current, Active, TypeOK, Claim
<1>. QED BY <1>1, <1>2 DEF Cancel, Cancellable, Fail

LEMMA AdmitLife ==
    ASSUME TypeOK, AnswerIsLast, AnswerIsLast', AdmitsNew, NEW j \in Jobs
    PROVE  LifeStep(j)
<1>1. PICK k \in Keys \cup {NoKey}, i \in Inputs, rev \in 0 .. MaxRevision,
           seconds \in Deadlines : AdmitNew(k, i, rev, seconds)
  BY DEF AdmitsNew
<1>2. PICK n \in Jobs \ Admitted :
          /\ jobs' = [jobs EXCEPT ![n] =
                 [status |-> "native_queued", owner |-> NoOwner,
                  token |-> NoToken, attempt |-> 0,
                  created |-> Cardinality(Admitted) + 1,
                  key |-> k, input |-> i, revision |-> rev]]
          /\ deadlineLeft' = [deadlineLeft EXCEPT ![n] = seconds]
  BY <1>1 DEF AdmitNew
<1>3. CASE j = n
  <2>1. /\ jobs'[j].status = "native_queued" /\ jobs'[j].attempt = 0
        /\ jobs'[j].key = k /\ jobs'[j].input = i /\ jobs'[j].revision = rev
        /\ deadlineLeft'[j] = seconds /\ jobs[j].status = "absent"
    BY <1>2, <1>3 DEF TypeOK, Admitted
  <2>2. deadlineLeft'[j] # 0
    BY <2>1, NativeRepoAssumption
  <2>. QED BY <2>1, <2>2
       DEF LifeStep, Lifecycle!Admit, RequestOf, Outcome, Active, AnswerIsLast
<1>4. CASE j # n
  BY <1>2, <1>4, SameLife DEF TypeOK
<1>. QED BY <1>3, <1>4

LEMMA ClaimLife ==
    ASSUME TypeOK, AnswerIsLast, AnswerIsLast', NEW j \in Jobs,
           NEW o \in RustOwners, NEW i \in Jobs, NEW t \in Tokens, ClaimJob(o, i, t)
    PROVE  LifeStep(j)
<1>1. CASE i # j
  BY <1>1, ClaimRows, PassedOverLife
<1>2. CASE i = j
  <2>1. deadlineLeft[j] # 0 /\ jobs[j].attempt < MaxAttempts
    BY <1>2 DEF ClaimJob, FirstRunnable, Runnable
  <2>2. /\ jobs[j].status \in Active /\ jobs'[j].status = "native_running"
        /\ jobs'[j].attempt = jobs[j].attempt + 1
        /\ jobs'[j].key = jobs[j].key /\ jobs'[j].input = jobs[j].input
        /\ jobs'[j].revision = jobs[j].revision
    BY <1>2, ClaimRows
  <2>. QED BY <2>1, <2>2
       DEF LifeStep, Lifecycle!Start, RequestOf, Outcome, Active, AnswerIsLast
<1>. QED BY <1>1, <1>2

LEMMA PublishLife ==
    ASSUME PromiseInv, AnswerIsLast, AnswerIsLast', NEW j \in Jobs,
           NEW c \in claims, Publish(c)
    PROVE  LifeStep(j)
<1>. TypeOK
  BY DEF PromiseInv, AttemptInv
<1>1. CASE c.job # j
  BY <1>1, PublishRows, SameLife
<1>2. CASE c.job = j
  <2>1. deadlineLeft[j] # 0 /\ jobs[j].attempt > 0
    <3>1. deadlineLeft[j] \in Nat /\ deadlineLeft[j] > 0
      BY <1>2 DEF Publish, InTime, TypeOK
    <3>2. jobs[j].status = "native_running"
      BY <1>2, PublishRows
    <3>. QED BY <3>1, <3>2 DEF PromiseInv
  <2>2. /\ jobs[j].status = "native_running" /\ jobs'[j].status = "native_done"
        /\ RowSame(j)
    BY <1>2, PublishRows DEF RowSame
  <2>. QED BY <2>1, <2>2
       DEF LifeStep, Lifecycle!Deliver, RequestOf, Outcome, Active, AnswerIsLast, RowSame
<1>. QED BY <1>1, <1>2

\* A deadline that has passed stays passed.
LEMMA ExpiredKept ==
    ASSUME TypeOK, [Next]_vars, NEW j \in Admitted, deadlineLeft[j] = 0
    PROVE  j \in Admitted' /\ deadlineLeft'[j] = 0
<1>1. j \in Admitted'
  <2>1. CASE AdmitsNew
    BY <2>1, AdmitNewRows DEF Admitted
  <2>2. CASE ~ AdmitsNew
    BY <2>2, SameRequestsStep DEF SameRequests, Admitted
  <2>. QED BY <2>1, <2>2
<1>2. deadlineLeft'[j] = 0
  <2>1. CASE UNCHANGED deadlineLeft
    BY <2>1
  <2>2. CASE AdmitsNew
    BY <2>2 DEF AdmitsNew, AdmitNew, TypeOK, Admitted
  <2>3. CASE Elapse
    BY <2>3 DEF Elapse, TypeOK, Admitted
  <2>4. \/ UNCHANGED deadlineLeft \/ AdmitsNew \/ Elapse
    BY DEF Next, Submissions, AdmitAgain, AdmitsNew, Cancel, CommitDocument, Cutover,
           Leasing, AcquireRead, AcquireAbandon, Acquire, Renew, Release,
           Working, ClaimJob, ClaimNothing, Fail, Publish, Forget,
           Environment, EditAuthority, repoVars, vars
  <2>. QED BY <2>1, <2>2, <2>3, <2>4
<1>. QED BY <1>1, <1>2

LEMMA LifecycleNext ==
    ASSUME PromiseInv, AttemptInv', [Next]_vars
    PROVE  [Lifecycle!Next]_(Lifecycle!vars)
<1>. TypeOK /\ AnswerIsLast /\ AnswerIsLast'
  BY AnswersAreLast DEF PromiseInv, AttemptInv
<1>1. ASSUME NEW j \in Jobs PROVE LifeStep(j)
  <2>1. CASE UNCHANGED jobs
    BY <2>1, SameLife
  <2>2. ASSUME NEW o \in RustOwners, ClaimNothing(o) PROVE LifeStep(j)
    BY <2>2, ClaimNothingRows, PassedOverLife
  <2>. QED BY <2>1, <2>2, AdmitLife, CancelLife, ClaimLife, PublishLife, StepCases
<1>2. ASSUME NEW j \in Jobs PROVE Lifecycle!Clock(j)
  BY ExpiredKept DEF Lifecycle!Clock
<1>. QED BY <1>1, <1>2 DEF LifeStep, Lifecycle!Next

\* The Rust repository keeps the promise of JobLifecycle to its clients: a job
\* ends once, with the result of its last start, before its deadline, is
\* started a bounded number of times and never changes what it was admitted for.
THEOREM RepositoryKeepsPromise == Spec => ImplementsLifecycle
<1>1. Init => \A j \in Jobs : jobs[j].status = "absent" /\ jobs[j].attempt = 0
  BY DEF Init, NoJob
<1>2. Init => Lifecycle!Init
  <2>. SUFFICES ASSUME Init PROVE Lifecycle!Init
    OBVIOUS
  <2>1. \A j \in Jobs : RequestOf(j) = "none" /\ Outcome(j) = "none"
    BY <1>1 DEF RequestOf, Outcome, Active
  <2>2. \A j \in Jobs : Answer(j) = 0
    BY DEF Init, Answer
  <2>3. \A j \in Jobs : (j \in Admitted /\ deadlineLeft[j] = 0) = FALSE
    BY <1>1 DEF Admitted
  <2>4. /\ [j \in Jobs |-> RequestOf(j)] = [j \in Jobs |-> "none"]
        /\ [j \in Jobs |-> Outcome(j)] = [j \in Jobs |-> "none"]
    BY <2>1
  <2>5. [j \in Jobs |-> jobs[j].attempt] = [j \in Jobs |-> 0]
    BY <1>1
  <2>6. [j \in Jobs |-> Answer(j)] = [j \in Jobs |-> 0]
    BY <2>2
  <2>7. [j \in Jobs |-> j \in Admitted /\ deadlineLeft[j] = 0] = [j \in Jobs |-> FALSE]
    BY <2>3
  <2>. QED BY <2>4, <2>5, <2>6, <2>7 DEF Lifecycle!Init
<1>3. PromiseInv /\ AttemptInv' /\ [Next]_vars => PromiseInv'
  BY RunningStep
<1>4. PromiseInv /\ AttemptInv' /\ [Next]_vars => [Lifecycle!Next]_(Lifecycle!vars)
  BY LifecycleNext
<1>5. Init /\ AttemptInv => PromiseInv
  BY <1>1 DEF PromiseInv
<1>. QED BY <1>2, <1>3, <1>4, <1>5, AttemptInvariant, PTL
     DEF Spec, ImplementsLifecycle, Lifecycle!Spec
==============================================================================
