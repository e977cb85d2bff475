-------------------------- MODULE Deployment_proofs --------------------------
(***************************************************************************)
(* Proofs about a deployment of both services.  What NativeRepo_proofs and *)
(* LegacyRepo_proofs prove of one service alone is carried over: a step of *)
(* the Python service leaves the Rust rows alone, and a step of the Rust   *)
(* service changes no more than the workspace of the Python service.       *)
(***************************************************************************)
EXTENDS Deployment, NativeRepo_proofs

LP == INSTANCE LegacyRepo_proofs WITH
    Jobs <- LegacyJobs, Keys <- LegacyKeys, Tokens <- LegacyTokens,
    jobs <- legacyJobs, sessions <- legacySessions,
    libraries <- legacyLibraries, claims <- legacyClaims,
    receipts <- legacyReceipts

-----------------------------------------------------------------------------
(* Whose steps they are.                                                   *)

\* A step of the Python service is one of LegacyRepo, and leaves the Rust
\* service and the workspace as they are.
LEMMA LegacySteps ==
    ASSUME LegacySubmission \/ LegacyWork
    PROVE  /\ LegacySubmission => LP!Submissions
           /\ LegacyWork => LP!Working
           /\ UNCHANGED vars
<1>1. ASSUME LP!Submissions PROVE UNCHANGED workspaceVars
  BY <1>1
  DEF LP!Submissions, LP!SubmitAgain, LP!SubmitCheck, LP!Enqueue, LP!EnqueueSame,
      LP!EnqueueKeyless, LP!Insert, LP!SubmitRefused, LP!Cancel,
      LP!workspaceVars, workspaceVars
<1>2. ASSUME LP!Working PROVE UNCHANGED workspaceVars
  BY <1>2
  DEF LP!Working, LP!ClaimJob, LP!ClaimExhausted, LP!Complete, LP!CompleteError,
      LP!Forget, LP!Report, LP!workspaceVars, workspaceVars
<1>3. Legacy!Submissions <=> LP!Submissions
  BY DEF
      Legacy!Submissions, LP!Submissions, Legacy!SubmitAgain, LP!SubmitAgain,
      Legacy!Submission, LP!Submission, Legacy!Admitted, LP!Admitted,
      Legacy!Answered, LP!Answered, Legacy!SubmitCheck, LP!SubmitCheck,
      Legacy!KeyUnused, LP!KeyUnused, Legacy!Enqueue, LP!Enqueue,
      Legacy!KeyFree, LP!KeyFree, Legacy!Insert, LP!Insert,
      Legacy!QueueHasRoom, LP!QueueHasRoom, Legacy!ActiveJobs, LP!ActiveJobs,
      Legacy!Active, LP!Active, Legacy!EnqueueSame, LP!EnqueueSame,
      Legacy!EnqueueKeyless, LP!EnqueueKeyless, Legacy!SubmitRefused,
      LP!SubmitRefused, Legacy!Cancel, LP!Cancel, Legacy!Cancellable,
      LP!Cancellable, Legacy!workspaceVars, LP!workspaceVars, Legacy!repoVars,
      LP!repoVars, Legacy!callerVars, LP!callerVars,
      Legacy!Cardinality, LP!Cardinality
<1>4. Legacy!Working <=> LP!Working
  BY DEF
      Legacy!Working, LP!Working, Legacy!ClaimJob, LP!ClaimJob, Legacy!Holds,
      LP!Holds, Legacy!LeaseLive, LP!LeaseLive, Legacy!Picked, LP!Picked,
      Legacy!Pending, LP!Pending, Legacy!Abandoned, LP!Abandoned,
      Legacy!Before, LP!Before, Legacy!InBackground, LP!InBackground,
      Legacy!MayStart, LP!MayStart, Legacy!UsedTokens, LP!UsedTokens,
      Legacy!Requeue, LP!Requeue, Legacy!Requeued, LP!Requeued,
      Legacy!ClaimExhausted, LP!ClaimExhausted, Legacy!Attachments,
      LP!Attachments, Legacy!Complete, LP!Complete, Legacy!MayReport,
      LP!MayReport, Legacy!InputsUnchanged, LP!InputsUnchanged, Legacy!Current,
      LP!Current, Legacy!SessionAccepts, LP!SessionAccepts, Legacy!Saved,
      LP!Saved, Legacy!Report, LP!Report, Legacy!CompleteError,
      LP!CompleteError, Legacy!Forget, LP!Forget, Legacy!workspaceVars,
      LP!workspaceVars, Legacy!repoVars, LP!repoVars, Legacy!callerVars,
      LP!callerVars
<1>. QED BY <1>1, <1>2, <1>3, <1>4 DEF LegacySubmission, LegacyWork, vars

\* Every step is a step of NativeRepo, or leaves its variables alone.
LEMMA NativeSteps ==
    ASSUME [DeploymentNext]_<<vars, legacyVars>>
    PROVE  [Next]_vars
BY LegacySteps DEF DeploymentNext, NativeStep

\* The Rust service is not disturbed by the Python one: what NativeRepo_proofs
\* proves of the Rust repository holds in the deployment.
THEOREM NativeServiceAsAlone == DeploymentSpec => Spec
<1>1. DeploymentInit => Init
  BY DEF DeploymentInit
<1>2. [DeploymentNext]_<<vars, legacyVars>> => [Next]_vars
  BY NativeSteps
<1>. QED BY <1>1, <1>2, PTL DEF DeploymentSpec, Spec

-----------------------------------------------------------------------------
(* The rows of the Python service.                                         *)

LEMMA RevisionBounded ==
    ASSUME [Next]_vars, revision \in Nat, revision <= MaxRevision
    PROVE  revision' <= MaxRevision
<1>1. ASSUME NEW expected \in 0 .. MaxRevision, CommitDocument(expected)
      PROVE  revision' <= MaxRevision
  BY <1>1, WorkspaceAssumption DEF CommitDocument, AdvanceRevision
<1>2. CASE UNCHANGED revision
  BY <1>2
<1>3. Submissions => \/ UNCHANGED revision
                     \/ \E expected \in 0 .. MaxRevision : CommitDocument(expected)
  BY DEF Submissions, AdmitAgain, AdmitNew, Cancel, Cutover, SetRoute, workspaceVars
<1>4. Leasing => UNCHANGED revision
  BY DEF Leasing, AcquireRead, AcquireAbandon, Acquire, Renew, Release,
         ReadRoute, AbandonRead, TakeLease, ExtendLease, ReleaseLease
<1>5. Working => UNCHANGED revision
  BY DEF Working, ClaimJob, ClaimNothing, Fail, Publish, Forget, workspaceVars
<1>6. Environment => UNCHANGED revision
  BY DEF Environment, EditAuthority, Elapse, LeaseElapses, workspaceVars
<1>7. UNCHANGED vars => UNCHANGED revision
  BY DEF vars, workspaceVars
<1>. QED BY <1>1, <1>2, <1>3, <1>4, <1>5, <1>6, <1>7 DEF Next

LEMMA LegacyInit == DeploymentInit => LP!Init
<1>1. Legacy!Init <=> LP!Init
  BY DEF Legacy!Init, LP!Init, Legacy!WorkspaceInit, LP!WorkspaceInit, Legacy!NoRead,
         LP!NoRead, Legacy!Owners, LP!Owners, Legacy!NoJob, LP!NoJob, Legacy!NoRow,
         LP!NoRow
<1>. QED BY <1>1 DEF DeploymentInit

LEMMA LegacyInitTyped == DeploymentInit => LP!LegacyTypeOK
<1>1. LP!Init => LP!LegacyTypeOK
  BY LP!InitTyped, WorkspaceAssumption, DeploymentAssumption, NativeRepoAssumption
     DEF LP!Owners, Owners, LP!IsFiniteSet, IsFiniteSet
<1>. QED BY <1>1, LegacyInit

LEMMA LegacyRowsStep ==
    ASSUME LP!LegacyTypeOK, TypeOK, TypeOK', [DeploymentNext]_<<vars, legacyVars>>
    PROVE  LP!LegacyTypeOK'
<1>1. revision' <= MaxRevision
  BY NativeSteps, RevisionBounded DEF TypeOK, WorkspaceTypeOK, LP!LegacyTypeOK
<1>2. CASE UNCHANGED legacyVars
  <2>1. WorkspaceTypeOK' <=> LP!WorkspaceTypeOK'
    BY DEF WorkspaceTypeOK, LP!WorkspaceTypeOK, Owners, LP!Owners, NoRead, LP!NoRead
  <2>. QED BY <1>1, <1>2, <2>1
       DEF LP!LegacyTypeOK, legacyVars, TypeOK
<1>3. CASE LegacySubmission \/ LegacyWork
  BY <1>3, LegacySteps, LP!SubmissionsTyped, LP!WorkingTyped, WorkspaceAssumption,
     DeploymentAssumption, NativeRepoAssumption
     DEF LP!Owners, Owners, LP!IsFiniteSet, IsFiniteSet
<1>. QED BY <1>2, <1>3 DEF DeploymentNext, NativeStep

LEMMA LegacyRowsInvariant == DeploymentSpec => []LP!LegacyTypeOK
<1>1. TypeOK /\ TypeOK' /\ LP!LegacyTypeOK /\ [DeploymentNext]_<<vars, legacyVars>>
          => LP!LegacyTypeOK'
  BY LegacyRowsStep
<1>. QED BY <1>1, LegacyInitTyped, NativeServiceAsAlone, TypeCorrect, PTL
     DEF DeploymentSpec

\* The step lemmas of LegacyRepo_proofs, where they are needed here.
LEMMA LegacyNext ==
    ASSUME LegacySubmission \/ LegacyWork
    PROVE  [LP!Next]_(LP!vars)
BY LegacySteps DEF LP!Next

-----------------------------------------------------------------------------
(* Jobs and routes.                                                        *)

\* Whoever works on Python jobs holds the lease as a Python worker.
LEMMA WorkerHolds ==
    ASSUME LP!LegacyTypeOK, NEW j \in LegacyJobs, LegacyWork,
           legacyJobs'[j] # legacyJobs[j]
    PROVE  \E o \in LegacyOwners : Holds(o)
<1>1. ASSUME NEW o PROVE LP!Holds(o) <=> Holds(o)
  BY DEF LP!Holds, Holds, LP!LeaseLive, LeaseLive
<1>2. \A c \in legacyClaims : c.owner \in LegacyOwners
  BY DEF LP!LegacyTypeOK, LP!Claim
<1>3. LP!Working
  BY LegacySteps
<1>. QED BY <1>1, <1>2, <1>3
     DEF LP!Working, LP!ClaimJob, LP!ClaimExhausted, LP!Complete, LP!MayReport,
         LP!CompleteError, LP!Forget, LP!repoVars

LEMMA SubmittedRows ==
    ASSUME LP!LegacyTypeOK, NEW j \in LegacyJobs, LegacySubmission
    PROVE  legacyJobs'[j] = legacyJobs[j] \/ legacyJobs'[j].status \in {"queued", "error"}
BY LegacySteps, LP!SubmissionRows, WorkspaceAssumption, DeploymentAssumption,
   NativeRepoAssumption
   DEF LP!Owners, Owners, LP!IsFiniteSet, IsFiniteSet

LEMMA LegacyWorkIsRouted ==
    ASSUME LP!LegacyTypeOK, LeaseFollowsRoute, NEW j \in LegacyJobs, LegacyWork,
           legacyJobs'[j] # legacyJobs[j]
    PROVE  engine = "legacy"
BY WorkerHolds, WorkspaceAssumption DEF LeaseFollowsRoute, Holds, EngineOf

LEMMA WaitStep ==
    ASSUME TypeOK, TypeOK', LP!LegacyTypeOK, LeaseFollowsRoute, LegacyJobsWait,
           [DeploymentNext]_<<vars, legacyVars>>
    PROVE  LegacyJobsWait'
<1>. SUFFICES ASSUME engine' = "rust", NEW j \in LegacyJobs,
                     legacyJobs'[j].status = "running"
              PROVE  FALSE
  BY DEF LegacyJobsWait
<1>1. CASE UNCHANGED <<vars, legacyVars>>
  BY <1>1 DEF LegacyJobsWait, vars, workspaceVars, legacyVars
<1>2. CASE NativeStep
  <2>1. engine = "legacy" /\ LegacyDrained
    BY <1>2 DEF NativeStep, LegacyJobsWait, legacyVars, TypeOK, WorkspaceTypeOK
  <2>. QED BY <1>2, <2>1
       DEF NativeStep, legacyVars, LegacyDrained, Legacy!Drained, Legacy!ActiveJobs,
           Legacy!Active
<1>3. CASE LegacySubmission
  BY <1>3, SubmittedRows, LegacySteps DEF LegacyJobsWait, vars, workspaceVars
<1>4. CASE LegacyWork
  BY <1>4, LegacyWorkIsRouted, LegacySteps DEF LegacyJobsWait, vars, workspaceVars
<1>. QED BY <1>1, <1>2, <1>3, <1>4 DEF DeploymentNext

\* While a workspace is routed to Rust its Python jobs wait: no two engines
\* ever work on one workspace, whatever cutovers, crashes and elapsed leases
\* there were.  (On a database that runs `acquire` as one statement; see the
\* run legacy_lease for the other.)
THEOREM LegacyJobsWaitForRoute ==
    ASSUME Serializable
    PROVE  DeploymentSpec => []LegacyJobsWait
<1>1. DeploymentInit => LegacyJobsWait
  BY DEF DeploymentInit, Init, WorkspaceInit, LegacyJobsWait
<1>2. TypeOK /\ TypeOK' /\ LP!LegacyTypeOK /\ LeaseFollowsRoute /\ LegacyJobsWait
          /\ [DeploymentNext]_<<vars, legacyVars>> => LegacyJobsWait'
  BY WaitStep
<1>. QED BY <1>1, <1>2, NativeServiceAsAlone, TypeCorrect, LeaseIsRouted,
        LegacyRowsInvariant, PTL DEF DeploymentSpec

\* The live lease belongs to the engine the workspace is routed to, also while
\* both services take, lose and give back the lease.
THEOREM DeploymentLeaseIsRouted ==
    ASSUME Serializable
    PROVE  DeploymentSpec => []LeaseFollowsRoute
BY NativeServiceAsAlone, LeaseIsRouted, PTL

LEMMA LegacyAttempts == DeploymentSpec => []LP!AttemptInv
<1>. USE WorkspaceAssumption, DeploymentAssumption, NativeRepoAssumption
     DEF LP!Owners, Owners, LP!IsFiniteSet, IsFiniteSet
<1>1. DeploymentInit => LP!AttemptInv
  BY LegacyInitTyped
  DEF DeploymentInit, Legacy!Init, LP!AttemptInv
<1>2. LP!AttemptInv /\ LP!LegacyTypeOK' /\ [DeploymentNext]_<<vars, legacyVars>>
          => LP!AttemptInv'
  <2>1. UNCHANGED legacyVars /\ LP!AttemptInv /\ LP!LegacyTypeOK' => LP!AttemptInv'
    BY DEF LP!AttemptInv, legacyVars
  <2>2. (LegacySubmission \/ LegacyWork) /\ LP!AttemptInv /\ LP!LegacyTypeOK'
            => LP!AttemptInv'
    BY LegacyNext, LP!AttemptStep
  <2>. QED BY <2>1, <2>2 DEF DeploymentNext, NativeStep
<1>. QED BY <1>1, <1>2, LegacyRowsInvariant, PTL DEF DeploymentSpec

\* A Python result appears only while the workspace is routed to the Python
\* service and its lease is held by the worker that started the attempt: no
\* cutover to Rust overtakes an attempt that may still publish.
THEOREM LegacyResultsAreRouted ==
    ASSUME Serializable
    PROVE  DeploymentSpec => LegacyResultsNeedRoute
<1>. DEFINE Routed ==
         \A j \in LegacyJobs :
             legacyJobs'[j].status = "done" /\ legacyJobs[j].status # "done"
                 => engine = "legacy" /\ Holds(legacyJobs[j].owner)
<1>1. LP!AttemptInv /\ LeaseFollowsRoute /\ [DeploymentNext]_<<vars, legacyVars>>
          => Routed
  <2>. SUFFICES ASSUME LP!AttemptInv, LeaseFollowsRoute,
                       [DeploymentNext]_<<vars, legacyVars>>,
                       NEW j \in LegacyJobs, legacyJobs'[j].status = "done",
                       legacyJobs[j].status # "done"
                PROVE  engine = "legacy" /\ Holds(legacyJobs[j].owner)
    OBVIOUS
  <2>. LP!LegacyTypeOK
    BY DEF LP!AttemptInv
  <2>1. CASE UNCHANGED legacyVars
    BY <2>1 DEF legacyVars
  <2>2. CASE LegacySubmission
    BY <2>2, SubmittedRows
  <2>3. CASE LegacyWork
    <3>1. LP!Working /\ engine = "legacy"
      BY <2>3, LegacySteps, LegacyWorkIsRouted
    <3>2. \E c \in legacyClaims : c.job = j /\ LP!Holds(c.owner) /\ LP!Current(c)
      BY <3>1, LP!ResultRows, WorkspaceAssumption, DeploymentAssumption,
         NativeRepoAssumption
         DEF LP!Owners, Owners, LP!IsFiniteSet, IsFiniteSet
    <3>. QED BY <3>1, <3>2
         DEF LP!AttemptInv, LP!Current, LP!Holds, Holds, LP!LeaseLive, LeaseLive
  <2>. QED BY <2>1, <2>2, <2>3 DEF DeploymentNext, NativeStep
<1>2. [][Routed]_<<vars, legacyVars>> <=> LegacyResultsNeedRoute
  BY DEF LegacyResultsNeedRoute
<1>. QED BY <1>1, <1>2, LegacyAttempts, DeploymentLeaseIsRouted, PTL DEF DeploymentSpec

-----------------------------------------------------------------------------
(* What the clients of the Python service are promised.                    *)

LEMMA LegacyPublished ==
    ASSUME LP!LegacyTypeOK, LP!PublishedTogether,
           [DeploymentNext]_<<vars, legacyVars>>
    PROVE  LP!PublishedTogether'
<1>1. CASE UNCHANGED legacyVars
  BY <1>1 DEF LP!PublishedTogether, legacyVars
<1>2. CASE LegacySubmission \/ LegacyWork
  BY <1>2, LegacyNext, LP!PublishedStep, WorkspaceAssumption, DeploymentAssumption,
     NativeRepoAssumption
     DEF LP!Owners, Owners, LP!IsFiniteSet, IsFiniteSet
<1>. QED BY <1>1, <1>2 DEF DeploymentNext, NativeStep

\* Results, session versions and libraries of the Python service stay together
\* whatever the Rust service does on the same database.
THEOREM DeploymentPublishesTogether == DeploymentSpec => []PublishedTogether
<1>1. DeploymentInit => LP!PublishedTogether
  BY DEF DeploymentInit, Legacy!Init, Legacy!NoRow, LP!PublishedTogether
<1>2. LP!LegacyTypeOK /\ LP!PublishedTogether /\ [DeploymentNext]_<<vars, legacyVars>>
          => LP!PublishedTogether'
  BY LegacyPublished
<1>3. LP!PublishedTogether => PublishedTogether
  BY DEF LP!PublishedTogether, PublishedTogether, Legacy!PublishedTogether
<1>. QED BY <1>1, <1>2, <1>3, LegacyRowsInvariant, PTL DEF DeploymentSpec

LEMMA LegacyKeyStep ==
    ASSUME LP!KeyInv, LP!LegacyTypeOK', [DeploymentNext]_<<vars, legacyVars>>
    PROVE  LP!KeyInv'
<1>1. CASE UNCHANGED legacyVars
  BY <1>1 DEF LP!KeyInv, LP!LegacyOneJobPerKey, LP!Admitted, legacyVars
<1>2. CASE LegacySubmission \/ LegacyWork
  BY <1>2, LegacyNext, LP!KeyStep, WorkspaceAssumption, DeploymentAssumption,
     NativeRepoAssumption
     DEF LP!Owners, Owners, LP!IsFiniteSet, IsFiniteSet
<1>. QED BY <1>1, <1>2 DEF DeploymentNext, NativeStep

\* Two API processes that submit one idempotency key at once name one job,
\* whatever the Rust service does meanwhile.
THEOREM DeploymentKeysNameOneJob == DeploymentSpec => []LegacyOneJobPerKey
<1>1. DeploymentInit => LP!KeyInv
  BY LegacyInitTyped
  DEF DeploymentInit, Legacy!Init, Legacy!NoJob, LP!KeyInv, LP!LegacyOneJobPerKey,
      LP!Admitted
<1>2. LP!KeyInv /\ LP!LegacyTypeOK' /\ [DeploymentNext]_<<vars, legacyVars>>
          => LP!KeyInv'
  BY LegacyKeyStep
<1>3. LP!KeyInv => LegacyOneJobPerKey
  BY DEF LP!KeyInv, LP!LegacyOneJobPerKey, LegacyOneJobPerKey,
         Legacy!LegacyOneJobPerKey, LP!Admitted, Legacy!Admitted
<1>. QED BY <1>1, <1>2, <1>3, LegacyRowsInvariant, PTL DEF DeploymentSpec

LEMMA LegacyStarted ==
    ASSUME LP!StartedInv, LP!LegacyTypeOK', [DeploymentNext]_<<vars, legacyVars>>
    PROVE  LP!StartedInv'
<1>1. CASE UNCHANGED legacyVars
  BY <1>1 DEF LP!StartedInv, legacyVars
<1>2. CASE LegacySubmission \/ LegacyWork
  BY <1>2, LegacyNext, LP!StartedStep, WorkspaceAssumption, DeploymentAssumption,
     NativeRepoAssumption
     DEF LP!Owners, Owners, LP!IsFiniteSet, IsFiniteSet
<1>. QED BY <1>1, <1>2 DEF DeploymentNext, NativeStep

LEMMA LegacyLifecycle ==
    ASSUME LP!StartedInv, LP!LegacyTypeOK', [DeploymentNext]_<<vars, legacyVars>>
    PROVE  [LP!Lifecycle!Next]_(LP!Lifecycle!vars)
<1>1. CASE UNCHANGED legacyVars
  BY <1>1 DEF LP!Lifecycle!vars, LP!RequestOf, LP!Outcome, LP!Active, legacyVars
<1>2. CASE LegacySubmission \/ LegacyWork
  BY <1>2, LegacyNext, LP!LifecycleNext, WorkspaceAssumption, DeploymentAssumption,
     NativeRepoAssumption
     DEF LP!Owners, Owners, LP!IsFiniteSet, IsFiniteSet
<1>. QED BY <1>1, <1>2 DEF DeploymentNext, NativeStep

\* The clients of the Python service are promised what JobLifecycle says, in a
\* deployment of both services as well.
THEOREM DeploymentKeepsLegacyPromise == DeploymentSpec => LegacyImplementsLifecycle
<1>1. DeploymentInit => LP!StartedInv
  BY LegacyInitTyped
  DEF DeploymentInit, Legacy!Init, Legacy!NoJob, LP!StartedInv
<1>2. LP!StartedInv /\ LP!LegacyTypeOK' /\ [DeploymentNext]_<<vars, legacyVars>>
          => LP!StartedInv'
  BY LegacyStarted
<1>3. DeploymentInit => LP!Lifecycle!Init
  BY LegacyInit, LP!LifecycleInit, WorkspaceAssumption, DeploymentAssumption,
     NativeRepoAssumption
     DEF LP!Owners, Owners, LP!IsFiniteSet, IsFiniteSet
<1>4. LP!StartedInv /\ LP!LegacyTypeOK' /\ [DeploymentNext]_<<vars, legacyVars>>
          => [LP!Lifecycle!Next]_(LP!Lifecycle!vars)
  BY LegacyLifecycle
<1>5. (LP!Lifecycle!Init <=> Legacy!Lifecycle!Init)
  BY DEF LP!Lifecycle!Init, Legacy!Lifecycle!Init, LP!RequestOf, Legacy!RequestOf,
         LP!Outcome, Legacy!Outcome, LP!Active, Legacy!Active
<1>6. [LP!Lifecycle!Next]_(LP!Lifecycle!vars)
          => [Legacy!Lifecycle!Next]_(Legacy!Lifecycle!vars)
  BY DEF
         LP!Lifecycle!Next, Legacy!Lifecycle!Next,
         LP!Lifecycle!Clock, Legacy!Lifecycle!Clock,
         LP!Lifecycle!Same, Legacy!Lifecycle!Same,
         LP!Lifecycle!Admit, Legacy!Lifecycle!Admit,
         LP!Lifecycle!Start, Legacy!Lifecycle!Start,
         LP!Lifecycle!Deliver, Legacy!Lifecycle!Deliver,
         LP!Lifecycle!GiveUp, Legacy!Lifecycle!GiveUp,
         LP!Lifecycle!vars, Legacy!Lifecycle!vars,
         LP!RequestOf, Legacy!RequestOf, LP!Outcome, Legacy!Outcome,
         LP!Submission, Legacy!Submission, LP!Active, Legacy!Active
<1>. QED BY <1>1, <1>2, <1>3, <1>4, <1>5, <1>6, LegacyRowsInvariant, PTL
     DEF DeploymentSpec, LegacyImplementsLifecycle, Legacy!LegacyImplementsLifecycle,
         Legacy!Lifecycle!Spec
==============================================================================
