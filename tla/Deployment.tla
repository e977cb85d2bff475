------------------------------ MODULE Deployment ------------------------------
(***************************************************************************)
(* Both services on one workspace: the Rust repository (NativeRepo) and    *)
(* the Python one (LegacyRepo) share the database, and with it the head    *)
(* revision, the lease and the route.  A cutover to Rust counts the Python *)
(* jobs in the same transaction; nothing else of either service looks at   *)
(* the other's jobs, and a Python submission does not look at the route.   *)
(***************************************************************************)
EXTENDS NativeRepo

CONSTANTS
    LegacyJobs, LegacyKeys, Bodies, Background, Stamps, Callers, Sids,
    Versions, LegacyTokens

ASSUME DeploymentAssumption ==
    /\ IsFiniteSet(LegacyJobs)
    /\ NoKey \notin LegacyKeys
    /\ NoToken \notin LegacyTokens
    /\ Background \subseteq Bodies
    /\ Bodies # {} /\ Stamps # {}
    /\ Versions \subseteq Nat \ {0}

VARIABLES
    legacyJobs, legacySessions, legacyLibraries, submitting, legacyClaims,
    legacyReceipts

legacyVars == <<legacyJobs, legacySessions, legacyLibraries, submitting,
                legacyClaims, legacyReceipts>>

Legacy == INSTANCE LegacyRepo WITH
    Jobs <- LegacyJobs, Keys <- LegacyKeys, Tokens <- LegacyTokens,
    jobs <- legacyJobs, sessions <- legacySessions,
    libraries <- legacyLibraries, claims <- legacyClaims,
    receipts <- legacyReceipts

DeploymentInit == Init /\ Legacy!Init

-----------------------------------------------------------------------------
\* Mutant: a Python job that has been started does not stand in the way.
NoneQueued == \A j \in LegacyJobs : legacyJobs[j].status # "queued"
LegacyDrained == Legacy!Drained

\* A step of the Rust service, of either service on the lease, or of time.
\* Only a cutover to Rust depends on the Python jobs.
NativeStep ==
    /\ Next
    /\ engine = "legacy" /\ engine' = "rust" => LegacyDrained
    /\ UNCHANGED legacyVars

LegacySubmission == Legacy!Submissions /\ UNCHANGED <<repoVars, callerVars>>
LegacyWork == Legacy!Working /\ UNCHANGED <<repoVars, callerVars>>

DeploymentNext == NativeStep \/ LegacySubmission \/ LegacyWork

DeploymentSpec == DeploymentInit /\ [][DeploymentNext]_<<vars, legacyVars>>

-----------------------------------------------------------------------------
\* No Python job runs while the workspace is routed to Rust: "While a
\* workspace is routed to Rust, the Python worker refuses its lease, so legacy
\* jobs wait" (docs/production-storage.md).  So no two engines ever have an
\* attempt under way on one workspace.
LegacyJobsWait ==
    engine = "rust" => \A j \in LegacyJobs : legacyJobs[j].status # "running"

\* A Python result appears only while the workspace is routed to the Python
\* service: no cutover to Rust overtakes an attempt that may still publish.
LegacyResultsNeedRoute ==
    [][\A j \in LegacyJobs :
           legacyJobs'[j].status = "done" /\ legacyJobs[j].status # "done"
               => engine = "legacy" /\ Holds(legacyJobs[j].owner)]_<<vars, legacyVars>>

\* One job per idempotency key of the Python service, also when two API
\* processes submit at once and whatever the Rust service does meanwhile.
LegacyOneJobPerKey == Legacy!LegacyOneJobPerKey

\* The clients of the Python service are promised what module JobLifecycle
\* says, and what it publishes stays together.
LegacyImplementsLifecycle == Legacy!LegacyImplementsLifecycle
PublishedTogether == Legacy!PublishedTogether
==============================================================================
