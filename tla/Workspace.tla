------------------------------ MODULE Workspace ------------------------------
(***************************************************************************)
(* The one row of `workspaces` and the one row of `worker_routes` that     *)
(* every process of a deployment shares: the head revision, the compute    *)
(* lease, and which engine (the Python service, "legacy", or the Rust      *)
(* service, "rust") the workspace is routed to.                            *)
(*                                                                         *)
(* Time.  The code compares `lease_until` and `deadline_at` with `now()`.  *)
(* Here each instant is kept as the whole time units left until it, so     *)
(* that no clock has to be bounded: leaseLeft > 0 is `lease_until > now`,  *)
(* leaseLeft < 0 is `lease_until < now`, and 0 is the instant itself.      *)
(*                                                                         *)
(* `acquire` of both services reads the route and then updates the row     *)
(* without taking the row lock first.  SQLite runs the two statements as   *)
(* one; PostgreSQL (READ COMMITTED) lets another transaction commit        *)
(* between them.  Hence two actions, and the constant Serializable.        *)
(***************************************************************************)
EXTENDS Integers

CONSTANTS
    RustOwners,     \* lease identities `rust:<uuid>`, one per worker tenure
    LegacyOwners,   \* lease identities of Python workers, a bare uuid
    NoOwner,        \* SQL NULL in `workspaces.owner`
    LeaseSeconds,   \* length of a lease in time units
    MaxRevision,    \* bound: document commits
    MaxEpoch,       \* bound: route changes
    Serializable    \* TRUE: SQLite.  FALSE: PostgreSQL, READ COMMITTED

Owners == RustOwners \cup LegacyOwners

ASSUME WorkspaceAssumption ==
    /\ RustOwners \cap LegacyOwners = {}
    /\ NoOwner \notin Owners
    /\ LeaseSeconds \in Nat \ {0}
    /\ MaxRevision \in Nat
    /\ MaxEpoch \in Nat
    /\ Serializable \in BOOLEAN

VARIABLES
    revision,   \* workspaces.revision, the head
    owner,      \* workspaces.owner
    leaseLeft,  \* workspaces.lease_until, as the time left
    engine,     \* worker_routes.engine; "legacy" while there is no row
    epoch,      \* worker_routes.epoch; 0 while there is no row
    reading     \* the epoch an open `acquire` transaction has read, or NoRead

row == <<owner, leaseLeft>>
route == <<engine, epoch>>
workspaceVars == <<revision, owner, leaseLeft, engine, epoch, reading>>

NoRead == -1

WorkspaceTypeOK ==
    /\ revision \in Nat
    /\ owner \in Owners \cup {NoOwner}
    /\ leaseLeft \in -1 .. LeaseSeconds
    /\ engine \in {"legacy", "rust"}
    /\ epoch \in Nat
    /\ reading \in [Owners -> Nat \cup {NoRead}]

\* `initialize`: revision 0, no owner, a lease that ended long ago, no route.
WorkspaceInit ==
    /\ revision = 0
    /\ owner = NoOwner
    /\ leaseLeft = -1
    /\ engine = "legacy"
    /\ epoch = 0
    /\ reading = [o \in Owners |-> NoRead]

-----------------------------------------------------------------------------
LeaseLive == leaseLeft > 0
Holds(o) == owner = o /\ LeaseLive

EngineOf(o) == IF o \in RustOwners THEN "rust" ELSE "legacy"

\* First statement of `acquire`: go on only if the route names one's engine.
ReadRoute(o) ==
    /\ ~ Serializable
    /\ reading[o] = NoRead
    /\ engine = EngineOf(o)
    /\ reading' = [reading EXCEPT ![o] = epoch]
    /\ UNCHANGED <<revision, row, route>>

\* The transaction of `acquire` ends without the lease: the row is someone
\* else's, or the connection failed.
AbandonRead(o) ==
    /\ reading[o] # NoRead
    /\ reading' = [reading EXCEPT ![o] = NoRead]
    /\ UNCHANGED <<revision, row, route>>

\* What the second statement of `acquire` goes by: the route it has read, or,
\* when nothing can commit in between, the route there is.
MayTake(o) ==
    IF Serializable THEN engine = EngineOf(o) ELSE reading[o] # NoRead
EpochRead(o) == IF Serializable THEN epoch ELSE reading[o]

TakeLease(o) ==
    /\ MayTake(o)
    /\ leaseLeft < 0 \/ owner = o
    /\ owner' = o
    /\ leaseLeft' = LeaseSeconds
    /\ reading' = [reading EXCEPT ![o] = NoRead]
    /\ UNCHANGED <<revision, route>>

\* Mutant: the new term is added to what is left of the old one.
ExtendLeaseByTerm(o) ==
    /\ Holds(o)
    /\ leaseLeft' = leaseLeft + LeaseSeconds
    /\ UNCHANGED <<revision, owner, route, reading>>

ExtendLease(o) ==
    /\ Holds(o)
    /\ leaseLeft' = LeaseSeconds
    /\ UNCHANGED <<revision, owner, route, reading>>

\* `release` writes lease_until = 0 whether or not the lease is still live.
ReleaseLease(o) ==
    /\ owner = o
    /\ leaseLeft' = -1
    /\ UNCHANGED <<revision, owner, route, reading>>

\* Mutant: the target's own lease stands in the way, not the other engine's.
LeaseInTheWayOfTarget(target) ==
    LeaseLive /\ (owner \in RustOwners) = (target = "rust")

\* A live lease of the engine that is being left.
LeaseInTheWay(target) == LeaseLive /\ (owner \in RustOwners) = (target = "legacy")

\* The route change of `cutover`.  drained is "no active job of the engine
\* that is being left"; a live lease of that engine refuses too.  Asking for
\* the engine a route row already names changes nothing.
SetRoute(target, drained) ==
    /\ ~ (engine = target /\ epoch > 0)
    /\ epoch < MaxEpoch
    /\ drained
    /\ ~ LeaseInTheWay(target)
    /\ engine' = target
    /\ epoch' = epoch + 1
    /\ UNCHANGED <<revision, row, reading>>

\* The compare-and-swap of `commit_document` and of Python `save_revision`.
AdvanceRevision(expected) ==
    /\ revision = expected
    /\ revision < MaxRevision
    /\ revision' = expected + 1
    /\ UNCHANGED <<row, route, reading>>

LeaseElapses ==
    /\ leaseLeft' = IF leaseLeft < 0 THEN leaseLeft ELSE leaseLeft - 1
    /\ UNCHANGED <<revision, owner, route, reading>>
==============================================================================
