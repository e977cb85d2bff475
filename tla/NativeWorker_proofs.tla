------------------------- MODULE NativeWorker_proofs -------------------------
(***************************************************************************)
(* Proofs about the worker processes of the Rust service, for any number   *)
(* of processes, tenures and jobs and any choice of faults.  First, that a *)
(* process uses the repository as NativeRepo lets its callers, so that     *)
(* what is proved of NativeRepo holds of the service; then what only holds *)
(* because of the order in which `run` and `execute` do things.            *)
(***************************************************************************)
EXTENDS NativeWorker, NativeRepo_proofs

-----------------------------------------------------------------------------
(* The inductive invariant about tenures and the attempts they hold.       *)

Executing == {"prepare", "native", "publish", "fail"}
Places == {"down", "acquire", "claim", "drained", "drop", "join"} \cup Executing

WorkerTypeOK ==
    /\ pc \in [Workers -> Places]
    /\ tenure \in [Workers -> RustOwners \cup {NoOwner}]
    /\ lost \in [Workers -> BOOLEAN]
    /\ beating \in [Workers -> BOOLEAN]

\* A process that is up has a tenure, and no two have the same one.
TenuresDistinct ==
    /\ \A p \in Workers : tenure[p] = NoOwner <=> pc[p] = "down"
    /\ \A p, q \in Workers : tenure[p] = tenure[q] /\ pc[p] # "down" => p = q

\* The attempts in memory are those of tenures of processes that are up, one
\* each, and an attempt that came to the native run was admitted.
ClaimsAreHeld ==
    /\ \A c \in claims : \E p \in Workers : tenure[p] = c.owner
    /\ \A c, d \in claims : c.owner = d.owner => c = d

TenureOK(p) ==
    /\ beating[p] => pc[p] \notin {"down", "acquire"}
    /\ \A c \in claims : c.owner = tenure[p] =>
           /\ pc[p] \in Executing \cup {"drop", "join"}
           /\ pc[p] \in {"native", "publish"} => c.authority = "admitted"
    /\ pc[p] \in Executing \cup {"drop"} => \E c \in claims : c.owner = tenure[p]

TenureInv ==
    /\ WorkerTypeOK
    /\ TenuresDistinct
    /\ ClaimsAreHeld
    /\ \A p \in Workers : TenureOK(p)

WorkerInv == AttemptInv /\ TenureInv

-----------------------------------------------------------------------------
(* What a process holds.                                                   *)

LEMMA TenureOfLive ==
    ASSUME TenureInv, NEW p \in Workers, pc[p] # "down"
    PROVE  tenure[p] \in RustOwners /\ tenure[p] # NoOwner
BY DEF TenureInv, WorkerTypeOK, TenuresDistinct

LEMMA ClaimOwners ==
    ASSUME TypeOK, NEW c \in claims
    PROVE  c.owner \in RustOwners /\ c.owner # NoOwner /\ c.job \in Jobs
BY WorkspaceAssumption DEF TypeOK, Claim, Owners

LEMMA HeldIsTheClaim ==
    ASSUME TenureInv, NEW p \in Workers, NEW c \in claims, c.owner = tenure[p]
    PROVE  Held(p) = c
BY DEF TenureInv, ClaimsAreHeld, Held

LEMMA ExecutingHolds ==
    ASSUME TenureInv, NEW p \in Workers, pc[p] \in Executing \cup {"drop"}
    PROVE  Held(p) \in claims /\ Held(p).owner = tenure[p]
<1>1. PICK c \in claims : c.owner = tenure[p]
  BY DEF TenureInv, TenureOK
<1>. QED BY <1>1, HeldIsTheClaim

\* A process drops at most one claim.
LEMMA DropsOne ==
    ASSUME TenureInv, NEW p \in Workers, DropClaims(p)
    PROVE  UNCHANGED vars \/ \E c \in claims : Forget(c)
<1>1. CASE \A c \in claims : c.owner # tenure[p]
  <2>1. claims' = claims
    BY <1>1 DEF DropClaims
  <2>. QED BY <2>1 DEF DropClaims, vars, callerVars
<1>2. ASSUME NEW c \in claims, c.owner = tenure[p]
      PROVE  Forget(c)
  <2>1. claims' = claims \ {c}
    BY <1>2 DEF DropClaims, TenureInv, ClaimsAreHeld
  <2>. QED BY <2>1 DEF DropClaims, Forget
<1>. QED BY <1>1, <1>2

-----------------------------------------------------------------------------
(* Every step is one the repository lets its callers take.                 *)

LEMMA ClaimsOfProcess ==
    ASSUME TenureInv, NEW p \in Workers, pc[p] = "claim",
           \/ \E j \in Jobs, t \in Tokens : ClaimJob(tenure[p], j, t)
           \/ ClaimNothing(tenure[p])
    PROVE  Next
BY TenureOfLive DEF Next, Working

LEMMA LeasesOfProcess ==
    ASSUME NEW o \in Owners,
           AcquireRead(o) \/ AcquireAbandon(o) \/ Acquire(o) \/ Renew(o) \/ Release(o)
    PROVE  Next
BY DEF Next, Leasing

LEMMA ReportsOfProcess ==
    ASSUME TenureInv, NEW p \in Workers, pc[p] \in Executing,
           Fail(Held(p)) \/ Publish(Held(p))
    PROVE  Next
BY ExecutingHolds DEF Next, Working

LEMMA MainThreadUses ==
    ASSUME TenureInv, NEW p \in Workers, MainThread(p)
    PROVE  [Next]_vars
<1>. DEFINE Uses == [Next]_vars
<1>1. CASE UNCHANGED vars
  BY <1>1
<1>2. CASE DropClaims(p)
  BY <1>2, DropsOne DEF Next, Working
<1>3. CASE /\ pc[p] # "down"
           /\ \/ AcquireRead(tenure[p])
              \/ AcquireAbandon(tenure[p])
              \/ Acquire(tenure[p])
              \/ Release(tenure[p])
  BY <1>3, TenureOfLive, LeasesOfProcess DEF Owners
<1>4. CASE /\ pc[p] = "claim"
           /\ \/ \E j \in Jobs, t \in Tokens : ClaimJob(tenure[p], j, t)
              \/ ClaimNothing(tenure[p])
  BY <1>4, ClaimsOfProcess
<1>5. CASE pc[p] \in Executing /\ (Fail(Held(p)) \/ Publish(Held(p)))
  BY <1>5, ReportsOfProcess
<1>6. StartWorker(p) \/ GiveUpTrying(p) \/ NoticeLost(p) \/ ClaimRefused(p)
      \/ Prepare(p) \/ RunNative(p) \/ KillNative(p) \/ PublishRefused(p)
      \/ RefusalRefused(p) => UNCHANGED vars
  BY DEF StartWorker, GiveUpTrying, NoticeLost, ClaimRefused, Prepare, RunNative,
         KillNative, PublishRefused, RefusalRefused
<1>7. TryRead(p) \/ TryAbandon(p) \/ TakeTenure(p) \/ TakeUnnoticed(p) => Uses
  BY <1>3 DEF TryRead, TryAbandon, TakeTenure, TakeUnnoticed
<1>8. TakeJob(p) \/ FindNothing(p) \/ ClaimBroken(p) => Uses
  BY <1>1, <1>4 DEF TakeJob, FindNothing, ClaimBroken
<1>9. NextTenure(p) \/ DropClaim(p) => Uses
  BY <1>2 DEF NextTenure, DropClaim
<1>10. ReleaseAndExit(p) => Uses
  BY <1>1, <1>3 DEF ReleaseAndExit
<1>11. PublishResult(p) \/ PublishBroken(p) \/ RecordRefusal(p) \/ RefusalBroken(p) => Uses
  BY <1>1, <1>5 DEF PublishResult, PublishBroken, RecordRefusal, RefusalBroken, Executing
<1>. QED BY <1>1, <1>6, <1>7, <1>8, <1>9, <1>10, <1>11 DEF MainThread

LEMMA WorkerUsesRepository ==
    ASSUME TenureInv, [WorkerNext]_workerVars
    PROVE  [Next]_vars
<1>1. ASSUME NEW p \in Workers, Heartbeat(p)
      PROVE  [Next]_vars
  <2>1. CASE Beat(p)
    <3>1. pc[p] # "down"
      BY <2>1 DEF Beat, TenureInv, TenureOK
    <3>. QED BY <2>1, <3>1, TenureOfLive, LeasesOfProcess DEF Beat, Owners
  <2>2. CASE BeatRefused(p) \/ BeatBroken(p)
    BY <2>2 DEF BeatRefused, BeatBroken, StopBeating
  <2>. QED BY <1>1, <2>1, <2>2 DEF Heartbeat
<1>2. ASSUME NEW p \in Workers, Crash(p)
      PROVE  [Next]_vars
  BY <1>2, DropsOne DEF Crash, Next, Working
<1>3. ASSUME NEW o \in RustOwners, RollBackDead(o)
      PROVE  Next
  BY <1>3, LeasesOfProcess DEF RollBackDead, Owners
<1>4. Submissions \/ LegacyLeasing \/ Environment => Next
  BY DEF Next, LegacyLeasing, Leasing, Owners
<1>5. CASE UNCHANGED workerVars
  BY <1>5 DEF workerVars
<1>. QED BY <1>1, <1>2, <1>3, <1>4, <1>5, MainThreadUses DEF WorkerNext

-----------------------------------------------------------------------------
(* TenureInv is inductive: one process moves at a time.                    *)

OnlyMoves(p) ==
    /\ WorkerTypeOK'
    /\ \A q \in Workers \ {p} :
           /\ pc'[q] = pc[q]
           /\ tenure'[q] = tenure[q]
           /\ lost'[q] = lost[q]
           /\ beating'[q] = beating[q]

\* p keeps its tenure, ends, or begins a tenure that nothing names.
TenureMoves(p) ==
    /\ tenure'[p] = NoOwner <=> pc'[p] = "down"
    /\ \/ tenure'[p] = tenure[p]
       \/ tenure'[p] = NoOwner
       \/ Fresh(tenure'[p])

\* The claims of the other tenures are left alone.
ClaimsMove(p) ==
    /\ \A c \in claims' : c.owner = tenure'[p] \/ (c \in claims /\ c.owner # tenure[p])
    /\ \A c \in claims : c.owner # tenure[p] => c \in claims'
    /\ \A c, d \in claims' : c.owner = tenure'[p] /\ d.owner = tenure'[p] => c = d

LEMMA MoveKeepsTenures ==
    ASSUME TypeOK, TypeOK', TenureInv, NEW p \in Workers,
           OnlyMoves(p), TenureMoves(p), ClaimsMove(p), TenureOK(p)'
    PROVE  TenureInv'
<1>1. ASSUME NEW q \in Workers \ {p}
      PROVE  /\ tenure'[q] = NoOwner <=> pc'[q] = "down"
             /\ pc'[q] # "down" => tenure'[q] # tenure[p] /\ tenure'[q] # tenure'[p]
             /\ pc'[p] # "down" => tenure'[q] # tenure'[p]
  <2>1. pc'[q] = pc[q] /\ tenure'[q] = tenure[q]
    BY DEF OnlyMoves
  <2>2. pc[q] # "down" => tenure[q] # tenure[p]
    BY DEF TenureInv, TenuresDistinct
  <2>3. tenure[q] = NoOwner <=> pc[q] = "down"
    BY DEF TenureInv, TenuresDistinct
  <2>4. tenure'[p] # NoOwner /\ tenure'[p] # tenure[p] => tenure[q] # tenure'[p]
    BY DEF TenureMoves, Fresh
  <2>5. pc'[p] # "down" => tenure'[p] # NoOwner
    BY DEF TenureMoves
  <2>. QED BY <2>1, <2>2, <2>3, <2>4, <2>5
<1>2. TenuresDistinct'
  <2>1. \A q \in Workers : tenure'[q] = NoOwner <=> pc'[q] = "down"
    BY <1>1 DEF TenureMoves
  <2>2. ASSUME NEW q \in Workers, NEW r \in Workers,
               tenure'[q] = tenure'[r], pc'[q] # "down"
        PROVE  q = r
    <3>1. CASE q = p
      BY <1>1, <2>2, <3>1
    <3>2. CASE q # p /\ r = p
      BY <1>1, <2>2, <3>2
    <3>3. CASE q # p /\ r # p
      <4>1. tenure[q] = tenure[r] /\ pc[q] # "down"
        BY <2>2, <3>3 DEF OnlyMoves
      <4>. QED BY <4>1 DEF TenureInv, TenuresDistinct
    <3>. QED BY <3>1, <3>2, <3>3
  <2>. QED BY <2>1, <2>2 DEF TenuresDistinct
<1>3. ClaimsAreHeld'
  <2>1. ASSUME NEW c \in claims' PROVE \E q \in Workers : tenure'[q] = c.owner
    <3>1. CASE c \in claims /\ c.owner # tenure[p]
      <4>1. PICK q \in Workers : tenure[q] = c.owner
        BY <3>1 DEF TenureInv, ClaimsAreHeld
      <4>. QED BY <3>1, <4>1 DEF OnlyMoves
    <3>. QED BY <3>1 DEF ClaimsMove
  <2>2. ASSUME NEW c \in claims', NEW d \in claims', c.owner = d.owner
        PROVE  c = d
    <3>1. CASE c.owner = tenure'[p]
      BY <2>2, <3>1 DEF ClaimsMove
    <3>2. CASE c.owner # tenure'[p]
      BY <2>2, <3>2 DEF ClaimsMove, TenureInv, ClaimsAreHeld
    <3>. QED BY <3>1, <3>2
  <2>. QED BY <2>1, <2>2 DEF ClaimsAreHeld
<1>4. ASSUME NEW q \in Workers PROVE TenureOK(q)'
  <2>1. CASE q # p
    <3>1. pc'[q] = pc[q] /\ tenure'[q] = tenure[q] /\ beating'[q] = beating[q]
      BY <2>1 DEF OnlyMoves
    <3>2. TenureOK(q)
      BY DEF TenureInv
    <3>3. ASSUME NEW c \in claims', c.owner = tenure[q]
          PROVE  c \in claims
      <4>1. c.owner # NoOwner
        BY <3>3, WorkspaceAssumption DEF TypeOK, Claim, Owners
      <4>2. pc'[q] # "down"
        BY <3>1, <3>3, <4>1 DEF TenureInv, TenuresDistinct
      <4>. QED BY <1>1, <2>1, <3>1, <3>3, <4>2 DEF ClaimsMove
    <3>4. ASSUME NEW c \in claims, c.owner = tenure[q], pc[q] # "down"
          PROVE  c \in claims'
      BY <1>1, <2>1, <3>1, <3>4 DEF ClaimsMove
    <3>. QED BY <3>1, <3>2, <3>3, <3>4 DEF TenureOK, Executing
  <2>. QED BY <2>1
<1>. QED BY <1>2, <1>3, <1>4 DEF TenureInv, OnlyMoves

\* How the steps of a process move it.
LEMMA Moves ==
    ASSUME WorkerTypeOK, NEW p \in Workers, NEW to \in Places,
           pc' = [pc EXCEPT ![p] = to],
           NEW o \in RustOwners \cup {NoOwner}, tenure' = [tenure EXCEPT ![p] = o],
           NEW l \in BOOLEAN, lost' = [lost EXCEPT ![p] = l],
           NEW b \in BOOLEAN, beating' = [beating EXCEPT ![p] = b]
    PROVE  /\ OnlyMoves(p)
           /\ pc'[p] = to /\ tenure'[p] = o /\ lost'[p] = l /\ beating'[p] = b
BY DEF WorkerTypeOK, OnlyMoves

LEMMA Going ==
    ASSUME WorkerTypeOK, NEW p \in Workers, NEW to \in Places, Goto(p, to)
    PROVE  /\ OnlyMoves(p)
           /\ pc'[p] = to
           /\ tenure'[p] = tenure[p] /\ lost'[p] = lost[p] /\ beating'[p] = beating[p]
<1>1. pc'[p] = to /\ UNCHANGED <<tenure, lost, beating>>
  BY DEF WorkerTypeOK, Goto
<1>. QED BY <1>1 DEF WorkerTypeOK, OnlyMoves, Goto

LEMMA Beginning ==
    ASSUME WorkerTypeOK, NEW p \in Workers, BeginTenure(p)
    PROVE  /\ OnlyMoves(p)
           /\ pc'[p] = "acquire"
           /\ tenure'[p] \in RustOwners /\ Fresh(tenure'[p])
           /\ lost'[p] = FALSE /\ beating'[p] = FALSE
<1>1. PICK o \in RustOwners : Fresh(o) /\ tenure' = [tenure EXCEPT ![p] = o]
  BY DEF BeginTenure
<1>. QED BY <1>1, Moves DEF BeginTenure, Places

LEMMA Ending ==
    ASSUME WorkerTypeOK, NEW p \in Workers, EndProcess(p)
    PROVE  /\ OnlyMoves(p)
           /\ pc'[p] = "down" /\ tenure'[p] = NoOwner
           /\ lost'[p] = FALSE /\ beating'[p] = FALSE
BY Moves DEF EndProcess, Places

\* Steps that hand out and drop nothing: between claims, and of an attempt.
LEMMA IdleMoves ==
    ASSUME TypeOK, TypeOK', TenureInv, NEW p \in Workers, OnlyMoves(p),
           tenure'[p] = tenure[p], claims' = claims,
           pc[p] \in {"acquire", "claim"}, pc'[p] \in {"claim", "drained", "join"}
    PROVE  TenureInv'
<1>1. \A c \in claims : c.owner # tenure[p]
  BY DEF TenureInv, TenureOK, Executing
<1>2. TenureMoves(p)
  BY DEF TenureMoves, TenureInv, TenuresDistinct
<1>3. ClaimsMove(p)
  BY <1>1 DEF ClaimsMove
<1>4. TenureOK(p)'
  BY <1>1 DEF TenureOK, Executing
<1>. QED BY <1>2, <1>3, <1>4, MoveKeepsTenures

LEMMA AttemptMoves ==
    ASSUME TypeOK, TypeOK', TenureInv, NEW p \in Workers, OnlyMoves(p),
           tenure'[p] = tenure[p], claims' = claims,
           pc[p] \in Executing, pc'[p] \in Executing \cup {"drop"},
           pc'[p] \in {"native", "publish"} => Held(p).authority = "admitted"
    PROVE  TenureInv'
<1>1. \A c \in claims : c.owner = tenure[p] => c = Held(p)
  BY HeldIsTheClaim
<1>2. Held(p) \in claims /\ Held(p).owner = tenure[p]
  BY ExecutingHolds
<1>3. TenureMoves(p)
  BY DEF TenureMoves, TenureInv, TenuresDistinct, Executing
<1>4. ClaimsMove(p)
  BY <1>1 DEF ClaimsMove
<1>5. TenureOK(p)'
  BY <1>1, <1>2 DEF TenureOK, Executing
<1>. QED BY <1>3, <1>4, <1>5, MoveKeepsTenures

LEMMA AdmittedWhenRun ==
    ASSUME TenureInv, NEW p \in Workers, pc[p] \in {"native", "publish"}
    PROVE  Held(p).authority = "admitted"
BY ExecutingHolds DEF TenureInv, TenureOK, Executing

\* What the steps of `execute` do: they go on to a later place.
LEMMA ExecuteMoves ==
    ASSUME TypeOK, TypeOK', TenureInv, NEW p \in Workers,
           \/ Prepare(p) \/ RunNative(p) \/ KillNative(p) \/ PublishResult(p)
           \/ PublishRefused(p) \/ PublishBroken(p) \/ RecordRefusal(p)
           \/ RefusalRefused(p) \/ RefusalBroken(p)
    PROVE  TenureInv'
<1>. USE DEF Executing, Places
<1>0. WorkerTypeOK
  BY DEF TenureInv
<1>1. CASE Prepare(p)
  <2>1. claims' = claims /\ pc[p] = "prepare"
    BY <1>1 DEF Prepare, vars, callerVars
  <2>2. CASE Goto(p, "native") /\ Held(p).authority = "admitted"
    BY <1>0, <2>1, <2>2, Going, AttemptMoves
  <2>3. CASE Goto(p, "fail")
    BY <1>0, <2>1, <2>3, Going, AttemptMoves
  <2>. QED BY <1>1, <2>2, <2>3 DEF Prepare
<1>2. CASE RunNative(p)
  <2>1. claims' = claims /\ pc[p] = "native"
    BY <1>2 DEF RunNative, vars, callerVars
  <2>2. Goto(p, "publish") \/ Goto(p, "fail")
    BY <1>2 DEF RunNative
  <2>. QED BY <1>0, <2>1, <2>2, Going, AttemptMoves, AdmittedWhenRun
<1>3. ASSUME claims' = claims, pc[p] \in Executing, Goto(p, "drop") \/ Goto(p, "fail")
      PROVE  TenureInv'
  BY <1>0, <1>3, Going, AttemptMoves
<1>4. KillNative(p) \/ PublishRefused(p) \/ RefusalRefused(p) => TenureInv'
  BY <1>3 DEF KillNative, PublishRefused, RefusalRefused, vars, callerVars
<1>5. Publish(Held(p)) \/ Fail(Held(p)) \/ UNCHANGED vars => claims' = claims
  BY DEF Publish, Fail, vars, callerVars
<1>6. PublishResult(p) \/ PublishBroken(p) \/ RecordRefusal(p) \/ RefusalBroken(p)
      => TenureInv'
  BY <1>3, <1>5 DEF PublishResult, PublishBroken, RecordRefusal, RefusalBroken
<1>. QED BY <1>1, <1>2, <1>4, <1>6

\* A claim is handed to a tenure that has none.
LEMMA ClaimMoves ==
    ASSUME TypeOK, TypeOK', TenureInv, NEW p \in Workers, OnlyMoves(p),
           tenure'[p] = tenure[p], pc[p] = "claim", pc'[p] \in {"prepare", "join"},
           NEW j \in Jobs, NEW t \in Tokens, ClaimJob(tenure[p], j, t)
    PROVE  /\ TenureInv'
           /\ \E c \in claims' : /\ c.owner = tenure[p] /\ c.job = j /\ c.token = t
                                 /\ c.epoch = granted[tenure[p]]
                                 /\ claims' = claims \cup {c}
<1>. DEFINE new == [job |-> j, owner |-> tenure[p], token |-> t,
                    attempt |-> jobs[j].attempt + 1, epoch |-> granted[tenure[p]],
                    authority |-> authority[j]]
<1>1. \A c \in claims : c.owner # tenure[p]
  BY DEF TenureInv, TenureOK, Executing
<1>2. claims' = claims \cup {new} /\ new.owner = tenure[p]
      /\ new.job = j /\ new.token = t /\ new.epoch = granted[tenure[p]]
  BY DEF ClaimJob
<1>. HIDE DEF new
<1>3. TenureMoves(p)
  BY DEF TenureMoves, TenureInv, TenuresDistinct
<1>4. ClaimsMove(p)
  BY <1>1, <1>2 DEF ClaimsMove
<1>5. TenureOK(p)'
  BY <1>1, <1>2 DEF TenureOK, Executing
<1>. QED BY <1>2, <1>3, <1>4, <1>5, MoveKeepsTenures

LEMMA ClaimingMoves ==
    ASSUME TypeOK, TypeOK', TenureInv, NEW p \in Workers,
           TakeJob(p) \/ FindNothing(p) \/ ClaimRefused(p) \/ ClaimBroken(p)
    PROVE  TenureInv'
<1>. USE DEF Places
<1>0. WorkerTypeOK
  BY DEF TenureInv
<1>1. CASE TakeJob(p)
  <2>1. Goto(p, "prepare") /\ pc[p] = "claim"
    BY <1>1 DEF TakeJob
  <2>. QED BY <1>0, <1>1, <2>1, Going, ClaimMoves DEF TakeJob, Executing
<1>2. CASE FindNothing(p)
  <2>1. /\ Goto(p, "claim") \/ Goto(p, "drained")
        /\ pc[p] = "claim" /\ claims' = claims
    BY <1>2 DEF FindNothing, ClaimNothing, callerVars
  <2>. QED BY <1>0, <2>1, Going, IdleMoves
<1>3. ASSUME LoseAndJoin(p)
      PROVE  OnlyMoves(p) /\ pc'[p] = "join" /\ tenure'[p] = tenure[p]
  BY <1>0, <1>3 DEF LoseAndJoin, OnlyMoves, WorkerTypeOK
<1>4. CASE ClaimRefused(p)
  BY <1>3, <1>4, IdleMoves DEF ClaimRefused, vars, callerVars
<1>5. CASE ClaimBroken(p)
  <2>1. pc[p] = "claim" /\ LoseAndJoin(p)
    BY <1>5 DEF ClaimBroken
  <2>2. CASE UNCHANGED vars
    BY <1>3, <2>1, <2>2, IdleMoves DEF vars, callerVars
  <2>3. CASE \E j \in Jobs, t \in Tokens : ClaimJob(tenure[p], j, t)
    BY <1>3, <2>1, <2>3, ClaimMoves
  <2>. QED BY <1>5, <2>2, <2>3 DEF ClaimBroken
<1>. QED BY <1>1, <1>2, <1>4, <1>5

\* A tenure begins or ends; what the process held is gone.
LEMMA BoundaryMoves ==
    ASSUME TypeOK, TypeOK', TenureInv, NEW p \in Workers, OnlyMoves(p),
           \/ UNCHANGED claims /\ \A c \in claims : c.owner # tenure[p]
           \/ DropClaims(p),
           beating'[p] = FALSE,
           \/ pc'[p] = "acquire" /\ tenure'[p] # NoOwner /\ Fresh(tenure'[p])
           \/ pc'[p] = "down" /\ tenure'[p] = NoOwner
    PROVE  TenureInv'
<1>1. /\ \A c \in claims' : c \in claims /\ c.owner # tenure[p]
      /\ \A c \in claims : c.owner # tenure[p] => c \in claims'
  BY DEF DropClaims
<1>2. \A c \in claims' : c.owner # tenure'[p]
  BY <1>1, ClaimOwners DEF Fresh
<1>3. TenureMoves(p)
  BY DEF TenureMoves
<1>4. ClaimsMove(p)
  BY <1>1, <1>2 DEF ClaimsMove
<1>5. TenureOK(p)'
  BY <1>2 DEF TenureOK, Executing
<1>. QED BY <1>3, <1>4, <1>5, MoveKeepsTenures

LEMMA TenureBoundary ==
    ASSUME TypeOK, TypeOK', TenureInv, NEW p \in Workers,
           StartWorker(p) \/ GiveUpTrying(p) \/ NextTenure(p) \/ ReleaseAndExit(p)
           \/ Crash(p)
    PROVE  TenureInv'
<1>0. WorkerTypeOK
  BY DEF TenureInv
<1>1. ASSUME NEW o \in RustOwners PROVE o # NoOwner
  BY WorkspaceAssumption DEF Owners
<1>2. BeginTenure(p) => /\ OnlyMoves(p) /\ beating'[p] = FALSE
                        /\ pc'[p] = "acquire" /\ tenure'[p] # NoOwner /\ Fresh(tenure'[p])
  BY <1>0, <1>1, Beginning
<1>3. EndProcess(p) => /\ OnlyMoves(p) /\ beating'[p] = FALSE
                       /\ pc'[p] = "down" /\ tenure'[p] = NoOwner
  BY <1>0, Ending
<1>4. \/ UNCHANGED claims /\ \A c \in claims : c.owner # tenure[p]
      \/ DropClaims(p)
  <2>1. CASE NextTenure(p) \/ Crash(p)
    BY <2>1 DEF NextTenure, Crash
  <2>2. CASE StartWorker(p) \/ GiveUpTrying(p) \/ ReleaseAndExit(p)
    <3>1. pc[p] \in {"down", "acquire", "drained"}
      BY <2>2 DEF StartWorker, GiveUpTrying, ReleaseAndExit
    <3>2. UNCHANGED claims
      BY <2>2 DEF StartWorker, GiveUpTrying, ReleaseAndExit, Release, vars, callerVars
    <3>. QED BY <3>1, <3>2 DEF TenureInv, TenureOK, Executing
  <2>. QED BY <2>1, <2>2
<1>5. BeginTenure(p) \/ EndProcess(p)
  BY DEF StartWorker, GiveUpTrying, NextTenure, ReleaseAndExit, Crash
<1>. QED BY <1>2, <1>3, <1>4, <1>5, BoundaryMoves

LEMMA TenureStays ==
    ASSUME TenureInv, UNCHANGED <<claims, processVars>>
    PROVE  TenureInv'
<1>1. UNCHANGED <<claims, pc, tenure, lost, beating>>
  BY DEF processVars
<1>. QED BY <1>1 DEF TenureInv, WorkerTypeOK, TenuresDistinct, ClaimsAreHeld, TenureOK

LEMMA TenureStep ==
    ASSUME WorkerInv, [WorkerNext]_workerVars
    PROVE  WorkerInv'
<1>. USE DEF WorkerInv
<1>1. AttemptInv'
  BY WorkerUsesRepository, AttemptStep
<1>2. TypeOK /\ TypeOK' /\ WorkerTypeOK
  BY <1>1 DEF AttemptInv, TenureInv
<1>. USE DEF Places
<1>3. ASSUME NEW o, AcquireRead(o) \/ AcquireAbandon(o) \/ Acquire(o) \/ Renew(o) \/ Release(o)
      PROVE  claims' = claims
  BY <1>3 DEF AcquireRead, AcquireAbandon, Acquire, Renew, Release, callerVars
<1>4. ASSUME NEW p \in Workers, MainThread(p)
      PROVE  TenureInv'
  <2>1. CASE TryRead(p) \/ TryAbandon(p) \/ TakeUnnoticed(p)
    BY <1>3, <2>1, TenureStays DEF TryRead, TryAbandon, TakeUnnoticed
  <2>2. CASE TakeTenure(p)
    <3>1. claims' = claims
      BY <1>3, <2>2 DEF TakeTenure
    <3>2. OnlyMoves(p) /\ pc'[p] = "claim" /\ tenure'[p] = tenure[p]
      BY <1>2, <2>2 DEF TakeTenure, OnlyMoves, WorkerTypeOK
    <3>. QED BY <1>2, <2>2, <3>1, <3>2, IdleMoves DEF TakeTenure
  <2>3. CASE NoticeLost(p)
    <3>1. pc[p] = "claim" /\ Goto(p, "join") /\ claims' = claims
      BY <2>3 DEF NoticeLost, vars, callerVars
    <3>. QED BY <1>2, <3>1, Going, IdleMoves
  <2>4. CASE DropClaim(p)
    <3>1. DropClaims(p) /\ pc[p] = "drop"
      BY <2>4 DEF DropClaim
    <3>2. OnlyMoves(p) /\ pc'[p] = "claim" /\ tenure'[p] = tenure[p]
      BY <1>2, <2>4, Going DEF DropClaim
    <3>3. TenureMoves(p)
      BY <3>1, <3>2 DEF TenureMoves, TenureInv, TenuresDistinct
    <3>4. \A c \in claims' : c.owner # tenure'[p]
      BY <3>1, <3>2 DEF DropClaims
    <3>5. ClaimsMove(p)
      BY <3>1, <3>2 DEF ClaimsMove, DropClaims
    <3>6. TenureOK(p)'
      BY <3>2, <3>4 DEF TenureOK, Executing
    <3>. QED BY <1>2, <3>2, <3>3, <3>5, <3>6, MoveKeepsTenures
  <2>. QED BY <1>2, <1>4, <2>1, <2>2, <2>3, <2>4, ExecuteMoves, ClaimingMoves,
              TenureBoundary DEF MainThread
<1>5. ASSUME NEW p \in Workers, Heartbeat(p)
      PROVE  TenureInv'
  <2>1. CASE Beat(p)
    BY <1>3, <2>1, TenureStays DEF Beat
  <2>2. CASE BeatRefused(p) \/ BeatBroken(p)
    <3>1. /\ StopBeating(p) /\ beating[p]
      BY <2>2 DEF BeatRefused, BeatBroken
    <3>2. /\ OnlyMoves(p) /\ claims' = claims /\ pc'[p] = pc[p]
          /\ tenure'[p] = tenure[p] /\ beating'[p] = FALSE
      BY <1>2, <3>1 DEF StopBeating, OnlyMoves, WorkerTypeOK, vars, callerVars
    <3>3. TenureMoves(p)
      BY <3>2 DEF TenureMoves, TenureInv, TenuresDistinct
    <3>4. ClaimsMove(p)
      BY <3>2 DEF ClaimsMove, TenureInv, ClaimsAreHeld
    <3>5. TenureOK(p)'
      BY <3>2 DEF TenureOK, TenureInv
    <3>. QED BY <1>2, <3>2, <3>3, <3>4, <3>5, MoveKeepsTenures
  <2>. QED BY <1>5, <2>1, <2>2 DEF Heartbeat
<1>6. ASSUME NEW o \in RustOwners, RollBackDead(o)
      PROVE  TenureInv'
  BY <1>3, <1>6, TenureStays DEF RollBackDead
<1>7. ASSUME (Submissions \/ LegacyLeasing \/ Environment) /\ UNCHANGED processVars
      PROVE  TenureInv'
  <2>1. claims' = claims
    BY <1>3, <1>7 DEF Submissions, AdmitAgain, AdmitNew, Cancel, CommitDocument, Cutover,
                      LegacyLeasing, Environment, EditAuthority, Elapse, callerVars
  <2>. QED BY <1>7, <2>1, TenureStays
<1>8. UNCHANGED workerVars => TenureInv'
  <2>. HAVE UNCHANGED workerVars
  <2>1. UNCHANGED <<claims, processVars>>
    BY DEF workerVars, vars, callerVars
  <2>. QED BY <2>1, TenureStays
<1>. QED BY <1>1, <1>2, <1>4, <1>5, <1>6, <1>7, <1>8, TenureBoundary DEF WorkerNext

LEMMA WorkerInvariant == WorkerSpec => []WorkerInv
<1>1. WorkerInit /\ AttemptInv => WorkerInv
  BY DEF WorkerInit, Init, WorkerInv, TenureInv, WorkerTypeOK, TenuresDistinct,
         ClaimsAreHeld, TenureOK, Executing, Places
<1>2. WorkerInit => AttemptInv
  <2>1. Init => AttemptInv
    BY InitAttempts
  <2>. QED BY <2>1 DEF WorkerInit
<1>. QED BY <1>1, <1>2, TenureStep, PTL DEF WorkerSpec

\* What the worker processes do, stalls, heartbeats, lost replies, crashes and
\* restarts included, is what NativeRepo lets its callers do: all that is
\* proved of NativeRepo holds of the service (`run`, `execute`).
THEOREM WorkersUseTheRepository == WorkerSpec => UsesRepository
<1>1. WorkerInit => Init
  BY DEF WorkerInit
<1>2. WorkerInv /\ [WorkerNext]_workerVars => [Next]_vars
  BY WorkerUsesRepository DEF WorkerInv
<1>. QED BY <1>1, <1>2, WorkerInvariant, PTL DEF WorkerSpec, UsesRepository, Spec

\* The service as a whole keeps the promise of JobLifecycle, however its
\* processes stall, crash, restart and lose replies.
THEOREM ServiceKeepsPromise == WorkerSpec => ImplementsLifecycle
BY WorkersUseTheRepository, RepositoryKeepsPromise, PTL DEF UsesRepository

-----------------------------------------------------------------------------
(* What is published, and of whom.                                         *)

LEMMA PublicationStep ==
    ASSUME [WorkerNext]_workerVars, publications' # publications
    PROVE  \E p \in Workers : pc[p] = "publish" /\ Publish(Held(p))
<1>. USE DEF repoVars
<1>1. UNCHANGED vars => UNCHANGED publications
  BY DEF vars
<1>2. ASSUME NEW o, AcquireRead(o) \/ AcquireAbandon(o) \/ Acquire(o) \/ Renew(o) \/ Release(o)
      PROVE  UNCHANGED publications
  BY <1>2 DEF AcquireRead, AcquireAbandon, Acquire, Renew, Release
<1>3. ASSUME NEW p \in Workers, MainThread(p)
      PROVE  pc[p] = "publish" /\ Publish(Held(p))
  <2>1. /\ UNCHANGED vars => UNCHANGED publications
        /\ DropClaims(p) => UNCHANGED publications
        /\ Fail(Held(p)) => UNCHANGED publications
        /\ \A j, t : ClaimJob(tenure[p], j, t) => UNCHANGED publications
        /\ ClaimNothing(tenure[p]) => UNCHANGED publications
    BY <1>1 DEF DropClaims, Fail, ClaimJob, ClaimNothing
  <2>. QED BY <1>2, <1>3, <2>1
           DEF MainThread, StartWorker, TryRead, TryAbandon, TakeTenure, TakeUnnoticed,
               GiveUpTrying, NoticeLost, TakeJob, FindNothing, ClaimRefused,
               ClaimBroken, NextTenure, ReleaseAndExit, Prepare, RunNative,
               KillNative, PublishResult, PublishRefused, PublishBroken,
               RecordRefusal, RefusalRefused, RefusalBroken, DropClaim
<1>4. ASSUME NEW p \in Workers, Heartbeat(p) \/ Crash(p)
      PROVE  UNCHANGED publications
  BY <1>1, <1>2, <1>4 DEF Heartbeat, Beat, BeatRefused, BeatBroken, StopBeating,
                          Crash, DropClaims
<1>5. ASSUME NEW o \in RustOwners, RollBackDead(o)
      PROVE  UNCHANGED publications
  BY <1>2, <1>5 DEF RollBackDead
<1>6. Submissions \/ LegacyLeasing \/ Environment => UNCHANGED publications
  BY <1>2 DEF Submissions, AdmitAgain, AdmitNew, Cancel, CommitDocument, Cutover,
              LegacyLeasing, Environment, EditAuthority, Elapse
<1>7. UNCHANGED workerVars => UNCHANGED publications
  BY <1>1 DEF workerVars
<1>. QED BY <1>3, <1>4, <1>5, <1>6, <1>7 DEF WorkerNext

\* Nothing is published of a job whose admission row was edited or deleted,
\* before or after the claim (`attempt`, `publish`).
THEOREM PublishesOnlyTheAdmitted == WorkerSpec => OnlyAdmittedAuthority
<1>1. ASSUME WorkerInv, [WorkerNext]_workerVars
      PROVE  [\A j \in Jobs : publications'[j] # publications[j] =>
                  authority[j] = "admitted"]_workerVars
  <2>. SUFFICES ASSUME NEW j \in Jobs, publications'[j] # publications[j]
                PROVE  authority[j] = "admitted"
    OBVIOUS
  <2>1. PICK p \in Workers : pc[p] = "publish" /\ Publish(Held(p))
    BY <1>1, PublicationStep
  <2>2. Held(p) \in claims /\ Held(p).authority = "admitted"
    BY <1>1, <2>1, ExecutingHolds, AdmittedWhenRun DEF WorkerInv, Executing
  <2>3. j = Held(p).job
    BY <1>1, <2>1, <2>2, PublishRows DEF WorkerInv, AttemptInv
  <2>. QED BY <2>1, <2>2, <2>3 DEF Publish
<1>. QED BY <1>1, WorkerInvariant, PTL DEF WorkerSpec, OnlyAdmittedAuthority

-----------------------------------------------------------------------------
(* What a step does to the processes, the rows and the lease.              *)

\* What a process that does not move keeps.
StaysPut(q) ==
    /\ pc'[q] = pc[q] /\ tenure'[q] = tenure[q] /\ lost'[q] = lost[q]
    /\ \A c \in claims : c.owner = tenure[q] => c \in claims'

LEMMA OthersStay ==
    ASSUME TenureInv, NEW p \in Workers, NEW q \in Workers \ {p}, pc[q] # "down",
           MainThread(p) \/ Heartbeat(p) \/ Crash(p)
    PROVE  StaysPut(q)
<1>. DEFINE Still == pc'[q] = pc[q] /\ tenure'[q] = tenure[q] /\ lost'[q] = lost[q]
<1>0. WorkerTypeOK /\ tenure[q] # tenure[p]
  BY DEF TenureInv, TenuresDistinct
<1>1. /\ \A to : Goto(p, to) => Still
      /\ BeginTenure(p) \/ EndProcess(p) \/ LoseAndJoin(p) \/ StopBeating(p) => Still
      /\ UNCHANGED processVars => Still
  BY <1>0 DEF Goto, BeginTenure, EndProcess, LoseAndJoin, StopBeating, processVars,
              WorkerTypeOK
<1>2. TakeTenure(p) => Still
  BY <1>0 DEF TakeTenure, WorkerTypeOK
<1>3. Still
  <2>. HIDE DEF Still
  <2>. QED BY <1>1, <1>2
       DEF MainThread, StartWorker, TryRead, TryAbandon, TakeUnnoticed,
           GiveUpTrying, NoticeLost, TakeJob, FindNothing, ClaimRefused,
           ClaimBroken, NextTenure, ReleaseAndExit, Prepare, RunNative,
           KillNative, PublishResult, PublishRefused, PublishBroken,
           RecordRefusal, RefusalRefused, RefusalBroken, DropClaim,
           Heartbeat, Beat, BeatRefused, BeatBroken, Crash
<1>4. ASSUME NEW c \in claims, c.owner = tenure[q]
      PROVE  c \in claims'
  <2>. DEFINE Has == c \in claims'
  <2>1. DropClaims(p) => Has
    BY <1>0, <1>4 DEF DropClaims
  <2>2. UNCHANGED vars => Has
    BY DEF vars, callerVars
  <2>3. \A o : AcquireRead(o) \/ AcquireAbandon(o) \/ Acquire(o) \/ Renew(o)
               \/ Release(o) \/ ClaimNothing(o) => Has
    BY DEF AcquireRead, AcquireAbandon, Acquire, Renew, Release, ClaimNothing, callerVars
  <2>4. \A o, j, t : ClaimJob(o, j, t) => Has
    BY DEF ClaimJob
  <2>5. \A d : Publish(d) \/ Fail(d) => Has
    BY DEF Publish, Fail, callerVars
  <2>. HIDE DEF Has
  <2>6. Has
    BY <2>1, <2>2, <2>3, <2>4, <2>5
       DEF MainThread, StartWorker, TryRead, TryAbandon, TakeTenure, TakeUnnoticed,
           GiveUpTrying, NoticeLost, TakeJob, FindNothing, ClaimRefused,
           ClaimBroken, NextTenure, ReleaseAndExit, Prepare, RunNative,
           KillNative, PublishResult, PublishRefused, PublishBroken,
           RecordRefusal, RefusalRefused, RefusalBroken, DropClaim,
           Heartbeat, Beat, BeatRefused, BeatBroken, StopBeating, Crash
  <2>. QED BY <2>6 DEF Has
<1>. QED BY <1>3, <1>4 DEF StaysPut

\* A process hands itself an attempt.
ClaimStep(p, j, t) ==
    /\ pc[p] = "claim" /\ ~ lost[p]
    /\ ClaimJob(tenure[p], j, t)
    /\ Goto(p, "prepare") \/ LoseAndJoin(p)

SomeClaim == \E p \in Workers, j \in Jobs, t \in Tokens : ClaimStep(p, j, t)

\* Any other step starts nothing.
StartsNothing ==
    /\ claims' \subseteq claims
    /\ \A j \in Jobs : jobs'[j] = jobs[j] \/ jobs'[j].status # "native_running"

LEMMA OnlyClaimsStart ==
    ASSUME WorkerInv, [WorkerNext]_workerVars
    PROVE  SomeClaim \/ StartsNothing
<1>. USE DEF StartsNothing
<1>0. TypeOK /\ TenureInv
  BY DEF WorkerInv, AttemptInv
<1>1. UNCHANGED vars => StartsNothing
  BY DEF vars, repoVars, callerVars
<1>2. ASSUME NEW o, AcquireRead(o) \/ AcquireAbandon(o) \/ Acquire(o) \/ Renew(o) \/ Release(o)
      PROVE  StartsNothing
  BY <1>2 DEF AcquireRead, AcquireAbandon, Acquire, Renew, Release, repoVars, callerVars
<1>3. ASSUME NEW p \in Workers, DropClaims(p)
      PROVE  StartsNothing
  BY <1>3 DEF DropClaims, repoVars
<1>4. ASSUME NEW o \in RustOwners, ClaimNothing(o)
      PROVE  StartsNothing
  <2>1. claims' = claims
    BY <1>4 DEF ClaimNothing, callerVars
  <2>2. ASSUME NEW j \in Jobs
        PROVE  jobs'[j] = jobs[j] \/ jobs'[j].status # "native_running"
    BY <1>0, <1>4, ClaimNothingRows, PassedOverRow
  <2>. QED BY <2>1, <2>2
<1>5. ASSUME NEW c \in claims, Fail(c)
      PROVE  StartsNothing
  BY <1>0, <1>5, EndedRows
<1>6. ASSUME NEW c \in claims, Publish(c)
      PROVE  StartsNothing
  BY <1>0, <1>6, PublishRows
<1>7. Submissions => StartsNothing
  <2>1. AdmitsNew \/ (\E j \in Jobs : Cancel(j)) => StartsNothing
    BY <1>0, AdmitNewRows, EndedRows
  <2>2. \A k, i, rev : AdmitAgain(k, i, rev) => StartsNothing
    BY DEF AdmitAgain, repoVars
  <2>3. /\ \A e : CommitDocument(e) => StartsNothing
        /\ \A target, drained : Cutover(target, drained) => StartsNothing
    BY DEF CommitDocument, Cutover, repoVars, callerVars
  <2>. HIDE DEF StartsNothing
  <2>. QED BY <2>1, <2>2, <2>3 DEF Submissions, AdmitsNew
<1>8. Environment => StartsNothing
  BY DEF Environment, EditAuthority, Elapse, callerVars
<1>9. ASSUME NEW p \in Workers, pc[p] \in Executing, Fail(Held(p)) \/ Publish(Held(p))
      PROVE  StartsNothing
  <2>. HIDE DEF StartsNothing
  <2>. QED BY <1>0, <1>5, <1>6, <1>9, ExecutingHolds
<1>10. ASSUME NEW p \in Workers, FindNothing(p)
       PROVE  StartsNothing
  <2>. HIDE DEF StartsNothing
  <2>. QED BY <1>0, <1>4, <1>10, TenureOfLive DEF FindNothing
<1>. HIDE DEF StartsNothing
<1>11. ASSUME NEW p \in Workers, TakeJob(p) \/ ClaimBroken(p)
       PROVE  SomeClaim \/ StartsNothing
  BY <1>1, <1>11 DEF TakeJob, ClaimBroken, SomeClaim, ClaimStep
<1>12. ASSUME NEW p \in Workers, MainThread(p)
       PROVE  SomeClaim \/ StartsNothing
  BY <1>1, <1>2, <1>3, <1>9, <1>10, <1>11, <1>12
     DEF MainThread, StartWorker, TryRead, TryAbandon, TakeTenure, TakeUnnoticed,
         GiveUpTrying, NoticeLost, ClaimRefused, NextTenure, ReleaseAndExit,
         Prepare, RunNative, KillNative, PublishResult, PublishRefused,
         PublishBroken, RecordRefusal, RefusalRefused, RefusalBroken, DropClaim,
         Executing
<1>13. ASSUME NEW p \in Workers, Heartbeat(p) \/ Crash(p)
       PROVE  StartsNothing
  BY <1>1, <1>2, <1>3, <1>13 DEF Heartbeat, Beat, BeatRefused, BeatBroken, StopBeating, Crash
<1>14. ASSUME NEW o \in RustOwners, RollBackDead(o)
       PROVE  StartsNothing
  BY <1>2, <1>14 DEF RollBackDead
<1>15. LegacyLeasing => StartsNothing
  BY <1>2 DEF LegacyLeasing
<1>16. UNCHANGED workerVars => StartsNothing
  BY <1>1 DEF workerVars
<1>. QED BY <1>7, <1>8, <1>12, <1>13, <1>14, <1>15, <1>16 DEF WorkerNext

\* A tenure keeps its flag; another begins where nothing names it.
TenureGoesOn(q) ==
    /\ tenure'[q] = tenure[q]
    /\ lost[q] => lost'[q]
    /\ pc'[q] = "acquire" => pc[q] = "acquire"

LEMMA TenureEnds ==
    ASSUME WorkerInv, [WorkerNext]_workerVars, NEW q \in Workers
    PROVE  \/ TenureGoesOn(q)
           \/ tenure'[q] = NoOwner
           \/ UNCHANGED jobs /\ Fresh(tenure'[q])
<1>0. WorkerTypeOK /\ TenureInv
  BY DEF WorkerInv, TenureInv
<1>. DEFINE Fine == \/ TenureGoesOn(q)
                    \/ tenure'[q] = NoOwner
                    \/ UNCHANGED jobs /\ Fresh(tenure'[q])
<1>1. UNCHANGED processVars => TenureGoesOn(q)
  BY DEF processVars, TenureGoesOn
<1>2. ASSUME NEW p \in Workers \ {q}, MainThread(p) \/ Heartbeat(p) \/ Crash(p)
      PROVE  Fine
  <2>1. CASE pc[q] # "down"
    BY <1>0, <1>2, <2>1, OthersStay DEF StaysPut, TenureGoesOn
  <2>2. CASE pc[q] = "down"
    <3>1. TenureInv' /\ tenure[q] = NoOwner
      BY <2>2, TenureStep DEF WorkerInv, TenureInv, TenuresDistinct
    <3>. DEFINE Same == tenure'[q] = tenure[q]
    <3>2. /\ \A to : Goto(p, to) => Same
          /\ BeginTenure(p) \/ EndProcess(p) \/ LoseAndJoin(p) \/ StopBeating(p) => Same
          /\ UNCHANGED processVars => Same
          /\ TakeTenure(p) => Same
      BY <1>0, <1>2 DEF Goto, BeginTenure, EndProcess, LoseAndJoin, StopBeating,
                        processVars, TakeTenure, WorkerTypeOK
    <3>. HIDE DEF Same
    <3>3. Same
      BY <1>2, <3>2
         DEF MainThread, StartWorker, TryRead, TryAbandon, TakeUnnoticed,
             GiveUpTrying, NoticeLost, TakeJob, FindNothing, ClaimRefused,
             ClaimBroken, NextTenure, ReleaseAndExit, Prepare, RunNative,
             KillNative, PublishResult, PublishRefused, PublishBroken,
             RecordRefusal, RefusalRefused, RefusalBroken, DropClaim,
             Heartbeat, Beat, BeatRefused, BeatBroken, Crash
    <3>. QED BY <3>1, <3>3 DEF Same
  <2>. QED BY <2>1, <2>2
<1>3. ASSUME MainThread(q) \/ Heartbeat(q) \/ Crash(q)
      PROVE  Fine
  <2>1. /\ \A to \in Places \ {"acquire"} : Goto(q, to) => TenureGoesOn(q)
        /\ LoseAndJoin(q) \/ StopBeating(q) \/ TakeTenure(q) => TenureGoesOn(q)
    BY <1>0 DEF Goto, LoseAndJoin, StopBeating, TakeTenure, TenureGoesOn, WorkerTypeOK,
                Places
  <2>2. BeginTenure(q) => Fresh(tenure'[q])
    BY <1>0, Beginning
  <2>3. EndProcess(q) => tenure'[q] = NoOwner
    BY <1>0, Ending
  <2>4. StartWorker(q) \/ NextTenure(q) => UNCHANGED jobs /\ BeginTenure(q)
    BY DEF StartWorker, NextTenure, DropClaims, vars, repoVars
  <2>5. {"claim", "join", "prepare", "drained", "native", "publish", "fail", "drop"}
        = Places \ {"acquire", "down"}
    BY DEF Places, Executing
  <2>6. \A to \in {"claim", "join", "prepare", "drained", "native", "publish",
                   "fail", "drop"} : Goto(q, to) => TenureGoesOn(q)
    BY <2>1, <2>5
  <2>. HIDE DEF Fine
  <2>7. TenureGoesOn(q) \/ tenure'[q] = NoOwner => Fine
    BY DEF Fine
  <2>8. StartWorker(q) \/ NextTenure(q) => Fine
    BY <2>2, <2>4 DEF Fine
  <2>9. FindNothing(q) => Fine
    BY <2>6, <2>7 DEF FindNothing
  <2>. QED BY <1>1, <1>3, <2>1, <2>3, <2>6, <2>7, <2>8, <2>9
       DEF MainThread, TryRead, TryAbandon, TakeUnnoticed,
           GiveUpTrying, NoticeLost, TakeJob, ClaimRefused,
           ClaimBroken, ReleaseAndExit, Prepare, RunNative,
           KillNative, PublishResult, PublishRefused, PublishBroken,
           RecordRefusal, RefusalRefused, RefusalBroken, DropClaim,
           Heartbeat, Beat, BeatRefused, BeatBroken, Crash
<1>4. UNCHANGED workerVars => UNCHANGED processVars
  BY DEF workerVars
<1>. QED BY <1>1, <1>2, <1>3, <1>4 DEF WorkerNext, RollBackDead

\* No Rust tenure gains the lease, and a new route is a new epoch.
LeaseNotGained ==
    /\ UNCHANGED granted
    /\ epoch' >= epoch
    /\ epoch' = epoch => engine' = engine
    /\ \A o \in RustOwners : Holds(o)' => Holds(o)

TakesLease(p) == pc[p] = "acquire" /\ Acquire(tenure[p])

LEMMA OnlyAcquireGains ==
    ASSUME WorkerInv, [WorkerNext]_workerVars
    PROVE  LeaseNotGained \/ \E p \in Workers : TakesLease(p)
<1>. USE DEF LeaseNotGained
<1>0. /\ TenureInv /\ epoch \in Nat /\ leaseLeft \in -1 .. LeaseSeconds
      /\ reading \in [Owners -> Nat \cup {NoRead}]
  BY DEF WorkerInv, AttemptInv, TypeOK, WorkspaceTypeOK
<1>1. ASSUME UNCHANGED <<owner, leaseLeft, engine, epoch, granted>>
      PROVE  LeaseNotGained
  BY <1>0, <1>1 DEF Holds, LeaseLive
<1>2. UNCHANGED vars => LeaseNotGained
  BY <1>1 DEF vars, workspaceVars, callerVars
<1>3. ASSUME NEW o \in Owners, AcquireRead(o) \/ AcquireAbandon(o) \/ Renew(o) \/ Release(o)
      PROVE  LeaseNotGained
  <2>1. CASE AcquireRead(o) \/ AcquireAbandon(o)
    BY <1>1, <2>1 DEF AcquireRead, AcquireAbandon, ReadRoute, AbandonRead, row, route,
                      callerVars
  <2>2. CASE Renew(o)
    BY <1>0, <2>2 DEF Renew, ExtendLease, route, callerVars, Holds, LeaseLive
  <2>3. CASE Release(o)
    BY <1>0, <2>3 DEF Release, ReleaseLease, route, callerVars, Holds, LeaseLive
  <2>. QED BY <1>3, <2>1, <2>2, <2>3
<1>4. ASSUME NEW o \in LegacyOwners, Acquire(o)
      PROVE  LeaseNotGained
  <2>1. o \notin RustOwners
    BY WorkspaceAssumption
  <2>2. granted' = granted /\ owner' = o /\ engine' = engine /\ epoch' = epoch
    BY <1>4, <2>1 DEF Acquire, TakeLease, route
  <2>. QED BY <1>0, <2>1, <2>2 DEF Holds
<1>5. /\ \A p : DropClaims(p) => LeaseNotGained
      /\ \A o, j, t : ClaimJob(o, j, t) => LeaseNotGained
      /\ \A o : ClaimNothing(o) => LeaseNotGained
      /\ \A c : Fail(c) \/ Publish(c) => LeaseNotGained
      /\ \A k, i, rev : AdmitAgain(k, i, rev) => LeaseNotGained
      /\ \A k, i, rev, sec : AdmitNew(k, i, rev, sec) => LeaseNotGained
      /\ \A j : Cancel(j) => LeaseNotGained
      /\ \A j, content : EditAuthority(j, content) => LeaseNotGained
  BY <1>1 DEF DropClaims, ClaimJob, ClaimNothing, Fail, Publish, AdmitAgain, AdmitNew,
              Cancel, EditAuthority, workspaceVars, callerVars
<1>6. \A e : CommitDocument(e) => LeaseNotGained
  BY <1>1 DEF CommitDocument, AdvanceRevision, row, route, callerVars
<1>7. \A target, drained : Cutover(target, drained) => LeaseNotGained
  BY <1>0 DEF Cutover, SetRoute, row, callerVars, Holds, LeaseLive
<1>8. Elapse => LeaseNotGained
  BY <1>0 DEF Elapse, LeaseElapses, route, callerVars, Holds, LeaseLive
<1>. HIDE DEF LeaseNotGained
<1>. DEFINE Fine == LeaseNotGained \/ \E p \in Workers : TakesLease(p)
<1>9. ASSUME NEW p \in Workers, MainThread(p)
      PROVE  LeaseNotGained \/ TakesLease(p)
  <2>1. TryRead(p) \/ TryAbandon(p) \/ ReleaseAndExit(p) => LeaseNotGained
    <3>1. TryRead(p) \/ TryAbandon(p) \/ ReleaseAndExit(p) => tenure[p] \in Owners
      BY <1>0, TenureOfLive DEF TryRead, TryAbandon, ReleaseAndExit, Owners
    <3>. QED BY <1>2, <1>3, <3>1 DEF TryRead, TryAbandon, ReleaseAndExit
  <2>. QED BY <1>2, <1>5, <1>9, <2>1
       DEF MainThread, StartWorker, TakeTenure, TakeUnnoticed,
           GiveUpTrying, NoticeLost, TakeJob, FindNothing, ClaimRefused,
           ClaimBroken, NextTenure, Prepare, RunNative,
           KillNative, PublishResult, PublishRefused, PublishBroken,
           RecordRefusal, RefusalRefused, RefusalBroken, DropClaim, TakesLease
<1>10. ASSUME NEW p \in Workers, Heartbeat(p) \/ Crash(p)
       PROVE  LeaseNotGained
  <2>1. Beat(p) => tenure[p] \in Owners
    BY <1>0, TenureOfLive DEF Beat, Owners, TenureInv, TenureOK
  <2>. QED BY <1>2, <1>3, <1>5, <1>10, <2>1
       DEF Heartbeat, Beat, BeatRefused, BeatBroken, StopBeating, Crash
<1>11. ASSUME NEW o \in RustOwners, RollBackDead(o)
       PROVE  LeaseNotGained
  BY <1>3, <1>11 DEF RollBackDead, Owners
<1>12. Submissions \/ LegacyLeasing \/ Environment => LeaseNotGained
  BY <1>3, <1>4, <1>5, <1>6, <1>7, <1>8 DEF Submissions, LegacyLeasing, Environment, Owners
<1>13. UNCHANGED workerVars => LeaseNotGained
  BY <1>2 DEF workerVars
<1>. QED BY <1>9, <1>10, <1>11, <1>12, <1>13 DEF WorkerNext

\* An attempt that could report goes on or has reported, but for a refusal that
\* is not recorded.
LEMMA ExecutingGoesOn ==
    ASSUME WorkerInv, [WorkerNext]_workerVars, NEW q \in Workers,
           ~ RefusalBroken(q), pc[q] \in Executing, tenure'[q] = tenure[q],
           LeaseValid(Held(q).owner, Held(q).epoch), Current(Held(q)), ~ lost[q],
           jobs'[Held(q).job].status = "native_running"
    PROVE  pc'[q] \in Executing /\ Held(q) \in claims'
<1>. USE DEF Executing
<1>0. /\ TypeOK /\ TenureInv /\ WorkerTypeOK
      /\ Held(q) \in claims /\ Held(q).owner = tenure[q]
  BY ExecutingHolds DEF WorkerInv, AttemptInv, TenureInv
<1>1. ASSUME UNCHANGED <<claims, pc>>
      PROVE  pc'[q] \in Executing /\ Held(q) \in claims'
  BY <1>0, <1>1
<1>2. ASSUME NEW p \in Workers \ {q}, MainThread(p) \/ Heartbeat(p) \/ Crash(p)
      PROVE  pc'[q] \in Executing /\ Held(q) \in claims'
  BY <1>0, <1>2, OthersStay DEF StaysPut
<1>3. ASSUME Crash(q)
      PROVE  FALSE
  BY <1>0, <1>3, Ending, TenureOfLive DEF Crash
<1>4. ASSUME Heartbeat(q)
      PROVE  UNCHANGED <<claims, pc>>
  BY <1>4 DEF Heartbeat, Beat, BeatRefused, BeatBroken, StopBeating, Renew,
              processVars, vars, callerVars
<1>5. ASSUME MainThread(q)
      PROVE  pc'[q] \in Executing /\ claims' = claims
  <2>1. \A to \in {"native", "publish", "fail"} : Goto(q, to) => pc'[q] \in Executing
    BY <1>0 DEF Goto, WorkerTypeOK
  <2>2. CASE Prepare(q) \/ RunNative(q)
    BY <2>1, <2>2 DEF Prepare, RunNative, vars, callerVars
  <2>3. ~ KillNative(q)
    BY DEF KillNative
  <2>4. ~ PublishResult(q) /\ ~ RecordRefusal(q)
    <3>1. ~ Publish(Held(q))
      BY <1>0, PublishRows
    <3>2. ~ Fail(Held(q))
      BY <1>0 DEF Fail, TypeOK, Claim, JobRow
    <3>. QED BY <3>1, <3>2 DEF PublishResult, RecordRefusal
  <2>5. CASE PublishRefused(q)
    BY <2>1, <2>5 DEF PublishRefused, vars, callerVars
  <2>6. CASE PublishBroken(q)
    <3>1. claims' = claims
      BY <2>6 DEF PublishBroken, Publish, vars, callerVars
    <3>. QED BY <2>1, <2>6, <3>1 DEF PublishBroken
  <2>7. ~ RefusalRefused(q) /\ ~ RefusalBroken(q)
    BY DEF RefusalRefused
  <2>8. /\ ~ StartWorker(q) /\ ~ TryRead(q) /\ ~ TryAbandon(q) /\ ~ TakeTenure(q)
        /\ ~ TakeUnnoticed(q) /\ ~ GiveUpTrying(q) /\ ~ NoticeLost(q) /\ ~ TakeJob(q)
        /\ ~ FindNothing(q) /\ ~ ClaimRefused(q) /\ ~ ClaimBroken(q)
        /\ ~ NextTenure(q) /\ ~ ReleaseAndExit(q) /\ ~ DropClaim(q)
    BY DEF StartWorker, TryRead, TryAbandon, TakeTenure, TakeUnnoticed, GiveUpTrying,
           NoticeLost, TakeJob, FindNothing, ClaimRefused, ClaimBroken, NextTenure,
           ReleaseAndExit, DropClaim
  <2>. QED BY <1>5, <2>2, <2>3, <2>4, <2>5, <2>6, <2>7, <2>8 DEF MainThread
<1>6. ASSUME NEW o \in RustOwners, RollBackDead(o)
      PROVE  UNCHANGED <<claims, pc>>
  BY <1>6 DEF RollBackDead, AcquireAbandon, callerVars, processVars
<1>7. ASSUME (Submissions \/ LegacyLeasing \/ Environment) /\ UNCHANGED processVars
      PROVE  UNCHANGED <<claims, pc>>
  BY <1>7 DEF Submissions, AdmitAgain, AdmitNew, Cancel, CommitDocument, Cutover,
              LegacyLeasing, AcquireRead, AcquireAbandon, Acquire, Renew, Release,
              Environment, EditAuthority, Elapse, callerVars, processVars
<1>8. UNCHANGED workerVars => UNCHANGED <<claims, pc>>
  BY DEF workerVars, vars, callerVars, processVars
<1>. QED BY <1>0, <1>1, <1>2, <1>3, <1>4, <1>5, <1>6, <1>7, <1>8 DEF WorkerNext

\* What makes a lost lease lost for good: no lease is granted under an epoch
\* yet to come, and a tenure takes the lease before it claims, never after.
EpochsArePast ==
    /\ \A o \in Owners : reading[o] <= epoch
    /\ \A o \in RustOwners : granted[o] <= epoch
    /\ \A c \in claims : c.epoch = granted[c.owner]

RunningHasOwner ==
    \A j \in Jobs : jobs[j].status = "native_running" => jobs[j].owner \in RustOwners

\* A tenure that is trying for the lease has not run anything yet.
NewTenuresRunNothing ==
    \A p \in Workers, j \in Jobs :
        pc[p] = "acquire" /\ jobs[j].status = "native_running" =>
            jobs[j].owner # tenure[p]

StrandInv == EpochsArePast /\ RunningHasOwner /\ NewTenuresRunNothing

\* What a claim leaves running is the claimant's.
LEMMA ClaimStepRows ==
    ASSUME WorkerInv, NEW p \in Workers, NEW j \in Jobs, NEW t \in Tokens,
           ClaimStep(p, j, t)
    PROVE  /\ tenure[p] \in RustOwners
           /\ LeaseValid(tenure[p], granted[tenure[p]])
           /\ UNCHANGED <<workspaceVars, granted, tenure>>
           /\ jobs'[j].owner = tenure[p] /\ jobs'[j].status = "native_running"
           /\ jobs'[j].token = t
           /\ \A i \in Jobs \ {j} : jobs'[i].status = "native_running" =>
                  jobs'[i] = jobs[i] /\ jobs[i].owner = tenure[p]
           /\ \A q \in Workers \ {p} : pc'[q] = pc[q] /\ lost'[q] = lost[q]
           /\ \/ pc'[p] = "prepare"
              \/ pc'[p] = "join" /\ lost'[p]
<1>. USE DEF ClaimStep
<1>0. TypeOK /\ TenureInv /\ WorkerTypeOK
  BY DEF WorkerInv, AttemptInv, TenureInv
<1>1. tenure[p] \in RustOwners
  BY <1>0, TenureOfLive
<1>2. /\ LeaseValid(tenure[p], granted[tenure[p]])
      /\ UNCHANGED <<workspaceVars, granted, tenure>>
  BY DEF ClaimJob, Goto, LoseAndJoin
<1>3. /\ jobs'[j].owner = tenure[p] /\ jobs'[j].status = "native_running"
      /\ jobs'[j].token = t
  BY <1>0, <1>1, ClaimRows
<1>4. ASSUME NEW i \in Jobs \ {j}, jobs'[i].status = "native_running"
      PROVE  jobs'[i] = jobs[i] /\ jobs[i].owner = tenure[p]
  <2>. DEFINE S == {k \in Pending(tenure[p]) : Before(k, j)}
  <2>1. jobs'[i] = Walked(tenure[p], S)[i]
    BY <1>0, <1>1, WalkedType DEF ClaimJob
  <2>2. jobs[i] \in JobRow
    BY <1>0 DEF TypeOK
  <2>3. Refused(jobs[i]).status # "native_running"
        /\ Requeued(jobs[i]).status # "native_running"
    BY <2>2 DEF Refused, Requeued, JobRow
  <2>4. i \notin Abandoned(tenure[p]) /\ jobs'[i] = jobs[i]
    BY <1>4, <2>1, <2>3 DEF Walked
  <2>. QED BY <1>4, <2>4 DEF Abandoned
<1>5. \A q \in Workers \ {p} : pc'[q] = pc[q] /\ lost'[q] = lost[q]
  BY <1>0 DEF Goto, LoseAndJoin, WorkerTypeOK
<1>6. pc'[p] = "prepare" \/ (pc'[p] = "join" /\ lost'[p])
  BY <1>0 DEF Goto, LoseAndJoin, WorkerTypeOK
<1>. QED BY <1>1, <1>2, <1>3, <1>4, <1>5, <1>6

\* The attempt that a claim hands out.
LEMMA ClaimStepClaims ==
    ASSUME WorkerInv, NEW p \in Workers, NEW j \in Jobs, NEW t \in Tokens,
           ClaimStep(p, j, t)
    PROVE  \E c \in claims' : /\ c.owner = tenure[p] /\ c.job = j /\ c.token = t
                              /\ c.epoch = granted[tenure[p]]
                              /\ claims' = claims \cup {c}
<1>. DEFINE new == [job |-> j, owner |-> tenure[p], token |-> t,
                    attempt |-> jobs[j].attempt + 1, epoch |-> granted[tenure[p]],
                    authority |-> authority[j]]
<1>1. claims' = claims \cup {new}
  BY DEF ClaimStep, ClaimJob
<1>. QED BY <1>1

LEMMA EpochStep ==
    ASSUME WorkerInv, EpochsArePast, [WorkerNext]_workerVars
    PROVE  EpochsArePast'
<1>0. TypeOK /\ TypeOK' /\ TenureInv /\ [Next]_vars
  BY TenureStep, WorkerUsesRepository DEF WorkerInv, AttemptInv
<1>. USE <1>0 DEF TypeOK, WorkspaceTypeOK
<1>1. ASSUME NEW o \in Owners
      PROVE  reading'[o] <= epoch'
  <2>1. ASSUME UNCHANGED <<reading, epoch>>
        PROVE  reading'[o] <= epoch'
    BY <2>1 DEF EpochsArePast
  <2>2. ASSUME NEW a \in Owners,
               \/ AcquireRead(a) \/ AcquireAbandon(a) \/ Acquire(a)
        PROVE  reading'[o] <= epoch'
    BY <2>2 DEF AcquireRead, AcquireAbandon, Acquire, ReadRoute, AbandonRead, TakeLease,
                route, NoRead, EpochsArePast
  <2>3. ASSUME NEW target, NEW drained, Cutover(target, drained)
        PROVE  reading'[o] <= epoch'
    BY <2>3 DEF Cutover, SetRoute, EpochsArePast, NoRead
  <2>4. Submissions => reading'[o] <= epoch'
    BY <2>1, <2>3 DEF Submissions, AdmitAgain, AdmitNew, Cancel, CommitDocument,
                      AdvanceRevision, workspaceVars, route
  <2>5. Leasing => reading'[o] <= epoch'
    BY <2>1, <2>2 DEF Leasing, Renew, Release, ExtendLease, ReleaseLease, route
  <2>6. Working => reading'[o] <= epoch'
    BY <2>1 DEF Working, ClaimJob, ClaimNothing, Fail, Publish, Forget, workspaceVars
  <2>7. Environment => reading'[o] <= epoch'
    BY <2>1 DEF Environment, EditAuthority, Elapse, LeaseElapses, workspaceVars, route
  <2>8. UNCHANGED vars => reading'[o] <= epoch'
    BY <2>1 DEF vars, workspaceVars
  <2>. QED BY <2>4, <2>5, <2>6, <2>7, <2>8 DEF Next
<1>2. ASSUME LeaseNotGained
      PROVE  \A o \in RustOwners : granted'[o] <= epoch'
  BY <1>2 DEF LeaseNotGained, EpochsArePast
<1>3. ASSUME NEW p \in Workers, TakesLease(p)
      PROVE  \A o \in RustOwners : granted'[o] <= epoch'
  <2>1. tenure[p] \in RustOwners
    BY <1>3, TenureOfLive DEF TakesLease
  <2>2. EpochRead(tenure[p]) <= epoch /\ epoch' = epoch
    BY <1>3, <2>1 DEF TakesLease, Acquire, TakeLease, EpochRead, EpochsArePast, Owners, route
  <2>3. granted' = [granted EXCEPT ![tenure[p]] = EpochRead(tenure[p])]
    BY <1>3, <2>1 DEF TakesLease, Acquire
  <2>. QED BY <2>2, <2>3 DEF EpochsArePast
<1>4. ASSUME NEW c \in claims'
      PROVE  c.epoch = granted'[c.owner]
  <2>1. CASE SomeClaim
    <3>1. PICK p \in Workers, j \in Jobs, t \in Tokens : ClaimStep(p, j, t)
      BY <2>1 DEF SomeClaim
    <3>2. granted' = granted
      BY <3>1, ClaimStepRows
    <3>. QED BY <3>1, <3>2, ClaimStepClaims DEF EpochsArePast
  <2>2. CASE StartsNothing
    <3>1. c \in claims
      BY <2>2 DEF StartsNothing
    <3>2. CASE LeaseNotGained
      BY <3>1, <3>2 DEF LeaseNotGained, EpochsArePast
    <3>3. ASSUME NEW p \in Workers, TakesLease(p)
          PROVE  c.epoch = granted'[c.owner]
      <4>1. tenure[p] \in RustOwners /\ c.owner \in RustOwners
        BY <3>1, <3>3, TenureOfLive, ClaimOwners DEF TakesLease
      <4>2. c.owner # tenure[p]
        BY <3>1, <3>3 DEF TakesLease, TenureInv, TenureOK, Executing
      <4>3. granted' = [granted EXCEPT ![tenure[p]] = EpochRead(tenure[p])]
        BY <3>3, <4>1 DEF TakesLease, Acquire
      <4>. QED BY <3>1, <4>1, <4>2, <4>3 DEF EpochsArePast
    <3>. QED BY <3>2, <3>3, OnlyAcquireGains
  <2>. QED BY <2>1, <2>2, OnlyClaimsStart
<1>. QED BY <1>1, <1>2, <1>3, <1>4, OnlyAcquireGains DEF EpochsArePast

\* A Rust tenure that has lost its lease while there is native work has lost it
\* until it takes it again.
LEMMA LostLeaseStaysLost ==
    ASSUME WorkerInv, EpochsArePast, [WorkerNext]_workerVars, engine = "rust",
           NEW o \in RustOwners, ~ LeaseValid(o, granted[o]),
           LeaseValid(o, granted[o])'
    PROVE  \E p \in Workers : tenure[p] = o /\ pc[p] = "acquire"
<1>0. epoch \in Nat /\ epoch' \in Nat /\ granted[o] \in Nat
  BY TenureStep DEF WorkerInv, AttemptInv, TypeOK, WorkspaceTypeOK
<1>1. ~ LeaseNotGained
  <2>. SUFFICES ASSUME LeaseNotGained PROVE FALSE
    OBVIOUS
  <2>1. Holds(o) /\ epoch' = granted[o] /\ epoch' >= epoch /\ granted[o] <= epoch
    BY DEF LeaseNotGained, LeaseValid, EpochsArePast
  <2>2. epoch = granted[o]
    BY <1>0, <2>1
  <2>. QED BY <2>1, <2>2 DEF LeaseValid
<1>2. PICK p \in Workers : TakesLease(p)
  BY <1>1, OnlyAcquireGains
<1>3. owner' = tenure[p] /\ owner' = o
  BY <1>2 DEF TakesLease, Acquire, TakeLease, LeaseValid, Holds
<1>. QED BY <1>2, <1>3 DEF TakesLease

LEMMA RunningOwnerStep ==
    ASSUME WorkerInv, RunningHasOwner, [WorkerNext]_workerVars
    PROVE  RunningHasOwner'
<1>1. CASE SomeClaim
  <2>1. PICK p \in Workers, j \in Jobs, t \in Tokens : ClaimStep(p, j, t)
    BY <1>1 DEF SomeClaim
  <2>. QED BY <2>1, ClaimStepRows DEF RunningHasOwner
<1>2. CASE StartsNothing
  BY <1>2 DEF StartsNothing, RunningHasOwner
<1>. QED BY <1>1, <1>2, OnlyClaimsStart

LEMMA NewTenureStep ==
    ASSUME WorkerInv, RunningHasOwner, NewTenuresRunNothing, [WorkerNext]_workerVars
    PROVE  NewTenuresRunNothing'
<1>0. TenureInv /\ TenureInv' /\ RunningHasOwner'
  BY TenureStep, RunningOwnerStep DEF WorkerInv
<1>. SUFFICES ASSUME NEW q \in Workers, NEW j \in Jobs, pc'[q] = "acquire",
                     jobs'[j].status = "native_running", jobs'[j].owner = tenure'[q]
              PROVE  FALSE
  BY DEF NewTenuresRunNothing
<1>1. CASE SomeClaim
  <2>1. PICK p \in Workers, i \in Jobs, t \in Tokens : ClaimStep(p, i, t)
    BY <1>1 DEF SomeClaim
  <2>2. jobs'[j].owner = tenure[p] /\ tenure' = tenure /\ q # p /\ pc[p] # "down"
    BY <2>1, ClaimStepRows DEF ClaimStep
  <2>. QED BY <1>0, <2>2 DEF TenureInv, TenuresDistinct
<1>2. CASE StartsNothing
  <2>1. jobs'[j] = jobs[j]
    BY <1>2 DEF StartsNothing
  <2>2. CASE TenureGoesOn(q)
    BY <2>1, <2>2 DEF TenureGoesOn, NewTenuresRunNothing
  <2>3. CASE tenure'[q] = NoOwner
    BY <1>0, <2>3 DEF TenureInv, TenuresDistinct
  <2>4. CASE Fresh(tenure'[q])
    BY <2>1, <2>4 DEF Fresh, ActiveJobs, Active
  <2>. QED BY <2>2, <2>3, <2>4, TenureEnds
<1>. QED BY <1>1, <1>2, OnlyClaimsStart

LEMMA StrandedStep ==
    ASSUME WorkerInv, StrandInv, [WorkerNext]_workerVars,
           NEW q \in Workers, NEW j \in Jobs,
           ~ Unattended(q, j), ~ RefusalBroken(q)
    PROVE  ~ Unattended(q, j)'
<1>0. /\ TypeOK /\ TenureInv /\ TenureInv' /\ TypeOK' /\ NativeWorkNeedsRoute
      /\ EpochsArePast /\ RunningHasOwner /\ NewTenuresRunNothing
  BY TenureStep DEF WorkerInv, AttemptInv, StrandInv
<1>. SUFFICES ASSUME jobs'[j].status = "native_running", tenure'[q] = jobs'[j].owner,
                     ~ lost'[q], LeaseValid(tenure[q], granted[tenure[q]])'
              PROVE  /\ pc'[q] \in Executing
                     /\ (Held(q).job = j /\ Current(Held(q)))'
  BY DEF Unattended, Epoch, Executing
<1>1. CASE SomeClaim
  <2>1. PICK p \in Workers, i \in Jobs, t \in Tokens : ClaimStep(p, i, t)
    BY <1>1 DEF SomeClaim
  <2>2. jobs'[j].owner = tenure[p] /\ tenure' = tenure /\ pc[p] = "claim" /\ ~ lost[p]
    BY <2>1, ClaimStepRows DEF ClaimStep
  <2>3. q = p
    BY <1>0, <2>2 DEF TenureInv, TenuresDistinct
  <2>4. j = i
    <3>. SUFFICES ASSUME j # i PROVE FALSE
      OBVIOUS
    <3>1. jobs[j].status = "native_running" /\ jobs[j].owner = tenure[p]
          /\ LeaseValid(tenure[p], granted[tenure[p]])
      BY <2>1, ClaimStepRows
    <3>. QED BY <2>2, <2>3, <3>1 DEF Unattended, Epoch
  <2>5. pc'[q] = "prepare"
    BY <2>1, <2>3, ClaimStepRows
  <2>6. PICK c \in claims' : c.owner = tenure'[q] /\ c.job = j /\ c.token = t
    BY <2>1, <2>2, <2>3, <2>4, ClaimStepClaims
  <2>7. Held(q)' = c
    BY <1>0, <2>6 DEF TenureInv, ClaimsAreHeld, Held
  <2>8. jobs'[j].token = t
    BY <2>1, <2>4, ClaimStepRows
  <2>. QED BY <2>5, <2>6, <2>7, <2>8 DEF Current, Executing
<1>2. CASE StartsNothing
  <2>1. jobs'[j] = jobs[j]
    BY <1>2 DEF StartsNothing
  <2>2. jobs[j].status = "native_running" /\ jobs[j].owner \in RustOwners
        /\ engine = "rust"
    BY <1>0, <2>1 DEF RunningHasOwner, NativeWorkNeedsRoute, ActiveJobs, Active,
                      TypeOK, WorkspaceTypeOK
  <2>3. TenureGoesOn(q)
    <3>1. tenure'[q] # NoOwner
      BY <2>1, <2>2, WorkspaceAssumption DEF Owners
    <3>2. ~ Fresh(tenure'[q])
      BY <2>1, <2>2 DEF Fresh, ActiveJobs, Active
    <3>. QED BY <3>1, <3>2, TenureEnds
  <2>4. tenure'[q] = tenure[q] /\ tenure[q] = jobs[j].owner /\ ~ lost[q]
    BY <2>1, <2>3 DEF TenureGoesOn
  <2>5. LeaseValid(tenure[q], granted[tenure[q]])
    <3>. SUFFICES ASSUME ~ LeaseValid(tenure[q], granted[tenure[q]]) PROVE FALSE
      OBVIOUS
    <3>1. PICK p \in Workers : tenure[p] = tenure[q] /\ pc[p] = "acquire"
      BY <1>0, <2>2, <2>4, LostLeaseStaysLost
    <3>. QED BY <2>2, <2>4, <3>1, <1>0 DEF NewTenuresRunNothing
  <2>6. pc[q] \in Executing /\ Held(q).job = j /\ Current(Held(q))
    BY <2>2, <2>4, <2>5 DEF Unattended, Epoch, Executing
  <2>7. Held(q) \in claims /\ Held(q).owner = tenure[q]
        /\ Held(q).epoch = granted[tenure[q]]
    BY <1>0, <2>6, ExecutingHolds DEF EpochsArePast
  <2>8. pc'[q] \in Executing /\ Held(q) \in claims'
    BY <2>4, <2>5, <2>6, <2>7, ExecutingGoesOn
  <2>9. Held(q)' = Held(q)
    <3>. DEFINE c == Held(q)
    <3>1. c \in claims' /\ c.owner = tenure'[q]
      BY <2>4, <2>7, <2>8
    <3>. HIDE DEF c
    <3>2. Held(q)' = c
      BY <1>0, <3>1 DEF TenureInv, ClaimsAreHeld, Held
    <3>. QED BY <3>2 DEF c
  <2>. QED BY <2>1, <2>6, <2>8, <2>9 DEF Current
<1>. QED BY <1>1, <1>2, OnlyClaimsStart

LEMMA StrandInvariant == WorkerSpec => [](WorkerInv /\ StrandInv)
<1>1. WorkerInit => StrandInv
  <2>. SUFFICES ASSUME WorkerInit PROVE StrandInv
    OBVIOUS
  <2>1. \A j \in Jobs : jobs[j].status = "absent"
    BY DEF WorkerInit, Init, NoJob
  <2>2. EpochsArePast
    BY DEF WorkerInit, Init, WorkspaceInit, EpochsArePast, NoRead
  <2>. QED BY <2>1, <2>2 DEF StrandInv, RunningHasOwner, NewTenuresRunNothing
<1>2. WorkerInv /\ StrandInv /\ [WorkerNext]_workerVars => StrandInv'
  BY EpochStep, RunningOwnerStep, NewTenureStep DEF StrandInv
<1>. QED BY <1>1, <1>2, WorkerInvariant, PTL DEF WorkerSpec

\* A job that is running is being run, by the process whose tenure is in its
\* row, or that tenure can claim no more, so that the next claim requeues the
\* job: it takes a refusal that `execute` could not record to leave one behind.
THEOREM RunningJobsAreRun == WorkerSpec => NoStrandedJob
<1>1. WorkerInv /\ StrandInv /\ [WorkerNext]_workerVars =>
          [\A p \in Workers, j \in Jobs :
               Unattended(p, j)' /\ ~ Unattended(p, j) => RefusalBroken(p)]_workerVars
  BY StrandedStep
<1>. QED BY <1>1, StrandInvariant, PTL DEF WorkerSpec, NoStrandedJob

\* What the documentation of `claim` says of jobs past their deadline ("fail
\* here without running again") holds as long as every refusal reaches the
\* database: the next claim reaches them, whoever ran them.
THEOREM ExpiredJobsFail ==
    ASSUME "fail" \notin Faults
    PROVE  WorkerSpec => []ExpiredJobsFailAtClaim
<1>. DEFINE AllAttended == \A p \in Workers, j \in Jobs : ~ Unattended(p, j)
<1>1. WorkerInit => AllAttended
  <2>. SUFFICES ASSUME WorkerInit PROVE AllAttended
    OBVIOUS
  <2>1. \A j \in Jobs : jobs[j].status = "absent"
    BY DEF WorkerInit, Init, NoJob
  <2>. QED BY <2>1 DEF Unattended
<1>2. WorkerInv /\ StrandInv /\ AllAttended /\ [WorkerNext]_workerVars => AllAttended'
  <2>1. \A p \in Workers : ~ RefusalBroken(p)
    BY DEF RefusalBroken
  <2>. QED BY <2>1, StrandedStep
<1>3. WorkerInv /\ AllAttended => ExpiredJobsFailAtClaim
  <2>. SUFFICES ASSUME WorkerInv, AllAttended, NEW p \in Workers, NEW j \in Jobs,
                       pc[p] = "claim", ~ lost[p], LeaseValid(tenure[p], Epoch(p)),
                       jobs[j].status \in Active
                PROVE  j \in Pending(tenure[p])
    BY DEF ExpiredJobsFailAtClaim
  <2>1. jobs[j].status = "native_running" => jobs[j].owner # tenure[p]
    BY DEF Unattended
  <2>. QED BY <2>1 DEF Pending, Abandoned, Active
<1>. HIDE DEF AllAttended
<1>. QED BY <1>1, <1>2, <1>3, StrandInvariant, PTL DEF WorkerSpec
==============================================================================
