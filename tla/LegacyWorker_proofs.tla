------------------------- MODULE LegacyWorker_proofs -------------------------
(***************************************************************************)
(* Proofs about the Python worker processes and their decision sessions,   *)
(* for any number of processes, jobs, sessions and updates, on both        *)
(* databases, and with any choice of lost replies.  First, that a process  *)
(* uses the repository as LegacyRepo lets its callers; then what holds     *)
(* because of the order in which `recover`, `loop` and `execute` do things.*)
(***************************************************************************)
EXTENDS LegacyWorker, LegacyRepo_proofs

-----------------------------------------------------------------------------
(* The inductive invariant.                                                *)

Executing == {"claimed", "computing", "adopted", "publishing", "failing"}

\* A process holds one attempt while it executes it, and none otherwise.
ClaimsAreHeld ==
    /\ \A c \in claims : phase[c.owner] \in Executing
                         /\ jobs[c.job].status # "absent"
    /\ \A c, d \in claims : c.owner = d.owner => c = d
    /\ \A o \in LegacyOwners :
           phase[o] \in Executing => \E c \in claims : c.owner = o

\* The journal of a session: its version counts it, its k-th update was asked
\* for at version k, and it holds all the updates that were reported done.
SessionOK(s) ==
    /\ sessions[s].version = 0 => journals[s] = <<>>
    /\ sessions[s].version > 0 => sessions[s].version = 1 + Len(journals[s])
    /\ \A j \in sessions[s].manifest :
           jobs[j].request.revision = sessions[s].revision
    /\ \A k \in DOMAIN journals[s] :
           /\ jobs[journals[s][k]].request.body
                  = [op |-> "update", sid |-> s, version |-> k]
           /\ jobs[journals[s][k]].request.revision = sessions[s].revision
    /\ {j \in Jobs : jobs[j].status = "done"
            /\ jobs[j].request.body.op = "update"
            /\ jobs[j].request.body.sid = s}
           = {journals[s][k] : k \in DOMAIN journals[s]}

\* A copy of a journal a process has is the journal, or an earlier one; while
\* the lease row still names the process it is the journal, because only the
\* holder of the lease appends to it.
Recent(o, s, copy) ==
    /\ copy = journals[s] \/ Len(copy) < Len(journals[s])
    /\ owner = o => copy = journals[s]

\* A process that has not had the lease has nothing.
NewOK(o) ==
    phase[o] \in {"down", "starting"} => memory[o] = NoItems /\ serving[o] = {}

RestoringOK(o) ==
    \A s \in Sids : restoring[o][s] # NoItem =>
        /\ phase[o] = "rebuilding"
        /\ sessions[s].version > 0
        /\ restoring[o][s].revision = sessions[s].revision
        /\ Recent(o, s, restoring[o][s].journal)

\* The session of the update under way may be ahead of its journal.
Ahead(o, s) ==
    /\ phase[o] \in {"adopted", "publishing", "failing"}
    /\ Body(o).op = "update" /\ Body(o).sid = s

MemoryOK(o) ==
    phase[o] # "ended" => \A s \in Sids : memory[o][s] # NoItem =>
        /\ sessions[s].version > 0 => memory[o][s].revision = sessions[s].revision
        /\ Ahead(o, s) \/ Recent(o, s, memory[o][s].journal)

\* The update under way is the next one of the session in memory, ...
UpdateOK(o) ==
    LET s == Body(o).sid
        b == Body(o).version
        item == memory[o][s]
    IN
    /\ Body(o).op = "update"
    /\ item # NoItem /\ item.revision = InputsOf(o)
    /\ phase[o] = "computing" => Len(item.journal) + 1 = b
    /\ phase[o] # "computing" =>
           \E copy \in Journal :
               /\ item.journal = Append(copy, Held(o).job)
               /\ Len(copy) + 1 = b
               /\ Recent(o, s, copy)

\* ... and what it is about to publish is what was in the row, one longer.
PublishingOK(o) ==
    /\ Body(o).op = "run" => doing[o] = Nothing
    /\ Body(o).op = "library" => doing[o] = [kind |-> "library"]
    /\ Body(o).op = "build" =>
           \E s \in Sids :
               /\ doing[o] = [kind |-> "session", sid |-> s, journal |-> <<>>]
               /\ sessions[s].version = 0
               /\ memory[o][s] = [revision |-> InputsOf(o), journal |-> <<>>]
    /\ Body(o).op = "update" =>
           /\ UpdateOK(o)
           /\ sessions[Body(o).sid].version > 0
           /\ \E read \in Journal :
                  /\ doing[o] = [kind |-> "session", sid |-> Body(o).sid,
                                 journal |-> Append(read, Held(o).job)]
                  /\ Recent(o, Body(o).sid, read)
                  /\ Body(o).version <= Len(read) + 1

ExecutionOK(o) ==
    /\ phase[o] \in {"computing", "adopted"} => UpdateOK(o)
    /\ phase[o] = "publishing" => PublishingOK(o)

\* An evaluation is against the journal, as long as its result may be used.
ServingOK(o) ==
    \A e \in serving[o] :
        /\ phase[o] \in {"idle", "claimed", "ended"}
        /\ owner = o => sessions[e[1]].version > 0 /\ e[2] = journals[e[1]]

\* What runs in the name of a holder of the lease is what it executes.
RunningOK(o) ==
    /\ phase[o] = "starting" =>
           \A j \in Jobs : jobs[j].status = "running" => jobs[j].owner # o
    /\ Holds(o) /\ phase[o] \notin {"down", "starting", "ended"} =>
           \A j \in Jobs : jobs[j].status = "running" /\ jobs[j].owner = o =>
               phase[o] \in Executing /\ Held(o).job = j /\ Current(Held(o))

ProcessOK(o) ==
    /\ NewOK(o)
    /\ RestoringOK(o)
    /\ MemoryOK(o)
    /\ ExecutionOK(o)
    /\ ServingOK(o)
    /\ RunningOK(o)

\* A session that has no row yet is in the memory of the process that built it.
UnsavedIsOwn ==
    \A s \in Sids : sessions[s].version = 0 =>
        \A o, q \in LegacyOwners :
            memory[o][s] # NoItem /\ memory[q][s] # NoItem => o = q

WorkerInv ==
    /\ LegacyWorkerTypeOK
    /\ PublishedTogether
    /\ ClaimsAreHeld
    /\ UnsavedIsOwn
    /\ \A s \in Sids : SessionOK(s)
    /\ \A o \in LegacyOwners : ProcessOK(o)
-----------------------------------------------------------------------------
(* What a process holds.                                                   *)

LEMMA ClaimTypes ==
    ASSUME LegacyTypeOK, NEW c \in claims
    PROVE  c.owner \in LegacyOwners /\ c.job \in Jobs /\ jobs[c.job] \in JobRow
BY DEF LegacyTypeOK, Claim

LEMMA HeldIsTheClaim ==
    ASSUME ClaimsAreHeld, NEW o, NEW c \in claims, c.owner = o
    PROVE  Held(o) = c
BY DEF ClaimsAreHeld, Held

LEMMA ExecutingHolds ==
    ASSUME ClaimsAreHeld, NEW o \in LegacyOwners, phase[o] \in Executing
    PROVE  Held(o) \in claims /\ Held(o).owner = o
<1>1. PICK c \in claims : c.owner = o
  BY DEF ClaimsAreHeld
<1>. QED BY <1>1, HeldIsTheClaim

LEMMA BodyTypes ==
    ASSUME LegacyTypeOK, ClaimsAreHeld, NEW o \in LegacyOwners, phase[o] \in Executing
    PROVE  /\ Held(o).job \in Jobs
           /\ Body(o) \in Bodies /\ InputsOf(o) \in 0 .. MaxRevision
           /\ Body(o).op \in {"run", "build", "library", "update"}
           /\ Body(o).op = "update" => Body(o).sid \in Sids /\ Body(o).version \in Nat
<1>1. Held(o).job \in Jobs /\ jobs[Held(o).job] \in JobRow
  BY ExecutingHolds, ClaimTypes
<1>2. jobs[Held(o).job].request \in Submission
  BY <1>1 DEF JobRow
<1>3. Body(o) \in Bodies /\ InputsOf(o) \in 0 .. MaxRevision
  BY <1>2 DEF Body, InputsOf, Submission
<1>4. Body(o) \in [op: {"run", "build", "library"}]
          \cup [op: {"update"}, sid: Sids, version: Nat]
  BY <1>3, LegacyWorkerAssumption
<1>. QED BY <1>1, <1>3, <1>4

LEMMA DropsOne ==
    ASSUME ClaimsAreHeld, NEW o \in LegacyOwners,
           claims' = {c \in claims : c.owner # o},
           UNCHANGED <<workspaceVars, repoVars, submitting, receipts>>
    PROVE  UNCHANGED vars \/ \E c \in claims : Forget(c)
<1>1. CASE \A c \in claims : c.owner # o
  <2>1. claims' = claims
    BY <1>1
  <2>. QED BY <2>1 DEF vars, callerVars
<1>2. ASSUME NEW c \in claims, c.owner = o
      PROVE  Forget(c)
  <2>1. claims' = claims \ {c}
    BY <1>2 DEF ClaimsAreHeld
  <2>. QED BY <2>1 DEF Forget
<1>. QED BY <1>1, <1>2

-----------------------------------------------------------------------------
(* Every step is one the repository lets its callers take.                 *)

\* What the result comes with is of the kind the job asked for.
LEMMA AttachmentTyped ==
    ASSUME LegacyWorkerTypeOK, ClaimsAreHeld, NEW o \in LegacyOwners,
           phase[o] = "publishing", PublishingOK(o)
    PROVE  Attachment(o) \in Attachments
<1>0. LegacyTypeOK /\ phase[o] \in Executing
  BY DEF LegacyWorkerTypeOK, Executing
<1>1. CASE Body(o).op = "run"
  <2>1. Attachment(o) = [kind |-> "none"]
    BY <1>1 DEF PublishingOK, Nothing, Attachment
  <2>. QED BY <2>1 DEF Attachments
<1>2. CASE Body(o).op = "library"
  <2>1. Attachment(o) = [kind |-> "library"]
    BY <1>2 DEF PublishingOK, Attachment
  <2>. QED BY <2>1 DEF Attachments
<1>3. CASE Body(o).op = "build"
  <2>1. PICK s \in Sids :
            /\ doing[o] = [kind |-> "session", sid |-> s, journal |-> <<>>]
            /\ memory[o][s] = [revision |-> InputsOf(o), journal |-> <<>>]
    BY <1>3 DEF PublishingOK
  <2>2. VersionOf(memory[o][s]) = 1
    BY <2>1 DEF VersionOf
  <2>3. Attachment(o) = [kind |-> "session", sid |-> s, version |-> 1]
    BY <2>1, <2>2 DEF Attachment
  <2>4. 1 \in Versions
    BY <1>0, <1>3, BodyTypes, LegacyWorkerAssumption
  <2>. QED BY <2>3, <2>4 DEF Attachments
<1>4. CASE Body(o).op = "update"
  <2>0. PICK read \in Journal :
            doing[o] = [kind |-> "session", sid |-> Body(o).sid,
                        journal |-> Append(read, Held(o).job)]
    BY <1>4 DEF PublishingOK
  <2>. DEFINE s == Body(o).sid
  <2>1. doing[o].kind = "session" /\ doing[o].sid = s /\ s \in Sids
    BY <1>0, <1>4, <2>0, BodyTypes
  <2>2. Body(o).version + 1 \in Versions
    BY <1>0, <1>4, BodyTypes, LegacyWorkerAssumption
  <2>3. PICK copy \in Journal : /\ memory[o][s].journal = Append(copy, Held(o).job)
                                /\ Len(copy) + 1 = Body(o).version
    BY <1>4 DEF PublishingOK, UpdateOK
  <2>4. Len(memory[o][s].journal) = Len(copy) + 1
    BY <1>0, <2>3, BodyTypes DEF Journal
  <2>5. VersionOf(memory[o][s]) = Body(o).version + 1
    <3>1. Len(copy) \in Nat
      BY DEF Journal
    <3>. QED BY <2>3, <2>4, <3>1 DEF VersionOf
  <2>6. Attachment(o) = [kind |-> "session", sid |-> s, version |-> Body(o).version + 1]
    BY <2>1, <2>5 DEF Attachment
  <2>. HIDE DEF s
  <2>. QED BY <2>1, <2>2, <2>6 DEF Attachments
<1>. QED BY <1>0, <1>1, <1>2, <1>3, <1>4, BodyTypes

LEMMA Reports ==
    ASSUME LegacyWorkerTypeOK, ClaimsAreHeld, NEW o \in LegacyOwners, ProcessOK(o),
           Publish(o) \/ PublishUnnoticed(o) \/ RecordError(o) \/ ErrorRefused(o)
           \/ ErrorBroken(o)
    PROVE  Working
<1>1. CASE Publish(o) \/ PublishUnnoticed(o)
  <2>1. phase[o] = "publishing" /\ Complete(Held(o), Attachment(o))
    BY <1>1 DEF Publish, PublishUnnoticed
  <2>2. Attachment(o) \in Attachments
    BY <2>1, AttachmentTyped DEF ProcessOK, ExecutionOK
  <2>3. Held(o) \in claims
    BY <2>1, ExecutingHolds DEF Executing
  <2>. QED BY <2>1, <2>2, <2>3 DEF Working
<1>2. CASE RecordError(o) \/ ErrorRefused(o) \/ ErrorBroken(o)
  <2>1. phase[o] = "failing" /\ (CompleteError(Held(o)) \/ Forget(Held(o)))
    BY <1>2 DEF RecordError, ErrorRefused, ErrorBroken
  <2>2. Held(o) \in claims
    BY <2>1, ExecutingHolds DEF Executing
  <2>. QED BY <2>1, <2>2 DEF Working
<1>. QED BY <1>1, <1>2

LEMMA WorkerUsesRepository ==
    ASSUME WorkerInv, [LegacyWorkerNext]_workerVars
    PROVE  [Next]_vars
<1>. USE DEF Next
<1>1. ASSUME NEW o \in LegacyOwners, Life(o)
      PROVE  [Next]_vars
  <2>1. Crash(o) => [Next]_vars
    BY DropsOne DEF Crash, Working, WorkerInv
  <2>2. AcquireRead(o) \/ AcquireAbandon(o) \/ Acquire(o) \/ Renew(o) \/ Release(o) => Next
    BY DEF Leasing
  <2>. QED BY <1>1, <2>1, <2>2
       DEF Life, Start, AskRoute, Lead, LeadRefused, Quit, RollBackDead, Beat, BeatRefused
<1>2. ASSUME NEW o \in LegacyOwners, Recovery(o)
      PROVE  [Next]_vars
  BY <1>2 DEF Recovery, RecoverRead, Recovered, RecoverSession, RecoverFailed
<1>3. ASSUME NEW o \in LegacyOwners, Loop(o)
      PROVE  [Next]_vars
  BY <1>3 DEF Loop, Stopped, Unowned, Claimed, ClaimedNothing, ClaimBroken, Working
<1>4. ASSUME NEW o \in LegacyOwners, Execution(o)
      PROVE  [Next]_vars
  <2>1. ASSUME NEW s \in Sids, BuildExpires(o, s)
        PROVE  [Next]_vars
    BY <2>1 DEF BuildExpires, Editing
  <2>2. Compute(o) \/ ComputeRefused(o) \/ Build(o) \/ UpdateStart(o) \/ UpdateAdopt(o)
        \/ ReadJournal(o) \/ ReadJournalRefused(o) \/ PublishFailed(o)
        \/ PublishFailedEarly(o) => UNCHANGED vars
    BY DEF Compute, ComputeRefused, Build, UpdateStart, UpdateAdopt, ReadJournal,
           ReadJournalRefused, PublishFailed, PublishFailedEarly
  <2>. QED BY <1>4, <2>1, <2>2, Reports DEF Execution, WorkerInv
<1>5. ASSUME NEW o \in LegacyOwners, Requests(o)
      PROVE  [Next]_vars
  BY <1>5 DEF Requests, EvalStart, EvalEnd
<1>6. Others => Next
  BY DEF Others
<1>7. UNCHANGED workerVars => UNCHANGED vars
  BY DEF workerVars
<1>. QED BY <1>1, <1>2, <1>3, <1>4, <1>5, <1>6, <1>7 DEF LegacyWorkerNext

-----------------------------------------------------------------------------
(* The variables of a process keep their types.                            *)

ItemOrNone == Item \cup {NoItem}

LEMMA ItemTypes ==
    /\ NoItem \in ItemOrNone /\ NoItem \notin Item
    /\ NoItems \in [Sids -> ItemOrNone]
    /\ Nothing \in Work /\ [kind |-> "library"] \in Work
    /\ <<>> \in Journal
<1>1. -1 \notin 0 .. MaxRevision
  OBVIOUS
<1>. QED BY <1>1 DEF ItemOrNone, NoItem, NoItems, Item, Nothing, Work, Journal

LEMMA ItemFields ==
    ASSUME NEW item \in ItemOrNone, item # NoItem
    PROVE  item \in Item /\ item.revision \in 0 .. MaxRevision /\ item.journal \in Journal
BY DEF ItemOrNone, Item

LEMMA RecoveryTyped ==
    ASSUME LegacyWorkerTypeOK, NEW o \in LegacyOwners, RecoverRead(o)
    PROVE  restoring' \in [LegacyOwners -> [Sids -> ItemOrNone]]
<1>1. revision \in 0 .. MaxRevision
  BY WorkspaceAssumption DEF LegacyWorkerTypeOK, LegacyTypeOK, WorkspaceTypeOK
<1>. DEFINE saved == [s \in Sids |->
         IF sessions[s].version > 0 /\ ~ sessions[s].closed
                /\ sessions[s].revision = revision
         THEN [revision |-> revision, journal |-> journals[s]]
         ELSE NoItem]
<1>2. \A s \in Sids : [revision |-> revision, journal |-> journals[s]] \in ItemOrNone
  BY <1>1 DEF LegacyWorkerTypeOK, ItemOrNone, Item
<1>3. saved \in [Sids -> ItemOrNone]
  BY <1>2, ItemTypes
<1>4. restoring' = [restoring EXCEPT ![o] = saved]
  BY DEF RecoverRead
<1>. HIDE DEF saved
<1>. QED BY <1>3, <1>4 DEF LegacyWorkerTypeOK, ItemOrNone

\* All but the phase and the flag `stopping`, which every action writes alike.
Typed ==
    /\ journals \in [Sids -> Journal]
    /\ memory \in [LegacyOwners -> [Sids -> ItemOrNone]]
    /\ restoring \in [LegacyOwners -> [Sids -> ItemOrNone]]
    /\ doing \in [LegacyOwners -> Work]
    /\ serving \in [LegacyOwners -> SUBSET (Sids \X Journal)]

LEMMA TypedWhole ==
    LegacyWorkerTypeOK <=>
        /\ LegacyTypeOK /\ Typed
        /\ phase \in [LegacyOwners -> Phases]
        /\ stopping \in [LegacyOwners -> BOOLEAN]
BY DEF LegacyWorkerTypeOK, Typed, ItemOrNone

LEMMA PhaseTyped ==
    ASSUME LegacyWorkerTypeOK, LegacyWorkerNext
    PROVE  phase' \in [LegacyOwners -> Phases] /\ stopping' \in [LegacyOwners -> BOOLEAN]
<1>. USE DEF LegacyWorkerTypeOK, Goto, Phases
<1>1. ASSUME NEW o \in LegacyOwners, Life(o)
      PROVE  phase' \in [LegacyOwners -> Phases] /\ stopping' \in [LegacyOwners -> BOOLEAN]
  BY <1>1 DEF Life, Start, AskRoute, Lead, LeadRefused, Quit, Crash, RollBackDead,
              Beat, BeatRefused, End, Gone, workVars
<1>2. ASSUME NEW o \in LegacyOwners, Recovery(o) \/ Loop(o) \/ Requests(o)
      PROVE  phase' \in [LegacyOwners -> Phases] /\ stopping' \in [LegacyOwners -> BOOLEAN]
  BY <1>2 DEF Recovery, RecoverRead, Recovered, RecoverSession, RecoverFailed, Loop,
              Stopped, Unowned, Claimed, ClaimedNothing, ClaimBroken, Requests,
              EvalStart, EvalEnd, LoopBreaks, End
<1>3. ASSUME NEW o \in LegacyOwners, Execution(o)
      PROVE  phase' \in [LegacyOwners -> Phases] /\ stopping' \in [LegacyOwners -> BOOLEAN]
  <2>1. CASE Publish(o) \/ PublishFailed(o) \/ PublishFailedEarly(o) \/ PublishUnnoticed(o)
             \/ RecordError(o) \/ ErrorRefused(o) \/ ErrorBroken(o)
    BY <2>1 DEF Publish, PublishFailed, PublishFailedEarly, PublishUnnoticed, RecordError,
                ErrorRefused, ErrorBroken, Aborted, Restore, LoopBreaks, End
  <2>2. CASE Compute(o) \/ ComputeRefused(o) \/ (\E s \in Sids : BuildExpires(o, s))
             \/ Build(o) \/ UpdateStart(o) \/ UpdateAdopt(o) \/ ReadJournal(o)
             \/ ReadJournalRefused(o)
    BY <2>2 DEF Compute, ComputeRefused, BuildExpires, Build, UpdateStart, UpdateAdopt,
                ReadJournal, ReadJournalRefused
  <2>. QED BY <1>3, <2>1, <2>2 DEF Execution
<1>4. CASE Others
  BY <1>4 DEF Others, workVars
<1>. QED BY <1>1, <1>2, <1>3, <1>4 DEF LegacyWorkerNext

LEMMA LifeTyped ==
    ASSUME Typed, NEW o \in LegacyOwners, Life(o)
    PROVE  Typed'
<1>. USE ItemTypes DEF Typed
<1>1. CASE Gone(o)
  BY <1>1 DEF Gone
<1>2. CASE End(o)
  BY <1>2 DEF End
<1>3. CASE UNCHANGED <<journals, memory, restoring, doing, serving>>
  BY <1>3
<1>. QED BY <1>1, <1>2, <1>3
     DEF Life, Start, AskRoute, Lead, LeadRefused, Quit, Crash, RollBackDead, Beat,
         BeatRefused, workVars

LEMMA RecoveringTyped ==
    ASSUME LegacyWorkerTypeOK, NEW o \in LegacyOwners, Recovery(o)
    PROVE  Typed'
<1>. Typed
  BY TypedWhole
<1>. USE ItemTypes DEF Typed
<1>1. CASE RecoverRead(o)
  <2>1. restoring' \in [LegacyOwners -> [Sids -> ItemOrNone]]
    BY <1>1, RecoveryTyped
  <2>. QED BY <1>1, <2>1 DEF RecoverRead
<1>2. CASE Recovered(o)
  BY <1>2 DEF Recovered
<1>3. ASSUME NEW s \in Sids, RecoverSession(o, s)
      PROVE  Typed'
  BY <1>3 DEF RecoverSession
<1>4. ASSUME NEW s \in Sids, RecoverFailed(o, s)
      PROVE  Typed'
  BY <1>4 DEF RecoverFailed, End
<1>. QED BY <1>1, <1>2, <1>3, <1>4 DEF Recovery

LEMMA LoopTyped ==
    ASSUME Typed, NEW o \in LegacyOwners, Loop(o)
    PROVE  Typed'
<1>. USE ItemTypes DEF Typed
<1>1. CASE End(o)
  BY <1>1 DEF End
<1>2. CASE Claimed(o) \/ ClaimedNothing(o)
  <2>1. StillOpen(o) \in [Sids -> ItemOrNone]
    BY DEF StillOpen
  <2>. QED BY <1>2, <2>1 DEF Claimed, ClaimedNothing
<1>. QED BY <1>1, <1>2 DEF Loop, Stopped, Unowned, ClaimBroken, LoopBreaks

LEMMA RequestsTyped ==
    ASSUME Typed, NEW o \in LegacyOwners, Requests(o)
    PROVE  Typed'
<1>. USE DEF Typed
<1>1. CASE EvalEnd(o)
  BY <1>1 DEF EvalEnd
<1>2. ASSUME NEW s \in Sids, EvalStart(o, s)
      PROVE  Typed'
  <2>1. memory[o][s].journal \in Journal
    BY <1>2, ItemFields DEF EvalStart
  <2>. QED BY <1>2, <2>1 DEF EvalStart
<1>. QED BY <1>1, <1>2 DEF Requests

LEMMA ComputingTyped ==
    ASSUME LegacyWorkerTypeOK, ClaimsAreHeld, NEW o \in LegacyOwners, ProcessOK(o),
           \/ Compute(o) \/ (\E s \in Sids : BuildExpires(o, s))
           \/ Build(o) \/ UpdateAdopt(o) \/ ReadJournal(o)
    PROVE  Typed'
<1>. Typed /\ LegacyTypeOK
  BY TypedWhole
<1>. USE ItemTypes DEF Typed
<1>1. CASE Compute(o)
  BY <1>1 DEF Compute
<1>2. ASSUME NEW s \in Sids, BuildExpires(o, s)
      PROVE  Typed'
  BY <1>2 DEF BuildExpires
<1>3. CASE Build(o)
  <2>1. PICK s \in FreshSids :
          /\ memory' = [memory EXCEPT ![o][s] =
                 [revision |-> InputsOf(o), journal |-> <<>>]]
          /\ doing' = [doing EXCEPT ![o] =
                 [kind |-> "session", sid |-> s, journal |-> <<>>]]
    BY <1>3 DEF Build
  <2>2. InputsOf(o) \in 0 .. MaxRevision
    BY <1>3, BodyTypes DEF Build, Executing
  <2>3. [revision |-> InputsOf(o), journal |-> <<>>] \in ItemOrNone
    BY <2>2 DEF ItemOrNone, Item
  <2>4. s \in Sids /\ [kind |-> "session", sid |-> s, journal |-> <<>>] \in Work
    BY DEF Work, FreshSids
  <2>5. UNCHANGED <<journals, restoring, serving>>
    BY <1>3 DEF Build
  <2>. QED BY <2>1, <2>3, <2>4, <2>5
<1>4. CASE UpdateAdopt(o)
  <2>. DEFINE s == Body(o).sid
  <2>1. phase[o] = "computing" /\ UpdateOK(o)
    BY <1>4 DEF UpdateAdopt, ProcessOK, ExecutionOK
  <2>2. s \in Sids /\ Held(o).job \in Jobs
    BY <2>1, BodyTypes DEF Executing, UpdateOK
  <2>3. memory[o][s] \in ItemOrNone /\ memory[o][s] # NoItem
    BY <2>1, <2>2 DEF UpdateOK
  <2>4. memory[o][s] \in Item
    BY <2>3, ItemFields
  <2>5. Append(memory[o][s].journal, Held(o).job) \in Journal
    BY <2>2, <2>3, ItemFields DEF Journal
  <2>6. [memory[o][s] EXCEPT !.journal = Append(@, Held(o).job)] \in ItemOrNone
    BY <2>4, <2>5 DEF Item, ItemOrNone
  <2>7. memory' = [memory EXCEPT ![o][s] =
            [memory[o][s] EXCEPT !.journal = Append(@, Held(o).job)]]
    BY <1>4, <2>2 DEF UpdateAdopt
  <2>8. UNCHANGED <<journals, restoring, doing, serving>>
    BY <1>4 DEF UpdateAdopt
  <2>. HIDE DEF s
  <2>. QED BY <2>2, <2>6, <2>7, <2>8
<1>5. CASE ReadJournal(o)
  <2>. DEFINE s == Body(o).sid
  <2>1. phase[o] = "adopted" /\ UpdateOK(o)
    BY <1>5 DEF ReadJournal, ProcessOK, ExecutionOK
  <2>2. s \in Sids /\ Held(o).job \in Jobs
    BY <2>1, BodyTypes DEF Executing, UpdateOK
  <2>3. Append(journals[s], Held(o).job) \in Journal
    BY <2>2 DEF Journal
  <2>4. [kind |-> "session", sid |-> s, journal |-> Append(journals[s], Held(o).job)]
            \in Work
    BY <2>2, <2>3 DEF Work
  <2>5. doing' = [doing EXCEPT ![o] = [kind |-> "session", sid |-> s,
                     journal |-> Append(journals[s], Held(o).job)]]
    BY <1>5 DEF ReadJournal
  <2>6. UNCHANGED <<journals, memory, restoring, serving>>
    BY <1>5 DEF ReadJournal
  <2>. HIDE DEF s
  <2>. QED BY <2>4, <2>5, <2>6
<1>. QED BY <1>1, <1>2, <1>3, <1>4, <1>5

LEMMA ReportingTyped ==
    ASSUME Typed, NEW o \in LegacyOwners,
           \/ Publish(o) \/ PublishUnnoticed(o) \/ PublishFailedEarly(o)
           \/ RecordError(o) \/ ErrorRefused(o) \/ ErrorBroken(o)
    PROVE  Typed'
<1>. USE ItemTypes DEF Typed
<1>1. JournalsAfter(o) \in [Sids -> Journal]
  <2>1. ASSUME doing[o].kind = "session"
        PROVE  doing[o].journal \in Journal
    BY <2>1 DEF Work, Nothing
  <2>. QED BY <2>1 DEF JournalsAfter
<1>2. CASE Publish(o)
  BY <1>1, <1>2 DEF Publish
<1>3. CASE PublishUnnoticed(o)
  BY <1>1, <1>3 DEF PublishUnnoticed
<1>4. CASE PublishFailedEarly(o)
  BY <1>4 DEF PublishFailedEarly
<1>5. CASE Aborted(o)
  <2>1. [s \in Sids |-> IF s \in Touched(o) THEN NoItem ELSE memory[o][s]]
            \in [Sids -> ItemOrNone]
    OBVIOUS
  <2>. QED BY <1>5, <2>1 DEF Aborted, Restore
<1>6. CASE ErrorBroken(o)
  BY <1>6 DEF ErrorBroken, LoopBreaks, End
<1>. QED BY <1>2, <1>3, <1>4, <1>5, <1>6 DEF RecordError, ErrorRefused

LEMMA WorkerTypeStep == WorkerInv /\ [LegacyWorkerNext]_workerVars => LegacyWorkerTypeOK'
<1>. SUFFICES ASSUME WorkerInv, [LegacyWorkerNext]_workerVars
              PROVE  LegacyWorkerTypeOK'
  OBVIOUS
<1>. LegacyWorkerTypeOK /\ ClaimsAreHeld /\ LegacyTypeOK /\ Typed
  BY TypedWhole DEF WorkerInv
<1>1. LegacyTypeOK'
  BY WorkerUsesRepository, LegacyTypeStep
<1>2. CASE UNCHANGED workerVars
  BY <1>1, <1>2 DEF LegacyWorkerTypeOK, workerVars, workVars
<1>3. CASE LegacyWorkerNext
  <2>1. UNCHANGED <<journals, memory, restoring, doing, serving>> => Typed'
    BY DEF Typed
  <2>2. ASSUME NEW o \in LegacyOwners, Execution(o)
        PROVE  Typed'
    <3>1. ProcessOK(o)
      BY DEF WorkerInv
    <3>2. ComputeRefused(o) \/ UpdateStart(o) \/ ReadJournalRefused(o) \/ PublishFailed(o)
              => Typed'
      BY <2>1 DEF ComputeRefused, UpdateStart, ReadJournalRefused, PublishFailed
    <3>. QED BY <2>2, <3>1, <3>2, ComputingTyped, ReportingTyped DEF Execution
  <2>3. Others => Typed'
    BY <2>1 DEF Others, workVars
  <2>4. Typed'
    BY <1>3, <2>2, <2>3, LifeTyped, RecoveringTyped, LoopTyped, RequestsTyped
    DEF LegacyWorkerNext
  <2>5. LegacyWorkerTypeOK' <=>
            /\ LegacyTypeOK' /\ Typed'
            /\ phase' \in [LegacyOwners -> Phases]
            /\ stopping' \in [LegacyOwners -> BOOLEAN]
    BY DEF LegacyWorkerTypeOK, Typed, ItemOrNone
  <2>. QED BY <1>1, <1>3, <2>4, <2>5, PhaseTyped
<1>. QED BY <1>2, <1>3

-----------------------------------------------------------------------------
(* What the steps of the others may change for a process.                  *)

Unmoved(q) ==
    /\ phase'[q] = phase[q] /\ memory'[q] = memory[q] /\ restoring'[q] = restoring[q]
    /\ doing'[q] = doing[q] /\ serving'[q] = serving[q]

ClaimsKept(q) ==
    \A c \in claims \cup claims' : c.owner = q => (c \in claims <=> c \in claims')

RunningKept(q) ==
    \A j \in Jobs : jobs'[j].status = "running" /\ jobs'[j].owner = q => jobs'[j] = jobs[j]

SessionSame(s) ==
    /\ sessions'[s].version = sessions[s].version
    /\ sessions'[s].revision = sessions[s].revision
    /\ sessions'[s].manifest = sessions[s].manifest
    /\ journals'[s] = journals[s]

\* Another process has updated the session, or saved one it has built.
SessionUpdated(s) ==
    /\ sessions[s].version > 0 /\ sessions'[s].version > 0
    /\ sessions'[s].revision = sessions[s].revision
    /\ Len(journals'[s]) > Len(journals[s])

SessionSaved(s) ==
    /\ sessions[s].version = 0 /\ sessions'[s].version > 0
    /\ journals'[s] = journals[s]

SessionsGrow(q) ==
    \A s \in Sids :
        \/ SessionSame(s)
        \/ owner # q /\ SessionUpdated(s)
        \/ owner # q /\ SessionSaved(s) /\ memory[q][s] = NoItem

LeaseKept(q) == (owner' = q => owner = q) /\ (Holds(q)' => Holds(q))

World(q) == ClaimsKept(q) /\ RunningKept(q) /\ SessionsGrow(q) /\ LeaseKept(q)

\* What no step undoes: a request is written once, and a done job stays done.
JobsKept ==
    \A j \in Jobs :
        /\ jobs[j].status # "absent" =>
               jobs'[j].status # "absent" /\ jobs'[j].request = jobs[j].request
        /\ jobs[j].status = "done" => jobs'[j].status = "done"

NoneDone == \A j \in Jobs : jobs'[j].status = "done" => jobs[j].status = "done"

LEMMA StepKeepsJobs ==
    ASSUME LegacyTypeOK, [Next]_vars
    PROVE  JobsKept
BY StepRows
DEF JobsKept, RowStep, RowAdmitted, RowReleased, RowStarted, RowEnded, Active

LEMMA HeldKept ==
    ASSUME LegacyTypeOK, ClaimsAreHeld, ClaimsAreHeld', JobsKept,
           NEW q \in LegacyOwners, ClaimsKept(q), phase[q] \in Executing
    PROVE  /\ Held(q)' = Held(q)
           /\ Body(q)' = Body(q) /\ InputsOf(q)' = InputsOf(q)
<1>1. Held(q) \in claims /\ Held(q).owner = q
  BY ExecutingHolds
<1>2. Held(q) \in claims'
  BY <1>1 DEF ClaimsKept
<1>3. \A c \in claims' : c.owner = q => c = Held(q)
  BY <1>1, <1>2 DEF ClaimsAreHeld
<1>4. Held(q)' = Held(q)
  BY <1>1, <1>2, <1>3 DEF Held
<1>5. Held(q).job \in Jobs /\ jobs[Held(q).job].status # "absent"
  BY <1>1, ClaimTypes DEF ClaimsAreHeld
<1>6. jobs'[Held(q).job].request = jobs[Held(q).job].request
  BY <1>5 DEF JobsKept
<1>. QED BY <1>4, <1>6 DEF Body, InputsOf

LEMMA RecentKept ==
    ASSUME LegacyWorkerTypeOK, LegacyWorkerTypeOK', NEW q \in LegacyOwners, NEW s \in Sids,
           SessionsGrow(q), LeaseKept(q), NEW copy \in Journal, Recent(q, s, copy)
    PROVE  Recent(q, s, copy)'
<1>1. Len(copy) \in Nat
  BY DEF Journal
<1>2. Len(journals[s]) \in Nat
  BY DEF LegacyWorkerTypeOK, Journal
<1>3. Len(journals'[s]) \in Nat
  BY DEF LegacyWorkerTypeOK, Journal
<1>4. \/ journals'[s] = journals[s]
      \/ owner # q /\ Len(journals'[s]) > Len(journals[s])
  BY DEF SessionsGrow, SessionSame, SessionUpdated, SessionSaved
<1>. QED BY <1>1, <1>2, <1>3, <1>4 DEF Recent, LeaseKept

\* A process that does not move goes on being what the invariant says of it.
LEMMA UpdateKept ==
    ASSUME WorkerInv, LegacyWorkerTypeOK', ClaimsAreHeld', JobsKept,
           NEW q \in LegacyOwners, Unmoved(q), World(q),
           phase[q] \in Executing, UpdateOK(q)
    PROVE  UpdateOK(q)'
<1>. LegacyWorkerTypeOK /\ LegacyTypeOK /\ ClaimsAreHeld
  BY DEF WorkerInv, LegacyWorkerTypeOK
<1>1. Held(q)' = Held(q) /\ Body(q)' = Body(q) /\ InputsOf(q)' = InputsOf(q)
  BY HeldKept DEF World
<1>2. PICK s \in Sids : s = Body(q).sid
  BY BodyTypes DEF UpdateOK
<1>3. \A copy \in Journal : Recent(q, s, copy) => Recent(q, s, copy)'
  BY RecentKept DEF World
<1>4. memory'[q][s] = memory[q][s] /\ phase'[q] = phase[q]
  BY DEF Unmoved
<1>5. ASSUME phase'[q] # "computing"
      PROVE  \E copy \in Journal :
                 /\ memory'[q][s].journal = Append(copy, Held(q).job)
                 /\ Len(copy) + 1 = Body(q).version
                 /\ Recent(q, s, copy)'
  <2>1. PICK copy \in Journal :
               /\ memory[q][s].journal = Append(copy, Held(q).job)
               /\ Len(copy) + 1 = Body(q).version
               /\ Recent(q, s, copy)
    BY <1>2, <1>4, <1>5 DEF UpdateOK
  <2>. QED BY <1>3, <1>4, <2>1
<1>6. /\ Body(q).op = "update"
      /\ memory[q][s] # NoItem /\ memory[q][s].revision = InputsOf(q)
      /\ phase[q] = "computing" => Len(memory[q][s].journal) + 1 = Body(q).version
  BY <1>2 DEF UpdateOK
<1>. QED BY <1>1, <1>2, <1>4, <1>5, <1>6 DEF UpdateOK

LEMMA PublishingKept ==
    ASSUME WorkerInv, LegacyWorkerTypeOK', ClaimsAreHeld', JobsKept,
           NEW q \in LegacyOwners, Unmoved(q), World(q),
           phase[q] = "publishing", PublishingOK(q)
    PROVE  PublishingOK(q)'
<1>. LegacyWorkerTypeOK /\ LegacyTypeOK /\ ClaimsAreHeld /\ phase[q] \in Executing
  BY DEF WorkerInv, LegacyWorkerTypeOK, Executing
<1>1. Held(q)' = Held(q) /\ Body(q)' = Body(q) /\ InputsOf(q)' = InputsOf(q)
  BY HeldKept DEF World
<1>2. memory'[q] = memory[q] /\ doing'[q] = doing[q]
  BY DEF Unmoved
<1>3. CASE Body(q).op = "build"
  <2>1. PICK s \in Sids :
            /\ doing[q] = [kind |-> "session", sid |-> s, journal |-> <<>>]
            /\ sessions[s].version = 0
            /\ memory[q][s] = [revision |-> InputsOf(q), journal |-> <<>>]
    BY <1>3 DEF PublishingOK
  <2>2. memory[q][s] # NoItem
    <3>1. InputsOf(q) \in 0 .. MaxRevision
      BY BodyTypes
    <3>. QED BY <2>1, <3>1 DEF NoItem
  <2>3. sessions'[s].version = 0
    BY <2>1, <2>2 DEF World, SessionsGrow, SessionSame, SessionUpdated
  <2>. QED BY <1>1, <1>2, <1>3, <2>1, <2>3 DEF PublishingOK
<1>4. CASE Body(q).op = "update"
  <2>1. PICK s \in Sids : s = Body(q).sid
    BY <1>4, BodyTypes
  <2>2. UpdateOK(q)'
    BY <1>4, UpdateKept DEF PublishingOK
  <2>3. sessions[s].version > 0
    BY <1>4, <2>1 DEF PublishingOK
  <2>4. sessions'[s].version > 0
    BY <2>3 DEF World, SessionsGrow, SessionSame, SessionUpdated, SessionSaved
  <2>5. PICK read \in Journal :
            /\ doing[q] = [kind |-> "session", sid |-> s,
                           journal |-> Append(read, Held(q).job)]
            /\ Recent(q, s, read)
            /\ Body(q).version <= Len(read) + 1
    BY <1>4, <2>1 DEF PublishingOK
  <2>6. Recent(q, s, read)'
    BY <2>5, RecentKept DEF World
  <2>. QED BY <1>1, <1>2, <1>4, <2>1, <2>2, <2>4, <2>5, <2>6 DEF PublishingOK
<1>. QED BY <1>1, <1>2, <1>3, <1>4 DEF PublishingOK

LEMMA ProcessKept ==
    ASSUME WorkerInv, LegacyWorkerTypeOK', ClaimsAreHeld', JobsKept,
           NEW q \in LegacyOwners, Unmoved(q), World(q)
    PROVE  ProcessOK(q)'
<1>. /\ LegacyWorkerTypeOK /\ LegacyTypeOK /\ ClaimsAreHeld /\ ProcessOK(q)
     /\ SessionsGrow(q) /\ LeaseKept(q)
  BY DEF WorkerInv, LegacyWorkerTypeOK, World
<1>. /\ phase'[q] = phase[q] /\ memory'[q] = memory[q] /\ restoring'[q] = restoring[q]
     /\ serving'[q] = serving[q]
  BY DEF Unmoved
<1>1. phase[q] \in Executing =>
          Held(q)' = Held(q) /\ Body(q)' = Body(q) /\ InputsOf(q)' = InputsOf(q)
  BY HeldKept DEF World
<1>2. NewOK(q)'
  BY DEF ProcessOK, NewOK, NoItems, NoItem
<1>3. RestoringOK(q)'
  <2>1. ASSUME NEW s \in Sids, restoring[q][s] # NoItem
        PROVE  /\ phase[q] = "rebuilding" /\ sessions'[s].version > 0
               /\ restoring[q][s].revision = sessions'[s].revision
               /\ Recent(q, s, restoring[q][s].journal)'
    <3>1. /\ phase[q] = "rebuilding" /\ sessions[s].version > 0
          /\ restoring[q][s].revision = sessions[s].revision
          /\ Recent(q, s, restoring[q][s].journal)
      BY <2>1 DEF ProcessOK, RestoringOK
    <3>2. PICK copy \in Journal : copy = restoring[q][s].journal
      BY <2>1, TypedWhole, ItemFields DEF Typed
    <3>3. Recent(q, s, copy)'
      BY <3>1, <3>2, RecentKept
    <3>4. sessions'[s].version > 0 /\ sessions'[s].revision = sessions[s].revision
      BY <3>1 DEF SessionsGrow, SessionSame, SessionUpdated, SessionSaved
    <3>. QED BY <3>1, <3>2, <3>3, <3>4
  <2>. QED BY <2>1 DEF RestoringOK, NoItem
<1>4. MemoryOK(q)'
  <2>1. ASSUME phase[q] # "ended", NEW s \in Sids, memory[q][s] # NoItem
        PROVE  /\ sessions'[s].version > 0 =>
                      memory[q][s].revision = sessions'[s].revision
               /\ Ahead(q, s)' \/ Recent(q, s, memory[q][s].journal)'
    <3>1. /\ sessions[s].version > 0 => memory[q][s].revision = sessions[s].revision
          /\ Ahead(q, s) \/ Recent(q, s, memory[q][s].journal)
      BY <2>1 DEF ProcessOK, MemoryOK
    <3>2. PICK copy \in Journal : copy = memory[q][s].journal
      BY <2>1, TypedWhole, ItemFields DEF Typed
    <3>3. Recent(q, s, copy) => Recent(q, s, copy)'
      BY RecentKept
    <3>4. Ahead(q, s) => Ahead(q, s)'
      BY <1>1 DEF Ahead, Executing
    <3>5. sessions'[s].version > 0 =>
              sessions[s].version > 0 /\ sessions'[s].revision = sessions[s].revision
      BY <2>1 DEF SessionsGrow, SessionSame, SessionUpdated, SessionSaved
    <3>. QED BY <3>1, <3>2, <3>3, <3>4, <3>5
  <2>. QED BY <2>1 DEF MemoryOK, NoItem
<1>5. ExecutionOK(q)'
  <2>1. phase[q] \in {"computing", "adopted"} => UpdateOK(q)'
    BY UpdateKept DEF ProcessOK, ExecutionOK, Executing
  <2>2. phase[q] = "publishing" => PublishingOK(q)'
    BY PublishingKept DEF ProcessOK, ExecutionOK
  <2>. QED BY <2>1, <2>2 DEF ExecutionOK
<1>6. ServingOK(q)'
  <2>1. \A e \in serving[q] : e[1] \in Sids
    BY DEF LegacyWorkerTypeOK
  <2>2. owner' = q => \A s \in Sids : SessionSame(s)
    BY DEF SessionsGrow, LeaseKept
  <2>. QED BY <2>1, <2>2 DEF ProcessOK, ServingOK, LeaseKept, SessionSame
<1>7. RunningOK(q)'
  <2>1. RunningKept(q)
    BY DEF World
  <2>2. phase[q] = "starting" =>
            \A j \in Jobs : jobs'[j].status = "running" => jobs'[j].owner # q
    BY <2>1 DEF RunningKept, ProcessOK, RunningOK
  <2>3. ASSUME Holds(q)', phase[q] \notin {"down", "starting", "ended"},
               NEW j \in Jobs, jobs'[j].status = "running", jobs'[j].owner = q
        PROVE  phase[q] \in Executing /\ Held(q)'.job = j /\ Current(Held(q))'
    <3>1. Holds(q) /\ jobs'[j] = jobs[j]
      BY <2>1, <2>3 DEF LeaseKept, RunningKept
    <3>2. phase[q] \in Executing /\ Held(q).job = j /\ Current(Held(q))
      BY <2>3, <3>1 DEF ProcessOK, RunningOK
    <3>. QED BY <1>1, <3>1, <3>2 DEF Current
  <2>. QED BY <2>2, <2>3 DEF RunningOK, Executing
<1>. QED BY <1>2, <1>3, <1>4, <1>5, <1>6, <1>7 DEF ProcessOK

-----------------------------------------------------------------------------
(* What each transaction changes for the processes.                        *)

AllSame == \A s \in Sids : SessionSame(s)

LEMMA SameGrows ==
    ASSUME AllSame, NEW q
    PROVE  SessionsGrow(q)
BY DEF AllSame, SessionsGrow

LEMMA NothingChanges ==
    ASSUME UNCHANGED <<vars, journals>>, NEW q
    PROVE  World(q) /\ NoneDone /\ AllSame
<1>1. /\ claims' = claims /\ jobs' = jobs /\ sessions' = sessions /\ journals' = journals
      /\ owner' = owner /\ leaseLeft' = leaseLeft
  BY DEF vars, workspaceVars, row, repoVars, callerVars
<1>2. AllSame /\ NoneDone
  BY <1>1 DEF AllSame, SessionSame, NoneDone
<1>3. SessionsGrow(q)
  BY <1>2, SameGrows
<1>4. ClaimsKept(q) /\ RunningKept(q) /\ LeaseKept(q)
  BY <1>1 DEF ClaimsKept, RunningKept, LeaseKept, Holds, LeaseLive
<1>. QED BY <1>2, <1>3, <1>4 DEF World

LEMMA LeaseFacts ==
    ASSUME WorkspaceTypeOK, NEW q,
           \/ UNCHANGED row
           \/ \E o : ExtendLease(o) \/ ReleaseLease(o)
           \/ LeaseElapses
    PROVE  LeaseKept(q)
BY DEF WorkspaceTypeOK, LeaseKept, Holds, LeaseLive, row, ExtendLease, ReleaseLease,
       LeaseElapses

LEMMA SubmissionsChange ==
    ASSUME LegacyTypeOK, Submissions, NEW q
    PROVE  /\ RunningKept(q) /\ NoneDone /\ UNCHANGED <<sessions, claims, row>>
<1>1. \A j \in Jobs : jobs'[j] = jobs[j] \/ jobs'[j].status \in {"queued", "error"}
  BY SubmissionRows
<1>2. RunningKept(q) /\ NoneDone
  BY <1>1 DEF RunningKept, NoneDone
<1>3. UNCHANGED <<sessions, claims, row>>
  BY DEF Submissions, SubmitAgain, SubmitCheck, Enqueue, EnqueueSame, EnqueueKeyless,
         Insert, SubmitRefused, Cancel, repoVars, callerVars, workspaceVars, row
<1>. QED BY <1>2, <1>3

LEMMA ClosingChanges ==
    ASSUME LegacyTypeOK, NEW z \in Sids, CloseSession(z), UNCHANGED journals
    PROVE  AllSame
<1>1. ASSUME NEW s \in Sids
      PROVE  sessions'[s] = [sessions[s] EXCEPT !.closed = sessions'[s].closed]
  BY DEF CloseSession, LegacyTypeOK, SessionRow
<1>. QED BY <1>1, ClosedRow DEF AllSame, SessionSame, LegacyTypeOK, SessionRow

\* What the API processes, the Rust tooling and the clock do, and what a
\* process does with the lease it has.
LEMMA OthersChange ==
    ASSUME LegacyTypeOK, NEW q, UNCHANGED journals,
           \/ Submissions \/ Editing \/ Environment
           \/ \E o \in LegacyOwners :
                  AcquireRead(o) \/ AcquireAbandon(o) \/ Renew(o) \/ Release(o)
    PROVE  World(q) /\ NoneDone /\ AllSame /\ UNCHANGED claims
<1>. WorkspaceTypeOK
  BY DEF LegacyTypeOK
<1>1. CASE Submissions
  <2>1. AllSame /\ ClaimsKept(q) /\ LeaseKept(q)
    BY <1>1, SubmissionsChange, LeaseFacts DEF AllSame, SessionSame, ClaimsKept
  <2>. QED BY <1>1, <2>1, SubmissionsChange, SameGrows DEF World
<1>2. CASE \E z \in Sids : CloseSession(z)
  <2>1. AllSame
    BY <1>2, ClosingChanges
  <2>2. UNCHANGED <<jobs, claims, row>>
    BY <1>2 DEF CloseSession, callerVars, workspaceVars, row
  <2>3. ClaimsKept(q) /\ LeaseKept(q) /\ RunningKept(q) /\ NoneDone
    BY <2>2, LeaseFacts DEF ClaimsKept, RunningKept, NoneDone
  <2>. QED BY <2>1, <2>2, <2>3, SameGrows DEF World
<1>3. ASSUME UNCHANGED <<repoVars, callerVars>>, LeaseKept(q)
      PROVE  World(q) /\ NoneDone /\ AllSame /\ UNCHANGED claims
  BY <1>3, SameGrows
  DEF World, AllSame, SessionSame, ClaimsKept, RunningKept, NoneDone, repoVars, callerVars
<1>4. CASE (\E n \in 0 .. MaxRevision : SaveRevision(n)) \/ Environment
  <2>1. UNCHANGED <<repoVars, callerVars>>
    BY <1>4 DEF SaveRevision, Environment, RouteChange, Elapse
  <2>2. UNCHANGED row \/ LeaseElapses
    BY <1>4 DEF SaveRevision, AdvanceRevision, Environment, RouteChange, SetRoute, Elapse
  <2>. QED BY <1>3, <2>1, <2>2, LeaseFacts
<1>5. ASSUME NEW o \in LegacyOwners,
             AcquireRead(o) \/ AcquireAbandon(o) \/ Renew(o) \/ Release(o)
      PROVE  World(q) /\ NoneDone /\ AllSame /\ UNCHANGED claims
  <2>1. UNCHANGED <<repoVars, callerVars>>
    BY <1>5 DEF AcquireRead, AcquireAbandon, Renew, Release
  <2>2. UNCHANGED row \/ \E w : ExtendLease(w) \/ ReleaseLease(w)
    BY <1>5 DEF AcquireRead, AcquireAbandon, Renew, Release, ReadRoute, AbandonRead
  <2>. QED BY <1>3, <2>1, <2>2, LeaseFacts
<1>. QED BY <1>1, <1>2, <1>4, <1>5 DEF Editing

LEMMA AcquireChanges ==
    ASSUME NEW o, Acquire(o), NEW q, q # o, UNCHANGED journals
    PROVE  World(q) /\ NoneDone /\ AllSame /\ UNCHANGED claims
<1>1. UNCHANGED <<repoVars, callerVars>> /\ owner' = o
  BY DEF Acquire, TakeLease
<1>2. LeaseKept(q)
  BY <1>1 DEF LeaseKept, Holds
<1>. QED BY <1>1, <1>2, SameGrows
  DEF World, AllSame, SessionSame, ClaimsKept, RunningKept, NoneDone, repoVars, callerVars

\* The rows of a claim: one is started, the abandoned ones are queued again.
LEMMA ClaimingRows ==
    ASSUME LegacyTypeOK, NEW o \in LegacyOwners, NEW j \in Jobs,
           NEW t \in Tokens, ClaimJob(o, j, t)
    PROVE  /\ jobs'[j].status = "running" /\ jobs'[j].owner = o /\ jobs'[j].token = t
           /\ \A i \in Jobs \ {j} : jobs'[i] = jobs[i] \/ jobs'[i].status = "queued"
<1>1. jobs[j] \in JobRow
  BY DEF LegacyTypeOK
<1>2. jobs'[j] = [jobs[j] EXCEPT !.status = "running", !.owner = o, !.token = t,
                                 !.attempt = @ + 1]
  BY RequeueTyped DEF ClaimJob
<1>3. jobs'[j].status = "running" /\ jobs'[j].owner = o /\ jobs'[j].token = t
  BY <1>1, <1>2 DEF JobRow
<1>4. ASSUME NEW i \in Jobs \ {j}
      PROVE  jobs'[i] = jobs[i] \/ jobs'[i].status = "queued"
  <2>1. jobs'[i] = Requeue(o)[i]
    BY RequeueTyped DEF ClaimJob
  <2>. QED BY <2>1, RequeueRow
<1>. QED BY <1>3, <1>4

LEMMA ExhaustingRows ==
    ASSUME LegacyTypeOK, NEW o \in LegacyOwners, NEW j \in Jobs, ClaimExhausted(o, j),
           NEW i \in Jobs
    PROVE  jobs'[i] = jobs[i] \/ jobs'[i].status \in {"queued", "error"}
<1>1. jobs[j] \in JobRow /\ Requeued(jobs[j]) \in JobRow
  BY RequeuedTyped DEF LegacyTypeOK
<1>2. jobs'[j] = [Requeued(jobs[j]) EXCEPT !.status = "error"]
  BY RequeueTyped DEF ClaimExhausted
<1>3. jobs'[j].status = "error"
  BY <1>1, <1>2 DEF JobRow
<1>4. i # j => jobs'[i] = Requeue(o)[i]
  BY RequeueTyped DEF ClaimExhausted
<1>. QED BY <1>3, <1>4, RequeueRow

LEMMA ClaimChanges ==
    ASSUME LegacyTypeOK, NEW o \in LegacyOwners, NEW j \in Jobs, NEW t \in Tokens,
           ClaimJob(o, j, t), UNCHANGED journals, NEW q, q # o
    PROVE  World(q) /\ NoneDone /\ AllSame
<1>1. UNCHANGED <<sessions, row>> /\ \A c \in claims' \ claims : c.owner = o
  BY DEF ClaimJob, workspaceVars, row
<1>2. claims \subseteq claims'
  BY DEF ClaimJob
<1>3. ClaimsKept(q)
  BY <1>1, <1>2 DEF ClaimsKept
<1>4. RunningKept(q) /\ NoneDone
  BY ClaimingRows DEF RunningKept, NoneDone
<1>5. LeaseKept(q)
  BY <1>1, LeaseFacts DEF LegacyTypeOK
<1>6. AllSame
  BY <1>1 DEF AllSame, SessionSame
<1>. QED BY <1>3, <1>4, <1>5, <1>6, SameGrows DEF World

LEMMA ExhaustedChanges ==
    ASSUME LegacyTypeOK, NEW o \in LegacyOwners, NEW j \in Jobs,
           ClaimExhausted(o, j), UNCHANGED journals, NEW q
    PROVE  World(q) /\ NoneDone /\ AllSame /\ UNCHANGED claims
<1>1. UNCHANGED <<sessions, row, claims>>
  BY DEF ClaimExhausted, workspaceVars, row, callerVars
<1>2. RunningKept(q) /\ NoneDone
  BY ExhaustingRows DEF RunningKept, NoneDone
<1>3. LeaseKept(q)
  BY <1>1, LeaseFacts DEF LegacyTypeOK
<1>4. AllSame /\ ClaimsKept(q)
  BY <1>1 DEF AllSame, SessionSame, ClaimsKept
<1>. QED BY <1>1, <1>2, <1>3, <1>4, SameGrows DEF World

LEMMA ReportedRow ==
    ASSUME LegacyTypeOK, NEW c \in claims, NEW status,
           jobs' = [jobs EXCEPT ![c.job].status = status]
    PROVE  /\ jobs'[c.job].status = status
           /\ jobs'[c.job].request = jobs[c.job].request
           /\ \A i \in Jobs \ {c.job} : jobs'[i] = jobs[i]
<1>1. c.job \in Jobs /\ jobs[c.job] \in JobRow
  BY ClaimTypes
<1>2. jobs'[c.job] = [jobs[c.job] EXCEPT !.status = status]
  BY <1>1 DEF LegacyTypeOK
<1>3. \A i \in Jobs \ {c.job} : jobs'[i] = jobs[i]
  BY <1>1 DEF LegacyTypeOK
<1>. QED BY <1>1, <1>2, <1>3 DEF JobRow

LEMMA FailureChanges ==
    ASSUME LegacyTypeOK, NEW c \in claims, CompleteError(c) \/ Forget(c),
           UNCHANGED journals, NEW q
    PROVE  /\ RunningKept(q) /\ NoneDone /\ AllSame /\ LeaseKept(q)
           /\ c.owner # q => World(q)
<1>1. UNCHANGED <<sessions, row>> /\ claims' \subseteq claims /\ claims \ claims' \subseteq {c}
  BY DEF CompleteError, Report, Forget, workspaceVars, row, repoVars
<1>2. RunningKept(q) /\ NoneDone
  <2>1. CASE CompleteError(c)
    BY <2>1, ReportedRow DEF CompleteError, RunningKept, NoneDone
  <2>2. CASE Forget(c)
    BY <2>2 DEF Forget, repoVars, RunningKept, NoneDone
  <2>. QED BY <2>1, <2>2
<1>3. LeaseKept(q)
  BY <1>1, LeaseFacts DEF LegacyTypeOK
<1>4. AllSame
  BY <1>1 DEF AllSame, SessionSame
<1>5. c.owner # q => ClaimsKept(q)
  BY <1>1 DEF ClaimsKept
<1>. QED BY <1>2, <1>3, <1>4, <1>5, SameGrows DEF World

-----------------------------------------------------------------------------
(* A result that is published.                                             *)

LEMMA SavedFields ==
    ASSUME LegacyTypeOK, NEW c, NEW a, Complete(c, a), a.kind = "session", a.sid \in Sids
    PROVE  /\ sessions'[a.sid].version = a.version /\ sessions'[a.sid].manifest = {c.job}
           /\ sessions[a.sid].version = 0 => sessions'[a.sid].revision = revision
           /\ sessions[a.sid].version # 0 =>
                  sessions'[a.sid].revision = sessions[a.sid].revision
           /\ \A z \in Sids \ {a.sid} : sessions'[z] = sessions[z]
<1>1. sessions' = [sessions EXCEPT ![a.sid] = Saved(a.sid, a.version, c.job)]
  BY DEF Complete
<1>2. sessions'[a.sid] = Saved(a.sid, a.version, c.job)
      /\ \A z \in Sids \ {a.sid} : sessions'[z] = sessions[z]
  BY <1>1 DEF LegacyTypeOK
<1>3. sessions[a.sid] \in SessionRow
  BY DEF LegacyTypeOK
<1>. QED BY <1>2, <1>3 DEF Saved, SessionRow

\* What the row of a built session, and of an updated one, becomes.
BuildPublished(o, s) ==
    /\ sessions[s].version = 0 /\ sessions'[s].version = 1
    /\ memory[o][s] = [revision |-> InputsOf(o), journal |-> <<>>]
    /\ sessions'[s].revision = InputsOf(o)
    /\ sessions'[s].manifest = {Held(o).job}
    /\ journals[s] = <<>> /\ journals'[s] = <<>>

UpdatePublished(o, s) ==
    /\ s = Body(o).sid
    /\ sessions[s].version = 1 + Len(journals[s])
    /\ sessions[s].version = Body(o).version
    /\ sessions'[s].version = Body(o).version + 1
    /\ sessions[s].revision = InputsOf(o) /\ sessions'[s].revision = InputsOf(o)
    /\ sessions'[s].manifest = {Held(o).job}
    /\ memory[o][s] # NoItem /\ memory[o][s].revision = InputsOf(o)
    /\ journals'[s] = Append(journals[s], Held(o).job)
    /\ memory[o][s].journal = journals'[s]

OnlySession(s) == \A z \in Sids \ {s} : SessionSame(z)

LEMMA BuildIsPublished ==
    ASSUME WorkerInv, NEW o \in LegacyOwners, phase[o] = "publishing",
           Complete(Held(o), Attachment(o)), journals' = JournalsAfter(o),
           Body(o).op = "build"
    PROVE  \E s \in Sids : BuildPublished(o, s) /\ OnlySession(s)
<1>. LegacyTypeOK /\ ClaimsAreHeld /\ PublishingOK(o) /\ phase[o] \in Executing
     /\ journals \in [Sids -> Journal]
  BY DEF WorkerInv, LegacyWorkerTypeOK, ProcessOK, ExecutionOK, Executing
<1>1. PICK s \in Sids :
          /\ doing[o] = [kind |-> "session", sid |-> s, journal |-> <<>>]
          /\ sessions[s].version = 0
          /\ memory[o][s] = [revision |-> InputsOf(o), journal |-> <<>>]
  BY DEF PublishingOK
<1>2. Attachment(o) = [kind |-> "session", sid |-> s, version |-> 1]
  <2>1. VersionOf(memory[o][s]) = 1
    BY <1>1 DEF VersionOf
  <2>. QED BY <1>1, <2>1 DEF Attachment
<1>3. revision = InputsOf(o)
  BY <1>2 DEF Complete, InputsUnchanged, InputsOf
<1>4. /\ sessions'[s].version = 1 /\ sessions'[s].manifest = {Held(o).job}
      /\ sessions'[s].revision = revision
      /\ \A z \in Sids \ {s} : sessions'[z] = sessions[z]
  BY <1>1, <1>2, SavedFields
<1>5. journals[s] = <<>>
  BY <1>1 DEF WorkerInv, SessionOK
<1>6. journals'[s] = <<>> /\ \A z \in Sids \ {s} : journals'[z] = journals[z]
  BY <1>1 DEF JournalsAfter
<1>7. BuildPublished(o, s)
  BY <1>1, <1>3, <1>4, <1>5, <1>6 DEF BuildPublished
<1>8. OnlySession(s)
  BY <1>4, <1>6 DEF OnlySession, SessionSame
<1>. QED BY <1>7, <1>8

LEMMA UpdateIsPublished ==
    ASSUME WorkerInv, NEW o \in LegacyOwners, phase[o] = "publishing",
           Complete(Held(o), Attachment(o)), journals' = JournalsAfter(o),
           Body(o).op = "update"
    PROVE  \E s \in Sids : UpdatePublished(o, s) /\ OnlySession(s)
<1>. /\ LegacyTypeOK /\ ClaimsAreHeld /\ PublishingOK(o) /\ phase[o] \in Executing
     /\ journals \in [Sids -> Journal] /\ MemoryOK(o)
  BY DEF WorkerInv, LegacyWorkerTypeOK, ProcessOK, ExecutionOK, Executing
<1>1. PICK s \in Sids : s = Body(o).sid
  BY BodyTypes
<1>2. Held(o).job \in Jobs /\ Body(o).version \in Nat
  BY BodyTypes
<1>3. /\ sessions[s].version > 0
      /\ memory[o][s] # NoItem /\ memory[o][s].revision = InputsOf(o)
  BY <1>1 DEF PublishingOK, UpdateOK
<1>4. PICK read \in Journal :
          /\ doing[o] = [kind |-> "session", sid |-> s,
                         journal |-> Append(read, Held(o).job)]
          /\ Recent(o, s, read)
          /\ Body(o).version <= Len(read) + 1
  BY <1>1 DEF PublishingOK
<1>5. PICK copy \in Journal :
          /\ memory[o][s].journal = Append(copy, Held(o).job)
          /\ Len(copy) + 1 = Body(o).version
          /\ Recent(o, s, copy)
  BY <1>1 DEF PublishingOK, UpdateOK
<1>6. VersionOf(memory[o][s]) = Body(o).version + 1
  <2>1. Len(memory[o][s].journal) = Len(copy) + 1 /\ Len(copy) \in Nat
    BY <1>2, <1>5 DEF Journal
  <2>. QED BY <1>5, <2>1 DEF VersionOf
<1>7. Attachment(o) = [kind |-> "session", sid |-> s, version |-> Body(o).version + 1]
  BY <1>4, <1>6 DEF Attachment
<1>8. sessions[s].version = Body(o).version
  <2>1. SessionAccepts(s, Body(o).version + 1)
    BY <1>7 DEF Complete
  <2>. QED BY <1>2, <1>3, <2>1 DEF SessionAccepts
<1>9. sessions[s].version = 1 + Len(journals[s])
  BY <1>3 DEF WorkerInv, SessionOK
<1>10. Len(journals[s]) \in Nat /\ Len(read) \in Nat /\ Len(copy) \in Nat
  BY DEF Journal
<1>11. read = journals[s] /\ copy = journals[s]
  BY <1>2, <1>4, <1>5, <1>8, <1>9, <1>10 DEF Recent
<1>12. /\ sessions'[s].version = Body(o).version + 1
       /\ sessions'[s].manifest = {Held(o).job}
       /\ sessions'[s].revision = sessions[s].revision
       /\ \A z \in Sids \ {s} : sessions'[z] = sessions[z]
  BY <1>3, <1>7, SavedFields
<1>13. sessions[s].revision = InputsOf(o)
  BY <1>3 DEF MemoryOK
<1>14. /\ journals'[s] = Append(read, Held(o).job)
       /\ \A z \in Sids \ {s} : journals'[z] = journals[z]
  BY <1>4 DEF JournalsAfter
<1>15. UpdatePublished(o, s)
  BY <1>1, <1>3, <1>5, <1>8, <1>9, <1>11, <1>12, <1>13, <1>14 DEF UpdatePublished
<1>16. OnlySession(s)
  BY <1>12, <1>14 DEF OnlySession, SessionSame
<1>. QED BY <1>15, <1>16

LEMMA ResultChanges ==
    ASSUME WorkerInv, NEW o \in LegacyOwners, phase[o] = "publishing",
           Complete(Held(o), Attachment(o)), journals' = JournalsAfter(o)
    PROVE  /\ owner = o /\ UNCHANGED row
           /\ Current(Held(o)) /\ jobs'[Held(o).job].status = "done"
           /\ jobs'[Held(o).job].request = jobs[Held(o).job].request
           /\ \A i \in Jobs \ {Held(o).job} : jobs'[i] = jobs[i]
           /\ Body(o).op \in {"run", "library"} => AllSame
<1>. LegacyTypeOK /\ ClaimsAreHeld /\ phase[o] \in Executing
  BY DEF WorkerInv, LegacyWorkerTypeOK, Executing
<1>1. Held(o) \in claims /\ Held(o).owner = o
  BY ExecutingHolds
<1>2. owner = o /\ UNCHANGED row /\ Current(Held(o))
  BY <1>1 DEF Complete, MayReport, Holds, Report, workspaceVars, row
<1>3. jobs' = [jobs EXCEPT ![Held(o).job].status = "done"]
  BY DEF Complete
<1>4. ASSUME Body(o).op \in {"run", "library"}
      PROVE  AllSame
  <2>1. doing[o] = Nothing \/ doing[o] = [kind |-> "library"]
    BY <1>4 DEF WorkerInv, ProcessOK, ExecutionOK, PublishingOK
  <2>2. doing[o].kind # "session"
    BY <2>1 DEF Nothing
  <2>3. Attachment(o).kind # "session"
    BY <2>2 DEF Attachment
  <2>4. UNCHANGED <<sessions, journals>>
    BY <2>2, <2>3 DEF Complete, JournalsAfter
  <2>. QED BY <2>4 DEF AllSame, SessionSame
<1>. QED BY <1>1, <1>2, <1>3, <1>4, ReportedRow

LEMMA ResultWorld ==
    ASSUME WorkerInv, NEW o \in LegacyOwners, phase[o] = "publishing",
           Complete(Held(o), Attachment(o)), journals' = JournalsAfter(o),
           NEW q \in LegacyOwners, q # o
    PROVE  World(q)
<1>. LegacyTypeOK /\ ClaimsAreHeld /\ phase[o] \in Executing
  BY DEF WorkerInv, LegacyWorkerTypeOK, Executing
<1>1. /\ owner = o /\ UNCHANGED row /\ jobs'[Held(o).job].status = "done"
      /\ \A i \in Jobs \ {Held(o).job} : jobs'[i] = jobs[i]
  BY ResultChanges
<1>2. Held(o) \in claims /\ Held(o).owner = o
  BY ExecutingHolds
<1>3. claims' \subseteq claims /\ claims \ claims' \subseteq {Held(o)}
  BY DEF Complete, Report
<1>4. ClaimsKept(q)
  BY <1>2, <1>3 DEF ClaimsKept
<1>5. RunningKept(q)
  BY <1>1 DEF RunningKept
<1>6. LeaseKept(q)
  BY <1>1, LeaseFacts DEF LegacyTypeOK
<1>7. SessionsGrow(q)
  <2>1. CASE Body(o).op \in {"run", "library"}
    BY <2>1, ResultChanges, SameGrows
  <2>2. CASE Body(o).op = "build"
    <3>1. PICK s \in Sids : BuildPublished(o, s) /\ OnlySession(s)
      BY <2>2, BuildIsPublished
    <3>2. memory[o][s] # NoItem
      <4>1. InputsOf(o) \in 0 .. MaxRevision
        BY BodyTypes
      <4>. QED BY <3>1, <4>1 DEF BuildPublished, NoItem
    <3>3. memory[q][s] = NoItem
      BY <3>1, <3>2 DEF BuildPublished, WorkerInv, UnsavedIsOwn
    <3>4. SessionSaved(s)
      BY <3>1 DEF BuildPublished, SessionSaved
    <3>. QED BY <1>1, <3>1, <3>3, <3>4 DEF SessionsGrow, OnlySession
  <2>3. CASE Body(o).op = "update"
    <3>1. PICK s \in Sids : UpdatePublished(o, s) /\ OnlySession(s)
      BY <2>3, UpdateIsPublished
    <3>2. Len(journals'[s]) = Len(journals[s]) + 1 /\ Len(journals[s]) \in Nat
      <4>1. journals[s] \in Seq(Jobs) /\ Held(o).job \in Jobs
        BY BodyTypes DEF WorkerInv, LegacyWorkerTypeOK, Journal
      <4>. QED BY <3>1, <4>1 DEF UpdatePublished
    <3>3. SessionUpdated(s)
      BY <3>1, <3>2 DEF UpdatePublished, SessionUpdated
    <3>. QED BY <1>1, <3>1, <3>3 DEF SessionsGrow, OnlySession
  <2>. QED BY <2>1, <2>2, <2>3, BodyTypes
<1>. QED BY <1>4, <1>5, <1>6, <1>7 DEF World

-----------------------------------------------------------------------------
(* A process holds an attempt exactly while it executes one.               *)

LEMMA Goes ==
    ASSUME LegacyWorkerTypeOK, NEW o \in LegacyOwners, NEW next, Goto(o, next)
    PROVE  /\ phase'[o] = next
           /\ \A q \in LegacyOwners \ {o} : phase'[q] = phase[q]
BY DEF LegacyWorkerTypeOK, Goto

LEMMA ClaimsStay ==
    ASSUME LegacyTypeOK, ClaimsAreHeld, JobsKept, UNCHANGED claims,
           \A q \in LegacyOwners : phase'[q] \in Executing <=> phase[q] \in Executing
    PROVE  ClaimsAreHeld'
BY ClaimTypes DEF ClaimsAreHeld, JobsKept

LEMMA ClaimDropped ==
    ASSUME LegacyTypeOK, ClaimsAreHeld, JobsKept, NEW o \in LegacyOwners,
           claims' = {c \in claims : c.owner # o}, phase'[o] \notin Executing,
           \A q \in LegacyOwners \ {o} : phase'[q] = phase[q]
    PROVE  ClaimsAreHeld'
BY ClaimTypes DEF ClaimsAreHeld, JobsKept

LEMMA DroppingHeld ==
    ASSUME ClaimsAreHeld, NEW o \in LegacyOwners, phase[o] \in Executing
    PROVE  claims \ {Held(o)} = {c \in claims : c.owner # o}
BY ExecutingHolds, HeldIsTheClaim

LEMMA ClaimGained ==
    ASSUME LegacyTypeOK, ClaimsAreHeld, JobsKept, NEW o \in LegacyOwners,
           phase[o] \notin Executing, NEW c, c.owner = o, claims' = claims \cup {c},
           jobs'[c.job].status # "absent", phase'[o] \in Executing,
           \A q \in LegacyOwners \ {o} : phase'[q] = phase[q]
    PROVE  ClaimsAreHeld'
<1>1. \A d \in claims : d.owner # o
  BY DEF ClaimsAreHeld
<1>2. \A d \in claims : d.owner \in LegacyOwners /\ jobs'[d.job].status # "absent"
  BY ClaimTypes DEF ClaimsAreHeld, JobsKept
<1>. QED BY <1>1, <1>2 DEF ClaimsAreHeld

LEMMA LifeClaims ==
    ASSUME WorkerInv, JobsKept, NEW o \in LegacyOwners, Life(o)
    PROVE  ClaimsAreHeld'
<1>. LegacyWorkerTypeOK /\ LegacyTypeOK /\ ClaimsAreHeld
  BY DEF WorkerInv, LegacyWorkerTypeOK
<1>1. CASE AskRoute(o) \/ RollBackDead(o) \/ Beat(o) \/ BeatRefused(o)
  <2>1. UNCHANGED <<claims, phase>>
    BY <1>1 DEF AskRoute, RollBackDead, Beat, BeatRefused, AcquireRead, AcquireAbandon,
                Renew, vars, callerVars, workVars
  <2>. QED BY <2>1, ClaimsStay
<1>2. CASE Crash(o)
  <2>1. phase'[o] = "down" /\ \A q \in LegacyOwners \ {o} : phase'[q] = phase[q]
    BY <1>2, Goes DEF Crash, Gone
  <2>. QED BY <1>2, <2>1, ClaimDropped DEF Crash, Executing
<1>3. CASE Start(o) \/ Lead(o) \/ LeadRefused(o) \/ Quit(o)
  <2>1. UNCHANGED claims
    BY <1>3 DEF Start, Lead, LeadRefused, Quit, Acquire, AcquireAbandon, Release, vars,
                callerVars
  <2>2. phase[o] \notin Executing
    BY <1>3 DEF Start, Fresh, Lead, LeadRefused, Quit, Executing
  <2>3. \E next \in {"starting", "recovering", "ended", "down"} : Goto(o, next)
    BY <1>3 DEF Start, Lead, LeadRefused, Quit, End, Gone
  <2>4. phase'[o] \notin Executing /\ \A q \in LegacyOwners \ {o} : phase'[q] = phase[q]
    BY <2>3, Goes DEF Executing
  <2>. QED BY <2>1, <2>2, <2>4, ClaimsStay
<1>. QED BY <1>1, <1>2, <1>3 DEF Life

LEMMA RecoveryClaims ==
    ASSUME WorkerInv, JobsKept, NEW o \in LegacyOwners, Recovery(o) \/ Requests(o)
    PROVE  ClaimsAreHeld'
<1>. LegacyWorkerTypeOK /\ LegacyTypeOK /\ ClaimsAreHeld
  BY DEF WorkerInv, LegacyWorkerTypeOK
<1>1. UNCHANGED claims
  BY DEF Recovery, RecoverRead, Recovered, RecoverSession, RecoverFailed, Requests,
         EvalStart, EvalEnd, vars, callerVars
<1>2. CASE UNCHANGED phase
  BY <1>1, <1>2, ClaimsStay
<1>3. CASE phase[o] \in {"recovering", "rebuilding"}
           /\ \E next \in {"rebuilding", "idle", "ended"} : Goto(o, next)
  <2>1. phase[o] \notin Executing
    BY <1>3 DEF Executing
  <2>2. phase'[o] \notin Executing /\ \A q \in LegacyOwners \ {o} : phase'[q] = phase[q]
    BY <1>3, Goes DEF Executing
  <2>. QED BY <1>1, <2>1, <2>2, ClaimsStay
<1>. QED BY <1>2, <1>3
     DEF Recovery, RecoverRead, Recovered, RecoverSession, RecoverFailed, End, Requests,
         EvalStart, EvalEnd

LEMMA LoopClaims ==
    ASSUME WorkerInv, JobsKept, NEW o \in LegacyOwners, Loop(o)
    PROVE  ClaimsAreHeld'
<1>. LegacyWorkerTypeOK /\ LegacyTypeOK /\ ClaimsAreHeld
  BY DEF WorkerInv, LegacyWorkerTypeOK
<1>1. phase[o] = "idle" /\ phase[o] \notin Executing
  BY DEF Loop, Stopped, Unowned, Claimed, ClaimedNothing, ClaimBroken, MayClaim, Executing
<1>2. CASE Claimed(o)
  <2>1. PICK j \in Jobs, t \in Tokens : ClaimJob(o, j, t)
    BY <1>2 DEF Claimed
  <2>2. \E c \in claims' : c.owner = o
    BY <1>2 DEF Claimed
  <2>3. claims' # claims
    BY <1>1, <2>2 DEF ClaimsAreHeld
  <2>. DEFINE c == [job |-> j, owner |-> o, token |-> t, attempt |-> jobs[j].attempt + 1]
  <2>4. claims' = claims \cup {c}
    BY <2>1, <2>3 DEF ClaimJob
  <2>5. c.owner = o /\ c.job = j /\ jobs'[j].status = "running"
    BY <2>1, ClaimingRows
  <2>6. phase'[o] \in Executing /\ \A q \in LegacyOwners \ {o} : phase'[q] = phase[q]
    BY <1>2, Goes DEF Claimed, Executing
  <2>. HIDE DEF c
  <2>. QED BY <1>1, <2>4, <2>5, <2>6, ClaimGained
<1>3. CASE ~ Claimed(o)
  <2>1. UNCHANGED claims
    BY <1>3 DEF Loop, Stopped, Unowned, ClaimedNothing, ClaimBroken, ClaimExhausted, vars,
                callerVars
  <2>2. UNCHANGED phase \/ Goto(o, "ended")
    BY <1>3 DEF Loop, Stopped, Unowned, ClaimedNothing, ClaimBroken, LoopBreaks, End
  <2>3. phase'[o] \notin Executing /\ \A q \in LegacyOwners \ {o} : phase'[q] = phase[q]
    BY <1>1, <2>2, Goes DEF Executing
  <2>. QED BY <1>1, <2>1, <2>3, ClaimsStay
<1>. QED BY <1>2, <1>3

LEMMA ExecutionClaims ==
    ASSUME WorkerInv, JobsKept, NEW o \in LegacyOwners, Execution(o)
    PROVE  ClaimsAreHeld'
<1>. LegacyWorkerTypeOK /\ LegacyTypeOK /\ ClaimsAreHeld
  BY DEF WorkerInv, LegacyWorkerTypeOK
<1>1. phase[o] \in Executing
  BY DEF Execution, Compute, ComputeRefused, BuildExpires, Build, UpdateStart, UpdateAdopt,
         ReadJournal, ReadJournalRefused, Publish, PublishFailed, PublishFailedEarly,
         PublishUnnoticed, RecordError, ErrorRefused, ErrorBroken, Executing
<1>2. CASE Publish(o) \/ RecordError(o) \/ ErrorRefused(o) \/ ErrorBroken(o)
  <2>1. claims' = {c \in claims : c.owner # o}
    BY <1>1, <1>2, DroppingHeld
    DEF Publish, RecordError, ErrorRefused, ErrorBroken, Dismiss, Forget
  <2>2. \E next \in {"idle", "recovering", "ended"} : Goto(o, next)
    BY <1>2 DEF Publish, RecordError, ErrorRefused, ErrorBroken, Aborted, Restore,
                LoopBreaks, End
  <2>3. phase'[o] \notin Executing /\ \A q \in LegacyOwners \ {o} : phase'[q] = phase[q]
    BY <2>2, Goes DEF Executing
  <2>. QED BY <2>1, <2>3, ClaimDropped
<1>3. CASE ~ (Publish(o) \/ RecordError(o) \/ ErrorRefused(o) \/ ErrorBroken(o))
  <2>1. UNCHANGED claims
    BY <1>3 DEF Execution, Compute, ComputeRefused, BuildExpires, CloseSession, Build,
                UpdateStart, UpdateAdopt, ReadJournal, ReadJournalRefused, PublishFailed,
                PublishFailedEarly, PublishUnnoticed, vars, callerVars
  <2>2. UNCHANGED phase
        \/ \E next \in {"computing", "adopted", "publishing", "failing"} : Goto(o, next)
    BY <1>3 DEF Execution, Compute, ComputeRefused, BuildExpires, Build, UpdateStart,
                UpdateAdopt, ReadJournal, ReadJournalRefused, PublishFailed,
                PublishFailedEarly, PublishUnnoticed
  <2>3. phase'[o] \in Executing /\ \A q \in LegacyOwners \ {o} : phase'[q] = phase[q]
    BY <1>1, <2>2, Goes DEF Executing
  <2>. QED BY <1>1, <2>1, <2>3, ClaimsStay
<1>. QED BY <1>2, <1>3

LEMMA ClaimsHeldStep ==
    ASSUME WorkerInv, [LegacyWorkerNext]_workerVars
    PROVE  ClaimsAreHeld'
<1>. LegacyTypeOK /\ ClaimsAreHeld
  BY DEF WorkerInv, LegacyWorkerTypeOK
<1>1. JobsKept
  BY WorkerUsesRepository, StepKeepsJobs
<1>2. CASE UNCHANGED workerVars
  <2>1. UNCHANGED <<claims, phase>>
    BY <1>2 DEF workerVars, vars, callerVars, workVars
  <2>. QED BY <1>1, <2>1, ClaimsStay
<1>3. CASE Others
  <2>1. UNCHANGED <<claims, phase>>
    BY <1>3, OthersChange DEF Others, workVars
  <2>. QED BY <1>1, <2>1, ClaimsStay
<1>. QED BY <1>1, <1>2, <1>3, LifeClaims, RecoveryClaims, LoopClaims, ExecutionClaims
     DEF LegacyWorkerNext

-----------------------------------------------------------------------------
(* A step of one process, as the others see it.                            *)

Steps(o) == Life(o) \/ Recovery(o) \/ Loop(o) \/ Execution(o) \/ Requests(o)

Publishes(o) ==
    /\ phase[o] = "publishing"
    /\ Complete(Held(o), Attachment(o))
    /\ journals' = JournalsAfter(o)

LEMMA OthersUnmoved ==
    ASSUME LegacyWorkerTypeOK, NEW o \in LegacyOwners, Steps(o),
           NEW q \in LegacyOwners, q # o
    PROVE  Unmoved(q)
<1>. USE DEF LegacyWorkerTypeOK, Unmoved, Goto
<1>1. CASE Life(o)
  BY <1>1 DEF Life, Start, AskRoute, Lead, LeadRefused, Quit, Crash, RollBackDead,
              Beat, BeatRefused, End, Gone, workVars
<1>2. CASE Recovery(o) \/ Requests(o)
  BY <1>2 DEF Recovery, RecoverRead, Recovered, RecoverSession, RecoverFailed, Requests,
              EvalStart, EvalEnd, End
<1>3. CASE Loop(o)
  BY <1>3 DEF Loop, Stopped, Unowned, Claimed, ClaimedNothing, ClaimBroken, LoopBreaks, End
<1>4. CASE Publish(o) \/ PublishFailed(o) \/ PublishFailedEarly(o) \/ PublishUnnoticed(o)
           \/ RecordError(o) \/ ErrorRefused(o) \/ ErrorBroken(o)
  BY <1>4 DEF Publish, PublishFailed, PublishFailedEarly, PublishUnnoticed, RecordError,
              ErrorRefused, ErrorBroken, Aborted, Restore, LoopBreaks, End
<1>5. CASE Compute(o) \/ ComputeRefused(o) \/ (\E s \in Sids : BuildExpires(o, s))
           \/ UpdateStart(o) \/ UpdateAdopt(o) \/ ReadJournal(o) \/ ReadJournalRefused(o)
  BY <1>5 DEF Compute, ComputeRefused, BuildExpires, UpdateStart, UpdateAdopt,
              ReadJournal, ReadJournalRefused
<1>6. CASE Build(o)
  BY <1>6 DEF Build
<1>. QED BY <1>1, <1>2, <1>3, <1>4, <1>5, <1>6 DEF Steps, Execution

\* What the process does to the rows and the journals, transaction by transaction.
LEMMA StepTransaction ==
    ASSUME NEW o \in LegacyOwners, Steps(o)
    PROVE  \/ UNCHANGED <<vars, journals>>
           \/ UNCHANGED journals /\
                \/ \E w \in LegacyOwners :
                       AcquireRead(w) \/ AcquireAbandon(w) \/ Renew(w) \/ Release(w)
                \/ Editing
                \/ Lead(o) /\ Acquire(o)
                \/ \E j \in Jobs, t \in Tokens : ClaimJob(o, j, t)
                \/ \E j \in Jobs : ClaimExhausted(o, j)
           \/ Publishes(o)
           \/ UNCHANGED journals /\ phase[o] = "failing"
              /\ (CompleteError(Held(o)) \/ Forget(Held(o)))
           \/ Crash(o)
<1>1. CASE Life(o)
  BY <1>1 DEF Life, Start, AskRoute, Lead, LeadRefused, Quit, RollBackDead, Beat,
              BeatRefused, End, Gone
<1>2. CASE Recovery(o) \/ Requests(o)
  BY <1>2 DEF Recovery, RecoverRead, Recovered, RecoverSession, RecoverFailed, Requests,
              EvalStart, EvalEnd, End
<1>3. CASE Loop(o)
  BY <1>3 DEF Loop, Stopped, Unowned, Claimed, ClaimedNothing, ClaimBroken, LoopBreaks, End
<1>4. CASE PublishFailed(o) \/ PublishFailedEarly(o)
           \/ RecordError(o) \/ ErrorRefused(o) \/ ErrorBroken(o)
  BY <1>4 DEF PublishFailed, PublishFailedEarly, RecordError, ErrorRefused, ErrorBroken,
              Aborted, Restore, LoopBreaks, End
<1>5. CASE Publish(o) \/ PublishUnnoticed(o)
  BY <1>5 DEF Publish, PublishUnnoticed, Publishes
<1>6. CASE Compute(o) \/ ComputeRefused(o) \/ (\E s \in Sids : BuildExpires(o, s))
           \/ UpdateStart(o) \/ UpdateAdopt(o) \/ ReadJournal(o) \/ ReadJournalRefused(o)
           \/ Build(o)
  BY <1>6 DEF Compute, ComputeRefused, BuildExpires, UpdateStart, UpdateAdopt,
              ReadJournal, ReadJournalRefused, Build, Editing
<1>. QED BY <1>1, <1>2, <1>3, <1>4, <1>5, <1>6 DEF Steps, Execution

LEMMA StepChanges ==
    ASSUME WorkerInv, NEW o \in LegacyOwners, Steps(o)
    PROVE  /\ \A q \in LegacyOwners \ {o} : World(q)
           /\ ~ Publishes(o) => NoneDone /\ AllSame
<1>. LegacyTypeOK /\ ClaimsAreHeld
  BY DEF WorkerInv, LegacyWorkerTypeOK
<1>. DEFINE Goal == /\ \A q \in LegacyOwners \ {o} : World(q)
                    /\ ~ Publishes(o) => NoneDone /\ AllSame
<1>1. CASE UNCHANGED <<vars, journals>>
  BY <1>1, NothingChanges
<1>2. CASE UNCHANGED journals /\
             (Editing \/ \E w \in LegacyOwners :
                  AcquireRead(w) \/ AcquireAbandon(w) \/ Renew(w) \/ Release(w))
  BY <1>2, OthersChange
<1>3. CASE UNCHANGED journals /\ Acquire(o)
  <2>1. ASSUME NEW q, q # o PROVE World(q) /\ NoneDone /\ AllSame
    BY <1>3, <2>1, AcquireChanges
  <2>2. NoneDone /\ AllSame
    BY <1>3 DEF Acquire, repoVars, NoneDone, AllSame, SessionSame
  <2>. QED BY <2>1, <2>2
<1>4. ASSUME UNCHANGED journals, NEW j \in Jobs, NEW t \in Tokens, ClaimJob(o, j, t)
      PROVE  Goal
  <2>1. ASSUME NEW q, q # o PROVE World(q) /\ NoneDone /\ AllSame
    BY <1>4, <2>1, ClaimChanges
  <2>2. NoneDone
    BY <1>4, ClaimingRows DEF NoneDone
  <2>3. AllSame
    BY <1>4 DEF ClaimJob, AllSame, SessionSame
  <2>. QED BY <2>1, <2>2, <2>3
<1>5. ASSUME UNCHANGED journals, NEW j \in Jobs, ClaimExhausted(o, j)
      PROVE  Goal
  BY <1>5, ExhaustedChanges
<1>6. CASE Publishes(o)
  BY <1>6, ResultWorld DEF Publishes
<1>7. CASE UNCHANGED journals /\ phase[o] = "failing"
           /\ (CompleteError(Held(o)) \/ Forget(Held(o)))
  <2>1. Held(o) \in claims /\ Held(o).owner = o
    BY <1>7, ExecutingHolds DEF Executing
  <2>2. PICK c \in claims : c = Held(o)
    BY <2>1
  <2>3. c.owner = o /\ (CompleteError(c) \/ Forget(c))
    BY <1>7, <2>1, <2>2
  <2>. QED BY <1>7, <2>3, FailureChanges
<1>8. CASE Crash(o)
  <2>1. /\ UNCHANGED <<sessions, journals, jobs, row>>
        /\ claims' = {c \in claims : c.owner # o}
    BY <1>8 DEF Crash, Gone, repoVars, workspaceVars, row
  <2>2. AllSame /\ NoneDone
    BY <2>1 DEF AllSame, SessionSame, NoneDone
  <2>3. ASSUME NEW q, q # o PROVE World(q)
    BY <2>1, <2>2, <2>3, SameGrows, LeaseFacts
    DEF World, ClaimsKept, RunningKept, LegacyTypeOK
  <2>. QED BY <2>2, <2>3
<1>. QED BY <1>1, <1>2, <1>3, <1>4, <1>5, <1>6, <1>7, <1>8, StepTransaction

-----------------------------------------------------------------------------
(* A step of one process, as it sees it itself: the loop ends, the process *)
(* is gone, or new.                                                        *)

LEMMA GoneOK ==
    ASSUME LegacyWorkerTypeOK, NEW o \in LegacyOwners, Gone(o)
    PROVE  ProcessOK(o)'
<1>1. /\ phase'[o] = "down" /\ memory'[o] = NoItems /\ restoring'[o] = NoItems
      /\ serving'[o] = {}
  BY DEF Gone, Goto, LegacyWorkerTypeOK
<1>2. \A s \in Sids : memory'[o][s] = NoItem /\ restoring'[o][s] = NoItem
  BY <1>1 DEF NoItems
<1>. QED BY <1>1, <1>2
     DEF ProcessOK, NewOK, RestoringOK, MemoryOK, ExecutionOK, ServingOK, RunningOK,
         NoItems, NoItem

LEMMA EndOK ==
    ASSUME LegacyWorkerTypeOK, NEW o \in LegacyOwners, ServingOK(o), End(o),
           SessionsGrow(o), LeaseKept(o)
    PROVE  ProcessOK(o)'
<1>1. phase'[o] = "ended" /\ restoring'[o] = NoItems /\ serving'[o] = serving[o]
  BY DEF End, Goto, LegacyWorkerTypeOK
<1>2. \A s \in Sids : restoring'[o][s] = NoItem
  BY <1>1 DEF NoItems
<1>3. \A e \in serving[o] : e[1] \in Sids
  BY DEF LegacyWorkerTypeOK
<1>4. owner' = o => owner = o /\ AllSame
  BY DEF SessionsGrow, LeaseKept, AllSame
<1>5. ServingOK(o)'
  BY <1>1, <1>3, <1>4 DEF ServingOK, AllSame, SessionSame
<1>. QED BY <1>1, <1>2, <1>5
     DEF ProcessOK, NewOK, RestoringOK, MemoryOK, ExecutionOK, RunningOK, NoItem

LEMMA EndingOK ==
    ASSUME WorkerInv, NEW o \in LegacyOwners,
           \/ LeadRefused(o) \/ (\E s \in Sids : RecoverFailed(o, s))
           \/ Stopped(o) \/ Unowned(o) \/ ClaimBroken(o) \/ ErrorBroken(o)
    PROVE  ProcessOK(o)'
<1>. LegacyWorkerTypeOK /\ LegacyTypeOK /\ ClaimsAreHeld /\ ServingOK(o)
  BY DEF WorkerInv, LegacyWorkerTypeOK, ProcessOK
<1>1. End(o) /\ UNCHANGED journals
  BY DEF LeadRefused, RecoverFailed, Stopped, Unowned, ClaimBroken, ErrorBroken, LoopBreaks,
         End
<1>2. CASE UNCHANGED vars
  BY <1>1, <1>2, NothingChanges, EndOK DEF World
<1>3. CASE AcquireAbandon(o)
  BY <1>1, <1>3, OthersChange, EndOK DEF World
<1>4. ASSUME NEW j \in Jobs, NEW t \in Tokens, ClaimJob(o, j, t)
      PROVE  ProcessOK(o)'
  <2>1. UNCHANGED <<sessions, row>>
    BY <1>4 DEF ClaimJob, workspaceVars, row
  <2>2. AllSame /\ LeaseKept(o)
    BY <1>1, <2>1, LeaseFacts DEF AllSame, SessionSame, LegacyTypeOK
  <2>. QED BY <1>1, <2>2, SameGrows, EndOK
<1>5. CASE ErrorBroken(o)
  <2>1. phase[o] \in Executing /\ (CompleteError(Held(o)) \/ Forget(Held(o)))
    BY <1>5 DEF ErrorBroken, Executing
  <2>2. PICK c \in claims : c = Held(o)
    BY <2>1, ExecutingHolds
  <2>3. AllSame /\ LeaseKept(o)
    BY <1>1, <2>1, <2>2, FailureChanges
  <2>. QED BY <1>1, <2>3, SameGrows, EndOK
<1>. QED BY <1>2, <1>3, <1>4, <1>5
     DEF LeadRefused, RecoverFailed, Stopped, Unowned, ClaimBroken

LEMMA StartingOK ==
    ASSUME WorkerInv, NEW o \in LegacyOwners, Start(o) \/ Lead(o)
    PROVE  ProcessOK(o)'
<1>. LegacyWorkerTypeOK /\ ProcessOK(o)
  BY DEF WorkerInv
<1>1. /\ phase[o] \in {"down", "starting"} /\ phase'[o] \in {"starting", "recovering"}
      /\ UNCHANGED <<memory, restoring, serving, jobs>>
  BY DEF Start, Lead, Goto, Fresh, Acquire, repoVars, vars, LegacyWorkerTypeOK
<1>2. memory[o] = NoItems /\ serving[o] = {}
  BY <1>1 DEF ProcessOK, NewOK
<1>3. \A s \in Sids : memory[o][s] = NoItem /\ restoring[o][s] = NoItem
  BY <1>1, <1>2 DEF NoItems, ProcessOK, RestoringOK
<1>4. \A j \in Jobs : jobs[j].status = "running" => jobs[j].owner # o
  BY DEF Start, Lead, Fresh, ActiveJobs, Active, ProcessOK, RunningOK
<1>5. RunningOK(o)'
  BY <1>1, <1>4 DEF RunningOK
<1>. QED BY <1>1, <1>2, <1>3, <1>5
     DEF ProcessOK, NewOK, RestoringOK, MemoryOK, ExecutionOK, ServingOK, NoItems, NoItem

-----------------------------------------------------------------------------
(* Recovery, evaluations, and the moves that touch no row.                 *)

LEMMA StillFacts ==
    ASSUME UNCHANGED <<vars, journals>>, NEW o
    PROVE  /\ sessions' = sessions /\ jobs' = jobs /\ journals' = journals
           /\ owner' = owner /\ revision' = revision
           /\ Held(o)' = Held(o) /\ Body(o)' = Body(o) /\ InputsOf(o)' = InputsOf(o)
           /\ Holds(o)' <=> Holds(o)
           /\ Current(Held(o))' <=> Current(Held(o))
<1>1. /\ claims' = claims /\ jobs' = jobs /\ sessions' = sessions /\ journals' = journals
      /\ owner' = owner /\ leaseLeft' = leaseLeft /\ revision' = revision
  BY DEF vars, workspaceVars, repoVars, callerVars
<1>2. Held(o)' = Held(o)
  BY <1>1 DEF Held
<1>. QED BY <1>1, <1>2 DEF Body, InputsOf, Holds, LeaseLive, Current

LEMMA StillRunning ==
    ASSUME UNCHANGED <<vars, journals>>, NEW o, RunningOK(o),
           phase[o] \notin {"down", "starting", "ended"},
           phase'[o] \notin {"down", "starting", "ended"},
           phase[o] \in Executing => phase'[o] \in Executing
    PROVE  RunningOK(o)'
BY StillFacts DEF RunningOK

LEMMA RecoveringOK ==
    ASSUME WorkerInv, NEW o \in LegacyOwners,
           RecoverRead(o) \/ Recovered(o) \/ \E s \in Sids : RecoverSession(o, s)
    PROVE  ProcessOK(o)'
<1>. LegacyWorkerTypeOK /\ LegacyTypeOK /\ ProcessOK(o)
  BY DEF WorkerInv, LegacyWorkerTypeOK
<1>1. /\ UNCHANGED <<vars, journals>> /\ serving'[o] = serving[o]
      /\ phase[o] \in {"recovering", "rebuilding"} /\ phase'[o] \in {"rebuilding", "idle"}
  BY DEF RecoverRead, Recovered, RecoverSession, Goto, LegacyWorkerTypeOK
<1>2. RunningOK(o)'
  BY <1>1, StillRunning DEF ProcessOK, Executing
<1>3. ServingOK(o)'
  BY <1>1 DEF ProcessOK, ServingOK
<1>4. NewOK(o)' /\ ExecutionOK(o)'
  BY <1>1 DEF NewOK, ExecutionOK
<1>5. CASE RecoverRead(o)
  <2>1. \A s \in Sids : memory'[o][s] = NoItem
    BY <1>5 DEF RecoverRead, NoItems, LegacyWorkerTypeOK
  <2>2. phase'[o] = "rebuilding"
    BY <1>5 DEF RecoverRead, Goto, LegacyWorkerTypeOK
  <2>3. ASSUME NEW s \in Sids, restoring'[o][s] # NoItem
        PROVE  /\ sessions[s].version > 0 /\ sessions[s].revision = revision
               /\ restoring'[o][s] = [revision |-> revision, journal |-> journals[s]]
    BY <1>5, <2>3 DEF RecoverRead, LegacyWorkerTypeOK
  <2>4. ASSUME NEW s \in Sids, restoring'[o][s] # NoItem
        PROVE  /\ sessions'[s].version > 0
               /\ restoring'[o][s].revision = sessions'[s].revision
               /\ restoring'[o][s].journal = journals'[s]
    <3>1. sessions' = sessions /\ journals' = journals
      BY <1>1, StillFacts
    <3>2. /\ sessions[s].version > 0 /\ sessions[s].revision = revision
          /\ restoring'[o][s] = [revision |-> revision, journal |-> journals[s]]
      BY <2>3, <2>4
    <3>3. restoring'[o][s].revision = revision /\ restoring'[o][s].journal = journals[s]
      BY <3>2
    <3>. QED BY <3>1, <3>2, <3>3
  <2>5. RestoringOK(o)'
    BY <2>2, <2>4 DEF RestoringOK, Recent, NoItem
  <2>6. MemoryOK(o)'
    BY <2>1 DEF MemoryOK, NoItem
  <2>. QED BY <1>2, <1>3, <1>4, <2>5, <2>6 DEF ProcessOK
<1>6. CASE Recovered(o)
  <2>1. \A s \in Sids : restoring'[o][s] = NoItem /\ memory'[o][s] = memory[o][s]
    BY <1>6 DEF Recovered, NoItems
  <2>2. \A s \in Sids : memory[o][s] # NoItem =>
            /\ sessions[s].version > 0 => memory[o][s].revision = sessions[s].revision
            /\ Recent(o, s, memory[o][s].journal)
    BY <1>1 DEF ProcessOK, MemoryOK, Ahead
  <2>3. MemoryOK(o)'
    BY <1>1, <2>1, <2>2, StillFacts DEF MemoryOK, Recent, NoItem
  <2>4. RestoringOK(o)'
    BY <2>1 DEF RestoringOK, NoItem
  <2>. QED BY <1>2, <1>3, <1>4, <2>3, <2>4 DEF ProcessOK
<1>7. ASSUME NEW z \in Sids, RecoverSession(o, z)
      PROVE  ProcessOK(o)'
  <2>1. /\ memory'[o][z] = restoring[o][z] /\ restoring'[o][z] = NoItem
        /\ restoring[o][z] # NoItem /\ phase[o] = "rebuilding" /\ phase'[o] = "rebuilding"
        /\ \A s \in Sids \ {z} : memory'[o][s] = memory[o][s]
                                 /\ restoring'[o][s] = restoring[o][s]
    BY <1>7 DEF RecoverSession, LegacyWorkerTypeOK
  <2>2. \A s \in Sids : memory'[o][s] # NoItem =>
            /\ sessions[s].version > 0 => memory'[o][s].revision = sessions[s].revision
            /\ Recent(o, s, memory'[o][s].journal)
    BY <2>1 DEF ProcessOK, MemoryOK, RestoringOK, Ahead
  <2>3. \A s \in Sids : restoring'[o][s] # NoItem =>
            /\ sessions[s].version > 0
            /\ restoring'[o][s].revision = sessions[s].revision
            /\ Recent(o, s, restoring'[o][s].journal)
    BY <2>1 DEF ProcessOK, RestoringOK
  <2>4. MemoryOK(o)'
    BY <1>1, <2>2, StillFacts DEF MemoryOK, Recent, NoItem
  <2>5. RestoringOK(o)'
    BY <1>1, <2>1, <2>3, StillFacts DEF RestoringOK, Recent, NoItem
  <2>. QED BY <1>2, <1>3, <1>4, <2>4, <2>5 DEF ProcessOK
<1>. QED BY <1>5, <1>6, <1>7

LEMMA IdlingOK ==
    ASSUME WorkerInv, LegacyWorkerTypeOK', ClaimsAreHeld', JobsKept, NEW o \in LegacyOwners,
           AskRoute(o) \/ RollBackDead(o) \/ Beat(o) \/ BeatRefused(o)
    PROVE  ProcessOK(o)'
<1>. LegacyTypeOK
  BY DEF WorkerInv, LegacyWorkerTypeOK
<1>1. Unmoved(o)
  BY DEF AskRoute, RollBackDead, Beat, BeatRefused, workVars, Unmoved
<1>2. CASE BeatRefused(o)
  <2>1. World(o)
    BY <1>2, NothingChanges DEF BeatRefused
  <2>. QED BY <1>1, <2>1, ProcessKept
<1>3. CASE AskRoute(o) \/ RollBackDead(o) \/ Beat(o)
  <2>1. World(o)
    BY <1>3, OthersChange DEF AskRoute, RollBackDead, Beat
  <2>. QED BY <1>1, <2>1, ProcessKept
<1>. QED BY <1>2, <1>3

\* A process that only forgets sessions, between two jobs or before a build.
LEMMA ForgettingOK ==
    ASSUME WorkerInv, LegacyWorkerTypeOK', ClaimsAreHeld', JobsKept, NEW o \in LegacyOwners,
           phase[o] \in {"idle", "claimed"}, phase'[o] = phase[o],
           restoring'[o] = restoring[o], serving'[o] = serving[o], World(o),
           \A s \in Sids : memory'[o][s] \in {memory[o][s], NoItem}
    PROVE  ProcessOK(o)'
<1>. /\ LegacyWorkerTypeOK /\ LegacyTypeOK /\ ClaimsAreHeld /\ ProcessOK(o)
     /\ SessionsGrow(o) /\ LeaseKept(o)
  BY DEF WorkerInv, LegacyWorkerTypeOK, World
<1>1. NewOK(o)' /\ ExecutionOK(o)'
  BY DEF NewOK, ExecutionOK
<1>2. RestoringOK(o)'
  BY DEF ProcessOK, RestoringOK, NoItem
<1>3. MemoryOK(o)'
  <2>1. ASSUME NEW s \in Sids, memory'[o][s] # NoItem
        PROVE  /\ sessions'[s].version > 0 =>
                      memory'[o][s].revision = sessions'[s].revision
               /\ Recent(o, s, memory[o][s].journal)'
    <3>1. memory'[o][s] = memory[o][s] /\ memory[o][s] # NoItem
      BY <2>1
    <3>2. /\ sessions[s].version > 0 => memory[o][s].revision = sessions[s].revision
          /\ Recent(o, s, memory[o][s].journal)
      BY <3>1 DEF ProcessOK, MemoryOK, Ahead
    <3>3. PICK copy \in Journal : copy = memory[o][s].journal
      BY <3>1, TypedWhole, ItemFields DEF Typed
    <3>4. Recent(o, s, copy)'
      BY <3>2, <3>3, RecentKept
    <3>5. sessions'[s].version > 0 =>
              sessions[s].version > 0 /\ sessions'[s].revision = sessions[s].revision
      BY <3>1 DEF SessionsGrow, SessionSame, SessionUpdated, SessionSaved
    <3>6. Recent(o, s, memory[o][s].journal)'
      BY <3>1, <3>3, <3>4, <2>1
    <3>. QED BY <3>1, <3>2, <3>5, <3>6
  <2>. QED BY <2>1 DEF MemoryOK, NoItem
<1>4. ServingOK(o)'
  <2>1. \A e \in serving[o] : e[1] \in Sids
    BY DEF LegacyWorkerTypeOK
  <2>2. owner' = o => \A s \in Sids : SessionSame(s)
    BY DEF SessionsGrow, LeaseKept
  <2>. QED BY <2>1, <2>2 DEF ProcessOK, ServingOK, LeaseKept, SessionSame
<1>5. RunningOK(o)'
  <2>1. ASSUME Holds(o)', NEW j \in Jobs, jobs'[j].status = "running", jobs'[j].owner = o
        PROVE  phase[o] \in Executing /\ Held(o)'.job = j /\ Current(Held(o))'
    <3>1. Holds(o) /\ jobs'[j] = jobs[j]
      BY <2>1 DEF World, LeaseKept, RunningKept
    <3>2. phase[o] \in Executing /\ Held(o).job = j /\ Current(Held(o))
      BY <2>1, <3>1 DEF ProcessOK, RunningOK
    <3>3. Held(o)' = Held(o)
      BY <3>2, HeldKept DEF World
    <3>. QED BY <3>1, <3>2, <3>3 DEF Current
  <2>. QED BY <2>1 DEF RunningOK, Executing
<1>. QED BY <1>1, <1>2, <1>3, <1>4, <1>5 DEF ProcessOK

LEMMA ExpiringOK ==
    ASSUME WorkerInv, LegacyWorkerTypeOK', ClaimsAreHeld', JobsKept, NEW o \in LegacyOwners,
           ClaimedNothing(o) \/ \E s \in Sids : BuildExpires(o, s)
    PROVE  ProcessOK(o)'
<1>. LegacyWorkerTypeOK /\ LegacyTypeOK
  BY DEF WorkerInv, LegacyWorkerTypeOK
<1>1. CASE ClaimedNothing(o)
  <2>1. World(o)
    BY <1>1, NothingChanges, ExhaustedChanges DEF ClaimedNothing
  <2>2. \A s \in Sids : memory'[o][s] \in {memory[o][s], NoItem}
    BY <1>1 DEF ClaimedNothing, StillOpen, LegacyWorkerTypeOK
  <2>3. phase[o] = "idle" /\ UNCHANGED <<phase, restoring, serving>>
    BY <1>1 DEF ClaimedNothing, MayClaim
  <2>. QED BY <2>1, <2>2, <2>3, ForgettingOK
<1>2. ASSUME NEW z \in Sids, BuildExpires(o, z)
      PROVE  ProcessOK(o)'
  <2>1. World(o)
    BY <1>2, NothingChanges, OthersChange DEF BuildExpires, Editing
  <2>2. \A s \in Sids : memory'[o][s] \in {memory[o][s], NoItem}
    BY <1>2 DEF BuildExpires, LegacyWorkerTypeOK
  <2>3. phase[o] = "claimed" /\ UNCHANGED <<phase, restoring, serving>>
    BY <1>2 DEF BuildExpires
  <2>. QED BY <2>1, <2>2, <2>3, ForgettingOK
<1>. QED BY <1>1, <1>2

LEMMA EvaluatingOK ==
    ASSUME WorkerInv, NEW o \in LegacyOwners, Requests(o)
    PROVE  ProcessOK(o)'
<1>. LegacyWorkerTypeOK /\ LegacyTypeOK /\ ProcessOK(o)
  BY DEF WorkerInv, LegacyWorkerTypeOK
<1>1. UNCHANGED <<vars, journals>> /\ UNCHANGED <<phase, memory, restoring, doing>>
  BY DEF Requests, EvalStart, EvalEnd
<1>2. /\ sessions' = sessions /\ jobs' = jobs /\ journals' = journals /\ owner' = owner
      /\ Held(o)' = Held(o) /\ Body(o)' = Body(o) /\ InputsOf(o)' = InputsOf(o)
      /\ Holds(o)' <=> Holds(o)
      /\ Current(Held(o))' <=> Current(Held(o))
  BY <1>1, StillFacts
<1>3. ServingOK(o)' /\ (phase[o] \in {"down", "starting"} => serving'[o] = {})
  <2>1. CASE EvalEnd(o)
    <3>1. serving'[o] = {}
      BY <2>1 DEF EvalEnd, LegacyWorkerTypeOK
    <3>. QED BY <3>1 DEF ServingOK
  <2>2. ASSUME NEW s \in Sids, EvalStart(o, s)
        PROVE  ServingOK(o)' /\ (phase[o] \in {"down", "starting"} => serving'[o] = {})
    <3>1. /\ serving'[o] = {<<s, memory[o][s].journal>>}
          /\ phase[o] \in {"idle", "claimed"} /\ sessions[s].version > 0
          /\ memory[o][s] # NoItem
      BY <2>2 DEF EvalStart, Free, LegacyWorkerTypeOK
    <3>2. Recent(o, s, memory[o][s].journal)
      BY <3>1 DEF ProcessOK, MemoryOK, Ahead
    <3>3. owner = o => memory[o][s].journal = journals[s]
      BY <3>2 DEF Recent
    <3>. QED BY <1>1, <1>2, <3>1, <3>3 DEF ServingOK
  <2>. QED BY <2>1, <2>2 DEF Requests
<1>4. NewOK(o)'
  BY <1>1, <1>3 DEF ProcessOK, NewOK, NoItems, NoItem
<1>5. RestoringOK(o)' /\ MemoryOK(o)'
  BY <1>1, <1>2 DEF ProcessOK, RestoringOK, MemoryOK, Ahead, Recent, NoItem
<1>6. ExecutionOK(o)'
  <2>1. UpdateOK(o) => UpdateOK(o)'
    BY <1>1, <1>2 DEF UpdateOK, Recent, NoItem
  <2>2. PublishingOK(o) => PublishingOK(o)'
    BY <1>1, <1>2, <2>1 DEF PublishingOK, Recent, Nothing
  <2>. QED BY <1>1, <2>1, <2>2 DEF ProcessOK, ExecutionOK
<1>7. RunningOK(o)'
  BY <1>1, <1>2 DEF ProcessOK, RunningOK
<1>. QED BY <1>3, <1>4, <1>5, <1>6, <1>7 DEF ProcessOK

LEMMA ClaimedOK ==
    ASSUME WorkerInv, ClaimsAreHeld', NEW o \in LegacyOwners, Claimed(o)
    PROVE  ProcessOK(o)'
<1>. LegacyWorkerTypeOK /\ LegacyTypeOK /\ ClaimsAreHeld /\ ProcessOK(o)
  BY DEF WorkerInv, LegacyWorkerTypeOK
<1>1. /\ phase[o] = "idle" /\ phase'[o] = "claimed"
      /\ UNCHANGED <<journals, restoring, serving>>
      /\ \A s \in Sids : memory'[o][s] \in {memory[o][s], NoItem}
      /\ Holds(o)
  BY DEF Claimed, MayClaim, Goto, StillOpen, LegacyWorkerTypeOK
<1>2. PICK j \in Jobs, t \in Tokens : ClaimJob(o, j, t)
  BY DEF Claimed
<1>3. UNCHANGED <<sessions, owner>>
  BY <1>2 DEF ClaimJob, workspaceVars
<1>4. /\ jobs'[j].status = "running" /\ jobs'[j].owner = o /\ jobs'[j].token = t
      /\ \A i \in Jobs \ {j} : jobs'[i] = jobs[i] \/ jobs'[i].status = "queued"
  BY <1>2, ClaimingRows
<1>5. Held(o)' = [job |-> j, owner |-> o, token |-> t, attempt |-> jobs[j].attempt + 1]
  <2>1. PICK c \in claims' : c.owner = o
    BY DEF Claimed
  <2>2. c \notin claims
    BY <1>1, <2>1 DEF ClaimsAreHeld, Executing
  <2>3. c = [job |-> j, owner |-> o, token |-> t, attempt |-> jobs[j].attempt + 1]
    BY <1>2, <2>1, <2>2 DEF ClaimJob
  <2>4. \A d \in claims' : d.owner = o => d = c
    BY <2>1 DEF ClaimsAreHeld
  <2>5. Held(o)' = c
    BY <2>1, <2>4 DEF Held
  <2>. QED BY <2>3, <2>5
<1>6. RunningOK(o)'
  <2>1. ASSUME NEW i \in Jobs, jobs'[i].status = "running", jobs'[i].owner = o
        PROVE  i = j
    <3>1. CASE i # j
      <4>1. jobs[i].status = "running" /\ jobs[i].owner = o
        BY <1>4, <2>1, <3>1
      <4>. QED BY <1>1, <4>1 DEF ProcessOK, RunningOK, Executing
    <3>. QED BY <3>1
  <2>2. Held(o)'.job = j /\ Held(o)'.token = t
    BY <1>5
  <2>3. Current(Held(o))'
    BY <1>4, <2>2 DEF Current
  <2>. QED BY <1>1, <2>1, <2>2, <2>3 DEF RunningOK, Executing
<1>7. MemoryOK(o)'
  <2>1. \A s \in Sids : memory[o][s] # NoItem =>
            /\ sessions[s].version > 0 => memory[o][s].revision = sessions[s].revision
            /\ Recent(o, s, memory[o][s].journal)
    BY <1>1 DEF ProcessOK, MemoryOK, Ahead
  <2>. QED BY <1>1, <1>3, <2>1 DEF MemoryOK, Recent, NoItem
<1>8. RestoringOK(o)'
  BY <1>1 DEF ProcessOK, RestoringOK, NoItem
<1>9. ServingOK(o)' /\ NewOK(o)' /\ ExecutionOK(o)'
  BY <1>1, <1>3 DEF ProcessOK, ServingOK, NewOK, ExecutionOK
<1>. QED BY <1>6, <1>7, <1>8, <1>9 DEF ProcessOK

-----------------------------------------------------------------------------
(* The steps of `execute` before it reports.                               *)

LEMMA ExecutingOK ==
    ASSUME WorkerInv, NEW o \in LegacyOwners, UNCHANGED <<vars, journals>>,
           phase[o] \in Executing, phase'[o] \in Executing \ {"claimed"},
           restoring'[o] = restoring[o], serving'[o] = serving[o],
           phase[o] = "claimed" => serving[o] = {},
           MemoryOK(o)', ExecutionOK(o)'
    PROVE  ProcessOK(o)'
<1>. ProcessOK(o)
  BY DEF WorkerInv
<1>1. serving[o] = {}
  BY DEF ProcessOK, ServingOK, Executing
<1>2. ServingOK(o)' /\ NewOK(o)'
  BY <1>1 DEF ServingOK, NewOK, Executing
<1>3. RestoringOK(o)'
  BY DEF ProcessOK, RestoringOK, Executing, NoItem
<1>4. RunningOK(o)'
  BY StillRunning DEF ProcessOK, Executing
<1>. QED BY <1>2, <1>3, <1>4 DEF ProcessOK

LEMMA StillMemory ==
    ASSUME WorkerInv, NEW o \in LegacyOwners, UNCHANGED <<vars, journals>>,
           memory'[o] = memory[o], phase[o] \in Executing,
           phase[o] \in {"adopted", "publishing", "failing"} =>
               phase'[o] \in {"adopted", "publishing", "failing"}
    PROVE  MemoryOK(o)'
<1>1. /\ sessions' = sessions /\ journals' = journals /\ owner' = owner
      /\ Body(o)' = Body(o)
  BY StillFacts
<1>2. \A s \in Sids : memory[o][s] # NoItem =>
          /\ sessions[s].version > 0 => memory[o][s].revision = sessions[s].revision
          /\ Ahead(o, s) \/ Recent(o, s, memory[o][s].journal)
  BY DEF WorkerInv, ProcessOK, MemoryOK, Executing
<1>. QED BY <1>1, <1>2 DEF MemoryOK, Ahead, Recent, NoItem

LEMMA StillUpdating ==
    ASSUME UNCHANGED <<vars, journals>>, NEW o \in LegacyOwners, UpdateOK(o),
           memory'[o] = memory[o], phase[o] # "computing", phase'[o] # "computing"
    PROVE  UpdateOK(o)'
<1>1. /\ journals' = journals /\ owner' = owner
      /\ Held(o)' = Held(o) /\ Body(o)' = Body(o) /\ InputsOf(o)' = InputsOf(o)
  BY StillFacts
<1>. QED BY <1>1 DEF UpdateOK, Recent, NoItem

LEMMA RefusedOK ==
    ASSUME WorkerInv, NEW o \in LegacyOwners,
           \/ Compute(o) \/ ComputeRefused(o) \/ ReadJournalRefused(o)
           \/ PublishFailed(o) \/ PublishFailedEarly(o)
    PROVE  ProcessOK(o)'
<1>. LegacyWorkerTypeOK /\ LegacyTypeOK /\ ClaimsAreHeld
  BY DEF WorkerInv, LegacyWorkerTypeOK
<1>1. /\ UNCHANGED <<vars, journals>> /\ UNCHANGED <<memory, restoring, serving>>
      /\ phase[o] = "claimed" => serving[o] = {}
  BY DEF Compute, ComputeRefused, ReadJournalRefused, PublishFailed, PublishFailedEarly,
         MayCompute
<1>2. phase[o] \in Executing
  BY DEF Compute, ComputeRefused, ReadJournalRefused, PublishFailed, PublishFailedEarly,
         Executing
<1>3. phase'[o] \in {"publishing", "failing"}
  BY Goes DEF Compute, ComputeRefused, ReadJournalRefused, PublishFailed, PublishFailedEarly
<1>4. MemoryOK(o)'
  BY <1>1, <1>2, <1>3, StillMemory
<1>5. ExecutionOK(o)'
  <2>1. CASE Compute(o)
    <3>1. /\ Body(o).op \in {"run", "library"}
          /\ doing'[o] = IF Body(o).op = "run" THEN Nothing ELSE [kind |-> "library"]
      BY <2>1 DEF Compute, LegacyWorkerTypeOK
    <3>2. Body(o)' = Body(o)
      BY <1>1, StillFacts
    <3>3. PublishingOK(o)'
      BY <3>1, <3>2 DEF PublishingOK, Nothing
    <3>. QED BY <1>3, <3>3 DEF ExecutionOK
  <2>2. CASE ~ Compute(o)
    <3>1. phase'[o] = "failing"
      BY <2>2, Goes
      DEF ComputeRefused, ReadJournalRefused, PublishFailed, PublishFailedEarly
    <3>. QED BY <3>1 DEF ExecutionOK
  <2>. QED BY <2>1, <2>2
<1>6. phase'[o] \in Executing \ {"claimed"}
  BY <1>3 DEF Executing
<1>. QED BY <1>1, <1>2, <1>4, <1>5, <1>6, ExecutingOK

LEMMA BuildOK ==
    ASSUME WorkerInv, NEW o \in LegacyOwners, Build(o)
    PROVE  ProcessOK(o)'
<1>. LegacyWorkerTypeOK /\ LegacyTypeOK /\ ClaimsAreHeld /\ ProcessOK(o)
  BY DEF WorkerInv, LegacyWorkerTypeOK
<1>1. /\ UNCHANGED <<vars, journals>> /\ UNCHANGED <<restoring, serving>>
      /\ phase[o] = "claimed" /\ serving[o] = {} /\ Body(o).op = "build"
      /\ phase'[o] = "publishing"
  BY Goes DEF Build, MayCompute
<1>2. PICK z \in FreshSids :
          /\ memory' = [memory EXCEPT ![o][z] =
                 [revision |-> InputsOf(o), journal |-> <<>>]]
          /\ doing' = [doing EXCEPT ![o] =
                 [kind |-> "session", sid |-> z, journal |-> <<>>]]
  BY DEF Build
<1>3. /\ z \in Sids /\ sessions[z].version = 0
      /\ memory'[o][z] = [revision |-> InputsOf(o), journal |-> <<>>]
      /\ \A s \in Sids \ {z} : memory'[o][s] = memory[o][s]
      /\ doing'[o] = [kind |-> "session", sid |-> z, journal |-> <<>>]
  BY <1>2 DEF FreshSids, LegacyWorkerTypeOK
<1>4. /\ sessions' = sessions /\ journals' = journals /\ owner' = owner
      /\ Body(o)' = Body(o) /\ InputsOf(o)' = InputsOf(o)
  BY <1>1, StillFacts
<1>5. journals[z] = <<>>
  BY <1>3 DEF WorkerInv, SessionOK
<1>6. MemoryOK(o)'
  <2>1. \A s \in Sids : memory[o][s] # NoItem =>
            /\ sessions[s].version > 0 => memory[o][s].revision = sessions[s].revision
            /\ Recent(o, s, memory[o][s].journal)
    BY <1>1 DEF ProcessOK, MemoryOK, Ahead
  <2>2. Recent(o, z, memory'[o][z].journal)
    BY <1>3, <1>5 DEF Recent
  <2>3. ~ (sessions[z].version > 0)
    BY <1>3
  <2>4. \A s \in Sids : memory'[o][s] # NoItem =>
            /\ sessions[s].version > 0 => memory'[o][s].revision = sessions[s].revision
            /\ Recent(o, s, memory'[o][s].journal)
    BY <1>3, <2>1, <2>2, <2>3
  <2>. QED BY <1>4, <2>4 DEF MemoryOK, Recent, NoItem
<1>7. PublishingOK(o)'
  BY <1>1, <1>3, <1>4 DEF PublishingOK
<1>8. ExecutionOK(o)'
  BY <1>1, <1>7 DEF ExecutionOK
<1>. QED BY <1>1, <1>6, <1>8, ExecutingOK DEF Executing

LEMMA UpdateStartOK ==
    ASSUME WorkerInv, NEW o \in LegacyOwners, UpdateStart(o)
    PROVE  ProcessOK(o)'
<1>. LegacyWorkerTypeOK /\ LegacyTypeOK /\ ClaimsAreHeld /\ phase[o] \in Executing
  BY DEF WorkerInv, LegacyWorkerTypeOK, UpdateStart, Executing
<1>1. /\ UNCHANGED <<vars, journals>> /\ UNCHANGED <<memory, restoring, serving>>
      /\ phase[o] = "claimed" /\ serving[o] = {} /\ phase'[o] = "computing"
      /\ Body(o).op = "update"
  BY Goes DEF UpdateStart, MayCompute
<1>2. MemoryOK(o)'
  BY <1>1, StillMemory
<1>3. UpdateOK(o)'
  <2>1. PICK s \in Sids : s = Body(o).sid
    BY <1>1, BodyTypes
  <2>2. memory[o][s].revision = InputsOf(o) /\ Body(o).version = 1 + Len(memory[o][s].journal)
    BY <2>1 DEF UpdateStart, UpdateMayStart, Entry, VersionOf
  <2>3. memory[o][s] # NoItem
    BY <2>2, BodyTypes DEF NoItem
  <2>4. Len(memory[o][s].journal) \in Nat
    BY <2>3, TypedWhole, ItemFields DEF Typed, Journal
  <2>5. Body(o)' = Body(o) /\ InputsOf(o)' = InputsOf(o)
    BY <1>1, StillFacts
  <2>6. Len(memory[o][s].journal) + 1 = Body(o).version
    BY <2>2, <2>4
  <2>. QED BY <1>1, <2>1, <2>2, <2>3, <2>5, <2>6 DEF UpdateOK, NoItem
<1>4. ExecutionOK(o)'
  BY <1>1, <1>3 DEF ExecutionOK
<1>. QED BY <1>1, <1>2, <1>4, ExecutingOK DEF Executing

LEMMA UpdateAdoptOK ==
    ASSUME WorkerInv, NEW o \in LegacyOwners, UpdateAdopt(o)
    PROVE  ProcessOK(o)'
<1>. /\ LegacyWorkerTypeOK /\ LegacyTypeOK /\ ClaimsAreHeld /\ phase[o] \in Executing
     /\ ProcessOK(o)
  BY DEF WorkerInv, LegacyWorkerTypeOK, UpdateAdopt, Executing
<1>1. /\ UNCHANGED <<vars, journals>> /\ UNCHANGED <<restoring, serving>>
      /\ phase[o] = "computing" /\ phase'[o] = "adopted"
  BY Goes DEF UpdateAdopt
<1>2. UpdateOK(o)
  BY <1>1 DEF ProcessOK, ExecutionOK
<1>3. PICK z \in Sids : z = Body(o).sid
  BY <1>2, BodyTypes DEF UpdateOK
<1>4. /\ Body(o).op = "update" /\ memory[o][z] # NoItem
      /\ memory[o][z].revision = InputsOf(o)
      /\ Len(memory[o][z].journal) + 1 = Body(o).version
  BY <1>1, <1>2, <1>3 DEF UpdateOK
<1>5. memory[o][z] \in Item /\ memory[o][z].journal \in Journal
  BY <1>4, TypedWhole, ItemFields DEF Typed
<1>6. /\ memory'[o][z] = [memory[o][z] EXCEPT !.journal = Append(@, Held(o).job)]
      /\ \A s \in Sids \ {z} : memory'[o][s] = memory[o][s]
  BY <1>3 DEF UpdateAdopt, LegacyWorkerTypeOK
<1>7. /\ memory'[o][z].revision = InputsOf(o)
      /\ memory'[o][z].journal = Append(memory[o][z].journal, Held(o).job)
  BY <1>4, <1>5, <1>6 DEF Item
<1>8. memory'[o][z] # NoItem
  BY <1>7, BodyTypes DEF NoItem
<1>9. /\ sessions' = sessions /\ journals' = journals /\ owner' = owner
      /\ Held(o)' = Held(o) /\ Body(o)' = Body(o) /\ InputsOf(o)' = InputsOf(o)
  BY <1>1, StillFacts
<1>10. \A s \in Sids : memory[o][s] # NoItem =>
           /\ sessions[s].version > 0 => memory[o][s].revision = sessions[s].revision
           /\ Recent(o, s, memory[o][s].journal)
  BY <1>1 DEF ProcessOK, MemoryOK, Ahead
<1>11. UpdateOK(o)'
  <2>1. Recent(o, z, memory[o][z].journal)
    BY <1>4, <1>10
  <2>2. PICK copy \in Journal : copy = memory[o][z].journal
    BY <1>5
  <2>3. Recent(o, z, copy)'
    BY <1>9, <2>1, <2>2 DEF Recent
  <2>4. memory'[o][z].journal = Append(copy, Held(o).job) /\ Len(copy) + 1 = Body(o).version
    BY <1>4, <1>7, <2>2
  <2>. QED BY <1>1, <1>3, <1>4, <1>7, <1>8, <1>9, <2>3, <2>4 DEF UpdateOK, NoItem
<1>12. MemoryOK(o)'
  <2>1. Ahead(o, z)'
    BY <1>1, <1>3, <1>4, <1>9 DEF Ahead
  <2>2. sessions[z].version > 0 => memory'[o][z].revision = sessions[z].revision
    BY <1>4, <1>7, <1>10
  <2>3. ASSUME NEW s \in Sids, memory'[o][s] # NoItem
        PROVE  /\ sessions[s].version > 0 => memory'[o][s].revision = sessions[s].revision
               /\ Ahead(o, s)' \/ Recent(o, s, memory'[o][s].journal)
    BY <1>6, <1>10, <2>1, <2>2, <2>3
  <2>. QED BY <1>9, <2>3 DEF MemoryOK, Recent, NoItem
<1>13. ExecutionOK(o)'
  BY <1>1, <1>11 DEF ExecutionOK
<1>. QED BY <1>1, <1>12, <1>13, ExecutingOK DEF Executing

LEMMA ReadJournalOK ==
    ASSUME WorkerInv, NEW o \in LegacyOwners, ReadJournal(o)
    PROVE  ProcessOK(o)'
<1>. /\ LegacyWorkerTypeOK /\ LegacyTypeOK /\ ClaimsAreHeld /\ phase[o] \in Executing
     /\ ProcessOK(o)
  BY DEF WorkerInv, LegacyWorkerTypeOK, ReadJournal, Executing
<1>1. /\ UNCHANGED <<vars, journals>> /\ UNCHANGED <<memory, restoring, serving>>
      /\ phase[o] = "adopted" /\ phase'[o] = "publishing"
  BY Goes DEF ReadJournal
<1>2. UpdateOK(o)
  BY <1>1 DEF ProcessOK, ExecutionOK
<1>3. PICK s \in Sids : s = Body(o).sid
  BY <1>2, BodyTypes DEF UpdateOK
<1>4. /\ doing'[o] = [kind |-> "session", sid |-> s,
                      journal |-> Append(journals[s], Held(o).job)]
      /\ sessions[s].version > 0
  BY <1>3 DEF ReadJournal, LegacyWorkerTypeOK
<1>5. PICK read \in Journal : read = journals[s]
  BY DEF LegacyWorkerTypeOK
<1>6. PICK copy \in Journal : Len(copy) + 1 = Body(o).version /\ Recent(o, s, copy)
  BY <1>1, <1>2, <1>3 DEF UpdateOK
<1>7. Body(o).version <= Len(read) + 1
  <2>1. Len(copy) \in Nat /\ Len(read) \in Nat
    BY DEF Journal
  <2>. QED BY <1>5, <1>6, <2>1 DEF Recent
<1>8. /\ sessions' = sessions /\ journals' = journals
      /\ Held(o)' = Held(o) /\ Body(o)' = Body(o)
  BY <1>1, StillFacts
<1>9. UpdateOK(o)'
  BY <1>1, <1>2, StillUpdating
<1>10. Recent(o, s, read)'
  BY <1>5, <1>8 DEF Recent
<1>11. Body(o).op = "update"
  BY <1>2 DEF UpdateOK
<1>12. PublishingOK(o)'
  BY <1>3, <1>4, <1>5, <1>7, <1>8, <1>9, <1>10, <1>11 DEF PublishingOK
<1>13. MemoryOK(o)'
  BY <1>1, StillMemory
<1>14. ExecutionOK(o)'
  BY <1>1, <1>12 DEF ExecutionOK
<1>. QED BY <1>1, <1>13, <1>14, ExecutingOK DEF Executing

-----------------------------------------------------------------------------
(* The end of `execute`: a result, or an error and what it undoes.         *)

\* What is in memory is what has just been published.
LEMMA PublishedMemory ==
    ASSUME WorkerInv, NEW o \in LegacyOwners, Publishes(o), UNCHANGED memory
    PROVE  \A s \in Sids : memory[o][s] # NoItem =>
               /\ sessions'[s].version > 0 => memory[o][s].revision = sessions'[s].revision
               /\ Recent(o, s, memory[o][s].journal)'
<1>. /\ LegacyWorkerTypeOK /\ LegacyTypeOK /\ ClaimsAreHeld /\ phase[o] = "publishing"
     /\ ProcessOK(o)
  BY DEF WorkerInv, LegacyWorkerTypeOK, Publishes
<1>1. owner = o /\ owner' = owner
  BY ResultChanges DEF Publishes, row
<1>2. \A s \in Sids : memory[o][s] # NoItem =>
          /\ sessions[s].version > 0 => memory[o][s].revision = sessions[s].revision
          /\ Ahead(o, s) \/ Recent(o, s, memory[o][s].journal)
  BY DEF ProcessOK, MemoryOK
<1>3. ASSUME NEW s \in Sids, SessionSame(s), memory[o][s] # NoItem, ~ Ahead(o, s)
      PROVE  /\ sessions'[s].version > 0 => memory[o][s].revision = sessions'[s].revision
             /\ Recent(o, s, memory[o][s].journal)'
  BY <1>1, <1>2, <1>3 DEF SessionSame, Recent
<1>4. CASE Body(o).op \in {"run", "library"}
  <2>1. AllSame
    BY <1>4, ResultChanges DEF Publishes
  <2>. QED BY <1>3, <1>4, <2>1 DEF AllSame, Ahead
<1>5. CASE Body(o).op = "build"
  <2>1. PICK z \in Sids : BuildPublished(o, z) /\ OnlySession(z)
    BY <1>5, BuildIsPublished DEF Publishes
  <2>2. memory[o][z].revision = InputsOf(o) /\ memory[o][z].journal = <<>>
    BY <2>1 DEF BuildPublished
  <2>3. /\ memory[o][z].revision = sessions'[z].revision
        /\ Recent(o, z, memory[o][z].journal)'
    BY <2>1, <2>2 DEF BuildPublished, Recent
  <2>4. \A s \in Sids \ {z} : SessionSame(s) /\ ~ Ahead(o, s)
    BY <1>5, <2>1 DEF OnlySession, Ahead
  <2>. QED BY <1>3, <2>3, <2>4
<1>6. CASE Body(o).op = "update"
  <2>1. PICK z \in Sids : UpdatePublished(o, z) /\ OnlySession(z)
    BY <1>6, UpdateIsPublished DEF Publishes
  <2>2. /\ memory[o][z].revision = sessions'[z].revision
        /\ Recent(o, z, memory[o][z].journal)'
    BY <2>1 DEF UpdatePublished, Recent
  <2>3. \A s \in Sids \ {z} : SessionSame(s) /\ ~ Ahead(o, s)
    BY <2>1 DEF OnlySession, Ahead, UpdatePublished
  <2>. QED BY <1>3, <2>2, <2>3
<1>. QED BY <1>4, <1>5, <1>6, BodyTypes DEF Executing

LEMMA PublishOK ==
    ASSUME WorkerInv, NEW o \in LegacyOwners, Publish(o) \/ PublishUnnoticed(o)
    PROVE  ProcessOK(o)'
<1>. /\ LegacyWorkerTypeOK /\ LegacyTypeOK /\ ClaimsAreHeld /\ phase[o] = "publishing"
     /\ ProcessOK(o) /\ phase[o] \in Executing
  BY DEF WorkerInv, LegacyWorkerTypeOK, Publish, PublishUnnoticed, Executing
<1>1. /\ UNCHANGED <<memory, restoring, serving>> /\ phase'[o] \in {"idle", "failing"}
      /\ Publishes(o)
  BY Goes DEF Publish, PublishUnnoticed, Publishes
<1>2. MemoryOK(o)'
  BY <1>1, PublishedMemory DEF MemoryOK, NoItem
<1>3. serving[o] = {} /\ \A s \in Sids : restoring[o][s] = NoItem
  BY DEF ProcessOK, ServingOK, RestoringOK
<1>4. /\ owner = o /\ UNCHANGED row /\ jobs'[Held(o).job].status = "done"
      /\ \A i \in Jobs \ {Held(o).job} : jobs'[i] = jobs[i]
  BY <1>1, ResultChanges DEF Publishes
<1>5. Holds(o)' => Holds(o)
  BY <1>4 DEF Holds, LeaseLive, row
<1>6. ASSUME Holds(o)', NEW j \in Jobs, jobs'[j].status = "running", jobs'[j].owner = o
      PROVE  FALSE
  <2>1. j # Held(o).job
    BY <1>4, <1>6
  <2>2. jobs'[j] = jobs[j]
    BY <1>4, <2>1
  <2>. QED BY <1>5, <1>6, <2>1, <2>2 DEF ProcessOK, RunningOK
<1>7. RunningOK(o)'
  BY <1>1, <1>6 DEF RunningOK
<1>8. NewOK(o)' /\ ExecutionOK(o)' /\ ServingOK(o)' /\ RestoringOK(o)'
  BY <1>1, <1>3 DEF NewOK, ExecutionOK, ServingOK, RestoringOK, NoItem
<1>. QED BY <1>2, <1>7, <1>8 DEF ProcessOK

\* Nothing runs in the name of a process that has reported an error or was
\* refused, as long as it has the lease.
LEMMA NothingLeftRunning ==
    ASSUME WorkerInv, NEW o \in LegacyOwners, RecordError(o) \/ ErrorRefused(o),
           Holds(o)', NEW j \in Jobs, jobs'[j].status = "running", jobs'[j].owner = o
    PROVE  FALSE
<1>. /\ LegacyWorkerTypeOK /\ LegacyTypeOK /\ ClaimsAreHeld /\ ProcessOK(o)
     /\ phase[o] = "failing" /\ phase[o] \in Executing
  BY DEF WorkerInv, LegacyWorkerTypeOK, RecordError, ErrorRefused, Executing
<1>1. Held(o) \in claims /\ Held(o).owner = o
  BY ExecutingHolds
<1>2. Holds(o)
  BY DEF RecordError, ErrorRefused, CompleteError, Report, Forget, workspaceVars, Holds,
         LeaseLive
<1>3. \A i \in Jobs : jobs[i].status = "running" /\ jobs[i].owner = o =>
          Held(o).job = i /\ Current(Held(o))
  BY <1>2 DEF ProcessOK, RunningOK
<1>4. CASE RecordError(o)
  <2>1. jobs' = [jobs EXCEPT ![Held(o).job].status = "error"]
    BY <1>4 DEF RecordError, CompleteError
  <2>2. /\ jobs'[Held(o).job].status = "error"
        /\ \A i \in Jobs \ {Held(o).job} : jobs'[i] = jobs[i]
    BY <1>1, <2>1, ReportedRow
  <2>. QED BY <1>3, <2>2
<1>5. CASE ErrorRefused(o)
  <2>1. jobs' = jobs
    BY <1>5 DEF ErrorRefused, Forget, repoVars
  <2>2. ~ Current(Held(o))
    BY <1>1, <1>2, <1>5 DEF ErrorRefused, MayReport
  <2>. QED BY <1>3, <2>1, <2>2
<1>. QED BY <1>4, <1>5

LEMMA AbortedOK ==
    ASSUME WorkerInv, NEW o \in LegacyOwners, RecordError(o) \/ ErrorRefused(o)
    PROVE  ProcessOK(o)'
<1>. /\ LegacyWorkerTypeOK /\ LegacyTypeOK /\ ClaimsAreHeld /\ ProcessOK(o)
     /\ phase[o] = "failing" /\ phase[o] \in Executing
  BY DEF WorkerInv, LegacyWorkerTypeOK, RecordError, ErrorRefused, Executing
<1>1. Aborted(o) /\ UNCHANGED <<sessions, journals, owner>>
  BY DEF RecordError, ErrorRefused, CompleteError, Report, Forget, Aborted, workspaceVars,
         repoVars
<1>2. /\ phase'[o] \in {"recovering", "idle"} /\ UNCHANGED <<restoring, serving>>
      /\ \A s \in Sids : memory'[o][s] =
             IF s \in Touched(o) THEN NoItem ELSE memory[o][s]
  BY <1>1, Goes DEF Aborted, Restore, LegacyWorkerTypeOK
<1>3. serving[o] = {} /\ \A s \in Sids : restoring[o][s] = NoItem
  BY DEF ProcessOK, ServingOK, RestoringOK
<1>4. \A s \in Sids : memory[o][s] # NoItem /\ s \notin Touched(o) =>
          /\ sessions[s].version > 0 => memory[o][s].revision = sessions[s].revision
          /\ Recent(o, s, memory[o][s].journal)
  BY DEF ProcessOK, MemoryOK, Ahead, Touched
<1>5. MemoryOK(o)'
  <2>1. ASSUME NEW s \in Sids, memory'[o][s] # NoItem
        PROVE  memory'[o][s] = memory[o][s] /\ s \notin Touched(o)
    BY <1>2, <2>1
  <2>. QED BY <1>1, <1>4, <2>1 DEF MemoryOK, Recent, NoItem
<1>6. RunningOK(o)'
  BY <1>2, NothingLeftRunning DEF RunningOK
<1>7. NewOK(o)' /\ ExecutionOK(o)' /\ ServingOK(o)' /\ RestoringOK(o)'
  BY <1>2, <1>3 DEF NewOK, ExecutionOK, ServingOK, RestoringOK, NoItem
<1>. QED BY <1>5, <1>6, <1>7 DEF ProcessOK

\* What the invariant says of a process, after any step of any process.
LEMMA ProcessStep ==
    ASSUME WorkerInv, [LegacyWorkerNext]_workerVars, LegacyWorkerTypeOK', ClaimsAreHeld',
           NEW q \in LegacyOwners
    PROVE  ProcessOK(q)'
<1>. LegacyWorkerTypeOK /\ LegacyTypeOK
  BY DEF WorkerInv, LegacyWorkerTypeOK
<1>1. JobsKept
  BY WorkerUsesRepository, StepKeepsJobs
<1>2. CASE UNCHANGED workerVars
  <2>1. Unmoved(q) /\ UNCHANGED <<vars, journals>>
    BY <1>2 DEF workerVars, workVars, Unmoved
  <2>. QED BY <1>1, <2>1, NothingChanges, ProcessKept
<1>3. CASE Others
  <2>1. Unmoved(q)
    BY <1>3 DEF Others, workVars, Unmoved
  <2>. QED BY <1>1, <1>3, <2>1, OthersChange, ProcessKept DEF Others
<1>4. ASSUME NEW o \in LegacyOwners, Steps(o), o # q
      PROVE  ProcessOK(q)'
  BY <1>1, <1>4, OthersUnmoved, StepChanges, ProcessKept
<1>5. CASE Steps(q)
  <2>1. CASE Life(q)
    BY <1>1, <2>1, GoneOK, EndingOK, StartingOK, IdlingOK DEF Life, Quit, Crash
  <2>2. CASE Recovery(q)
    BY <2>2, RecoveringOK, EndingOK DEF Recovery
  <2>3. CASE Loop(q)
    BY <1>1, <2>3, EndingOK, ClaimedOK, ExpiringOK DEF Loop
  <2>4. CASE Execution(q)
    BY <1>1, <2>4, RefusedOK, ExpiringOK, BuildOK, UpdateStartOK, UpdateAdoptOK,
       ReadJournalOK, PublishOK, AbortedOK, EndingOK
    DEF Execution
  <2>. QED BY <1>5, <2>1, <2>2, <2>3, <2>4, EvaluatingOK DEF Steps
<1>. QED BY <1>2, <1>3, <1>4, <1>5 DEF LegacyWorkerNext, Steps

-----------------------------------------------------------------------------
(* The journals.                                                           *)

UpdatesDone(s) ==
    {j \in Jobs : jobs[j].status = "done"
         /\ jobs[j].request.body.op = "update"
         /\ jobs[j].request.body.sid = s}

Entries(s) == {journals[s][k] : k \in DOMAIN journals[s]}

LEMMA JournalJobs ==
    ASSUME LegacyWorkerTypeOK, NEW s \in Sids, SessionOK(s)
    PROVE  /\ Entries(s) = UpdatesDone(s)
           /\ \A k \in DOMAIN journals[s] :
                  journals[s][k] \in Jobs /\ jobs[journals[s][k]].status = "done"
<1>1. Entries(s) = UpdatesDone(s)
  BY DEF SessionOK, Entries, UpdatesDone
<1>2. \A k \in DOMAIN journals[s] : journals[s][k] \in UpdatesDone(s)
  BY <1>1 DEF Entries
<1>. QED BY <1>1, <1>2 DEF UpdatesDone

LEMMA SameUpdatesDone ==
    ASSUME JobsKept, NEW s \in Sids,
           \A j \in Jobs : jobs'[j].status = "done" /\ jobs'[j].request.body.op = "update"
               /\ jobs'[j].request.body.sid = s => jobs[j].status = "done"
    PROVE  UpdatesDone(s)' = UpdatesDone(s)
<1>1. ASSUME NEW j \in Jobs, jobs[j].status = "done"
      PROVE  jobs'[j].status = "done" /\ jobs'[j].request = jobs[j].request
  BY <1>1 DEF JobsKept
<1>2. ASSUME NEW j \in Jobs
      PROVE  j \in UpdatesDone(s)' <=> j \in UpdatesDone(s)
  BY <1>1 DEF UpdatesDone
<1>3. UpdatesDone(s) \subseteq Jobs /\ UpdatesDone(s)' \subseteq Jobs
  BY DEF UpdatesDone
<1>. QED BY <1>2, <1>3

LEMMA SessionKept ==
    ASSUME LegacyWorkerTypeOK, PublishedTogether, JobsKept, NEW s \in Sids, SessionOK(s),
           SessionSame(s),
           \A j \in Jobs : jobs'[j].status = "done" /\ jobs'[j].request.body.op = "update"
               /\ jobs'[j].request.body.sid = s => jobs[j].status = "done"
    PROVE  SessionOK(s)'
<1>1. /\ sessions'[s].version = sessions[s].version
      /\ sessions'[s].revision = sessions[s].revision
      /\ sessions'[s].manifest = sessions[s].manifest
      /\ journals'[s] = journals[s]
  BY DEF SessionSame
<1>2. \A j \in sessions[s].manifest : j \in Jobs /\ jobs'[j].request = jobs[j].request
  BY DEF PublishedTogether, JobsKept, LegacyWorkerTypeOK, LegacyTypeOK, SessionRow
<1>3. \A k \in DOMAIN journals[s] :
          jobs'[journals[s][k]].request = jobs[journals[s][k]].request
  BY JournalJobs DEF JobsKept
<1>4. UpdatesDone(s)' = Entries(s)'
  BY <1>1, JournalJobs, SameUpdatesDone DEF Entries
<1>. QED BY <1>1, <1>2, <1>3, <1>4 DEF SessionOK, UpdatesDone, Entries

LEMMA BuiltSession ==
    ASSUME WorkerInv, JobsKept, NEW o \in LegacyOwners, Publishes(o),
           Body(o).op = "build", NEW s \in Sids, BuildPublished(o, s)
    PROVE  SessionOK(s)'
<1>. /\ LegacyWorkerTypeOK /\ LegacyTypeOK /\ ClaimsAreHeld /\ phase[o] = "publishing"
     /\ phase[o] \in Executing /\ SessionOK(s)
  BY DEF WorkerInv, LegacyWorkerTypeOK, Publishes, Executing
<1>1. /\ jobs'[Held(o).job].request = jobs[Held(o).job].request
      /\ \A i \in Jobs \ {Held(o).job} : jobs'[i] = jobs[i]
  BY ResultChanges DEF Publishes
<1>2. /\ sessions'[s].version = 1 /\ sessions'[s].revision = InputsOf(o)
      /\ sessions'[s].manifest = {Held(o).job} /\ journals[s] = <<>> /\ journals'[s] = <<>>
  BY DEF BuildPublished
<1>3. UpdatesDone(s)' = UpdatesDone(s)
  BY <1>1, SameUpdatesDone DEF Body
<1>4. UpdatesDone(s)' = Entries(s)'
  BY <1>2, <1>3, JournalJobs DEF Entries
<1>5. \A j \in sessions'[s].manifest : jobs'[j].request.revision = sessions'[s].revision
  BY <1>1, <1>2 DEF InputsOf
<1>6. Len(journals'[s]) = 0 /\ DOMAIN journals'[s] = {}
  BY <1>2
<1>. QED BY <1>2, <1>4, <1>5, <1>6 DEF SessionOK, UpdatesDone, Entries

LEMMA UpdatedSession ==
    ASSUME WorkerInv, JobsKept, NEW o \in LegacyOwners, Publishes(o),
           Body(o).op = "update", NEW s \in Sids, UpdatePublished(o, s)
    PROVE  SessionOK(s)'
<1>. /\ LegacyWorkerTypeOK /\ LegacyTypeOK /\ ClaimsAreHeld /\ phase[o] = "publishing"
     /\ phase[o] \in Executing /\ SessionOK(s)
  BY DEF WorkerInv, LegacyWorkerTypeOK, Publishes, Executing
<1>. DEFINE h == Held(o).job
            J == journals[s]
<1>1. /\ jobs'[h].status = "done" /\ jobs'[h].request = jobs[h].request
      /\ \A i \in Jobs \ {h} : jobs'[i] = jobs[i]
  BY ResultChanges DEF Publishes
<1>2. h \in Jobs /\ J \in Seq(Jobs)
  BY BodyTypes DEF LegacyWorkerTypeOK, Journal
<1>3. /\ s = Body(o).sid /\ Body(o).version = 1 + Len(J)
      /\ sessions'[s].version = Body(o).version + 1
      /\ sessions[s].revision = InputsOf(o) /\ sessions'[s].revision = InputsOf(o)
      /\ sessions'[s].manifest = {h} /\ journals'[s] = Append(J, h)
      /\ sessions[s].version > 0
  BY <1>2 DEF UpdatePublished
<1>4. /\ Len(journals'[s]) = Len(J) + 1 /\ Len(J) \in Nat
      /\ DOMAIN J = 1 .. Len(J) /\ DOMAIN journals'[s] = 1 .. Len(J) + 1
      /\ journals'[s][Len(J) + 1] = h
      /\ \A k \in 1 .. Len(J) : journals'[s][k] = J[k]
  BY <1>2, <1>3
<1>5. sessions'[s].version = 1 + Len(journals'[s])
  BY <1>3, <1>4
<1>6. /\ jobs[h].request.body = [op |-> "update", sid |-> s, version |-> Len(J) + 1]
      /\ jobs[h].request.revision = sessions'[s].revision
  <2>1. Body(o) \in Bodies
    BY BodyTypes
  <2>2. Body(o) \in [op: {"update"}, sid: Sids, version: Nat]
    BY <2>1, LegacyWorkerAssumption
  <2>3. Body(o) = [op |-> "update", sid |-> Body(o).sid, version |-> Body(o).version]
    BY <2>2
  <2>4. Body(o).version = Len(J) + 1 /\ s = Body(o).sid
    BY <1>3, <1>4
  <2>5. Body(o) = [op |-> "update", sid |-> s, version |-> Len(J) + 1]
    BY <2>3, <2>4
  <2>6. Body(o) = jobs[h].request.body /\ InputsOf(o) = jobs[h].request.revision
    BY DEF Body, InputsOf
  <2>. QED BY <1>3, <2>5, <2>6
<1>7. \A j \in sessions'[s].manifest : jobs'[j].request.revision = sessions'[s].revision
  BY <1>1, <1>3, <1>6
<1>8. ASSUME NEW k \in DOMAIN journals'[s]
      PROVE  /\ jobs'[journals'[s][k]].request.body
                    = [op |-> "update", sid |-> s, version |-> k]
             /\ jobs'[journals'[s][k]].request.revision = sessions'[s].revision
  <2>1. CASE k = Len(J) + 1
    BY <1>1, <1>4, <1>6, <2>1
  <2>2. CASE k # Len(J) + 1
    <3>1. k \in DOMAIN J
      BY <1>4, <2>2
    <3>2. journals'[s][k] = J[k] /\ J[k] \in Jobs /\ jobs[J[k]].status = "done"
      BY <1>4, <3>1, JournalJobs
    <3>3. /\ jobs[J[k]].request.body = [op |-> "update", sid |-> s, version |-> k]
          /\ jobs[J[k]].request.revision = sessions[s].revision
      BY <3>1 DEF SessionOK
    <3>4. jobs'[J[k]].request = jobs[J[k]].request
      BY <3>2 DEF JobsKept
    <3>. QED BY <1>3, <3>2, <3>3, <3>4
  <2>. QED BY <2>1, <2>2
<1>9. UpdatesDone(s)' = UpdatesDone(s) \cup {h}
  <2>1. ASSUME NEW j \in Jobs \ {h}
        PROVE  j \in UpdatesDone(s)' <=> j \in UpdatesDone(s)
    BY <1>1, <2>1 DEF UpdatesDone
  <2>2. h \in UpdatesDone(s)'
    BY <1>1, <1>2, <1>6 DEF UpdatesDone
  <2>3. UpdatesDone(s) \subseteq Jobs /\ UpdatesDone(s)' \subseteq Jobs
    BY DEF UpdatesDone
  <2>. QED BY <1>2, <2>1, <2>2, <2>3
<1>10. Entries(s)' = Entries(s) \cup {h}
  <2>1. \A k \in DOMAIN J : journals'[s][k] = J[k] /\ k \in DOMAIN journals'[s]
    BY <1>4
  <2>2. \A k \in DOMAIN journals'[s] : k \in DOMAIN J \/ journals'[s][k] = h
    BY <1>4
  <2>3. Len(J) + 1 \in DOMAIN journals'[s]
    BY <1>4
  <2>. QED BY <1>4, <2>1, <2>2, <2>3 DEF Entries
<1>11. Entries(s)' = UpdatesDone(s)'
  BY <1>9, <1>10, JournalJobs
<1>12. sessions'[s].version # 0
  BY <1>4, <1>5
<1>. QED BY <1>5, <1>7, <1>8, <1>11, <1>12 DEF SessionOK, UpdatesDone, Entries

LEMMA SessionsStep ==
    ASSUME WorkerInv, [LegacyWorkerNext]_workerVars, NEW s \in Sids
    PROVE  SessionOK(s)'
<1>. /\ LegacyWorkerTypeOK /\ LegacyTypeOK /\ PublishedTogether /\ SessionOK(s)
     /\ ClaimsAreHeld
  BY DEF WorkerInv, LegacyWorkerTypeOK
<1>1. JobsKept
  BY WorkerUsesRepository, StepKeepsJobs
<1>2. NoneDone /\ AllSame => SessionOK(s)'
  BY <1>1, SessionKept DEF NoneDone, AllSame
<1>3. CASE UNCHANGED workerVars
  BY <1>2, <1>3, NothingChanges DEF workerVars
<1>4. CASE Others
  BY <1>2, <1>4, OthersChange DEF Others
<1>5. ASSUME NEW o \in LegacyOwners, Steps(o), ~ Publishes(o)
      PROVE  SessionOK(s)'
  BY <1>2, <1>5, StepChanges
<1>6. ASSUME NEW o \in LegacyOwners, Publishes(o)
      PROVE  SessionOK(s)'
  <2>. phase[o] \in Executing
    BY <1>6 DEF Publishes, Executing
  <2>1. /\ jobs'[Held(o).job].request = jobs[Held(o).job].request
        /\ \A i \in Jobs \ {Held(o).job} : jobs'[i] = jobs[i]
        /\ Body(o).op \in {"run", "library"} => AllSame
    BY <1>6, ResultChanges DEF Publishes
  <2>2. ASSUME SessionSame(s), Body(o).op # "update" \/ Body(o).sid # s
        PROVE  SessionOK(s)'
    <3>1. \A j \in Jobs : jobs'[j].status = "done" /\ jobs'[j].request.body.op = "update"
              /\ jobs'[j].request.body.sid = s => jobs[j].status = "done"
      BY <2>1, <2>2 DEF Body
    <3>. QED BY <1>1, <2>2, <3>1, SessionKept
  <2>3. CASE Body(o).op \in {"run", "library"}
    BY <2>1, <2>2, <2>3 DEF AllSame
  <2>4. CASE Body(o).op = "build"
    <3>1. PICK z \in Sids : BuildPublished(o, z) /\ OnlySession(z)
      BY <1>6, <2>4, BuildIsPublished DEF Publishes
    <3>2. z = s => SessionOK(s)'
      BY <1>1, <1>6, <2>4, <3>1, BuiltSession
    <3>. QED BY <2>2, <2>4, <3>1, <3>2 DEF OnlySession
  <2>5. CASE Body(o).op = "update"
    <3>1. PICK z \in Sids : UpdatePublished(o, z) /\ OnlySession(z)
      BY <1>6, <2>5, UpdateIsPublished DEF Publishes
    <3>2. z = s => SessionOK(s)'
      BY <1>1, <1>6, <2>5, <3>1, UpdatedSession
    <3>. QED BY <2>2, <3>1, <3>2 DEF OnlySession, UpdatePublished
  <2>. QED BY <2>3, <2>4, <2>5, BodyTypes
<1>. QED BY <1>3, <1>4, <1>5, <1>6 DEF LegacyWorkerNext, Steps

-----------------------------------------------------------------------------
(* Sessions that have no row yet, and the whole invariant.                 *)

\* What is new in a process's memory has a row, or no process had it.
LEMMA MemoryStep ==
    ASSUME WorkerInv, LegacyWorkerNext, NEW q \in LegacyOwners, NEW s \in Sids,
           memory'[q][s] # NoItem
    PROVE  \/ memory[q][s] # NoItem
           \/ sessions[s].version > 0
           \/ Build(q) /\ (\A o \in LegacyOwners : memory[o][s] = NoItem)
<1>. LegacyWorkerTypeOK /\ ClaimsAreHeld /\ ProcessOK(q) /\ LegacyTypeOK
  BY DEF WorkerInv, LegacyWorkerTypeOK
<1>1. CASE Others \/ \E o \in LegacyOwners : Steps(o) /\ o # q
  BY <1>1, OthersUnmoved DEF Others, workVars, Unmoved
<1>2. CASE Steps(q)
  <2>1. CASE UNCHANGED memory \/ Gone(q)
    BY <1>2, <2>1 DEF Gone, NoItems, LegacyWorkerTypeOK
  <2>2. CASE RecoverRead(q)
    BY <2>2 DEF RecoverRead, NoItems, LegacyWorkerTypeOK
  <2>3. ASSUME NEW z \in Sids, RecoverSession(q, z)
        PROVE  memory[q][s] # NoItem \/ sessions[s].version > 0
    BY <2>3 DEF RecoverSession, LegacyWorkerTypeOK, ProcessOK, RestoringOK
  <2>4. CASE Claimed(q) \/ ClaimedNothing(q)
    BY <2>4 DEF Claimed, ClaimedNothing, StillOpen, LegacyWorkerTypeOK
  <2>5. ASSUME NEW z \in Sids, BuildExpires(q, z)
        PROVE  memory[q][s] # NoItem
    BY <2>5 DEF BuildExpires, LegacyWorkerTypeOK
  <2>6. CASE Build(q)
    <3>1. PICK z \in FreshSids :
              memory' = [memory EXCEPT ![q][z] = [revision |-> InputsOf(q), journal |-> <<>>]]
      BY <2>6 DEF Build
    <3>2. z \in Sids /\ \A o \in LegacyOwners : memory[o][z] = NoItem
      BY DEF FreshSids
    <3>3. s # z => memory'[q][s] = memory[q][s]
      BY <3>1, <3>2 DEF LegacyWorkerTypeOK
    <3>. QED BY <2>6, <3>2, <3>3
  <2>7. CASE UpdateAdopt(q)
    <3>1. phase[q] = "computing" /\ phase[q] \in Executing
      BY <2>7 DEF UpdateAdopt, Executing
    <3>2. UpdateOK(q) /\ Body(q).op = "update"
      BY <3>1 DEF ProcessOK, ExecutionOK, UpdateOK
    <3>3. PICK z \in Sids : z = Body(q).sid /\ memory[q][z] # NoItem
      BY <3>1, <3>2, BodyTypes DEF UpdateOK
    <3>4. \A y \in Sids \ {z} : memory'[q][y] = memory[q][y]
      BY <2>7, <3>3 DEF UpdateAdopt, LegacyWorkerTypeOK
    <3>. QED BY <3>3, <3>4
  <2>8. CASE Aborted(q)
    BY <2>8 DEF Aborted, Restore, LegacyWorkerTypeOK
  <2>9. \/ UNCHANGED memory \/ Gone(q) \/ RecoverRead(q)
        \/ (\E z \in Sids : RecoverSession(q, z)) \/ Claimed(q) \/ ClaimedNothing(q)
        \/ (\E z \in Sids : BuildExpires(q, z)) \/ Build(q) \/ UpdateAdopt(q) \/ Aborted(q)
    <3>1. CASE Life(q)
      BY <3>1 DEF Life, Start, AskRoute, Lead, LeadRefused, Quit, Crash, RollBackDead, Beat,
                  BeatRefused, End, workVars
    <3>2. CASE Recovery(q) \/ Requests(q)
      BY <3>2 DEF Recovery, Recovered, RecoverFailed, Requests, EvalStart, EvalEnd, End
    <3>3. CASE Loop(q)
      BY <3>3 DEF Loop, Stopped, Unowned, ClaimBroken, LoopBreaks, End
    <3>4. CASE Execution(q)
      BY <3>4 DEF Execution, Compute, ComputeRefused, UpdateStart, ReadJournal,
                  ReadJournalRefused, Publish, PublishFailed, PublishFailedEarly,
                  PublishUnnoticed, RecordError, ErrorRefused, ErrorBroken, LoopBreaks, End
    <3>. QED BY <1>2, <3>1, <3>2, <3>3, <3>4 DEF Steps
  <2>. QED BY <2>1, <2>2, <2>3, <2>4, <2>5, <2>6, <2>7, <2>8, <2>9
<1>. QED BY <1>1, <1>2 DEF LegacyWorkerNext, Steps

LEMMA UnsavedStep ==
    ASSUME WorkerInv, [LegacyWorkerNext]_workerVars
    PROVE  UnsavedIsOwn'
<1>. LegacyWorkerTypeOK /\ LegacyTypeOK /\ UnsavedIsOwn /\ ClaimsAreHeld
  BY DEF WorkerInv, LegacyWorkerTypeOK
<1>1. ASSUME NEW s \in Sids, sessions'[s].version = 0
      PROVE  sessions[s].version = 0
  <2>1. sessions[s].version \in Nat
    BY DEF LegacyTypeOK, SessionRow
  <2>2. AllSame => sessions[s].version = 0
    BY <1>1 DEF AllSame, SessionSame
  <2>3. CASE UNCHANGED workerVars
    BY <2>2, <2>3, NothingChanges DEF workerVars
  <2>4. CASE Others
    BY <2>2, <2>4, OthersChange DEF Others
  <2>5. ASSUME NEW o \in LegacyOwners, Steps(o), ~ Publishes(o)
        PROVE  sessions[s].version = 0
    BY <2>2, <2>5, StepChanges
  <2>6. ASSUME NEW o \in LegacyOwners, Publishes(o)
        PROVE  sessions[s].version = 0
    <3>. phase[o] = "publishing" /\ phase[o] \in Executing
      BY <2>6 DEF Publishes, Executing
    <3>1. CASE Body(o).op \in {"run", "library"}
      BY <2>2, <2>6, <3>1, ResultChanges DEF Publishes
    <3>2. CASE Body(o).op = "build"
      <4>1. PICK z \in Sids : BuildPublished(o, z) /\ OnlySession(z)
        BY <2>6, <3>2, BuildIsPublished DEF Publishes
      <4>. QED BY <1>1, <4>1 DEF BuildPublished, OnlySession, SessionSame
    <3>3. CASE Body(o).op = "update"
      <4>1. PICK z \in Sids : UpdatePublished(o, z) /\ OnlySession(z)
        BY <2>6, <3>3, UpdateIsPublished DEF Publishes
      <4>2. sessions'[z].version = Body(o).version + 1 /\ Body(o).version \in Nat
        BY <3>3, <4>1, BodyTypes DEF UpdatePublished
      <4>3. z # s
        BY <1>1, <4>2
      <4>. QED BY <1>1, <4>1, <4>3 DEF OnlySession, SessionSame
    <3>. QED BY <3>1, <3>2, <3>3, BodyTypes
  <2>. QED BY <2>3, <2>4, <2>5, <2>6 DEF LegacyWorkerNext, Steps
<1>2. CASE UNCHANGED workerVars
  <2>1. UNCHANGED memory
    BY <1>2 DEF workerVars, workVars
  <2>. QED BY <1>1, <2>1 DEF UnsavedIsOwn, NoItem
<1>3. CASE LegacyWorkerNext
  <2>1. ASSUME NEW s \in Sids, sessions'[s].version = 0,
               NEW o \in LegacyOwners, NEW q \in LegacyOwners, o # q,
               memory'[o][s] # NoItem, memory'[q][s] # NoItem
        PROVE  FALSE
    <3>1. ~ (sessions[s].version > 0)
      BY <1>1, <2>1
    <3>2. memory[o][s] # NoItem \/ (Build(o) /\ \A p \in LegacyOwners : memory[p][s] = NoItem)
      BY <1>3, <2>1, <3>1, MemoryStep
    <3>3. memory[q][s] # NoItem \/ (Build(q) /\ \A p \in LegacyOwners : memory[p][s] = NoItem)
      BY <1>3, <2>1, <3>1, MemoryStep
    <3>4. memory[o][s] # NoItem /\ memory[q][s] # NoItem => FALSE
      BY <1>1, <2>1 DEF UnsavedIsOwn
    <3>5. ASSUME Build(o) PROVE memory'[q] = memory[q]
      BY <2>1, <3>5, OthersUnmoved DEF Steps, Execution, Unmoved
    <3>6. ASSUME Build(q) PROVE memory'[o] = memory[o]
      BY <2>1, <3>6, OthersUnmoved DEF Steps, Execution, Unmoved
    <3>. QED BY <2>1, <3>2, <3>3, <3>4, <3>5, <3>6
  <2>. QED BY <2>1 DEF UnsavedIsOwn, NoItem
<1>. QED BY <1>2, <1>3

LEMMA WorkerInvStep == WorkerInv /\ [LegacyWorkerNext]_workerVars => WorkerInv'
<1>. SUFFICES ASSUME WorkerInv, [LegacyWorkerNext]_workerVars
              PROVE  WorkerInv'
  OBVIOUS
<1>1. LegacyWorkerTypeOK'
  BY WorkerTypeStep
<1>2. PublishedTogether'
  BY WorkerUsesRepository, PublishedStep DEF WorkerInv, LegacyWorkerTypeOK
<1>3. ClaimsAreHeld' /\ UnsavedIsOwn'
  BY ClaimsHeldStep, UnsavedStep
<1>4. \A s \in Sids : SessionOK(s)'
  BY SessionsStep
<1>5. \A o \in LegacyOwners : ProcessOK(o)'
  BY <1>1, <1>3, ProcessStep
<1>. QED BY <1>1, <1>2, <1>3, <1>4, <1>5 DEF WorkerInv

LEMMA WorkerInvInit == LegacyWorkerInit => WorkerInv
<1>. SUFFICES ASSUME LegacyWorkerInit PROVE WorkerInv
  OBVIOUS
<1>1. /\ Init /\ claims = {} /\ jobs = [j \in Jobs |-> NoJob]
      /\ sessions = [s \in Sids |-> NoRow]
      /\ journals = [s \in Sids |-> <<>>]
      /\ phase = [o \in LegacyOwners |-> "down"]
      /\ stopping = [o \in LegacyOwners |-> FALSE]
      /\ memory = [o \in LegacyOwners |-> NoItems]
      /\ restoring = [o \in LegacyOwners |-> NoItems]
      /\ doing = [o \in LegacyOwners |-> Nothing]
      /\ serving = [o \in LegacyOwners |-> {}]
  BY DEF LegacyWorkerInit, Init
<1>2. LegacyTypeOK
  BY <1>1, InitTyped
<1>3. Typed
  BY <1>1, ItemTypes DEF Typed
<1>4. LegacyWorkerTypeOK
  BY <1>1, <1>2, <1>3, TypedWhole DEF Phases
<1>5. PublishedTogether
  BY <1>1 DEF Init, PublishedTogether, NoRow
<1>6. ClaimsAreHeld
  BY <1>1 DEF ClaimsAreHeld, Executing
<1>7. UnsavedIsOwn
  BY <1>1 DEF UnsavedIsOwn, NoItems
<1>8. ASSUME NEW s \in Sids
      PROVE  SessionOK(s)
  <2>1. sessions[s].version = 0 /\ sessions[s].manifest = {} /\ journals[s] = <<>>
    BY <1>1 DEF NoRow
  <2>2. UpdatesDone(s) = {}
    BY <1>1 DEF UpdatesDone, NoJob
  <2>3. DOMAIN journals[s] = {}
    BY <2>1
  <2>4. Entries(s) = {}
    BY <2>3 DEF Entries
  <2>. QED BY <2>1, <2>2, <2>3, <2>4 DEF SessionOK, UpdatesDone, Entries
<1>9. ASSUME NEW o \in LegacyOwners
      PROVE  ProcessOK(o)
  BY <1>1 DEF ProcessOK, NewOK, RestoringOK, MemoryOK, ExecutionOK, ServingOK, RunningOK,
              NoItems, NoJob
<1>. QED BY <1>4, <1>5, <1>6, <1>7, <1>8, <1>9 DEF WorkerInv

\* The invariant holds of every reachable state of the processes.
LEMMA WorkerInvariant == LegacyWorkerSpec => []WorkerInv
BY WorkerInvInit, WorkerInvStep, PTL DEF LegacyWorkerSpec

-----------------------------------------------------------------------------
(* Theorems.                                                               *)

\* Rows, journals, memories and what the loops are about to publish have
\* their types in every reachable state.
THEOREM LegacyWorkersTyped == LegacyWorkerSpec => []LegacyWorkerTypeOK
<1>1. WorkerInv => LegacyWorkerTypeOK
  BY DEF WorkerInv
<1>. QED BY <1>1, WorkerInvariant, PTL

\* A worker process only does to the repository what LegacyRepo lets its
\* callers do; in particular it publishes session versions and no others.
THEOREM PythonWorkersUseTheRepository == LegacyWorkerSpec => Spec
<1>1. LegacyWorkerInit => Init
  BY DEF LegacyWorkerInit
<1>2. WorkerInv /\ [LegacyWorkerNext]_workerVars => [Next]_vars
  BY WorkerUsesRepository
<1>. QED BY <1>1, <1>2, WorkerInvariant, PTL DEF LegacyWorkerSpec, Spec

\* Hence what the repository promises holds of the processes: attempts are
\* fenced, results stay together with what they published, and a session
\* advances from the inputs at the head and under the lease.
THEOREM PythonWorkersAreFenced ==
    LegacyWorkerSpec => [](LegacyOneCurrentAttempt /\ PublishedTogether) /\ SessionsAdvance
BY PythonWorkersUseTheRepository, LegacyAttemptsAreFenced, LegacyResultsStayTogether,
   SessionVersionsAdvance, PTL

\* An allocation is evaluated against the session as its last committed
\* update left it, never against a candidate.
THEOREM CandidatesAreNotServed == LegacyWorkerSpec => []ServesWhatIsCommitted
<1>1. WorkerInv => ServesWhatIsCommitted
  <2>. SUFFICES ASSUME WorkerInv, NEW o \in LegacyOwners, NEW s \in Sids,
                       memory[o][s] # NoItem, Entry(o, s, memory[o][s].revision)
                PROVE  /\ \A e \in serving[o] : e[1] = s => e[2] = journals[s]
                       /\ Free(o) => memory[o][s].journal = journals[s]
    BY DEF ServesWhatIsCommitted
  <2>1. owner = o
    BY DEF Entry, AssertCurrent, Holds
  <2>2. \A e \in serving[o] : e[1] = s => e[2] = journals[s]
    BY <2>1 DEF WorkerInv, ProcessOK, ServingOK
  <2>3. Free(o) => Recent(o, s, memory[o][s].journal)
    BY DEF WorkerInv, ProcessOK, MemoryOK, Free, Ahead
  <2>. QED BY <2>1, <2>2, <2>3 DEF Recent
<1>. QED BY <1>1, WorkerInvariant, PTL

\* The journal of a session holds each of its reported updates once, in the
\* order in which they apply, and they all apply to the inputs it was built of.
THEOREM JournalsAreComplete == LegacyWorkerSpec => []JournalsReplay
<1>1. WorkerInv => JournalsReplay
  <2>. SUFFICES ASSUME WorkerInv, NEW s \in Sids, sessions[s].version > 0
                PROVE  /\ sessions[s].version = 1 + Len(journals[s])
                       /\ \A j \in sessions[s].manifest :
                              jobs[j].request.revision = sessions[s].revision
                       /\ \A k \in DOMAIN journals[s] :
                              /\ jobs[journals[s][k]].request.body
                                     = [op |-> "update", sid |-> s, version |-> k]
                              /\ jobs[journals[s][k]].request.revision
                                     = sessions[s].revision
                       /\ {j \in Jobs : jobs[j].status = "done"
                               /\ jobs[j].request.body.op = "update"
                               /\ jobs[j].request.body.sid = s}
                              = {journals[s][k] : k \in DOMAIN journals[s]}
    BY DEF JournalsReplay
  <2>. QED BY DEF WorkerInv, SessionOK
<1>. QED BY <1>1, WorkerInvariant, PTL

\* A loop that is about to claim has left no job of its own running, on any
\* path out of `execute` and whichever replies were lost.
THEOREM LoopsLeaveNoJob == LegacyWorkerSpec => []NoStrandedLegacyJob
<1>1. WorkerInv => NoStrandedLegacyJob
  BY DEF WorkerInv, ProcessOK, RunningOK, NoStrandedLegacyJob, Executing
<1>. QED BY <1>1, WorkerInvariant, PTL

==============================================================================
