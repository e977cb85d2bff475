---------------------------- MODULE Delivery_proofs ----------------------------
(***************************************************************************)
(* Proofs about the object store, its publishers and its collection, and   *)
(* then about the delivery to a catalog: for any number of writers,        *)
(* documents, jobs and parts, of publishers and tables, and of commits of  *)
(* others.                                                                 *)
(*                                                                         *)
(* A publisher relies on objects that no row names yet, so that the        *)
(* inductive invariant says of every task what it has put already, and     *)
(* that the collector runs only when nobody relies on anything but the     *)
(* rows.  A marker is set once and never moved, which is what lets a       *)
(* publisher that starts again take it for the receipt of the commit it    *)
(* did not see succeed.                                                    *)
(***************************************************************************)
EXTENDS Delivery, FiniteSetTheorems, TLAPS

-----------------------------------------------------------------------------
(* What an object refers to.                                               *)

LEMMA KindsOfRefs ==
    /\ \A d : Refs(Document(d)) = {}
    /\ \A n, S : Refs(Snapshot(n, S)) = {Document(d) : d \in S}
    /\ \A j : Refs(Request(j)) = {}
    /\ \A c : Refs(Part(c)) = {}
    /\ \A j, r : Refs(DeliveryReceipt(j, r)) = {}
    /\ \A j : Refs(Manifest(j)) =
                  {Part(c) : c \in PartsOf[j]}
                  \cup (IF j \in NativeJobs THEN {Request(j)} ELSE {})
BY DEF Refs, Document, Snapshot, Request, Part, DeliveryReceipt, Manifest

\* A set is in the store with all it refers to when each of its objects is.
LEMMA ClosureWithin ==
    ASSUME NEW S, NEW P
    PROVE  Closure(S) \subseteq P <=>
               \A o \in S : o \in P /\ Refs(o) \subseteq P
BY DEF Closure

LEMMA ClosureOfOne == \A o : Closure({o}) = {o} \cup Refs(o)
BY DEF Closure

-----------------------------------------------------------------------------
(* The inductive invariant.                                                *)

Snapshots == {"snapshot"} \X Nat \X SUBSET Documents

Task ==
    {Idle}
    \cup [kind : {"document"}, name : Documents, expected : Nat,
          todo : SUBSET {Document(d) : d \in Documents}]
    \cup [kind : {"snapshot"}, row : Snapshots, todo : SUBSET Snapshots,
          expected : Nat]
    \cup [kind : {"request"}, job : Jobs, todo : SUBSET {Request(j) : j \in Jobs}]
    \cup [kind : {"result"}, job : Jobs, todo : SUBSET {Part(c) : c \in Parts}]
    \cup [kind : {"manifest", "verified"}, job : Jobs,
          todo : SUBSET {Manifest(j) : j \in Jobs}]

\* Every variable, each in its range.
StorageTypeOK ==
    /\ objects \in [Present -> {"intact", "damaged"}]
    /\ revisions \in Seq(Snapshots) /\ Len(revisions) >= 1
    /\ jobs \in [Jobs -> {"absent", "active", "done", "error"}]
    /\ \A r \in delivered : Refs(r.object) = {}
    /\ tasks \in [Writers -> Task]
    /\ hurt = [w \in Writers |-> hurt[w]]
    /\ damages \in 0 .. MaxDamage
    /\ collector \in [at : {"idle", "deleting", "failed"}, doomed : SUBSET Present]

\* What a task takes to be in the store once its own objects are put.
RestsOn(task) ==
    CASE task.kind = "document" -> {Document(task.name)}
      [] task.kind = "snapshot" -> Closure({task.row})
      [] task.kind = "request" -> {Request(task.job)}
      [] task.kind = "result" ->
             {Request(task.job)} \cup {Part(c) : c \in PartsOf[task.job]}
      [] task.kind \in {"manifest", "verified"} ->
             {Request(task.job)} \cup Closure({Manifest(task.job)})
      [] OTHER -> {}

Prepared(w) ==
    tasks[w] # Idle => RestsOn(tasks[w]) \subseteq Present \cup tasks[w].todo

\* A result that was read back is intact up to what was damaged since.
StillVerified(w) ==
    tasks[w].kind = "verified" =>
        /\ tasks[w].todo = {}
        /\ tasks[w].job \in NativeJobs
        /\ Intact(Closure({Manifest(tasks[w].job)}) \ hurt[w])

\* The new snapshot adds a document to the revision it expects to follow.
ExtendsBase(w) ==
    tasks[w].kind = "snapshot" =>
        /\ tasks[w].expected <= LastRevision
        /\ tasks[w].row[2] = tasks[w].expected + 1
        /\ \E d \in Documents :
               tasks[w].row[3] = revisions[tasks[w].expected + 1][3] \cup {d}

WriterOK(w) == Prepared(w) /\ StillVerified(w) /\ ExtendsBase(w)

\* The collector deletes among publishers at rest, and nothing a row names.
CollectsAlone ==
    ~ Stopped =>
        /\ \A w \in Writers : tasks[w] = Idle
        /\ collector.doomed \cap Closure(Roots) = {}

StorageInv ==
    /\ StorageTypeOK
    /\ \A w \in Writers : WriterOK(w)
    /\ CollectsAlone
    /\ NothingDangles
    /\ EachRevisionAddsOne

-----------------------------------------------------------------------------
(* Lemmas on the parts of the invariant.                                   *)

LEMMA KindsOfRestsOn ==
    ASSUME NEW t
    PROVE  /\ t.kind = "none" => RestsOn(t) = {}
           /\ t.kind = "document" => RestsOn(t) = {Document(t.name)}
           /\ t.kind = "snapshot" => RestsOn(t) = Closure({t.row})
           /\ t.kind = "request" => RestsOn(t) = {Request(t.job)}
           /\ t.kind = "result" =>
                  RestsOn(t) = {Request(t.job)} \cup {Part(c) : c \in PartsOf[t.job]}
           /\ t.kind \in {"manifest", "verified"} =>
                  RestsOn(t) = {Request(t.job)} \cup Closure({Manifest(t.job)})
BY DEF RestsOn

\* What is said of a writer's task stays true while the writer is at rest in
\* it, the store grows, and rows are added to the revisions.
LEMMA WriterKept ==
    ASSUME NEW w \in Writers, WriterOK(w), tasks[w] \in Task,
           UNCHANGED tasks[w], Present \subseteq Present',
           hurt[w] \subseteq hurt'[w],
           tasks[w].kind = "verified" =>
               \A o \in Present \ hurt'[w] :
                   objects[o] = "intact" => objects'[o] = "intact",
           revisions \in Seq(Snapshots), revisions' \in Seq(Snapshots),
           Len(revisions) <= Len(revisions'),
           \A i \in 1 .. Len(revisions) : revisions'[i] = revisions[i]
    PROVE  WriterOK(w)'
<1>1. Prepared(w)'
  BY DEF WriterOK, Prepared
<1>2. StillVerified(w)'
  BY DEF WriterOK, StillVerified, Intact
<1>3. ExtendsBase(w)'
  <2> SUFFICES ASSUME tasks[w].kind = "snapshot"
               PROVE  ExtendsBase(w)'
    BY DEF ExtendsBase
  <2>1. tasks[w].expected \in Nat
    BY DEF Task, Idle
  <2>2. /\ tasks[w].expected <= LastRevision
        /\ tasks[w].row[2] = tasks[w].expected + 1
        /\ \E d \in Documents :
               tasks[w].row[3] = revisions[tasks[w].expected + 1][3] \cup {d}
    BY DEF WriterOK, ExtendsBase
  <2> QED
    BY <2>1, <2>2, SMTT(30) DEF ExtendsBase, LastRevision
<1> QED
  BY <1>1, <1>2, <1>3 DEF WriterOK

\* Rows that name what is in the store are all there is to dangle.
LEMMA RowsNameWhatIsStored ==
    ASSUME NothingDangles, Present \subseteq Present',
           \A o \in Roots' \ Roots : o \in Present' /\ Refs(o) \subseteq Present'
    PROVE  NothingDangles'
<1>1. \A o \in Roots : o \in Present /\ Refs(o) \subseteq Present
  BY ClosureWithin DEF NothingDangles
<1>2. \A o \in Roots' : o \in Present' /\ Refs(o) \subseteq Present'
  BY <1>1
<1>3. Closure(Roots') \subseteq Present'
  BY <1>2, ClosureWithin
<1> QED
  BY <1>3 DEF NothingDangles, Closure, Refs

\* While the collector does not delete, the store only grows, and the rest of
\* the invariant is about the writers that took a step and the new rows.
LEMMA RunningStep ==
    ASSUME StorageInv, Stopped, UNCHANGED collector, StorageTypeOK',
           Present \subseteq Present',
           \A o \in Present : objects[o] = "intact" => objects'[o] = "intact",
           Len(revisions) <= Len(revisions'),
           \A i \in 1 .. Len(revisions) : revisions'[i] = revisions[i],
           \A v \in Writers : WriterOK(v)' \/ UNCHANGED <<tasks[v], hurt[v]>>,
           \A o \in Roots' \ Roots : o \in Present' /\ Refs(o) \subseteq Present',
           EachRevisionAddsOne'
    PROVE  StorageInv'
<1>1. ASSUME NEW v \in Writers PROVE WriterOK(v)'
  <2>1. CASE WriterOK(v)'
    BY <2>1
  <2>2. CASE UNCHANGED <<tasks[v], hurt[v]>>
    <3>1. tasks[v] \in Task /\ WriterOK(v)
      BY DEF StorageInv, StorageTypeOK
    <3>2. /\ revisions \in Seq(Snapshots) /\ revisions' \in Seq(Snapshots)
          /\ \A o \in Present \ hurt'[v] :
                 objects[o] = "intact" => objects'[o] = "intact"
      BY DEF StorageInv, StorageTypeOK
    <3> QED
      BY <2>2, <3>1, <3>2, WriterKept
  <2> QED
    BY <2>1, <2>2
<1>2. CollectsAlone'
  BY DEF CollectsAlone, Stopped
<1>3. NothingDangles'
  BY RowsNameWhatIsStored DEF StorageInv
<1> QED
  BY <1>1, <1>2, <1>3 DEF StorageInv

-----------------------------------------------------------------------------
(* Type correctness.                                                       *)

\* A write adds one object to the store, intact, or changes nothing.
LEMMA PutAddsOne ==
    ASSUME NEW t, NEW o, Put(t, o), objects \in [Present -> {"intact", "damaged"}]
    PROVE  /\ Present' = Present \cup {o}
           /\ objects' \in [Present' -> {"intact", "damaged"}]
           /\ \A x \in Present : objects[x] = "intact" => objects'[x] = "intact"
<1>1. CASE Reused(t, o)
  BY <1>1 DEF Put, Reused, Present
<1>2. CASE ~ Reused(t, o)
  <2>1. objects' = Written(o)
    BY <1>2 DEF Put
  <2> QED
    BY <2>1 DEF Written, Present
<1> QED
  BY <1>1, <1>2

LEMMA StorageInitTyped == Init => StorageTypeOK
<1> SUFFICES ASSUME Init PROVE StorageTypeOK
  OBVIOUS
<1>1. Present = {Snapshot(0, {})} /\ objects \in [Present -> {"intact", "damaged"}]
  BY DEF Init, Present
<1>2. revisions \in Seq(Snapshots) /\ Len(revisions) >= 1
  BY DEF Init, Snapshot, Snapshots
<1>3. tasks \in [Writers -> Task] /\ hurt = [w \in Writers |-> hurt[w]]
  BY DEF Init, Task
<1> QED
  BY <1>1, <1>2, <1>3, StorageAssumption DEF Init, StorageTypeOK

\* A step of one writer.
WriterStep(w) ==
    \/ \E d \in Documents, n \in 0 .. MaxRevision : BeginDocument(w, d, n)
    \/ \E j \in Jobs : BeginRequest(w, j) \/ BeginResult(w, j)
    \/ ReadBase(w) \/ PutNext(w) \/ WriteManifest(w) \/ Reread(w)
    \/ CommitSnapshot(w) \/ CommitRequest(w) \/ CommitResult(w) \/ GiveUp(w)

LEMMA WritersTyped ==
    ASSUME StorageTypeOK, NEW w \in Writers, WriterStep(w)
    PROVE  StorageTypeOK'
<1> USE DEF StorageTypeOK
<1>1. tasks[w] \in Task
  OBVIOUS
<1>2. ASSUME NEW task \in Task, Begin(w, task) PROVE StorageTypeOK'
  BY <1>2 DEF Begin, rowVars, Present
<1>3. ASSUME NEW d \in Documents, NEW n \in 0 .. MaxRevision, BeginDocument(w, d, n)
      PROVE  StorageTypeOK'
  <2>1. [kind |-> "document", name |-> d, expected |-> n, todo |-> {Document(d)}]
            \in Task
    BY StorageAssumption DEF Task
  <2> QED
    BY <1>2, <1>3, <2>1 DEF BeginDocument
<1>4. ASSUME NEW j \in Jobs, BeginRequest(w, j) PROVE StorageTypeOK'
  <2>1. [kind |-> "request", job |-> j, todo |-> {Request(j)}] \in Task
    BY DEF Task
  <2> QED
    BY <1>2, <1>4, <2>1 DEF BeginRequest
<1>5. ASSUME NEW j \in Jobs, BeginResult(w, j) PROVE StorageTypeOK'
  <2>1. [kind |-> "result", job |-> j, todo |-> {Part(c) : c \in PartsOf[j]}] \in Task
    BY StorageAssumption DEF Task
  <2> QED
    BY <1>2, <1>5, <2>1 DEF BeginResult
<1>6. CASE ReadBase(w)
  <2> DEFINE base == revisions[tasks[w].expected + 1]
             new == Snapshot(tasks[w].expected + 1, base[3] \cup {tasks[w].name})
  <2>1. tasks[w].name \in Documents /\ tasks[w].expected \in Nat
    BY <1>1, <1>6 DEF ReadBase, Task, Idle
  <2>2. base \in Snapshots
    BY <1>6, <2>1 DEF ReadBase, LastRevision
  <2>3. new \in Snapshots
    <3>1. base[3] \cup {tasks[w].name} \in SUBSET Documents
      BY <2>1, <2>2 DEF Snapshots
    <3>2. tasks[w].expected + 1 \in Nat
      BY <2>1
    <3> QED
      BY <3>1, <3>2 DEF Snapshots, Snapshot
  <2>4. [kind |-> "snapshot", row |-> new, todo |-> {new},
         expected |-> tasks[w].expected] \in Task
    BY <2>1, <2>3 DEF Task
  <2> QED
    BY <1>6, <2>4 DEF ReadBase, rowVars, Present
<1>7. CASE PutNext(w)
  <2>1. PICK o \in tasks[w].todo :
            Put(tasks[w], o) /\ tasks' = [tasks EXCEPT ![w].todo = @ \ {o}]
    BY <1>7 DEF PutNext
  <2>2. [tasks[w] EXCEPT !.todo = @ \ {o}] \in Task
    BY <1>1, <1>7 DEF PutNext, Task
  <2>3. tasks' \in [Writers -> Task]
    BY <2>1, <2>2
  <2>4. collector.doomed \subseteq Present'
    BY <2>1, PutAddsOne
  <2> QED
    BY <1>7, <2>1, <2>3, <2>4, PutAddsOne DEF PutNext, rowVars
<1>8. CASE WriteManifest(w)
  <2>1. tasks[w].job \in Jobs
    BY <1>1, <1>8 DEF WriteManifest, Task, Idle
  <2>2. [kind |-> "manifest", job |-> tasks[w].job,
         todo |-> {Manifest(tasks[w].job)}] \in Task
    BY <2>1 DEF Task
  <2> QED
    BY <1>8, <2>2 DEF WriteManifest, rowVars, Present
<1>9. CASE Reread(w)
  <2>1. tasks[w] \in [kind : {"manifest", "verified"}, job : Jobs,
                      todo : SUBSET {Manifest(j) : j \in Jobs}]
    BY <1>1, <1>9 DEF Reread, Task, Idle
  <2>2. [tasks[w] EXCEPT !.kind = "verified"] \in Task
    BY <2>1 DEF Task
  <2> QED
    BY <1>9, <2>2 DEF Reread, rowVars, Present
<1>10. ASSUME Finish(w), revisions' \in Seq(Snapshots), Len(revisions') >= 1,
              jobs' \in [Jobs -> {"absent", "active", "done", "error"}],
              delivered' = delivered
       PROVE  StorageTypeOK'
  BY <1>10 DEF Finish, Present, Task
<1>11. CASE CommitSnapshot(w)
  <2>1. tasks[w].row \in Snapshots
    BY <1>1, <1>11 DEF CommitSnapshot, Task, Idle
  <2>2. revisions' \in Seq(Snapshots) /\ Len(revisions') = Len(revisions) + 1
    BY <1>11, <2>1 DEF CommitSnapshot
  <2>3. UNCHANGED <<jobs, delivered>> /\ Finish(w) /\ Len(revisions') >= 1
    BY <1>11, <2>2 DEF CommitSnapshot
  <2> QED
    BY <1>10, <2>2, <2>3
<1>12. CASE CommitRequest(w)
  BY <1>10, <1>12 DEF CommitRequest
<1>13. CASE CommitResult(w)
  BY <1>10, <1>13 DEF CommitResult
<1>14. CASE GiveUp(w)
  BY <1>10, <1>14 DEF GiveUp, rowVars
<1> QED
  BY <1>3, <1>4, <1>5, <1>6, <1>7, <1>8, <1>9, <1>11, <1>12, <1>13, <1>14
  DEF WriterStep

LEMMA OthersTyped ==
    ASSUME StorageTypeOK, Environment \/ Collecting \/ (\E j \in Jobs : EndJob(j))
    PROVE  StorageTypeOK'
<1> USE DEF StorageTypeOK
<1>1. ASSUME NEW j \in Jobs, EndJob(j) PROVE StorageTypeOK'
  BY <1>1 DEF EndJob, writerVars, Present
<1>2. ASSUME NEW o \in Present, Damage(o) PROVE StorageTypeOK'
  <2>1. Present' = Present
    BY <1>2 DEF Damage, Present
  <2>2. objects' \in [Present' -> {"intact", "damaged"}]
    BY <1>2, <2>1 DEF Damage
  <2>3. hurt' = [v \in Writers |-> hurt'[v]]
    BY <1>2 DEF Damage
  <2>4. damages' \in 0 .. MaxDamage
    BY <1>2, StorageAssumption DEF Damage
  <2>5. UNCHANGED <<revisions, jobs, delivered, tasks, collector>>
    BY <1>2 DEF Damage, rowVars
  <2> QED
    BY <2>1, <2>2, <2>3, <2>4, <2>5
<1>3. CASE Plan
  <2>1. collector' \in [at : {"idle", "deleting", "failed"}, doomed : SUBSET Present]
    BY <1>3 DEF Plan
  <2> QED
    BY <1>3, <2>1 DEF Plan, rowVars, writerVars, Present
<1>4. CASE EndCollection
  BY <1>4 DEF EndCollection, rowVars, writerVars, Present
<1>5. ASSUME NEW o \in collector.doomed, Delete(o) PROVE StorageTypeOK'
  <2>1. Present' = Present \ {o} /\ objects' \in [Present' -> {"intact", "damaged"}]
    BY <1>5 DEF Delete, Present
  <2>2. collector' \in [at : {"idle", "deleting", "failed"}, doomed : SUBSET Present']
    BY <1>5, <2>1 DEF Delete
  <2> QED
    BY <1>5, <2>1, <2>2 DEF Delete, rowVars, writerVars
<1> QED
  BY <1>1, <1>2, <1>3, <1>4, <1>5 DEF Environment, Collecting

LEMMA NextCases ==
    Next => \/ \E w \in Writers : WriterStep(w)
            \/ Environment \/ Collecting \/ \E j \in Jobs : EndJob(j)
BY DEF Next, Publishing, WriterStep

-----------------------------------------------------------------------------
(* The invariance of StorageInv.                                           *)

LEMMA StorageInitInv == Init => StorageInv
<1> SUFFICES ASSUME Init PROVE StorageInv
  OBVIOUS
<1>1. StorageTypeOK
  BY StorageInitTyped
<1>2. \A w \in Writers : WriterOK(w)
  BY DEF Init, WriterOK, Prepared, StillVerified, ExtendsBase, Idle
<1>3. CollectsAlone
  BY DEF Init, CollectsAlone, Stopped
<1>4. NothingDangles
  <2>1. Roots = {Snapshot(0, {})} /\ Present = {Snapshot(0, {})}
    BY DEF Init, Roots, RootsOfService, Present
  <2>2. Refs(Snapshot(0, {})) = {}
    BY KindsOfRefs
  <2> QED
    BY <2>1, <2>2 DEF NothingDangles, Closure
<1>5. EachRevisionAddsOne
  BY DEF Init, EachRevisionAddsOne
<1> QED
  BY <1>1, <1>2, <1>3, <1>4, <1>5 DEF StorageInv

\* A writer has a task only while nothing is being deleted.
LEMMA WritersRunStopped ==
    ASSUME StorageInv, NEW w \in Writers, tasks[w] # Idle
    PROVE  Stopped
BY DEF StorageInv, CollectsAlone

\* A step of one writer's own memory.
LEMMA MemoryStep ==
    ASSUME StorageInv, Stopped, NEW w \in Writers, StorageTypeOK', WriterOK(w)',
           UNCHANGED <<objects, rowVars, collector>>,
           \A v \in Writers \ {w} : UNCHANGED <<tasks[v], hurt[v]>>
    PROVE  StorageInv'
<1>1. Present' = Present /\ Roots' = Roots
  BY DEF Present, rowVars, Roots, RootsOfService
<1>2. EachRevisionAddsOne'
  BY DEF StorageInv, EachRevisionAddsOne, rowVars
<1>3. Len(revisions) \in Nat
  BY DEF StorageInv, StorageTypeOK
<1> QED
  BY <1>1, <1>2, <1>3, RunningStep DEF rowVars

LEMMA BeginInv ==
    ASSUME StorageInv, NEW w \in Writers, NEW task \in Task, Begin(w, task),
           task.kind \in {"document", "request", "result"},
           RestsOn(task) \subseteq Present \cup task.todo,
           StorageTypeOK'
    PROVE  StorageInv'
<1>1. tasks'[w] = task /\ \A v \in Writers \ {w} : UNCHANGED <<tasks[v], hurt[v]>>
  BY DEF Begin, StorageInv, StorageTypeOK
<1>2. WriterOK(w)'
  <2>1. Prepared(w)'
    BY <1>1 DEF Prepared, Begin, Present
  <2> QED
    BY <1>1, <2>1 DEF WriterOK, StillVerified, ExtendsBase
<1> QED
  BY <1>1, <1>2, MemoryStep DEF Begin

LEMMA ReadBaseInv ==
    ASSUME StorageInv, NEW w \in Writers, ReadBase(w), StorageTypeOK'
    PROVE  StorageInv'
<1> DEFINE base == revisions[tasks[w].expected + 1]
           new == Snapshot(tasks[w].expected + 1, base[3] \cup {tasks[w].name})
<1>1. /\ tasks[w].name \in Documents /\ tasks[w].expected \in Nat
      /\ tasks[w].expected + 1 \in DOMAIN revisions
  BY SMTT(30) DEF ReadBase, StorageInv, StorageTypeOK, Task, Idle, LastRevision
<1>2. /\ tasks'[w] = [kind |-> "snapshot", row |-> new, todo |-> {new},
                      expected |-> tasks[w].expected]
      /\ \A v \in Writers \ {w} : UNCHANGED <<tasks[v], hurt[v]>>
  BY DEF ReadBase, StorageInv, StorageTypeOK
<1>3. Document(tasks[w].name) \in Present
  <2>1. RestsOn(tasks[w]) \subseteq Present
    BY DEF ReadBase, StorageInv, WriterOK, Prepared, Idle
  <2> QED
    BY <2>1, KindsOfRestsOn, ZenonT(60) DEF ReadBase
<1>4. {Document(d) : d \in base[3]} \subseteq Present
  <2>1. base \in Roots
    BY <1>1 DEF Roots, RootsOfService
  <2>2. Refs(base) \subseteq Present
    BY <2>1, ClosureWithin DEF StorageInv, NothingDangles
  <2>3. base[1] = "snapshot"
    BY <1>1 DEF StorageInv, StorageTypeOK, Snapshots
  <2>4. base = Snapshot(base[2], base[3])
    BY <1>1 DEF StorageInv, StorageTypeOK, Snapshots, Snapshot
  <2> QED
    BY <2>2, <2>4, KindsOfRefs
<1>5. WriterOK(w)'
  <2> HIDE DEF base
  <2>1. Refs(new) \subseteq Present
    BY <1>3, <1>4, KindsOfRefs
  <2>2. Closure({new}) \subseteq Present \cup {new}
    BY <2>1, ClosureOfOne
  <2>3. Prepared(w)'
    <3>1. /\ tasks'[w].kind = "snapshot"
          /\ tasks'[w].row = new /\ tasks'[w].todo = {new}
      BY <1>2
    <3>2. RestsOn(tasks'[w]) = Closure({new})
      BY <3>1, KindsOfRestsOn
    <3> QED
      BY <2>2, <3>1, <3>2 DEF Prepared, ReadBase, Present
  <2>4. ExtendsBase(w)'
    <3>1. UNCHANGED revisions /\ tasks[w].expected <= LastRevision
      BY DEF ReadBase, rowVars
    <3>2. new[2] = tasks[w].expected + 1 /\ new[3] = base[3] \cup {tasks[w].name}
      BY DEF Snapshot
    <3>3. /\ tasks'[w].row[2] = tasks'[w].expected + 1
          /\ tasks'[w].expected = tasks[w].expected
          /\ tasks'[w].row[3] = revisions[tasks[w].expected + 1][3]
                                    \cup {tasks[w].name}
      BY <1>2, <3>2 DEF base
    <3> QED
      BY <1>1, <3>1, <3>3 DEF ExtendsBase, LastRevision
  <2> QED
    BY <1>2, <2>3, <2>4 DEF WriterOK, StillVerified
<1>6. Stopped
  BY WritersRunStopped DEF ReadBase, Idle
<1> QED
  BY <1>2, <1>5, <1>6, MemoryStep DEF ReadBase

LEMMA WriteManifestInv ==
    ASSUME StorageInv, NEW w \in Writers, WriteManifest(w), StorageTypeOK'
    PROVE  StorageInv'
<1> DEFINE j == tasks[w].job
<1>1. /\ tasks'[w] = [kind |-> "manifest", job |-> j, todo |-> {Manifest(j)}]
      /\ \A v \in Writers \ {w} : UNCHANGED <<tasks[v], hurt[v]>>
  BY DEF WriteManifest, StorageInv, StorageTypeOK
<1>2. {Request(j)} \cup {Part(c) : c \in PartsOf[j]} \subseteq Present
  <2>1. RestsOn(tasks[w]) \subseteq Present
    BY DEF WriteManifest, StorageInv, WriterOK, Prepared, Idle
  <2> QED
    BY <2>1, KindsOfRestsOn DEF WriteManifest
<1>3. {Request(j)} \cup Closure({Manifest(j)}) \subseteq Present \cup {Manifest(j)}
  BY <1>2, ClosureOfOne, KindsOfRefs, SMTT(30)
<1>4. Prepared(w)'
  <2>1. /\ tasks'[w].kind = "manifest"
        /\ tasks'[w].job = j /\ tasks'[w].todo = {Manifest(j)}
    BY <1>1
  <2>2. RestsOn(tasks'[w]) = {Request(j)} \cup Closure({Manifest(j)})
    BY <2>1, KindsOfRestsOn
  <2> QED
    BY <1>3, <2>1, <2>2 DEF Prepared, WriteManifest, Present
<1>5. WriterOK(w)'
  BY <1>1, <1>4 DEF WriterOK, StillVerified, ExtendsBase
<1>6. Stopped
  BY WritersRunStopped DEF WriteManifest, Idle
<1> QED
  BY <1>1, <1>5, <1>6, MemoryStep DEF WriteManifest

LEMMA RereadInv ==
    ASSUME StorageInv, NEW w \in Writers, Reread(w), StorageTypeOK'
    PROVE  StorageInv'
<1> DEFINE j == tasks[w].job
<1>1. /\ tasks'[w] = [tasks[w] EXCEPT !.kind = "verified"] /\ hurt'[w] = {}
      /\ \A v \in Writers \ {w} : UNCHANGED <<tasks[v], hurt[v]>>
  BY DEF Reread, StorageInv, StorageTypeOK
<1>2. tasks[w] \in [kind : {"manifest", "verified"}, job : Jobs,
                    todo : SUBSET {Manifest(i) : i \in Jobs}]
  BY DEF Reread, StorageInv, StorageTypeOK, Task, Idle
<1>3. tasks'[w].kind = "verified" /\ tasks'[w].job = j /\ tasks'[w].todo = {}
  BY <1>1, <1>2 DEF Reread
<1>4. Prepared(w)'
  <2>1. RestsOn(tasks[w]) \subseteq Present
    BY DEF Reread, StorageInv, WriterOK, Prepared, Idle
  <2>2. RestsOn(tasks'[w]) = RestsOn(tasks[w])
    BY <1>3, KindsOfRestsOn, ZenonT(60) DEF Reread
  <2> QED
    BY <2>1, <2>2 DEF Prepared, Reread, Present
<1>5. StillVerified(w)'
  BY <1>1, <1>3 DEF Reread, Rereads, StillVerified, Intact, Present
<1>6. WriterOK(w)'
  BY <1>3, <1>4, <1>5 DEF WriterOK, ExtendsBase
<1>7. Stopped
  BY WritersRunStopped DEF Reread, Idle
<1> QED
  BY <1>1, <1>6, <1>7, MemoryStep DEF Reread

LEMMA PutNextInv ==
    ASSUME StorageInv, NEW w \in Writers, PutNext(w), StorageTypeOK'
    PROVE  StorageInv'
<1>1. PICK o \in tasks[w].todo :
          Put(tasks[w], o) /\ tasks' = [tasks EXCEPT ![w].todo = @ \ {o}]
  BY DEF PutNext
<1>2. /\ Present' = Present \cup {o}
      /\ \A x \in Present : objects[x] = "intact" => objects'[x] = "intact"
  BY <1>1, PutAddsOne DEF StorageInv, StorageTypeOK
<1>3. /\ tasks'[w] = [tasks[w] EXCEPT !.todo = @ \ {o}]
      /\ \A v \in Writers \ {w} : UNCHANGED <<tasks[v], hurt[v]>>
  BY <1>1 DEF PutNext, StorageInv, StorageTypeOK
<1>4. tasks[w] \in Task /\ tasks[w] # Idle /\ WriterOK(w)
  BY DEF PutNext, StorageInv, StorageTypeOK
<1>5. /\ tasks'[w].kind = tasks[w].kind /\ tasks'[w].todo = tasks[w].todo \ {o}
      /\ tasks[w].kind = "document" => tasks'[w].name = tasks[w].name
      /\ tasks[w].kind = "snapshot" =>
             tasks'[w].row = tasks[w].row /\ tasks'[w].expected = tasks[w].expected
      /\ tasks[w].kind \in {"request", "result", "manifest", "verified"} =>
             tasks'[w].job = tasks[w].job
  BY <1>3, <1>4 DEF Task
<1>6. Prepared(w)'
  <2>1. tasks[w].kind \in {"document", "snapshot", "request", "result",
                           "manifest", "verified"}
    BY <1>4 DEF Task
  <2>2. RestsOn(tasks'[w]) = RestsOn(tasks[w])
    BY <1>5, <2>1, KindsOfRestsOn, ZenonT(60)
  <2>3. RestsOn(tasks[w]) \subseteq Present \cup tasks[w].todo
    BY <1>4 DEF WriterOK, Prepared
  <2>4. RestsOn(tasks'[w]) \subseteq Present' \cup tasks'[w].todo
    BY <1>2, <1>5, <2>2, <2>3
  <2> QED
    BY <2>4 DEF Prepared
<1>7. tasks[w].kind # "verified"
  BY <1>1, <1>4 DEF WriterOK, StillVerified
<1>8. ExtendsBase(w)'
  BY <1>4, <1>5 DEF WriterOK, ExtendsBase, PutNext, rowVars, LastRevision
<1>9. WriterOK(w)'
  BY <1>5, <1>6, <1>7, <1>8 DEF WriterOK, StillVerified
<1>10. Stopped
  BY <1>4, WritersRunStopped
<1>11. Roots' = Roots /\ EachRevisionAddsOne'
  BY ZenonT(60) DEF PutNext, rowVars, Roots, RootsOfService, StorageInv, EachRevisionAddsOne
<1>12. Len(revisions) \in Nat /\ UNCHANGED <<revisions, collector>>
  BY DEF PutNext, rowVars, StorageInv, StorageTypeOK
<1> QED
  BY <1>2, <1>3, <1>9, <1>10, <1>11, <1>12, RunningStep

\* A writer that is done, or gives up, with the rows it adds.
LEMMA FinishInv ==
    ASSUME StorageInv, NEW w \in Writers, tasks[w] # Idle, Finish(w),
           Len(revisions) <= Len(revisions'),
           \A i \in 1 .. Len(revisions) : revisions'[i] = revisions[i],
           \A o \in Roots' \ Roots : o \in Present /\ Refs(o) \subseteq Present,
           EachRevisionAddsOne', StorageTypeOK'
    PROVE  StorageInv'
<1>1. /\ tasks'[w] = Idle
      /\ \A v \in Writers \ {w} : UNCHANGED <<tasks[v], hurt[v]>>
  BY DEF Finish, StorageInv, StorageTypeOK
<1>2. WriterOK(w)'
  BY <1>1 DEF WriterOK, Prepared, StillVerified, ExtendsBase, Idle
<1>3. Present' = Present /\ UNCHANGED <<objects, collector>>
  BY DEF Finish, Present
<1>4. Stopped
  BY WritersRunStopped
<1> QED
  BY <1>1, <1>2, <1>3, <1>4, RunningStep

LEMMA CommitSnapshotInv ==
    ASSUME StorageInv, NEW w \in Writers, CommitSnapshot(w), StorageTypeOK'
    PROVE  StorageInv'
<1> DEFINE new == tasks[w].row
<1>1. /\ revisions \in Seq(Snapshots) /\ new \in Snapshots
      /\ Len(revisions) \in Nat /\ tasks[w].expected \in Nat
  <2>1. tasks[w] \in [kind : {"snapshot"}, row : Snapshots,
                      todo : SUBSET Snapshots, expected : Nat]
    BY SMTT(30) DEF CommitSnapshot, StorageInv, StorageTypeOK, Task, Idle
  <2> QED
    BY <2>1 DEF StorageInv, StorageTypeOK
<1>2. /\ Len(revisions') = Len(revisions) + 1
      /\ \A i \in 1 .. Len(revisions) : revisions'[i] = revisions[i]
      /\ revisions'[Len(revisions) + 1] = new
  BY <1>1 DEF CommitSnapshot
<1>3. Closure({new}) \subseteq Present
  <2>1. RestsOn(tasks[w]) \subseteq Present
    BY DEF CommitSnapshot, StorageInv, WriterOK, Prepared, Idle
  <2> QED
    BY <2>1, KindsOfRestsOn DEF CommitSnapshot
<1>4. \A o \in Roots' \ Roots : o \in Present /\ Refs(o) \subseteq Present
  <2>1. Roots' \subseteq Roots \cup {new}
    <3>1. ASSUME NEW i \in DOMAIN revisions' PROVE revisions'[i] \in Roots \cup {new}
      BY <1>1, <1>2 DEF CommitSnapshot, Roots, RootsOfService
    <3> QED
      BY <3>1 DEF CommitSnapshot, Roots, RootsOfService
  <2> QED
    BY <1>3, <2>1, ClosureOfOne
<1>5. EachRevisionAddsOne'
  <2>1. /\ tasks[w].expected = Len(revisions) - 1
        /\ new[2] = tasks[w].expected + 1
    BY DEF CommitSnapshot, HeadIs, LastRevision, StorageInv, WriterOK, ExtendsBase
  <2>2. PICK d \in Documents : new[3] = revisions[tasks[w].expected + 1][3] \cup {d}
    BY DEF CommitSnapshot, StorageInv, WriterOK, ExtendsBase
  <2>3. new[3] = revisions[Len(revisions)][3] \cup {d} /\ new[2] = Len(revisions)
    BY <1>1, <2>1, <2>2
  <2>4. Cardinality(new[3] \ revisions[Len(revisions)][3]) <= 1
    <3>1. IsFiniteSet({d}) /\ Cardinality({d}) = 1
      BY FS_Singleton
    <3>2. new[3] \ revisions[Len(revisions)][3] \subseteq {d}
      BY <2>3
    <3> QED
      BY <3>1, <3>2, FS_Subset
  <2>5. ASSUME NEW i \in 2 .. Len(revisions)
        PROVE  /\ revisions'[i] = revisions[i] /\ revisions'[i - 1] = revisions[i - 1]
               /\ revisions[i][2] = i - 1
               /\ revisions[i - 1][3] \subseteq revisions[i][3]
               /\ Cardinality(revisions[i][3] \ revisions[i - 1][3]) <= 1
    <3>1. i \in 1 .. Len(revisions) /\ i - 1 \in 1 .. Len(revisions)
      BY <1>1
    <3>2. EachRevisionAddsOne
      BY DEF StorageInv
    <3> QED
      BY <1>2, <3>1, <3>2 DEF EachRevisionAddsOne
  <2>6. ASSUME NEW i \in 2 .. Len(revisions'), i = Len(revisions) + 1
        PROVE  /\ revisions'[i] = new /\ revisions'[i - 1] = revisions[Len(revisions)]
               /\ new[2] = i - 1
    BY <1>1, <1>2, <2>3, <2>6
  <2>7. ASSUME NEW i \in 2 .. Len(revisions')
        PROVE  /\ revisions'[i][2] = i - 1
               /\ revisions'[i - 1][3] \subseteq revisions'[i][3]
               /\ Cardinality(revisions'[i][3] \ revisions'[i - 1][3]) <= 1
    <3>1. CASE i \in 2 .. Len(revisions)
      BY <2>5, <3>1
    <3>2. CASE i = Len(revisions) + 1
      BY <2>3, <2>4, <2>6, <3>2
    <3> QED
      BY <1>1, <1>2, <3>1, <3>2
  <2> QED
    BY <2>7 DEF EachRevisionAddsOne
<1>6. Len(revisions) <= Len(revisions')
  BY <1>1, <1>2
<1>7. tasks[w] # Idle /\ Finish(w)
  BY DEF CommitSnapshot, Idle
<1> QED
  BY <1>2, <1>4, <1>5, <1>6, <1>7, FinishInv

LEMMA CommitRequestInv ==
    ASSUME StorageInv, NEW w \in Writers, CommitRequest(w), StorageTypeOK'
    PROVE  StorageInv'
<1> DEFINE j == tasks[w].job
<1>1. Request(j) \in Present
  <2>1. RestsOn(tasks[w]) \subseteq Present
    BY DEF CommitRequest, StorageInv, WriterOK, Prepared, Idle
  <2> QED
    BY <2>1, KindsOfRestsOn DEF CommitRequest
<1>2. Roots' \subseteq Roots \cup {Request(j)}
  BY DEF CommitRequest, Roots, RootsOfService, StorageInv, StorageTypeOK
<1>3. EachRevisionAddsOne'
  BY DEF CommitRequest, StorageInv, EachRevisionAddsOne
<1>4. /\ tasks[w] # Idle /\ Finish(w) /\ UNCHANGED revisions
      /\ Len(revisions) \in Nat
  BY DEF CommitRequest, Idle, StorageInv, StorageTypeOK
<1> QED
  BY <1>1, <1>2, <1>3, <1>4, KindsOfRefs, FinishInv

LEMMA CommitResultInv ==
    ASSUME StorageInv, NEW w \in Writers, CommitResult(w), StorageTypeOK'
    PROVE  StorageInv'
<1> DEFINE j == tasks[w].job
<1>1. Closure({Manifest(j)}) \subseteq Present
  <2>1. tasks[w].todo = {} /\ tasks[w].kind \in {"manifest", "verified"}
    BY DEF CommitResult, StorageInv, WriterOK, StillVerified
  <2>2. RestsOn(tasks[w]) \subseteq Present
    BY <2>1 DEF StorageInv, WriterOK, Prepared, Idle
  <2>3. RestsOn(tasks[w]) = {Request(j)} \cup Closure({Manifest(j)})
    BY <2>1, KindsOfRestsOn
  <2> QED
    BY <2>2, <2>3
<1>2. Roots' \subseteq Roots \cup {Manifest(j)}
  BY DEF CommitResult, Roots, RootsOfService, StorageInv, StorageTypeOK
<1>3. EachRevisionAddsOne'
  BY DEF CommitResult, StorageInv, EachRevisionAddsOne
<1>4. /\ tasks[w] # Idle /\ Finish(w) /\ UNCHANGED revisions
      /\ Len(revisions) \in Nat
  BY DEF CommitResult, Idle, StorageInv, StorageTypeOK
<1>5. \A o \in Roots' \ Roots : o \in Present /\ Refs(o) \subseteq Present
  BY <1>1, <1>2, ClosureOfOne
<1> QED
  BY <1>3, <1>4, <1>5, FinishInv

LEMMA GiveUpInv ==
    ASSUME StorageInv, NEW w \in Writers, GiveUp(w), StorageTypeOK'
    PROVE  StorageInv'
<1>1. Roots' = Roots /\ EachRevisionAddsOne'
  BY DEF GiveUp, rowVars, Roots, RootsOfService, StorageInv, EachRevisionAddsOne
<1>2. /\ tasks[w] # Idle /\ Finish(w) /\ UNCHANGED revisions
      /\ Len(revisions) \in Nat
  BY DEF GiveUp, rowVars, StorageInv, StorageTypeOK
<1> QED
  BY <1>1, <1>2, FinishInv

\* Whatever a writer does, alone.
LEMMA WriterStepInv ==
    ASSUME StorageInv, NEW w \in Writers, WriterStep(w)
    PROVE  StorageInv'
<1>1. StorageTypeOK'
  BY WritersTyped DEF StorageInv
<1>2. ASSUME NEW d \in Documents, NEW n \in 0 .. MaxRevision, BeginDocument(w, d, n)
      PROVE  StorageInv'
  <2> DEFINE task == [kind |-> "document", name |-> d, expected |-> n,
                      todo |-> {Document(d)}]
  <2>1. task \in Task
    BY StorageAssumption DEF Task
  <2>2. Begin(w, task)
    BY <1>2 DEF BeginDocument
  <2>3. /\ task.kind = "document" /\ task.name = d
        /\ task.todo = {Document(d)}
    OBVIOUS
  <2> HIDE DEF task
  <2>4. RestsOn(task) \subseteq Present \cup task.todo
    BY <2>3, KindsOfRestsOn
  <2> QED
    BY <1>1, <2>1, <2>2, <2>3, <2>4, BeginInv
<1>3. ASSUME NEW j \in Jobs, BeginRequest(w, j) PROVE StorageInv'
  <2> DEFINE task == [kind |-> "request", job |-> j, todo |-> {Request(j)}]
  <2>1. task \in Task
    BY DEF Task
  <2>2. Begin(w, task)
    BY <1>3 DEF BeginRequest
  <2>3. task.kind = "request" /\ task.job = j /\ task.todo = {Request(j)}
    OBVIOUS
  <2> HIDE DEF task
  <2>4. RestsOn(task) \subseteq Present \cup task.todo
    BY <2>3, KindsOfRestsOn
  <2> QED
    BY <1>1, <2>1, <2>2, <2>3, <2>4, BeginInv
<1>4. ASSUME NEW j \in Jobs, BeginResult(w, j) PROVE StorageInv'
  <2> DEFINE task == [kind |-> "result", job |-> j,
                      todo |-> {Part(c) : c \in PartsOf[j]}]
  <2>1. task \in Task
    BY StorageAssumption DEF Task
  <2>2. Begin(w, task) /\ Request(j) \in Present
    BY <1>4 DEF BeginResult, Intact
  <2>3. /\ task.kind = "result" /\ task.job = j
        /\ task.todo = {Part(c) : c \in PartsOf[j]}
    OBVIOUS
  <2> HIDE DEF task
  <2>4. RestsOn(task) \subseteq Present \cup task.todo
    BY <2>2, <2>3, KindsOfRestsOn
  <2> QED
    BY <1>1, <2>1, <2>2, <2>3, <2>4, BeginInv
<1> QED
  BY <1>1, <1>2, <1>3, <1>4, ReadBaseInv, PutNextInv, WriteManifestInv, RereadInv,
     CommitSnapshotInv, CommitRequestInv, CommitResultInv, GiveUpInv
  DEF WriterStep

LEMMA EndJobInv ==
    ASSUME StorageInv, NEW j \in Jobs, EndJob(j)
    PROVE  StorageInv'
<1>1. StorageTypeOK'
  BY OthersTyped DEF StorageInv
<1>2. Roots' = Roots /\ Present' = Present
  BY DEF EndJob, Roots, RootsOfService, StorageInv, StorageTypeOK, Present
<1>3. /\ Stopped /\ UNCHANGED <<objects, revisions, tasks, hurt, collector>>
      /\ EachRevisionAddsOne'
  BY DEF EndJob, writerVars, StorageInv, EachRevisionAddsOne
<1>4. Len(revisions) \in Nat
  BY DEF StorageInv, StorageTypeOK
<1> QED
  BY <1>1, <1>2, <1>3, <1>4, RunningStep

\* Damage takes nothing away, and is noted for whoever has read it back.
LEMMA DamageInv ==
    ASSUME StorageInv, NEW o \in Present, Damage(o)
    PROVE  StorageInv'
<1>1. StorageTypeOK'
  BY OthersTyped DEF StorageInv, Environment
<1>2. /\ Present' = Present /\ Roots' = Roots
      /\ UNCHANGED <<revisions, jobs, delivered, tasks, collector>>
  BY DEF Damage, rowVars, Present, Roots, RootsOfService
<1>3. \A x \in Present \ {o} : objects'[x] = objects[x]
  BY DEF Damage, Present
<1>4. ASSUME NEW w \in Writers PROVE WriterOK(w)'
  <2>1. hurt'[w] = IF tasks[w].kind = "verified" THEN hurt[w] \cup {o} ELSE hurt[w]
    BY DEF Damage
  <2>2. /\ WriterOK(w) /\ tasks[w] \in Task /\ revisions \in Seq(Snapshots)
        /\ Len(revisions) \in Nat
    BY DEF StorageInv, StorageTypeOK
  <2>3. tasks[w].kind = "verified" =>
            \A x \in Present \ hurt'[w] :
                objects[x] = "intact" => objects'[x] = "intact"
    BY <1>3, <2>1
  <2> QED
    BY <1>2, <2>1, <2>2, <2>3, WriterKept
<1>5. CollectsAlone'
  BY <1>2 DEF StorageInv, CollectsAlone, Stopped, Closure
<1>6. NothingDangles' /\ EachRevisionAddsOne'
  BY <1>2, RowsNameWhatIsStored DEF StorageInv, EachRevisionAddsOne
<1> QED
  BY <1>1, <1>4, <1>5, <1>6 DEF StorageInv

\* The collector's own steps: only a deletion takes an object from the store.
LEMMA CollectorInv ==
    ASSUME StorageInv, Plan \/ EndCollection
    PROVE  StorageInv'
<1>1. StorageTypeOK'
  BY OthersTyped DEF StorageInv, Collecting
<1>2. /\ Present' = Present /\ Roots' = Roots
      /\ UNCHANGED <<objects, revisions, jobs, delivered, tasks, hurt>>
  BY DEF Plan, EndCollection, rowVars, writerVars, Present, Roots, RootsOfService
<1>3. \A w \in Writers : WriterOK(w)'
  BY <1>2 DEF StorageInv, WriterOK, Prepared, StillVerified, ExtendsBase, Intact,
              LastRevision
<1>4. CollectsAlone'
  <2>1. CASE Plan
    <3>1. \A w \in Writers : tasks'[w] = Idle
      BY <1>2, <2>1 DEF Plan, AtRest
    <3>2. collector'.doomed \cap Closure(Roots) = {}
      BY <2>1 DEF Plan, Live
    <3>3. Closure(Roots') = Closure(Roots)
      BY <1>2
    <3> QED
      BY <3>1, <3>2, <3>3 DEF CollectsAlone, Closure
  <2>2. CASE EndCollection
    BY <2>2 DEF EndCollection, CollectsAlone, Stopped
  <2> QED
    BY <2>1, <2>2
<1>5. NothingDangles' /\ EachRevisionAddsOne'
  BY <1>2, RowsNameWhatIsStored DEF StorageInv, EachRevisionAddsOne
<1> QED
  BY <1>1, <1>3, <1>4, <1>5 DEF StorageInv

LEMMA DeleteInv ==
    ASSUME StorageInv, NEW o \in collector.doomed, Delete(o)
    PROVE  StorageInv'
<1>1. StorageTypeOK'
  BY OthersTyped DEF StorageInv, Collecting
<1>2. /\ Present' = Present \ {o} /\ Roots' = Roots
      /\ UNCHANGED <<revisions, jobs, delivered, tasks, hurt>>
  BY DEF Delete, rowVars, writerVars, Present, Roots, RootsOfService
<1>3. /\ \A w \in Writers : tasks[w] = Idle
      /\ collector.doomed \cap Closure(Roots) = {}
  BY DEF Delete, StorageInv, CollectsAlone, Stopped
<1>4. \A w \in Writers : WriterOK(w)'
  BY <1>2, <1>3 DEF WriterOK, Prepared, StillVerified, ExtendsBase, Idle
<1>5. CollectsAlone'
  <2>1. collector'.doomed \subseteq collector.doomed
    BY DEF Delete, StorageInv, StorageTypeOK
  <2> QED
    BY <1>2, <1>3, <2>1 DEF CollectsAlone, Closure
<1>6. NothingDangles'
  <2>1. Closure(Roots) \subseteq Present \ {o}
    BY <1>3 DEF StorageInv, NothingDangles
  <2> QED
    BY <1>2, <2>1 DEF NothingDangles, Closure
<1>7. EachRevisionAddsOne'
  BY <1>2 DEF StorageInv, EachRevisionAddsOne
<1> QED
  BY <1>1, <1>4, <1>5, <1>6, <1>7 DEF StorageInv

LEMMA StorageStepInv == StorageInv /\ [Next]_vars => StorageInv'
<1> SUFFICES ASSUME StorageInv, [Next]_vars PROVE StorageInv'
  OBVIOUS
<1>1. CASE UNCHANGED vars
  <2> USE <1>1 DEF vars, rowVars, writerVars
  <2>1. Present' = Present /\ Roots' = Roots
    BY DEF Present, Roots, RootsOfService
  <2>2. StorageTypeOK'
    BY <2>1 DEF StorageInv, StorageTypeOK
  <2>3. \A w \in Writers : WriterOK(w)'
    BY <2>1 DEF StorageInv, WriterOK, Prepared, StillVerified, ExtendsBase, Intact,
                LastRevision
  <2>4. CollectsAlone' /\ EachRevisionAddsOne'
    BY <2>1 DEF StorageInv, CollectsAlone, Stopped, Closure, EachRevisionAddsOne
  <2>5. NothingDangles'
    BY <2>1, RowsNameWhatIsStored DEF StorageInv
  <2> QED
    BY <2>2, <2>3, <2>4, <2>5 DEF StorageInv
<1>2. CASE Next
  BY <1>2, NextCases, WriterStepInv, EndJobInv, DamageInv, CollectorInv, DeleteInv
  DEF Environment, Collecting
<1> QED
  BY <1>1, <1>2

\* Only a deletion takes an object from the store, and the collector starts to
\* delete only with a plan; no step of Storage records a delivery.
LEMMA StoreGrows ==
    ASSUME StorageInv, [Next]_vars
    PROVE  /\ Stopped => Present \subseteq Present'
           /\ ~ Stopped' => ~ Stopped \/ Plan
           /\ UNCHANGED delivered
<1>1. CASE UNCHANGED vars
  BY <1>1 DEF vars, rowVars, Present, Stopped
<1>2. ASSUME NEW w \in Writers, WriterStep(w)
      PROVE  UNCHANGED <<collector, delivered>> /\ Present \subseteq Present'
  <2>1. ASSUME NEW o, Put(tasks[w], o) PROVE Present \subseteq Present'
    BY <2>1, PutAddsOne DEF StorageInv, StorageTypeOK
  <2> QED
    BY <1>2, <2>1 DEF WriterStep, BeginDocument, BeginRequest, BeginResult, Begin,
        ReadBase, PutNext, WriteManifest, Reread, CommitSnapshot, CommitRequest,
        CommitResult, GiveUp, Finish, rowVars, Present
<1>3. ASSUME NEW j \in Jobs, EndJob(j)
      PROVE  UNCHANGED <<objects, collector, delivered>>
  BY <1>3 DEF EndJob
<1>4. ASSUME NEW o \in Present, Damage(o)
      PROVE  UNCHANGED <<collector, delivered>> /\ Present' = Present
  BY <1>4 DEF Damage, rowVars, Present
<1>5. ASSUME NEW o \in collector.doomed, Delete(o)
      PROVE  ~ Stopped /\ UNCHANGED delivered
  BY <1>5 DEF Delete, Stopped, rowVars
<1>6. EndCollection => Stopped' /\ UNCHANGED <<objects, delivered>>
  BY DEF EndCollection, Stopped, rowVars
<1>7. Plan => UNCHANGED <<objects, delivered>>
  BY DEF Plan, rowVars
<1> QED
  BY <1>1, <1>2, <1>3, <1>4, <1>5, <1>6, <1>7, NextCases
  DEF Environment, Collecting, Present, Stopped

-----------------------------------------------------------------------------
(* Theorems.                                                               *)

\* The store, its rows, its writers and its collector keep to StorageInv, and
\* so no committed row names an object that is missing, and no commit of a
\* document loses another (`commit_document`, `publish`, `collect`).
THEOREM StorageCorrect ==
    Spec => [](StorageTypeOK /\ NothingDangles /\ EachRevisionAddsOne)
<1>1. StorageInv => StorageTypeOK /\ NothingDangles /\ EachRevisionAddsOne
  BY DEF StorageInv
<1> QED
  BY <1>1, StorageInitInv, StorageStepInv, PTL DEF Spec

\* Only the commit of a result that was read back ends a job of the Rust
\* service as done, and what it names is intact up to the damage since.
LEMMA RereadBeforePublication ==
    ASSUME StorageInv, [Next]_vars, NEW j \in NativeJobs,
           jobs[j] = "active", jobs'[j] = "done"
    PROVE  \E w \in Writers :
               /\ tasks[w].kind = "verified" /\ tasks[w].job = j
               /\ Intact(Closure({Manifest(j)}) \ hurt[w])
<1>1. j \in Jobs /\ jobs'[j] # jobs[j]
  BY StorageAssumption
<1>2. PICK w \in Writers : CommitResult(w) /\ tasks[w].job = j
  <2>1. CASE UNCHANGED jobs
    BY <1>1, <2>1
  <2>2. ASSUME NEW w \in Writers, CommitRequest(w) PROVE FALSE
    BY <1>1, <2>2 DEF CommitRequest, StorageInv, StorageTypeOK
  <2>3. ASSUME NEW i \in Jobs, EndJob(i) PROVE FALSE
    BY <1>1, <2>3 DEF EndJob, StorageInv, StorageTypeOK
  <2>4. ASSUME NEW w \in Writers, CommitResult(w) PROVE tasks[w].job = j
    BY <1>1, <2>4 DEF CommitResult, StorageInv, StorageTypeOK
  <2>5. ASSUME NEW w \in Writers, WriterStep(w), ~ CommitRequest(w), ~ CommitResult(w)
        PROVE  UNCHANGED jobs
    BY <2>5 DEF WriterStep, BeginDocument, BeginRequest, BeginResult, Begin, ReadBase,
        PutNext, WriteManifest, Reread, CommitSnapshot, GiveUp, rowVars
  <2>6. ASSUME Environment \/ Collecting PROVE UNCHANGED jobs
    BY <2>6 DEF Environment, Collecting, Damage, Plan, EndCollection, Delete, rowVars
  <2> QED
    BY <2>1, <2>2, <2>3, <2>4, <2>5, <2>6, NextCases DEF vars, rowVars
<1>3. tasks[w].kind = "verified"
  BY <1>2 DEF CommitResult
<1> QED
  BY <1>2, <1>3 DEF StorageInv, WriterOK, StillVerified

THEOREM StorageRereads == Spec => PublishesWhatItReread
<1>1. StorageInv /\ [Next]_vars =>
          [\A j \in NativeJobs : jobs[j] = "active" /\ jobs'[j] = "done" =>
               \E w \in Writers :
                   /\ tasks[w].kind = "verified" /\ tasks[w].job = j
                   /\ Intact(Closure({Manifest(j)}) \ hurt[w])]_vars
  BY RereadBeforePublication
<1> QED
  BY <1>1, StorageInitInv, StorageStepInv, PTL DEF Spec, PublishesWhatItReread

-----------------------------------------------------------------------------
(* Deliveries: the inductive invariant.                                    *)

\* The receipts of some of the tables.
PartialReceipts == UNION {[S -> Nat] : S \in SUBSET Tables}

DeliveryTask ==
    {Idle}
    \cup [kind : {"next", "written"}, job : Jobs, receipts : PartialReceipts]
    \cup [kind : {"again"}, job : Jobs, receipts : PartialReceipts, attempt : Nat]
    \cup [kind : {"loaded"}, job : Jobs, receipts : PartialReceipts,
          version : Nat, attempt : Nat]

\* In particular no publisher is refused for what was recorded earlier.
DeliveryTypeOK ==
    /\ catalog \in [Tables -> [version : Nat, copies : [Jobs -> Nat],
                               marker : [Jobs -> Nat]]]
    /\ delivering \in [Deliverers -> DeliveryTask]

\* Receipts name the commits of the job, as its markers do.
NamesCommits(j, receipts) ==
    \A t \in DOMAIN receipts :
        receipts[t] = catalog[t].marker[j] /\ receipts[t] > 0

\* What was loaded of the next table is the last snapshot, without the run in
\* it, or else the commit based on it is refused.
LoadedIsOldOrUnmarked(task) ==
    task.kind = "loaded" =>
        /\ DOMAIN task.receipts # Tables
        /\ task.version <= catalog[NextTable(task)].version
        /\ task.version = catalog[NextTable(task)].version =>
               catalog[NextTable(task)].marker[task.job] = 0

DelivererOK(x) ==
    delivering[x] # Idle =>
        /\ NamesCommits(delivering[x].job, delivering[x].receipts)
        /\ LoadedIsOldOrUnmarked(delivering[x])
        /\ delivering[x].kind = "written" =>
               DOMAIN delivering[x].receipts = Tables /\ ReceiptOf(x) \in Present

RecordsNameCommits ==
    \A r \in delivered :
        /\ r.job \in Jobs
        /\ \E receipts \in [Tables -> Nat] :
               /\ r.object = DeliveryReceipt(r.job, receipts)
               /\ NamesCommits(r.job, receipts)

DeliversAlone == ~ Stopped => \A x \in Deliverers : delivering[x] = Idle

DeliveryInv ==
    /\ StorageInv
    /\ DeliveryTypeOK
    /\ DeliveredOnce
    /\ \A x \in Deliverers : DelivererOK(x)
    /\ RecordsNameCommits
    /\ DeliversAlone

-----------------------------------------------------------------------------
(* Lemmas.                                                                 *)

\* One more receipt.
LEMMA OneMoreReceipt ==
    ASSUME NEW f \in PartialReceipts, NEW t \in Tables \ DOMAIN f, NEW n \in Nat
    PROVE  /\ WithReceipt(f, t, n) \in PartialReceipts
           /\ DOMAIN WithReceipt(f, t, n) = DOMAIN f \cup {t}
           /\ WithReceipt(f, t, n)[t] = n
           /\ \A s \in DOMAIN f : WithReceipt(f, t, n)[s] = f[s]
<1> DEFINE g == WithReceipt(f, t, n)
<1>1. g = [s \in DOMAIN f \cup {t} |-> IF s = t THEN n ELSE f[s]]
  BY DEF WithReceipt
<1>2. DOMAIN f \in SUBSET Tables /\ \A s \in DOMAIN f : f[s] \in Nat
  BY DEF PartialReceipts
<1>3. g \in [DOMAIN f \cup {t} -> Nat]
  BY <1>1, <1>2
<1> QED
  BY <1>1, <1>2, <1>3 DEF PartialReceipts

LEMMA NoReceipts == <<>> \in PartialReceipts /\ DOMAIN <<>> = {}
<1>1. <<>> \in [{} -> Nat] /\ DOMAIN <<>> = {}
  OBVIOUS
<1> QED
  BY <1>1 DEF PartialReceipts

\* The next table is one that has no receipt yet.
LEMMA NextTableIsNew ==
    ASSUME NEW task, task.receipts \in PartialReceipts,
           DOMAIN task.receipts # Tables
    PROVE  NextTable(task) \in Tables \ DOMAIN task.receipts
<1>1. \E t \in Tables : t \notin DOMAIN task.receipts
  BY DEF PartialReceipts
<1> QED
  BY <1>1 DEF NextTable

\* Every commit to a table makes a new snapshot of it and moves no marker.
CatalogGrows ==
    \A t \in Tables :
        /\ catalog[t].version <= catalog'[t].version
        /\ catalog'[t].version = catalog[t].version => catalog'[t] = catalog[t]
        /\ \A j \in Jobs :
               catalog[t].marker[j] > 0 => catalog'[t].marker[j] = catalog[t].marker[j]

\* What is said of a publisher holds while it waits and tables get commits.
LEMMA DelivererKept ==
    ASSUME NEW x \in Deliverers, DelivererOK(x), DeliveryTypeOK,
           UNCHANGED delivering[x], CatalogGrows, DeliveryTypeOK',
           delivering[x] # Idle => Present \subseteq Present'
    PROVE  DelivererOK(x)'
<1> DEFINE task == delivering[x]
<1> SUFFICES ASSUME task # Idle PROVE DelivererOK(x)'
  BY DEF DelivererOK
<1>1. /\ task \in DeliveryTask /\ task.receipts \in PartialReceipts
      /\ task.job \in Jobs
  BY DEF DeliveryTypeOK, DeliveryTask
<1>2. /\ NamesCommits(task.job, task.receipts) /\ LoadedIsOldOrUnmarked(task)
      /\ task.kind = "written" => DOMAIN task.receipts = Tables /\ ReceiptOf(x) \in Present
  BY DEF DelivererOK
<1>3. DOMAIN task.receipts \subseteq Tables
  BY <1>1 DEF PartialReceipts
<1>4. NamesCommits(task.job, task.receipts)'
  BY <1>1, <1>2, <1>3 DEF NamesCommits, CatalogGrows, DeliveryTypeOK
<1>5. LoadedIsOldOrUnmarked(task)'
  <2> SUFFICES ASSUME task.kind = "loaded" PROVE LoadedIsOldOrUnmarked(task)'
    BY DEF LoadedIsOldOrUnmarked
  <2> DEFINE t == NextTable(task)
  <2>1. t \in Tables
    BY <1>1, <1>2, NextTableIsNew DEF LoadedIsOldOrUnmarked
  <2>2. task.version \in Nat
    BY <1>1 DEF DeliveryTask, Idle
  <2>3. catalog[t].version \in Nat /\ catalog'[t].version \in Nat
    BY <2>1 DEF DeliveryTypeOK
  <2>4. /\ DOMAIN task.receipts # Tables
        /\ task.version <= catalog[t].version
        /\ task.version = catalog[t].version => catalog[t].marker[task.job] = 0
    BY <1>2 DEF LoadedIsOldOrUnmarked
  <2>5. /\ catalog[t].version <= catalog'[t].version
        /\ catalog'[t].version = catalog[t].version => catalog'[t] = catalog[t]
    BY <2>1 DEF CatalogGrows
  <2>6. /\ task.version <= catalog'[t].version
        /\ task.version = catalog'[t].version => catalog'[t].marker[task.job] = 0
    BY <2>2, <2>3, <2>4, <2>5
  <2>7. delivering'[x] = task
    OBVIOUS
  <2> QED
    BY <2>4, <2>6, <2>7 DEF LoadedIsOldOrUnmarked, NextTable
<1> QED
  BY <1>2, <1>4, <1>5 DEF DelivererOK, ReceiptOf

LEMMA RecordsKept ==
    ASSUME RecordsNameCommits, UNCHANGED delivered, CatalogGrows, DeliveryTypeOK
    PROVE  RecordsNameCommits'
BY DEF RecordsNameCommits, NamesCommits, CatalogGrows, DeliveryTypeOK

LEMMA CatalogSame == DeliveryTypeOK /\ UNCHANGED catalog => CatalogGrows
BY DEF CatalogGrows, DeliveryTypeOK

-----------------------------------------------------------------------------
(* The invariance of DeliveryInv.                                          *)

LEMMA DeliveryInitInv == DeliveryInit => DeliveryInv
<1> SUFFICES ASSUME DeliveryInit PROVE DeliveryInv
  OBVIOUS
<1>1. StorageInv
  BY StorageInitInv DEF DeliveryInit
<1>2. DeliveryTypeOK /\ DeliveredOnce
  BY DEF DeliveryInit, DeliveryTypeOK, DeliveryTask, DeliveredOnce
<1>3. \A x \in Deliverers : DelivererOK(x)
  BY DEF DeliveryInit, DelivererOK
<1>4. RecordsNameCommits /\ DeliversAlone
  BY DEF DeliveryInit, Init, RecordsNameCommits, DeliversAlone
<1> QED
  BY <1>1, <1>2, <1>3, <1>4 DEF DeliveryInv

\* A step of the store, its writers or its collector.
LEMMA StorageStepKeeps ==
    ASSUME DeliveryInv, StorageStep \/ UNCHANGED allVars
    PROVE  DeliveryInv'
<1>1. [Next]_vars /\ UNCHANGED deliveryVars
  BY DEF StorageStep, allVars
<1>2. StorageInv /\ StorageInv'
  BY <1>1, StorageStepInv DEF DeliveryInv
<1>3. /\ Stopped => Present \subseteq Present'
      /\ ~ Stopped' => ~ Stopped \/ Plan
      /\ UNCHANGED delivered
  BY <1>1, <1>2, StoreGrows
<1>4. DeliveryTypeOK' /\ DeliveredOnce' /\ CatalogGrows
  BY <1>1, CatalogSame
  DEF DeliveryInv, deliveryVars, DeliveryTypeOK, DeliveredOnce
<1>5. ASSUME NEW x \in Deliverers PROVE DelivererOK(x)'
  <2>1. delivering[x] # Idle => Present \subseteq Present'
    BY <1>3 DEF DeliveryInv, DeliversAlone
  <2> QED
    BY <1>1, <1>4, <2>1, DelivererKept DEF DeliveryInv, deliveryVars
<1>6. RecordsNameCommits'
  BY <1>3, <1>4, RecordsKept DEF DeliveryInv
<1>7. DeliversAlone'
  <2>1. CASE StorageStep
    BY <1>1, <1>3, <2>1 DEF StorageStep, deliveryVars, DeliveryInv, DeliversAlone
  <2>2. CASE UNCHANGED allVars
    BY <2>2 DEF allVars, vars, deliveryVars, DeliveryInv, DeliversAlone, Stopped
  <2> QED
    BY <2>1, <2>2
<1> QED
  BY <1>2, <1>4, <1>5, <1>6, <1>7 DEF DeliveryInv

\* A step that a publisher takes for itself, or at the catalog.
LEMMA CatalogStepKeeps ==
    ASSUME DeliveryInv, UNCHANGED vars, CatalogGrows, DeliveryTypeOK', DeliveredOnce',
           \A x \in Deliverers :
               UNCHANGED delivering[x] \/ (Stopped /\ DelivererOK(x)')
    PROVE  DeliveryInv'
<1>1. StorageInv'
  BY StorageStepInv DEF DeliveryInv
<1>2. /\ UNCHANGED delivered /\ Present' = Present
      /\ Stopped' <=> Stopped
  BY DEF vars, rowVars, Present, Stopped
<1>3. \A x \in Deliverers : DelivererOK(x)'
  BY <1>2, DelivererKept DEF DeliveryInv
<1>4. RecordsNameCommits'
  BY <1>2, RecordsKept DEF DeliveryInv
<1>5. DeliversAlone'
  BY <1>2 DEF DeliveryInv, DeliversAlone
<1> QED
  BY <1>1, <1>3, <1>4, <1>5 DEF DeliveryInv

LEMMA OtherCommitKeeps ==
    ASSUME DeliveryInv, NEW t \in Tables, OtherCommit(t)
    PROVE  DeliveryInv'
<1>1. catalog' = [catalog EXCEPT ![t].version = @ + 1] /\ UNCHANGED <<vars, delivering>>
  BY DEF OtherCommit
<1>2. \A s \in Tables :
          /\ catalog'[s].marker = catalog[s].marker
          /\ catalog'[s].copies = catalog[s].copies
          /\ catalog'[s].version =
                 IF s = t THEN catalog[s].version + 1 ELSE catalog[s].version
          /\ s # t => catalog'[s] = catalog[s]
  BY <1>1 DEF DeliveryInv, DeliveryTypeOK
<1>3. DeliveryTypeOK'
  BY <1>1 DEF DeliveryInv, DeliveryTypeOK
<1>4. CatalogGrows /\ DeliveredOnce'
  BY <1>2 DEF DeliveryInv, DeliveryTypeOK, CatalogGrows, DeliveredOnce
<1> QED
  BY <1>1, <1>3, <1>4, CatalogStepKeeps

\* A publisher that does something for itself.
LEMMA DelivererStepKeeps ==
    ASSUME DeliveryInv, UNCHANGED <<vars, catalog>>, NEW x \in Deliverers, Stopped,
           NEW task \in DeliveryTask, Do(x, task),
           task # Idle =>
               /\ NamesCommits(task.job, task.receipts)
               /\ LoadedIsOldOrUnmarked(task)
               /\ task.kind # "written"
    PROVE  DeliveryInv'
<1>1. /\ DeliveryTypeOK' /\ delivering'[x] = task
      /\ \A y \in Deliverers \ {x} : UNCHANGED delivering[y]
  BY DEF Do, DeliveryInv, DeliveryTypeOK
<1>2. CatalogGrows /\ DeliveredOnce'
  BY CatalogSame DEF DeliveryInv, DeliveredOnce
<1>3. DelivererOK(x)'
  BY <1>1 DEF DelivererOK, NamesCommits, LoadedIsOldOrUnmarked
<1> QED
  BY <1>1, <1>2, <1>3, CatalogStepKeeps

LEMMA BeginDeliveryKeeps ==
    ASSUME DeliveryInv, NEW x \in Deliverers, NEW j \in Jobs, BeginDelivery(x, j)
    PROVE  DeliveryInv'
<1> DEFINE task == [kind |-> "next", job |-> j, receipts |-> <<>>]
<1>1. task \in DeliveryTask
  BY NoReceipts DEF DeliveryTask
<1>2. NamesCommits(task.job, task.receipts) /\ LoadedIsOldOrUnmarked(task)
  BY NoReceipts DEF NamesCommits, LoadedIsOldOrUnmarked
<1>3. /\ Stopped /\ Do(x, task) /\ UNCHANGED <<vars, catalog>>
      /\ task.kind # "written"
  BY DEF BeginDelivery
<1> QED
  BY <1>1, <1>2, <1>3, DelivererStepKeeps

\* A publisher at work, and the table that is next.
LEMMA AtWork ==
    ASSUME DeliveryInv, NEW x \in Deliverers, delivering[x] # Idle
    PROVE  /\ Stopped
           /\ delivering[x] \in DeliveryTask /\ delivering[x].job \in Jobs
           /\ delivering[x].receipts \in PartialReceipts
           /\ NamesCommits(delivering[x].job, delivering[x].receipts)
           /\ LoadedIsOldOrUnmarked(delivering[x])
           /\ delivering[x].kind = "loaded" => DOMAIN delivering[x].receipts # Tables
           /\ DOMAIN delivering[x].receipts # Tables =>
                  NextTable(delivering[x]) \in Tables \ DOMAIN delivering[x].receipts
<1>1. Stopped /\ DelivererOK(x) /\ delivering[x] \in DeliveryTask
  BY DEF DeliveryInv, DeliversAlone, DeliveryTypeOK
<1>2. delivering[x].job \in Jobs /\ delivering[x].receipts \in PartialReceipts
  BY <1>1 DEF DeliveryTask
<1> QED
  BY <1>1, <1>2, NextTableIsNew DEF DelivererOK, LoadedIsOldOrUnmarked

LEMMA LoadKeeps ==
    ASSUME DeliveryInv, NEW x \in Deliverers, Load(x)
    PROVE  DeliveryInv'
<1> DEFINE task == delivering[x]
           t == NextTable(task)
           j == task.job
<1>1. /\ task.kind \in {"next", "again"} /\ DOMAIN task.receipts # Tables
      /\ UNCHANGED <<vars, catalog>> /\ task # Idle
  BY DEF Load, Idle
<1>2. /\ Stopped /\ task \in DeliveryTask /\ j \in Jobs
      /\ task.receipts \in PartialReceipts /\ NamesCommits(j, task.receipts)
      /\ t \in Tables \ DOMAIN task.receipts
  BY <1>1, AtWork
<1>3. catalog[t].version \in Nat /\ catalog[t].marker[j] \in Nat
  BY <1>2 DEF DeliveryInv, DeliveryTypeOK
<1>4. CASE Marked(t, j)
  <2> DEFINE more == WithReceipt(task.receipts, t, catalog[t].marker[j])
             new == [kind |-> "next", job |-> j, receipts |-> more]
  <2>1. Do(x, new)
    BY <1>4 DEF Load, MarkedSnapshot
  <2>2. /\ more \in PartialReceipts
        /\ DOMAIN more = DOMAIN task.receipts \cup {t}
        /\ more[t] = catalog[t].marker[j]
        /\ \A s \in DOMAIN task.receipts : more[s] = task.receipts[s]
    BY <1>2, <1>3, OneMoreReceipt
  <2> HIDE DEF more
  <2>3. new \in DeliveryTask
    BY <1>2, <2>2 DEF DeliveryTask
  <2>4. NamesCommits(j, more)
    BY <1>2, <1>4, <2>2 DEF NamesCommits, Marked
  <2>5. /\ NamesCommits(new.job, new.receipts) /\ LoadedIsOldOrUnmarked(new)
        /\ new.kind # "written"
    BY <2>4 DEF LoadedIsOldOrUnmarked
  <2> QED
    BY <1>1, <1>2, <2>1, <2>3, <2>5, DelivererStepKeeps
<1>5. CASE ~ Marked(t, j)
  <2> DEFINE attempt == IF task.kind = "again" THEN task.attempt ELSE 1
             new == [kind |-> "loaded", job |-> j, receipts |-> task.receipts,
                     version |-> catalog[t].version, attempt |-> attempt]
  <2>1. Do(x, new)
    BY <1>5 DEF Load
  <2>2. attempt \in Nat
    BY <1>2 DEF DeliveryTask, Idle
  <2>3. new \in DeliveryTask
    BY <1>2, <1>3, <2>2 DEF DeliveryTask
  <2>4. /\ new.kind = "loaded" /\ new.job = j /\ new.receipts = task.receipts
        /\ new.version = catalog[t].version
    OBVIOUS
  <2> HIDE DEF new
  <2>5. NextTable(new) = t
    BY <2>4 DEF NextTable
  <2>6. LoadedIsOldOrUnmarked(new)
    BY <1>1, <1>3, <1>5, <2>4, <2>5 DEF LoadedIsOldOrUnmarked, Marked
  <2> QED
    BY <1>1, <1>2, <2>1, <2>3, <2>4, <2>6, DelivererStepKeeps
<1> QED
  BY <1>4, <1>5

LEMMA CommitRefusedKeeps ==
    ASSUME DeliveryInv, NEW x \in Deliverers, CommitRefused(x)
    PROVE  DeliveryInv'
<1> DEFINE task == delivering[x]
<1>1. task.kind = "loaded" /\ task # Idle /\ UNCHANGED <<vars, catalog>>
  BY DEF CommitRefused, Idle
<1>2. /\ Stopped /\ task \in DeliveryTask /\ task.job \in Jobs
      /\ task.receipts \in PartialReceipts /\ NamesCommits(task.job, task.receipts)
  BY <1>1, AtWork
<1>3. task.attempt \in Nat
  BY <1>1, <1>2 DEF DeliveryTask, Idle
<1>4. CASE task.attempt < 3
  <2> DEFINE new == [kind |-> "again", job |-> task.job, receipts |-> task.receipts,
                     attempt |-> task.attempt + 1]
  <2>1. Do(x, new)
    BY <1>4 DEF CommitRefused
  <2>2. new \in DeliveryTask
    BY <1>2, <1>3 DEF DeliveryTask
  <2>3. /\ NamesCommits(new.job, new.receipts) /\ LoadedIsOldOrUnmarked(new)
        /\ new.kind # "written"
    BY <1>2 DEF LoadedIsOldOrUnmarked
  <2> QED
    BY <1>1, <1>2, <2>1, <2>2, <2>3, DelivererStepKeeps
<1>5. CASE ~ task.attempt < 3
  <2>1. Do(x, Idle) /\ Idle \in DeliveryTask
    BY <1>5 DEF CommitRefused, DeliveryTask
  <2> QED
    BY <1>1, <1>2, <2>1, DelivererStepKeeps
<1> QED
  BY <1>4, <1>5

LEMMA EndDeliveryKeeps ==
    ASSUME DeliveryInv, NEW x \in Deliverers, EndDelivery(x)
    PROVE  DeliveryInv'
<1>1. Do(x, Idle) /\ Idle \in DeliveryTask /\ UNCHANGED <<vars, catalog>> /\ Stopped
  BY AtWork DEF EndDelivery, DeliveryTask
<1> QED
  BY <1>1, DelivererStepKeeps

\* Rows and marker of a job whose marker was not there: the one commit.
LEMMA CommitTableKeeps ==
    ASSUME DeliveryInv, NEW x \in Deliverers, CommitTable(x)
    PROVE  DeliveryInv'
<1> DEFINE task == delivering[x]
           t == NextTable(task)
           j == task.job
           snapshot == catalog[t].version + 1
           more == WithReceipt(task.receipts, t, snapshot)
           new == [kind |-> "next", job |-> j, receipts |-> more]
<1>1. /\ task.kind = "loaded" /\ task # Idle /\ catalog[t].version = task.version
      /\ UNCHANGED vars /\ Do(x, new)
  BY DEF CommitTable, Idle, Based
<1>2. /\ Stopped /\ task \in DeliveryTask /\ j \in Jobs
      /\ task.receipts \in PartialReceipts /\ NamesCommits(j, task.receipts)
      /\ LoadedIsOldOrUnmarked(task) /\ t \in Tables \ DOMAIN task.receipts
  BY <1>1, AtWork
<1>3. /\ catalog[t].marker[j] = 0 /\ catalog[t].copies[j] = 0
      /\ catalog[t].version \in Nat
  BY <1>1, <1>2 DEF LoadedIsOldOrUnmarked, DeliveryInv, DeliveryTypeOK, DeliveredOnce
<1>4. catalog' = [catalog EXCEPT ![t].version = snapshot,
                                 ![t].copies[j] = @ + 1,
                                 ![t].marker[j] = snapshot]
  BY DEF CommitTable
<1>5. /\ catalog'[t] = [version |-> snapshot,
                        copies |-> [catalog[t].copies EXCEPT ![j] = @ + 1],
                        marker |-> [catalog[t].marker EXCEPT ![j] = snapshot]]
      /\ \A s \in Tables \ {t} : catalog'[s] = catalog[s]
  BY <1>2, <1>4 DEF DeliveryInv, DeliveryTypeOK
<1>6. /\ catalog'[t].marker[j] = snapshot /\ catalog'[t].copies[j] = 1
      /\ catalog'[t].version = snapshot
      /\ \A i \in Jobs \ {j} : /\ catalog'[t].marker[i] = catalog[t].marker[i]
                              /\ catalog'[t].copies[i] = catalog[t].copies[i]
  BY <1>2, <1>3, <1>5 DEF DeliveryInv, DeliveryTypeOK
<1>7. /\ more \in PartialReceipts
      /\ DOMAIN more = DOMAIN task.receipts \cup {t}
      /\ more[t] = snapshot
      /\ \A s \in DOMAIN task.receipts : more[s] = task.receipts[s]
  <2>1. snapshot \in Nat
    BY <1>3
  <2> HIDE DEF snapshot
  <2> QED
    BY <1>2, <2>1, OneMoreReceipt
<1> HIDE DEF more
<1>8. DeliveryTypeOK'
  <2>1. catalog'[t] \in [version : Nat, copies : [Jobs -> Nat], marker : [Jobs -> Nat]]
    BY <1>2, <1>3, <1>5 DEF DeliveryInv, DeliveryTypeOK
  <2>2. new \in DeliveryTask
    BY <1>2, <1>7 DEF DeliveryTask
  <2>3. delivering' \in [Deliverers -> DeliveryTask]
    BY <1>1, <2>2 DEF Do, DeliveryInv, DeliveryTypeOK
  <2>4. catalog' = [s \in Tables |-> catalog'[s]]
    BY <1>4 DEF DeliveryInv, DeliveryTypeOK
  <2>5. catalog' \in [Tables -> [version : Nat, copies : [Jobs -> Nat],
                                marker : [Jobs -> Nat]]]
    BY <1>5, <2>1, <2>4 DEF DeliveryInv, DeliveryTypeOK
  <2> QED
    BY <2>3, <2>5 DEF DeliveryTypeOK
<1>9. CatalogGrows
  <2>1. ASSUME NEW s \in Tables
        PROVE  /\ catalog[s].version <= catalog'[s].version
               /\ catalog'[s].version = catalog[s].version => catalog'[s] = catalog[s]
               /\ \A i \in Jobs :
                      catalog[s].marker[i] > 0 =>
                          catalog'[s].marker[i] = catalog[s].marker[i]
    <3>1. CASE s = t
      BY <1>3, <1>6, <3>1
    <3>2. CASE s # t
      BY <1>5, <3>2 DEF DeliveryInv, DeliveryTypeOK
    <3> QED
      BY <3>1, <3>2
  <2> QED
    BY <2>1 DEF CatalogGrows
<1>10. DeliveredOnce'
  <2>1. ASSUME NEW s \in Tables, NEW i \in Jobs
        PROVE  catalog'[s].copies[i] = IF catalog'[s].marker[i] = 0 THEN 0 ELSE 1
    <3>1. catalog[s].copies[i] = IF catalog[s].marker[i] = 0 THEN 0 ELSE 1
      BY DEF DeliveryInv, DeliveredOnce
    <3>2. CASE s = t /\ i = j
      BY <1>3, <1>6, <3>2
    <3>3. CASE s = t /\ i # j
      BY <1>6, <3>1, <3>3
    <3>4. CASE s # t
      BY <1>5, <3>1, <3>4
    <3> QED
      BY <3>2, <3>3, <3>4
  <2> QED
    BY <2>1 DEF DeliveredOnce
<1>11. /\ delivering'[x] = new
       /\ \A y \in Deliverers \ {x} : UNCHANGED delivering[y]
  BY <1>1 DEF Do, DeliveryInv, DeliveryTypeOK
<1>12. \A s \in DOMAIN more : more[s] = catalog'[s].marker[j] /\ more[s] > 0
  <2>1. ASSUME NEW s \in DOMAIN more
        PROVE  more[s] = catalog'[s].marker[j] /\ more[s] > 0
    <3>1. CASE s = t
      BY <1>3, <1>6, <1>7, <3>1
    <3>2. CASE s \in DOMAIN task.receipts
      BY <1>2, <1>5, <1>7, <3>2 DEF NamesCommits, PartialReceipts
    <3> QED
      BY <1>7, <3>1, <3>2
  <2> QED
    BY <2>1
<1>13. DelivererOK(x)'
  BY <1>11, <1>12 DEF DelivererOK, LoadedIsOldOrUnmarked, NamesCommits
<1> QED
  BY <1>1, <1>2, <1>8, <1>9, <1>10, <1>11, <1>13, CatalogStepKeeps

\* The receipt object, once every table has the run.
LEMMA WriteReceiptKeeps ==
    ASSUME DeliveryInv, NEW x \in Deliverers, WriteReceipt(x)
    PROVE  DeliveryInv'
<1> DEFINE task == delivering[x]
           o == ReceiptOf(x)
           new == [task EXCEPT !.kind = "written"]
<1>1. /\ task.kind = "next" /\ task # Idle /\ DOMAIN task.receipts = Tables
      /\ UNCHANGED <<revisions, jobs, delivered, tasks, hurt, damages, collector>>
      /\ UNCHANGED catalog /\ Do(x, new)
  BY DEF WriteReceipt, Idle, rowVars, writerVars
<1>2. /\ Stopped /\ task \in DeliveryTask /\ task.receipts \in PartialReceipts
      /\ NamesCommits(task.job, task.receipts)
  BY <1>1, AtWork
<1>3. /\ Present' = Present \cup {o}
      /\ objects' \in [Present' -> {"intact", "damaged"}]
      /\ \A y \in Present : objects[y] = "intact" => objects'[y] = "intact"
  <2>1. objects \in [Present -> {"intact", "damaged"}]
    BY DEF DeliveryInv, StorageInv, StorageTypeOK
  <2>2. CASE o \in Present
    BY <2>1, <2>2 DEF WriteReceipt, Present
  <2>3. CASE o \notin Present
    <3>1. objects' = Written(o)
      BY <2>3 DEF WriteReceipt
    <3> QED
      BY <2>1, <3>1 DEF Written, Present
  <2> QED
    BY <2>2, <2>3
<1>4. StorageInv'
  <2>1. StorageTypeOK'
    BY <1>1, <1>3 DEF DeliveryInv, StorageInv, StorageTypeOK
  <2>2. Roots' = Roots /\ EachRevisionAddsOne'
    BY <1>1 DEF Roots, RootsOfService, DeliveryInv, StorageInv, EachRevisionAddsOne
  <2>3. Len(revisions) \in Nat
    BY DEF DeliveryInv, StorageInv, StorageTypeOK
  <2> QED
    BY <1>1, <1>2, <1>3, <2>1, <2>2, <2>3, RunningStep DEF DeliveryInv
<1>5. /\ new.kind = "written" /\ new.job = task.job /\ new.receipts = task.receipts
      /\ new \in DeliveryTask
  <2>1. task \in [kind : {"next", "written"}, job : Jobs, receipts : PartialReceipts]
    BY <1>1, <1>2 DEF DeliveryTask, Idle
  <2> QED
    BY <2>1 DEF DeliveryTask
<1>6. /\ DeliveryTypeOK' /\ delivering'[x] = new
      /\ \A y \in Deliverers \ {x} : UNCHANGED delivering[y]
  BY <1>1, <1>5 DEF Do, DeliveryInv, DeliveryTypeOK
<1>7. CatalogGrows /\ DeliveredOnce'
  BY <1>1, CatalogSame DEF DeliveryInv, DeliveredOnce
<1>8. DelivererOK(x)'
  <2> HIDE DEF new
  <2>1. ReceiptOf(x)' = o
    BY <1>5, <1>6 DEF ReceiptOf
  <2>2. LoadedIsOldOrUnmarked(delivering[x])' /\ o \in Present'
    BY <1>3, <1>5, <1>6 DEF LoadedIsOldOrUnmarked
  <2>3. NamesCommits(delivering[x].job, delivering[x].receipts)'
    BY <1>1, <1>2, <1>5, <1>6 DEF NamesCommits
  <2> QED
    BY <1>1, <1>5, <1>6, <2>1, <2>2, <2>3 DEF DelivererOK
<1>9. \A y \in Deliverers : DelivererOK(y)'
  BY <1>3, <1>6, <1>7, <1>8, DelivererKept DEF DeliveryInv
<1>10. RecordsNameCommits' /\ DeliversAlone'
  BY <1>1, <1>2, <1>7, RecordsKept DEF DeliveryInv, DeliversAlone, Stopped
<1> QED
  BY <1>4, <1>6, <1>7, <1>9, <1>10 DEF DeliveryInv

\* Two receipts of one job name the same commits, and so are one object.
LEMMA RecordsAgree ==
    ASSUME DeliveryInv, NEW x \in Deliverers, delivering[x].kind = "written",
           NEW r \in delivered, r.job = delivering[x].job
    PROVE  r.object = ReceiptOf(x)
<1> DEFINE f == delivering[x].receipts
<1>1. /\ delivering[x] # Idle /\ f \in PartialReceipts /\ DOMAIN f = Tables
      /\ NamesCommits(r.job, f)
  BY AtWork DEF Idle, DeliveryInv, DelivererOK
<1>2. PICK g \in [Tables -> Nat] :
          r.object = DeliveryReceipt(r.job, g) /\ NamesCommits(r.job, g)
  BY DEF DeliveryInv, RecordsNameCommits
<1>3. f \in [Tables -> Nat]
  BY <1>1 DEF PartialReceipts
<1>4. \A t \in Tables : f[t] = g[t]
  BY <1>1, <1>2, <1>3 DEF NamesCommits
<1>5. f = g
  BY <1>2, <1>3, <1>4
<1> QED
  BY <1>2, <1>5 DEF ReceiptOf

LEMMA RecordKeeps ==
    ASSUME DeliveryInv, NEW x \in Deliverers, Record(x)
    PROVE  DeliveryInv'
<1> DEFINE task == delivering[x]
           row == [job |-> task.job, object |-> ReceiptOf(x)]
<1>1. /\ task.kind = "written" /\ task # Idle
      /\ UNCHANGED <<objects, revisions, jobs, tasks, hurt, damages, collector>>
      /\ UNCHANGED catalog
  BY DEF Record, Idle, writerVars
<1>2. /\ Stopped /\ task \in DeliveryTask /\ task.job \in Jobs
      /\ task.receipts \in PartialReceipts
      /\ NamesCommits(task.job, task.receipts) /\ DOMAIN task.receipts = Tables
      /\ ReceiptOf(x) \in Present
  BY <1>1, AtWork DEF DeliveryInv, DelivererOK
<1>3. Do(x, Idle) /\ delivered' \in {delivered, delivered \cup {row}}
  BY RecordsAgree DEF Record
<1>4. StorageInv'
  <2>1. Refs(row.object) = {} /\ row.object \in Present
    BY <1>2, KindsOfRefs DEF ReceiptOf
  <2>2. StorageTypeOK'
    BY <1>1, <1>3, <2>1 DEF DeliveryInv, StorageInv, StorageTypeOK, Present
  <2>3. Roots' \subseteq Roots \cup {row.object} /\ Present' = Present
    BY <1>1, <1>3 DEF Roots, RootsOfService, Present
  <2>4. EachRevisionAddsOne'
    BY <1>1 DEF DeliveryInv, StorageInv, EachRevisionAddsOne
  <2>5. Len(revisions) \in Nat
    BY DEF DeliveryInv, StorageInv, StorageTypeOK
  <2> QED
    BY <1>1, <1>2, <2>1, <2>2, <2>3, <2>4, <2>5, RunningStep DEF DeliveryInv
<1>5. /\ DeliveryTypeOK' /\ delivering'[x] = Idle
      /\ \A y \in Deliverers \ {x} : UNCHANGED delivering[y]
  BY <1>1, <1>3 DEF Do, DeliveryInv, DeliveryTypeOK, DeliveryTask
<1>6. CatalogGrows /\ DeliveredOnce' /\ Present' = Present
  BY <1>1, CatalogSame DEF DeliveryInv, DeliveredOnce, Present
<1>7. \A y \in Deliverers : DelivererOK(y)'
  <2>1. DelivererOK(x)'
    BY <1>5 DEF DelivererOK
  <2> QED
    BY <1>5, <1>6, <2>1, DelivererKept DEF DeliveryInv
<1>8. RecordsNameCommits'
  <2>1. task.receipts \in [Tables -> Nat]
    BY <1>2 DEF PartialReceipts
  <2>2. \A r \in delivered \cup {row} :
            /\ r.job \in Jobs
            /\ \E receipts \in [Tables -> Nat] :
                   /\ r.object = DeliveryReceipt(r.job, receipts)
                   /\ NamesCommits(r.job, receipts)
    BY <1>2, <2>1 DEF DeliveryInv, RecordsNameCommits, ReceiptOf
  <2> QED
    BY <1>1, <1>3, <2>2 DEF RecordsNameCommits, NamesCommits
<1>9. DeliversAlone'
  BY <1>1, <1>2 DEF DeliversAlone, Stopped
<1> QED
  BY <1>4, <1>5, <1>6, <1>7, <1>8, <1>9 DEF DeliveryInv

LEMMA DeliveryStepInv == DeliveryInv /\ [DeliveryNext]_allVars => DeliveryInv'
BY StorageStepKeeps, OtherCommitKeeps, BeginDeliveryKeeps, LoadKeeps,
   CommitTableKeeps, CommitRefusedKeeps, WriteReceiptKeeps, RecordKeeps,
   EndDeliveryKeeps
DEF DeliveryNext, Delivering

LEMMA DeliveryInvariant == DeliverySpec => []DeliveryInv
BY DeliveryInitInv, DeliveryStepInv, PTL DEF DeliverySpec

-----------------------------------------------------------------------------
(* Theorems.                                                               *)

\* With publishers to a catalog and a collector at work, no row names what is
\* not in the store, and no commit of a document loses another.
THEOREM NothingEverDangles == DeliverySpec => [](NothingDangles /\ EachRevisionAddsOne)
<1>1. DeliveryInv => NothingDangles /\ EachRevisionAddsOne
  BY DEF DeliveryInv, StorageInv
<1> QED
  BY <1>1, DeliveryInvariant, PTL

\* Rows and marker of a run are in a table together and once, whoever delivers
\* it, how often and however it ends (`publish`).
THEOREM DeliveryIsIdempotent == DeliverySpec => [](DeliveryTypeOK /\ DeliveredOnce)
<1>1. DeliveryInv => DeliveryTypeOK /\ DeliveredOnce
  BY DEF DeliveryInv
<1> QED
  BY <1>1, DeliveryInvariant, PTL

\* A recorded receipt is in the store and names the commits of the run
\* (`record_publication`).
THEOREM ReceiptsHold == DeliverySpec => []ReceiptsAreTrue
<1>1. DeliveryInv => ReceiptsAreTrue
  <2> SUFFICES ASSUME DeliveryInv, NEW r \in delivered
               PROVE  /\ r.object \in Present
                      /\ \A t \in Tables : r.object[3][t] = catalog[t].marker[r.job]
                                           /\ r.object[3][t] > 0
    BY DEF ReceiptsAreTrue
  <2>1. r.object \in Present
    <3>1. r.object \in Roots /\ NothingDangles
      BY DEF Roots, DeliveryInv, StorageInv
    <3> QED
      BY <3>1 DEF NothingDangles, Closure
  <2>2. PICK f \in [Tables -> Nat] :
            r.object = DeliveryReceipt(r.job, f) /\ NamesCommits(r.job, f)
    BY DEF DeliveryInv, RecordsNameCommits
  <2>3. r.object[3] = f
    BY <2>2 DEF DeliveryReceipt
  <2> QED
    BY <2>1, <2>2, <2>3 DEF NamesCommits
<1> QED
  BY <1>1, DeliveryInvariant, PTL

\* No retry is refused for what was recorded before it: whoever delivers a run
\* again comes to the receipt that is recorded (`record_publication`).
THEOREM RetriesAreAccepted == DeliverySpec => []RetriesAgree
<1>1. DeliveryInv => RetriesAgree
  BY DEF DeliveryInv, DeliveryTypeOK, DeliveryTask, Idle, RetriesAgree
<1> QED
  BY <1>1, DeliveryInvariant, PTL

\* A job of the Rust service is published as done only after all of its result
\* was read back intact, also while publishers and the collector run (`reread`).
THEOREM PublicationIsReread == DeliverySpec => PublishesWhatItReread
<1>1. DeliveryInv /\ [DeliveryNext]_allVars =>
          [\A j \in NativeJobs : jobs[j] = "active" /\ jobs'[j] = "done" =>
               \E w \in Writers :
                   /\ tasks[w].kind = "verified" /\ tasks[w].job = j
                   /\ Intact(Closure({Manifest(j)}) \ hurt[w])]_vars
  <2> SUFFICES ASSUME DeliveryInv, [DeliveryNext]_allVars,
                      NEW j \in NativeJobs, jobs[j] = "active", jobs'[j] = "done"
               PROVE  \E w \in Writers :
                          /\ tasks[w].kind = "verified" /\ tasks[w].job = j
                          /\ Intact(Closure({Manifest(j)}) \ hurt[w])
    OBVIOUS
  <2>1. Next
    BY StorageAssumption
    DEF DeliveryNext, StorageStep, Delivering, BeginDelivery, Load, CommitTable,
        CommitRefused, WriteReceipt, Record, EndDelivery, OtherCommit, allVars,
        vars, rowVars
  <2> QED
    BY <2>1, RereadBeforePublication DEF DeliveryInv
<1> QED
  BY <1>1, DeliveryInvariant, PTL DEF DeliverySpec, PublishesWhatItReread
==============================================================================
