-------------------------------- MODULE Storage --------------------------------
(***************************************************************************)
(* The object store of a workspace (api-rust/src/objects.rs,               *)
(* api/app/artifacts.py), the database rows that refer to it, the          *)
(* processes that write objects before they commit a row that names them   *)
(* (commit_document, submissions, results), and the offline collection of  *)
(* unreferenced objects (api/app/maintenance.py).                          *)
(*                                                                         *)
(* Objects are named by their content, so an object is its content here,   *)
(* what it refers to is a function of it, and two jobs may share parts.    *)
(***************************************************************************)
EXTENDS Naturals, Sequences, FiniteSets

CONSTANTS
    Writers,        \* API and worker processes, of either service
    Documents,      \* named input documents
    Jobs,           \* jobs
    NativeJobs,     \* those of the Rust service
    Parts,          \* parts of a job's result: chunks, pages, partitions
    PartsOf,        \* the parts of each job's result
    MaxRevision,    \* bound: document commits
    MaxDamage       \* bound: objects damaged on disk

ASSUME StorageAssumption ==
    /\ NativeJobs \subseteq Jobs
    /\ PartsOf \in [Jobs -> SUBSET Parts]
    /\ MaxRevision \in Nat
    /\ MaxDamage \in Nat

Document(d) == <<"document", d>>
Snapshot(n, S) == <<"snapshot", n, S>>
Request(j) == <<"request", j>>
Manifest(j) == <<"manifest", j>>
Part(c) == <<"part", c>>
DeliveryReceipt(j, r) == <<"receipt", j, r>>

\* What the JSON of an object refers to.
Refs(o) ==
    CASE o[1] = "snapshot" -> {Document(d) : d \in o[3]}
      [] o[1] = "manifest" ->
             {Part(c) : c \in PartsOf[o[2]]}
             \cup IF o[2] \in NativeJobs THEN {Request(o[2])} ELSE {}
      [] OTHER -> {}

Closure(S) == S \cup UNION {Refs(o) : o \in S}

VARIABLES
    objects,    \* the objects in the store, intact or damaged
    revisions,  \* the snapshots of the `revisions` rows, oldest first
    jobs,       \* the status of every `jobs` row
    delivered,  \* the `catalog_publications` rows: a job's receipt object
    tasks,      \* what each writer is about to publish
    hurt,       \* history: objects damaged since a writer's reread
    damages,    \* history: how many were damaged
    collector   \* the collector: what it is about to delete, or its end

rowVars == <<revisions, jobs, delivered>>
writerVars == <<tasks, hurt>>
vars == <<objects, rowVars, writerVars, damages, collector>>

Idle == [kind |-> "none"]

Init ==
    /\ objects = [o \in {Snapshot(0, {})} |-> "intact"]
    /\ revisions = <<Snapshot(0, {})>>
    /\ jobs = [j \in Jobs |-> "absent"]
    /\ delivered = {}
    /\ tasks = [w \in Writers |-> Idle]
    /\ hurt = [w \in Writers |-> {}]
    /\ damages = 0
    /\ collector = [at |-> "idle", doomed |-> {}]

Present == DOMAIN objects
Intact(S) == \A o \in S : o \in Present /\ objects[o] = "intact"
LastRevision == Len(revisions) - 1

-----------------------------------------------------------------------------
(* The object store.                                                       *)

\* The store after a write of o: a synced temporary file, renamed.
Written(o) ==
    [x \in Present \cup {o} |-> IF x = o THEN "intact" ELSE objects[x]]

\* Tasks of the Rust service; the others are of the Python service.
InRust(task) == task.kind \in {"document", "snapshot"} \/ task.job \in NativeJobs

\* The Rust `put` reuses an object only if its bytes hash to its name, and
\* replaces a damaged one; the Python `put` reuses whatever is there.
Reused(task, o) == o \in Present /\ (InRust(task) => objects[o] = "intact")

Put(task, o) == objects' = IF Reused(task, o) THEN objects ELSE Written(o)

-----------------------------------------------------------------------------
(* Publishing: objects first, then the row.                                *)

\* Mutant: a publisher goes on while the collector applies its plan.
GoesOn == TRUE
\* "Apply requires all API, worker and catalog publishers to be stopped."
Stopped == collector.at # "deleting"

Begin(w, task) ==
    /\ Stopped
    /\ tasks[w] = Idle
    /\ tasks' = [tasks EXCEPT ![w] = task]
    /\ hurt' = [hurt EXCEPT ![w] = {}]
    /\ UNCHANGED <<objects, rowVars, damages, collector>>

\* A document, put before `commit_document` looks at the expected revision.
BeginDocument(w, d, expected) ==
    /\ Begin(w, [kind |-> "document", name |-> d, expected |-> expected,
                 todo |-> {Document(d)}])

\* `commit_document` reads the snapshot of the expected revision, adds the
\* document to it and puts the new one.
ReadBase(w) ==
    /\ tasks[w].kind = "document" /\ tasks[w].todo = {}
    /\ tasks[w].expected <= LastRevision
    /\ LET base == revisions[tasks[w].expected + 1]
           new == Snapshot(tasks[w].expected + 1, base[3] \cup {tasks[w].name})
       IN /\ Intact({base})
          /\ tasks' = [tasks EXCEPT ![w] =
                 [kind |-> "snapshot", row |-> new, todo |-> {new},
                  expected |-> tasks[w].expected]]
    /\ UNCHANGED <<objects, rowVars, hurt, damages, collector>>

BeginRequest(w, j) ==
    /\ jobs[j] = "absent"
    /\ Begin(w, [kind |-> "request", job |-> j, todo |-> {Request(j)}])

\* A result is computed from the request, which is read first.
BeginResult(w, j) ==
    /\ jobs[j] = "active"
    /\ Intact({Request(j)})
    /\ Begin(w, [kind |-> "result", job |-> j,
                 todo |-> {Part(c) : c \in PartsOf[j]}])

PutNext(w) ==
    /\ tasks[w] # Idle
    /\ \E o \in tasks[w].todo :
        /\ Put(tasks[w], o)
        /\ tasks' = [tasks EXCEPT ![w].todo = @ \ {o}]
    /\ UNCHANGED <<rowVars, hurt, damages, collector>>

\* The manifest names the parts, and comes after them.
WriteManifest(w) ==
    /\ tasks[w].kind = "result" /\ tasks[w].todo = {}
    /\ tasks' = [tasks EXCEPT ![w] =
           [kind |-> "manifest", job |-> @.job, todo |-> {Manifest(@.job)}]]
    /\ UNCHANGED <<objects, rowVars, hurt, damages, collector>>

\* Mutant: only the manifest itself is read again.
RereadsManifest(j) == {Manifest(j)}
\* `reread`: the manifest, the raw input, every chunk and every page.
Rereads(j) == Closure({Manifest(j)})

\* The Rust worker reads all of it back before the final transaction.
Reread(w) ==
    /\ tasks[w].kind = "manifest" /\ tasks[w].todo = {}
    /\ tasks[w].job \in NativeJobs
    /\ Intact(Rereads(tasks[w].job))
    /\ tasks' = [tasks EXCEPT ![w] = [@ EXCEPT !.kind = "verified"]]
    /\ hurt' = [hurt EXCEPT ![w] = {}]
    /\ UNCHANGED <<objects, rowVars, damages, collector>>

Finish(w) ==
    /\ tasks' = [tasks EXCEPT ![w] = Idle]
    /\ hurt' = [hurt EXCEPT ![w] = {}]
    /\ UNCHANGED <<objects, damages, collector>>

\* Mutant: the head is moved whatever it is by now.
HeadIsPast(expected) == expected <= LastRevision
HeadIs(expected) == expected = LastRevision

CommitSnapshot(w) ==
    /\ tasks[w].kind = "snapshot" /\ tasks[w].todo = {}
    /\ HeadIs(tasks[w].expected)
    /\ tasks[w].row[2] <= MaxRevision
    /\ revisions' = Append(revisions, tasks[w].row)
    /\ UNCHANGED <<jobs, delivered>>
    /\ Finish(w)

CommitRequest(w) ==
    /\ tasks[w].kind = "request" /\ tasks[w].todo = {}
    /\ jobs[tasks[w].job] = "absent"
    /\ jobs' = [jobs EXCEPT ![tasks[w].job] = "active"]
    /\ UNCHANGED <<revisions, delivered>>
    /\ Finish(w)

\* `publish` of the Rust service needs the reread, `complete` does not.
CommitResult(w) ==
    /\ \/ tasks[w].kind = "verified"
       \/ /\ tasks[w].kind = "manifest" /\ tasks[w].todo = {}
          /\ tasks[w].job \notin NativeJobs
    /\ jobs[tasks[w].job] = "active"
    /\ jobs' = [jobs EXCEPT ![tasks[w].job] = "done"]
    /\ UNCHANGED <<revisions, delivered>>
    /\ Finish(w)

\* The process ends, or the last transaction refuses: what was put stays.
GiveUp(w) ==
    /\ tasks[w] # Idle
    /\ UNCHANGED rowVars
    /\ Finish(w)

\* A job fails or is cancelled.
EndJob(j) ==
    /\ Stopped
    /\ jobs[j] = "active"
    /\ jobs' = [jobs EXCEPT ![j] = "error"]
    /\ UNCHANGED <<objects, revisions, delivered, writerVars, damages, collector>>

-----------------------------------------------------------------------------
(* The environment.                                                        *)

\* An object is damaged on disk.
Damage(o) ==
    /\ damages < MaxDamage
    /\ o \in Present /\ objects[o] = "intact"
    /\ objects' = [objects EXCEPT ![o] = "damaged"]
    /\ hurt' = [w \in Writers |->
           IF tasks[w].kind = "verified" THEN hurt[w] \cup {o} ELSE hurt[w]]
    /\ damages' = damages + 1
    /\ UNCHANGED <<rowVars, tasks, collector>>

-----------------------------------------------------------------------------
(* `collect`, with apply.                                                  *)

\* The rows the collector starts from.  Mutant: receipts are forgotten.
RootsOfService ==
    {revisions[i] : i \in DOMAIN revisions}
    \cup {Request(j) : j \in {i \in Jobs : jobs[i] # "absent"}}
    \cup {Manifest(j) : j \in {i \in Jobs : jobs[i] = "done"}}
Roots == RootsOfService \cup {r.object : r \in delivered}

\* A row of the Python service holds the descriptor of an object.  A job row
\* of the Rust service holds a JSON object with the descriptor inside: `raw`
\* in the request, `manifest` in the result.
AllDescriptors == \A j \in NativeJobs : jobs[j] = "absent"

Drained == \A j \in Jobs : jobs[j] # "active"

\* Mutant: what the manifests refer to is not followed.
NamedByRows == Roots
\* `reachable`: every root, and whatever the JSON read so far refers to.
Live == Closure(Roots)

\* The workspace is at rest, as far as the tool and its operator can tell.
AtRest ==
    /\ Drained
    /\ collector.at # "deleting" /\ \A w \in Writers : tasks[w] = Idle

\* Every object reached is read and checked, then those that were not reached
\* are listed, if they are older than a period of grace: any of them may be.
Plan ==
    /\ AtRest
    /\ IF AllDescriptors /\ Intact(Closure(Roots))
       THEN \E aged \in SUBSET Present :
                collector' = [at |-> "deleting", doomed |-> aged \ Live]
       ELSE collector' = [at |-> "failed", doomed |-> {}]
    /\ UNCHANGED <<objects, rowVars, writerVars, damages>>

\* The mtime is looked at once more, which matters only to a writer.
Delete(o) ==
    /\ collector.at = "deleting" /\ o \in collector.doomed
    /\ collector' = [collector EXCEPT !.doomed = @ \ {o}]
    /\ objects' = [x \in Present \ {o} |-> objects[x]]
    /\ UNCHANGED <<rowVars, writerVars, damages>>

\* All of it is done, or the tool stops halfway.
EndCollection ==
    /\ collector.at # "idle"
    /\ collector' = [at |-> "idle", doomed |-> {}]
    /\ UNCHANGED <<objects, rowVars, writerVars, damages>>

-----------------------------------------------------------------------------
Publishing ==
    \/ \E w \in Writers, d \in Documents, n \in 0 .. MaxRevision :
           BeginDocument(w, d, n)
    \/ \E w \in Writers, j \in Jobs : BeginRequest(w, j) \/ BeginResult(w, j)
    \/ \E w \in Writers :
           ReadBase(w) \/ PutNext(w) \/ WriteManifest(w) \/ Reread(w)
           \/ CommitSnapshot(w) \/ CommitRequest(w) \/ CommitResult(w)
           \/ GiveUp(w)
    \/ \E j \in Jobs : EndJob(j)

Environment == \E o \in Present : Damage(o)

Collecting ==
    Plan \/ EndCollection \/ \E o \in collector.doomed : Delete(o)

Next == Publishing \/ Environment \/ Collecting

Spec == Init /\ [][Next]_vars

-----------------------------------------------------------------------------
(* Safety.                                                                 *)

\* Whatever a committed row names, directly or through its manifest, is in the
\* store: a row is committed after its objects are put, and the collection
\* leaves what is referenced, although a publisher may have reused an object
\* that was garbage for long ("retains all referenced objects").
NothingDangles == Closure(Roots) \subseteq Present

\* The Rust service publishes a result only when all of it has been read back
\* intact; only damage done after that can have gone unnoticed (`reread`).
PublishesWhatItReread ==
    [][\A j \in NativeJobs : jobs[j] = "active" /\ jobs'[j] = "done" =>
           \E w \in Writers :
               /\ tasks[w].kind = "verified" /\ tasks[w].job = j
               /\ Intact(Closure({Manifest(j)}) \ hurt[w])]_vars

\* Every revision is the one before it with a document of its committer: no
\* commit loses another's, and no number is given twice (`commit_document`).
EachRevisionAddsOne ==
    \A i \in 2 .. Len(revisions) :
        /\ revisions[i][2] = i - 1
        /\ revisions[i - 1][3] \subseteq revisions[i][3]
        /\ Cardinality(revisions[i][3] \ revisions[i - 1][3]) <= 1

\* The collection refuses only for the sake of a damaged or missing object:
\* "It ... fails closed on corrupt/missing references", and "counts native
\* active jobs and keeps every object a native job or publication references,
\* because job requests and results carry the same descriptors"
\* (docs/production-storage.md).
FailsOnlyOnDamage == collector.at = "failed" => ~ Intact(Closure(Roots))
==============================================================================
