------------------------------- MODULE Delivery -------------------------------
(***************************************************************************)
(* Delivery of a finished Python job to an Iceberg catalog                 *)
(* (api/app/iceberg.py), on top of Storage: for each table of the result,  *)
(* the rows and a marker of the run in one optimistic commit, then a       *)
(* receipt of the whole delivery as an object and a row.  Several          *)
(* publishers may deliver one job, and each may end at any step and be     *)
(* started again.                                                          *)
(***************************************************************************)
EXTENDS Storage

CONSTANTS
    Deliverers,     \* publisher processes
    Tables,         \* the catalog tables
    MaxVersion      \* bound: commits to a table

ASSUME DeliveryAssumption == MaxVersion \in Nat

VARIABLES
    catalog,    \* per table: its last snapshot, the copies of each job's
                \* rows, and the snapshot in each job's marker, 0 for none
    delivering  \* what each publisher is doing

deliveryVars == <<catalog, delivering>>
allVars == <<vars, deliveryVars>>

DeliveryInit ==
    /\ Init
    /\ catalog = [t \in Tables |-> [version |-> 0, copies |-> [j \in Jobs |-> 0],
                                    marker |-> [j \in Jobs |-> 0]]]
    /\ delivering = [x \in Deliverers |-> Idle]

Do(x, task) == delivering' = [delivering EXCEPT ![x] = task]

-----------------------------------------------------------------------------
\* Only completed jobs, whose result can be read.
BeginDelivery(x, j) ==
    /\ Stopped
    /\ delivering[x] = Idle
    /\ j \notin NativeJobs /\ jobs[j] = "done"
    /\ Intact({Manifest(j)})
    /\ Do(x, [kind |-> "next", job |-> j, receipts |-> <<>>])
    /\ UNCHANGED <<vars, catalog>>

\* Whether a table already has the run.  Mutant: the marker is not looked at.
NotMarked(t, j) == FALSE
Marked(t, j) == catalog[t].marker[j] > 0

\* Mutant: the receipt of a run found in the table names its last snapshot.
LastSnapshot(t, j) == catalog[t].version
MarkedSnapshot(t, j) == catalog[t].marker[j]

\* The receipts with that of one more table.
WithReceipt(receipts, t, snapshot) ==
    [s \in DOMAIN receipts \cup {t} |-> IF s = t THEN snapshot ELSE receipts[s]]

NextTable(task) == CHOOSE t \in Tables : t \notin DOMAIN task.receipts

\* The table is loaded, with its properties: the marker of an earlier delivery
\* is taken for the receipt, or else the parts are read and appended to it.
Load(x) ==
    LET task == delivering[x]
        t == NextTable(task)
    IN
    /\ task.kind \in {"next", "again"}
    /\ DOMAIN task.receipts # Tables
    /\ IF Marked(t, task.job)
       THEN Do(x, [kind |-> "next", job |-> task.job,
                   receipts |-> WithReceipt(task.receipts, t,
                                            MarkedSnapshot(t, task.job))])
       ELSE /\ Intact({Part(c) : c \in PartsOf[task.job]})
            /\ Do(x, [kind |-> "loaded", job |-> task.job,
                      receipts |-> task.receipts, version |-> catalog[t].version,
                      attempt |-> IF task.kind = "again" THEN task.attempt ELSE 1])
    /\ UNCHANGED <<vars, catalog>>

\* Mutant: a commit based on an earlier snapshot is not refused.
BasedOnAny(x, t) == TRUE
Based(x, t) == catalog[t].version = delivering[x].version

\* Rows and marker in one commit.
CommitTable(x) ==
    LET task == delivering[x]
        t == NextTable(task)
        snapshot == catalog[t].version + 1
    IN
    /\ task.kind = "loaded"
    /\ Based(x, t)
    /\ snapshot <= MaxVersion
    /\ catalog' = [catalog EXCEPT ![t].version = snapshot,
                                  ![t].copies[task.job] = @ + 1,
                                  ![t].marker[task.job] = snapshot]
    /\ Do(x, [kind |-> "next", job |-> task.job,
              receipts |-> WithReceipt(task.receipts, t, snapshot)])
    /\ UNCHANGED vars

\* Somebody else committed first: at most three attempts.
CommitRefused(x) ==
    LET task == delivering[x] IN
    /\ task.kind = "loaded"
    /\ ~ Based(x, NextTable(task))
    /\ Do(x, IF task.attempt < 3
             THEN [kind |-> "again", job |-> task.job, receipts |-> task.receipts,
                   attempt |-> task.attempt + 1]
             ELSE Idle)
    /\ UNCHANGED <<vars, catalog>>

ReceiptOf(x) == DeliveryReceipt(delivering[x].job, delivering[x].receipts)

\* All tables have the run: the receipt object.
WriteReceipt(x) ==
    /\ delivering[x].kind = "next"
    /\ DOMAIN delivering[x].receipts = Tables
    /\ objects' = IF ReceiptOf(x) \in Present THEN objects ELSE Written(ReceiptOf(x))
    /\ Do(x, [delivering[x] EXCEPT !.kind = "written"])
    /\ UNCHANGED <<rowVars, writerVars, damages, collector, catalog>>

\* `record_publication`: the row, or the very same receipt is there already.
Record(x) ==
    LET earlier == {r \in delivered : r.job = delivering[x].job} IN
    /\ delivering[x].kind = "written"
    /\ IF earlier = {}
       THEN /\ delivered' = delivered \cup
                   {[job |-> delivering[x].job, object |-> ReceiptOf(x)]}
            /\ Do(x, Idle)
       ELSE /\ UNCHANGED delivered
            /\ Do(x, IF \A r \in earlier : r.object = ReceiptOf(x)
                     THEN Idle ELSE [kind |-> "conflict", job |-> delivering[x].job])
    /\ UNCHANGED <<objects, revisions, jobs, writerVars, damages, collector, catalog>>

\* The process ends anywhere, also when a commit went through and its reply
\* did not arrive, or after a refusal.
EndDelivery(x) ==
    /\ delivering[x] # Idle
    /\ Do(x, Idle)
    /\ UNCHANGED <<vars, catalog>>

\* Somebody else changes a table: another workspace tool, or its upkeep.
OtherCommit(t) ==
    /\ catalog[t].version < MaxVersion
    /\ catalog' = [catalog EXCEPT ![t].version = @ + 1]
    /\ UNCHANGED <<vars, delivering>>

Delivering ==
    \E x \in Deliverers :
        \/ \E j \in Jobs : BeginDelivery(x, j)
        \/ Load(x) \/ CommitTable(x) \/ CommitRefused(x)
        \/ WriteReceipt(x) \/ Record(x) \/ EndDelivery(x)

\* The collection is planned while no catalog publisher runs either.
StorageStep ==
    /\ Next
    /\ Plan => \A x \in Deliverers : delivering[x] = Idle
    /\ UNCHANGED deliveryVars

DeliveryNext ==
    \/ StorageStep
    \/ Delivering
    \/ \E t \in Tables : OtherCommit(t)

DeliverySpec == DeliveryInit /\ [][DeliveryNext]_allVars

-----------------------------------------------------------------------------
\* A table has the rows of a run once if it has its marker, and not at all
\* otherwise, whoever delivers it, how often and however it ends ("Idempotent
\* delivery of committed partitioned results").
DeliveredOnce ==
    \A t \in Tables, j \in Jobs :
        catalog[t].copies[j] = IF catalog[t].marker[j] = 0 THEN 0 ELSE 1

\* "A SQL receipt marks completion of the entire multi-table delivery": its
\* object is in the store and names the snapshots of the run's commits.
ReceiptsAreTrue ==
    \A r \in delivered :
        /\ r.object \in Present
        /\ \A t \in Tables : r.object[3][t] = catalog[t].marker[r.job]
                             /\ r.object[3][t] > 0

\* Two deliveries of one job never disagree about its receipt: a retry is not
\* refused for what an earlier attempt recorded (`record_publication`).
RetriesAgree == \A x \in Deliverers : delivering[x].kind # "conflict"
==============================================================================
