------------------------------ MODULE CsvImport ------------------------------
(***************************************************************************)
(* One CSV import job, from the upload to the acknowledgement of its task. *)
(*                                                                         *)
(*   - the API process stages the file in the object store, commits the    *)
(*     PENDING job row and only then queues the Celery task;               *)
(*   - a worker that receives the task loads the job, commits RUNNING,     *)
(*     applies the rows after the checkpoint, commits every BatchSize rows *)
(*     together with the checkpoint, and commits the final status;         *)
(*   - Celery acknowledges late: a worker that dies gives its message back *)
(*     to the queue, and a lost broker connection (Redeliver) gives it     *)
(*     back while the worker goes on, so that two deliveries run at once;  *)
(*     a task that raises, or that the time limit kills, is acknowledged.  *)
(*                                                                         *)
(* A worker keeps its own copy of the job row (mem) for the whole run: the *)
(* session does not expire it on commit, and a flush writes the columns    *)
(* that differ from what the session last read or wrote (base).            *)
(***************************************************************************)
EXTENDS Integers, Sequences, FiniteSets

CONSTANTS
    Keys,          \* provider identifiers a row may carry
    Workers,       \* Celery worker processes
    MaxRows,       \* bound: data rows of an uploaded file
    BatchSize,     \* settings.worker.import_batch_size
    MaxCrashes,    \* bound: process deaths
    MaxOverlaps,   \* bound: messages redelivered while their worker runs on
    MaxAborts,     \* bound: exceptions of the row loop outside a savepoint
    MaxFaults      \* bound: exceptions no handler of the task takes care of

ASSUME CsvImportAssumption ==
    /\ MaxRows \in Nat
    /\ BatchSize \in Nat \ {0}
    /\ MaxCrashes \in Nat /\ MaxOverlaps \in Nat
    /\ MaxAborts \in Nat /\ MaxFaults \in Nat

VARIABLES
    kind,      \* import_type of the job
    file,      \* the rows of the staged file: the key each one carries
    headerOk,  \* does the header carry the required columns?
    prior,     \* keys the catalog held before this job
    upload,    \* where the API process is in create_job and the dispatch
    object,    \* is the raw file in the object store?
    job,       \* the committed import_jobs row
    catalog,   \* committed hotels/reviews: the row last applied to each key
    applied,   \* history: committed upserts of each file row
    issues,    \* committed data_quality_issues of each file row
    queue,     \* copies of the task message waiting in the broker
    pc,        \* where each worker is in import_csv
    owns,      \* does the worker still hold the message it is executing?
    mem,       \* each worker's in-memory job row
    base,      \* what each worker's session last read or wrote of it
    tx,        \* the open transaction: rows applied, rows rejected, catalog writes
    triggers,  \* process_reviews messages sent
    lost,      \* history: what an execution failed to do for good
    crashes, overlaps, aborts, faults

fileVars   == <<kind, file, headerOk, prior>>
uploadVars == <<upload, object>>
storeVars  == <<job, catalog, applied, issues>>
workerVars == <<pc, owns, mem, base, tx>>
boundVars  == <<crashes, overlaps, aborts, faults>>
vars == <<fileVars, uploadVars, storeVars, queue, workerVars, triggers, lost, boundVars>>

Kinds    == {"HOTELS", "REVIEWS"}
Statuses == {"ABSENT", "PENDING", "RUNNING", "PARTIAL", "COMPLETED", "FAILED"}
Uploads  == {"idle", "stored", "committed", "done", "rejected", "lost"}
Losses   == {"delivery", "mark", "trigger"}
Steps    == {"idle", "fetched", "started", "rows", "failing", "returned", "acking"}

Rows    == 1 .. Len(file)
JobRow  == [status: Statuses, row: 0 .. Len(file), read: Nat,
            inserted: Nat, updated: Nat, failed: Nat]
NoJob   == [status |-> "ABSENT", row |-> 0, read |-> 0,
            inserted |-> 0, updated |-> 0, failed |-> 0]

Absent  == -1     \* the key has no catalog row
Prior   == 0      \* the key's catalog row comes from an earlier import
NoTx    == [ok |-> {}, bad |-> {}, writes |-> [k \in Keys |-> Absent]]

Init ==
    /\ kind \in Kinds
    /\ headerOk \in BOOLEAN
    /\ \E n \in 0 .. MaxRows : file \in [1 .. n -> Keys]
    /\ upload = "idle" /\ object = FALSE
    /\ job = NoJob
    /\ prior \in SUBSET Keys
    /\ catalog = [k \in Keys |-> IF k \in prior THEN Prior ELSE Absent]
    /\ applied = [r \in Rows |-> 0]
    /\ issues = [r \in Rows |-> 0]
    /\ queue = 0
    /\ pc = [w \in Workers |-> "idle"]
    /\ owns = [w \in Workers |-> FALSE]
    /\ mem = [w \in Workers |-> NoJob]
    /\ base = [w \in Workers |-> NoJob]
    /\ tx = [w \in Workers |-> NoTx]
    /\ triggers = 0 /\ lost = {}
    /\ crashes = 0 /\ overlaps = 0 /\ aborts = 0 /\ faults = 0

-----------------------------------------------------------------------------
(* The upload request                                                      *)

WithStatus(j, s) == [j EXCEPT !.status = s]

StoreObject ==
    /\ upload = "idle"
    /\ upload' = "stored" /\ object' = TRUE
    /\ UNCHANGED <<fileVars, storeVars, queue, workerVars, triggers, lost, boundVars>>

\* The upload carries no byte, so neither header nor rows: the object is
\* deleted and the request fails.
RejectEmpty ==
    /\ upload = "stored" /\ file = <<>> /\ ~headerOk
    /\ upload' = "rejected" /\ object' = FALSE
    /\ UNCHANGED <<fileVars, storeVars, queue, workerVars, triggers, lost, boundVars>>

CommitJob ==
    /\ upload = "stored"
    /\ upload' = "committed"
    /\ job' = WithStatus(NoJob, "PENDING")
    /\ UNCHANGED <<fileVars, object, catalog, applied, issues, queue, workerVars,
                   triggers, lost, boundVars>>

\* The commit raises: before it took effect, or after it did but before the
\* reply arrived.  The object is deleted, or deleting it fails as well.
CommitJobFails ==
    /\ upload = "stored" /\ faults < MaxFaults
    /\ upload' = "rejected"
    /\ \E landed \in BOOLEAN :
          job' = IF landed THEN WithStatus(NoJob, "PENDING") ELSE job
    /\ object' \in BOOLEAN
    /\ faults' = faults + 1
    /\ UNCHANGED <<fileVars, catalog, applied, issues, queue, workerVars,
                   triggers, lost, crashes, overlaps, aborts>>

MUTANT_DispatchEarly ==
    /\ upload \in {"stored", "committed"}
    /\ upload' = "done" /\ queue' = queue + 1
    /\ UNCHANGED <<fileVars, object, storeVars, workerVars, triggers, lost, boundVars>>

Dispatch ==
    /\ upload = "committed"
    /\ upload' = "done" /\ queue' = queue + 1
    /\ UNCHANGED <<fileVars, object, storeVars, workerVars, triggers, lost, boundVars>>

ApiCrash ==
    /\ upload \in {"stored", "committed"} /\ crashes < MaxCrashes
    /\ upload' = "lost" /\ crashes' = crashes + 1
    /\ UNCHANGED <<fileVars, object, storeVars, queue, workerVars, triggers, lost,
                   overlaps, aborts, faults>>

-----------------------------------------------------------------------------
(* One delivery of the task                                                *)

\* The session's UPDATE of the job row holds its lock until the commit.
LockedOut(w) == \E v \in Workers \ {w} : tx[v] # NoTx

\* What a flush leaves in the row: the columns the session changed.
Column(old, new, stored) == IF new # old THEN new ELSE stored
Flushed(w, m) ==
    [status   |-> Column(base[w].status, m.status, job.status),
     row      |-> Column(base[w].row, m.row, job.row),
     read     |-> Column(base[w].read, m.read, job.read),
     inserted |-> Column(base[w].inserted, m.inserted, job.inserted),
     updated  |-> Column(base[w].updated, m.updated, job.updated),
     failed   |-> Column(base[w].failed, m.failed, job.failed)]

\* The lookup of the row's key runs in the worker's own transaction.
MUTANT_KeyPresentCommitted(w, k) == catalog[k] # Absent
KeyPresent(w, k) == catalog[k] # Absent \/ tx[w].writes[k] # Absent

\* The upsert of row r overwrites what the key held.
MUTANT_InsertOnly(writes, k, r) == [writes EXCEPT ![k] = IF @ = Absent THEN r ELSE @]
Upsert(writes, k, r) == [writes EXCEPT ![k] = r]

\* The catalog once a transaction's writes are committed.
Committed(writes) ==
    [k \in Keys |-> IF writes[k] # Absent THEN writes[k] ELSE catalog[k]]

\* One more application, or issue, of each row of S.
Tally(count, S) == [r \in Rows |-> IF r \in S THEN count[r] + 1 ELSE count[r]]

\* The counters of a row: inserted when its key was new, updated when it was
\* not, failed when its savepoint rolled back.
MUTANT_CountedReadLate(m, ok, new) ==
    [status   |-> m.status,
     row      |-> m.row + 1,
     read     |-> IF ok THEN m.read + 1 ELSE m.read,
     inserted |-> IF ok /\ new THEN m.inserted + 1 ELSE m.inserted,
     updated  |-> IF ok /\ ~new THEN m.updated + 1 ELSE m.updated,
     failed   |-> IF ok THEN m.failed ELSE m.failed + 1]
Counted(m, ok, new) ==
    [status   |-> m.status,
     row      |-> m.row + 1,
     read     |-> m.read + 1,
     inserted |-> IF ok /\ new THEN m.inserted + 1 ELSE m.inserted,
     updated  |-> IF ok /\ ~new THEN m.updated + 1 ELSE m.updated,
     failed   |-> IF ok THEN m.failed ELSE m.failed + 1]

\* What the row leaves in the open transaction.
Traced(t, ok, r) ==
    [ok     |-> IF ok THEN t.ok \cup {r} ELSE t.ok,
     bad    |-> IF ok THEN t.bad ELSE t.bad \cup {r},
     writes |-> IF ok THEN Upsert(t.writes, file[r], r) ELSE t.writes]

MUTANT_FinalStatusIgnoresFailures(m) == "COMPLETED"
FinalStatus(m) == IF m.failed > 0 THEN "PARTIAL" ELSE "COMPLETED"

MUTANT_ResumeFromTop(j) == [j EXCEPT !.row = 0]
\* The job a worker loads; its checkpoint is where the rows resume.
Loaded(j) == j

\* Where the delivery goes from there: a finished job has nothing to run, and
\* the task goes on as if it had run.
MUTANT_Arrived(j) == IF j.status \in {"ABSENT", "COMPLETED"} THEN "acking" ELSE "fetched"
Arrived(j) == IF j.status \in {"ABSENT", "COMPLETED"} THEN "returned" ELSE "fetched"

Receive(w) ==
    /\ pc[w] = "idle" /\ queue > 0
    /\ queue' = queue - 1
    /\ owns' = [owns EXCEPT ![w] = TRUE]
    /\ mem' = [mem EXCEPT ![w] = Loaded(job)]
    /\ base' = [base EXCEPT ![w] = Loaded(job)]
    /\ pc' = [pc EXCEPT ![w] = Arrived(job)]
    /\ UNCHANGED <<fileVars, uploadVars, storeVars, tx, triggers, lost, boundVars>>

StartRun(w) ==
    /\ pc[w] = "fetched"
    /\ mem[w].status # "RUNNING" => ~LockedOut(w)    \* an unchanged row is not written
    /\ LET m == WithStatus(mem[w], "RUNNING")
       IN  /\ mem' = [mem EXCEPT ![w] = m]
           /\ base' = [base EXCEPT ![w] = m]
           /\ job' = Flushed(w, m)
    /\ pc' = [pc EXCEPT ![w] = "started"]
    /\ UNCHANGED <<fileVars, uploadVars, catalog, applied, issues, queue, owns, tx,
                   triggers, lost, boundVars>>

Materialize(w) ==
    /\ pc[w] = "started" /\ object
    /\ pc' = [pc EXCEPT ![w] = "rows"]
    /\ UNCHANGED <<fileVars, uploadVars, storeVars, queue, owns, mem, base, tx,
                   triggers, lost, boundVars>>

\* The commit of RUNNING or the download raises, outside the try block: nothing
\* marks the job FAILED, and Celery acknowledges a task that raised.
MaterializeFails(w) ==
    /\ pc[w] \in {"fetched", "started"} /\ faults < MaxFaults
    /\ pc' = [pc EXCEPT ![w] = "acking"]
    /\ lost' = lost \cup {"mark"}
    /\ faults' = faults + 1
    /\ UNCHANGED <<fileVars, uploadVars, storeVars, queue, owns, mem, base, tx,
                   triggers, crashes, overlaps, aborts>>

\* The next row runs in a savepoint of its own: ok when its upserts went
\* through, otherwise it is counted and recorded as an issue.  A row that
\* closes a batch commits the transaction with the checkpoint.
ProcessRow(w, ok) ==
    LET r == mem[w].row + 1
        m == Counted(mem[w], ok, ~KeyPresent(w, file[r]))
        t == Traced(tx[w], ok, r)
    IN  /\ pc[w] = "rows" /\ headerOk /\ ~LockedOut(w)
        /\ r <= Len(file)
        /\ mem' = [mem EXCEPT ![w] = m]
        /\ IF r % BatchSize = 0
           THEN /\ job' = Flushed(w, m)
                /\ base' = [base EXCEPT ![w] = m]
                /\ catalog' = Committed(t.writes)
                /\ applied' = Tally(applied, t.ok)
                /\ issues' = Tally(issues, t.bad)
                /\ tx' = [tx EXCEPT ![w] = NoTx]
           ELSE /\ tx' = [tx EXCEPT ![w] = t]
                /\ UNCHANGED <<storeVars, base>>
        /\ UNCHANGED <<fileVars, uploadVars, queue, pc, owns, triggers, lost, boundVars>>

\* After the last row: the final status and the tail batch, in one commit.
FinishRun(w) ==
    LET m == WithStatus(mem[w], FinalStatus(mem[w]))
    IN  /\ pc[w] = "rows" /\ headerOk /\ ~LockedOut(w)
        /\ mem[w].row >= Len(file)
        /\ mem' = [mem EXCEPT ![w] = m]
        /\ base' = [base EXCEPT ![w] = m]
        /\ job' = Flushed(w, m)
        /\ catalog' = Committed(tx[w].writes)
        /\ applied' = Tally(applied, tx[w].ok)
        /\ issues' = Tally(issues, tx[w].bad)
        /\ tx' = [tx EXCEPT ![w] = NoTx]
        /\ pc' = [pc EXCEPT ![w] = "returned"]
        /\ UNCHANGED <<fileVars, uploadVars, queue, owns, triggers, lost, boundVars>>

\* An exception of the row loop (a missing column, an unreadable line, an
\* issue or a commit that cannot be written): the open batch rolls back.
Abort(w) ==
    /\ pc[w] = "rows"
    /\ ~headerOk \/ aborts < MaxAborts
    /\ aborts' = IF headerOk THEN aborts + 1 ELSE aborts
    /\ tx' = [tx EXCEPT ![w] = NoTx]
    /\ pc' = [pc EXCEPT ![w] = "failing"]
    /\ UNCHANGED <<fileVars, uploadVars, storeVars, queue, owns, mem, base,
                   triggers, lost, crashes, overlaps, faults>>

\* The handler marks the row it reads afresh, not the copy it worked on.
MUTANT_FailedWithCounters(w) == WithStatus(mem[w], "FAILED")
MUTANT_FailedUnmarked(w) == job
MarkedFailed(w) == WithStatus(job, "FAILED")

MarkFailed(w) ==
    /\ pc[w] = "failing" /\ ~LockedOut(w)
    /\ job' = MarkedFailed(w)
    /\ pc' = [pc EXCEPT ![w] = "acking"]
    /\ UNCHANGED <<fileVars, uploadVars, catalog, applied, issues, queue, owns, mem, base,
                   tx, triggers, lost, boundVars>>

\* The handler's own transaction fails too: the row keeps what it had.
MarkFailedFails(w) ==
    /\ pc[w] = "failing" /\ faults < MaxFaults
    /\ faults' = faults + 1
    /\ pc' = [pc EXCEPT ![w] = "acking"]
    /\ lost' = lost \cup {"mark"}
    /\ UNCHANGED <<fileVars, uploadVars, storeVars, queue, owns, mem, base, tx, triggers,
                   crashes, overlaps, aborts>>

\* Back in the task: a review import queues the extraction of the reviews; or
\* the message cannot be sent, and the task that raised is acknowledged.
Triggering(w) == kind = "REVIEWS" /\ mem[w].status # "ABSENT"
SendTrigger(w) ==
    /\ pc[w] = "returned"
    /\ \/ /\ triggers' = IF Triggering(w) THEN triggers + 1 ELSE triggers
          /\ UNCHANGED <<lost, faults>>
       \/ /\ Triggering(w) /\ faults < MaxFaults
          /\ faults' = faults + 1
          /\ lost' = lost \cup {"trigger"}
          /\ UNCHANGED triggers
    /\ pc' = [pc EXCEPT ![w] = "acking"]
    /\ UNCHANGED <<fileVars, uploadVars, storeVars, queue, owns, mem, base, tx,
                   crashes, overlaps, aborts>>

MUTANT_AckTwice(w) ==
    /\ pc[w] = "acking"
    /\ pc' = [pc EXCEPT ![w] = "idle"]
    /\ owns' = [owns EXCEPT ![w] = FALSE]
    /\ queue' = queue - 1
    /\ UNCHANGED <<fileVars, uploadVars, storeVars, mem, base, tx, triggers, lost, boundVars>>

Ack(w) ==
    /\ pc[w] = "acking"
    /\ pc' = [pc EXCEPT ![w] = "idle"]
    /\ owns' = [owns EXCEPT ![w] = FALSE]
    /\ UNCHANGED <<fileVars, uploadVars, storeVars, queue, mem, base, tx, triggers, lost,
                   boundVars>>

\* The worker dies, and its transaction rolls back.  Its message is rejected
\* back to the queue (task_reject_on_worker_lost).  Not so when the broker had
\* given it to another worker, or when it was the time limit of the task that
\* killed the worker: then the message is acknowledged.
Crash(w) ==
    /\ pc[w] # "idle" /\ crashes < MaxCrashes
    /\ crashes' = crashes + 1
    /\ \/ owns[w] /\ queue' = queue + 1 /\ UNCHANGED lost
       \/ /\ lost' = IF pc[w] = "acking" THEN lost ELSE lost \cup {"delivery"}
          /\ UNCHANGED queue
    /\ owns' = [owns EXCEPT ![w] = FALSE]
    /\ pc' = [pc EXCEPT ![w] = "idle"]
    /\ tx' = [tx EXCEPT ![w] = NoTx]
    /\ UNCHANGED <<fileVars, uploadVars, storeVars, mem, base, triggers,
                   overlaps, aborts, faults>>

\* The broker restores the unacknowledged message while the worker runs on.
Redeliver(w) ==
    /\ owns[w] /\ overlaps < MaxOverlaps
    /\ overlaps' = overlaps + 1
    /\ queue' = queue + 1
    /\ owns' = [owns EXCEPT ![w] = FALSE]
    /\ UNCHANGED <<fileVars, uploadVars, storeVars, pc, mem, base, tx, triggers, lost,
                   crashes, aborts, faults>>

Api == StoreObject \/ RejectEmpty \/ CommitJob \/ CommitJobFails \/ Dispatch \/ ApiCrash

Work(w) ==
    \/ Receive(w) \/ StartRun(w)
    \/ Materialize(w) \/ MaterializeFails(w)
    \/ \E ok \in BOOLEAN : ProcessRow(w, ok)
    \/ FinishRun(w)
    \/ Abort(w) \/ MarkFailed(w) \/ MarkFailedFails(w)
    \/ SendTrigger(w) \/ Ack(w)

\* The request has been answered, no message waits, no worker is busy.
Quiet ==
    /\ upload \in {"done", "rejected", "lost"} /\ queue = 0
    /\ \A w \in Workers : pc[w] = "idle"
    /\ UNCHANGED vars

Next ==
    \/ Api
    \/ \E w \in Workers : Work(w) \/ Crash(w) \/ Redeliver(w)
    \/ Quiet

Spec == Init /\ [][Next]_vars

\* Workers keep executing what they were given; uploads, crashes and faults
\* need not happen.
Fairness == \A w \in Workers : WF_vars(Work(w))

FairSpec == Spec /\ Fairness

-----------------------------------------------------------------------------
(* Properties                                                              *)

\* Type invariant: every variable of the job, the stores and the workers
\* ranges over the values the code gives it.
TypeOK ==
    /\ kind \in Kinds /\ headerOk \in BOOLEAN /\ file \in Seq(Keys)
    /\ upload \in Uploads /\ object \in BOOLEAN
    /\ prior \in SUBSET Keys
    /\ job \in JobRow
    /\ catalog \in [Keys -> Int]
    /\ applied \in [Rows -> Nat] /\ issues \in [Rows -> Nat]
    /\ queue \in Nat /\ triggers \in Nat /\ lost \subseteq Losses
    /\ pc \in [Workers -> Steps] /\ owns \in [Workers -> BOOLEAN]
    /\ mem \in [Workers -> JobRow] /\ base \in [Workers -> JobRow]
    /\ tx \in [Workers -> [ok: SUBSET Rows, bad: SUBSET Rows, writes: [Keys -> Int]]]
    /\ crashes \in Nat /\ overlaps \in Nat /\ aborts \in Nat /\ faults \in Nat

\* The checkpoint is committed in the transaction of the rows it stands for
\* (_checkpoint): whatever crash, abort or late retry happened before, every
\* row up to the checkpoint was decided exactly once - applied, or rejected
\* with its issue - and no row beyond it left a trace.
ExactlyOnce ==
    \A r \in Rows :
        applied[r] + issues[r] = IF r <= job.row THEN 1 ELSE 0

\* The counters an operator reads off the committed job add up to the rows
\* the checkpoint covers, and none is lost or counted twice by a resumed run.
CountersAddUp ==
    /\ job.read = job.row
    /\ job.inserted + job.updated + job.failed = job.row

\* "inserted" counts the keys the job brought into the catalog: a key that
\* the same file repeats, or that a rolled-back batch had inserted, counts once.
InsertedCountsNewKeys ==
    job.inserted = Cardinality({k \in Keys \ prior : catalog[k] # Absent})

\* The catalog shows the file as if it had been applied in order up to the
\* checkpoint: no resumed run puts an older row of the file over a newer one.
CatalogFollowsFile ==
    \A k \in Keys : \A r \in Rows :
        applied[r] > 0 /\ file[r] = k => catalog[k] >= r

\* A job whose status says that it was processed has decided every row of its
\* file, however many deliveries of the task ran, even at the same time
\* (run: status and tail are one commit).
Decided(r) == applied[r] + issues[r] > 0
ProcessedMeansDecided ==
    job.status \in {"PARTIAL", "COMPLETED"} => \A r \in Rows : Decided(r)

\* The task is queued after the commit of the job and of its raw file
\* (create_job, _create_import): no delivery meets a missing row or object,
\* even when the request's commit fails or lies about its outcome.
DeliveredJobIsStaged ==
    (queue > 0 \/ \E w \in Workers : pc[w] # "idle")
        => object /\ job.status # "ABSENT"

\* The extraction of the imported reviews is requested for every review job
\* that ends COMPLETED, even if the worker dies between the last commit and
\* send_task: the redelivered task returns early and still sends.  The request
\* is lost only when send_task raises, or when an execution goes without its
\* message coming back: killed at the time limit, or dead after the broker gave
\* the message to another, which failed.  (A PARTIAL job has no such guarantee:
\* its redelivery runs again and may abort.)
Unsent == lost \cap {"delivery", "trigger"} # {}
ReviewsGetExtracted ==
    <>[](kind = "REVIEWS" /\ job.status = "COMPLETED" => triggers > 0 \/ Unsent)

\* A queued job ends in a final status and stays there, through worker deaths,
\* failed runs and runs that reopen it.  The exceptions: an execution went
\* without its message coming back, or it failed outside the try block of the
\* run, or as it marked the job.
Settled   == job.status \in {"PARTIAL", "COMPLETED", "FAILED"}
Abandoned == lost \cap {"delivery", "mark"} # {}
QueuedJobSettles == <>[](upload = "done" => Settled \/ Abandoned)

\* The abstract ledger (ImportLedger) this job implements.
Ledger == INSTANCE ImportLedger WITH
    Reopened <- {"partial"},
    total    <- Len(file),
    pos      <- job.row,
    verdict  <- [r \in Rows |-> IF applied[r] > 0 THEN "ok"
                                ELSE IF issues[r] > 0 THEN "bad" ELSE "open"],
    state    <- CASE job.status = "COMPLETED" -> "complete"
                  [] job.status = "PARTIAL"   -> "partial"
                  [] OTHER                    -> "open"

\* Refinement: without overlapping deliveries the job is the ledger.
LedgerSpec == Ledger!Spec
=============================================================================
