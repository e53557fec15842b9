--------------------------- MODULE CsvImportProofs ---------------------------
(***************************************************************************)
(* Proofs about CsvImport for every file, batch size, number of workers,   *)
(* crashes, aborts and faults.                                             *)
(*                                                                         *)
(* Until a first delivery overlaps another (the second part) the job's     *)
(* message is a token: whoever holds it is alone, what it loaded is what   *)
(* is committed, and what its transaction holds is exactly the rows after  *)
(* the committed checkpoint.  From this: every row is decided exactly      *)
(* once, the counters add up and tell the new keys, the catalog follows    *)
(* the file, and the job implements the abstract ledger.                   *)
(*                                                                         *)
(* The last part is about imports of which nothing runs any more: how they *)
(* ended, and that the extraction of their reviews was requested.          *)
(***************************************************************************)
EXTENDS CsvImport, FiniteSetTheorems, TLAPS

-----------------------------------------------------------------------------
(* Type correctness                                                        *)

\* What a flush (_checkpoint) stores is a job row.
LEMMA FlushedType ==
    ASSUME NEW w \in Workers, NEW m \in JobRow, job \in JobRow
    PROVE  Flushed(w, m) \in JobRow
  BY DEF Flushed, Column, JobRow

\* Counting a row (_run_hotels, _run_reviews) gives a job row.
LEMMA CountedType ==
    ASSUME NEW m \in JobRow, NEW ok \in BOOLEAN, NEW new \in BOOLEAN,
           m.row + 1 <= Len(file), Len(file) \in Nat
    PROVE  Counted(m, ok, new) \in JobRow
  BY DEF Counted, JobRow

\* Setting a status (run) gives a job row.
LEMMA WithStatusType ==
    ASSUME NEW m \in JobRow, NEW s \in Statuses
    PROVE  /\ WithStatus(m, s) \in JobRow
           /\ WithStatus(m, s).status = s
           /\ \A f \in {"row", "read", "inserted", "updated", "failed"} :
                 WithStatus(m, s)[f] = m[f]
  BY DEF WithStatus, JobRow

TxRecord == [ok: SUBSET Rows, bad: SUBSET Rows, writes: [Keys -> Int]]

\* The empty transaction (session_scope) is a transaction.
LEMMA NoTxType == NoTx \in TxRecord
  BY DEF NoTx, TxRecord, Absent

\* What a row leaves in the open transaction (_hotel_row, _review_row) has its type.
LEMMA TracedType ==
    ASSUME NEW t \in TxRecord, NEW ok \in BOOLEAN, NEW r \in Rows,
           file \in Seq(Keys)
    PROVE  Traced(t, ok, r) \in TxRecord
<1>1. Rows \subseteq Int /\ file[r] \in Keys
  BY DEF Rows
<1>2. Upsert(t.writes, file[r], r) \in [Keys -> Int]
  BY <1>1 DEF Upsert, TxRecord
<1>3. QED
  BY <1>1, <1>2 DEF Traced, TxRecord

\* Counts of committed rows (_checkpoint) are naturals.
LEMMA TallyType ==
    ASSUME NEW count \in [Rows -> Nat], NEW S
    PROVE  Tally(count, S) \in [Rows -> Nat]
  BY DEF Tally

\* The catalog after a commit (_checkpoint) has its type.
LEMMA CommittedType ==
    ASSUME NEW writes \in [Keys -> Int], catalog \in [Keys -> Int]
    PROVE  Committed(writes) \in [Keys -> Int]
  BY DEF Committed

\* The state before the upload (create_job) is well typed.
LEMMA InitTyped == Init => TypeOK
<1> SUFFICES ASSUME Init PROVE TypeOK
  OBVIOUS
<1>1. file \in Seq(Keys) /\ Len(file) \in Nat
  BY CsvImportAssumption DEF Init
<1>2. NoJob \in JobRow
  BY <1>1 DEF NoJob, JobRow, Statuses
<1>3. catalog \in [Keys -> Int]
  BY DEF Init, Absent, Prior
<1>4. tx \in [Workers -> TxRecord]
  BY NoTxType DEF Init
<1>5. applied \in [Rows -> Nat] /\ issues \in [Rows -> Nat]
  BY DEF Init
<1>6. QED
  BY <1>1, <1>2, <1>3, <1>4, <1>5 DEF Init, TypeOK, Uploads, Steps, TxRecord

\* A step leaves the file alone: the primed type invariant, over the file's
\* own rows.
LEMMA Retyped ==
    ASSUME TypeOK, UNCHANGED fileVars,
           upload' \in Uploads, object' \in BOOLEAN,
           job' \in JobRow, catalog' \in [Keys -> Int],
           applied' \in [Rows -> Nat], issues' \in [Rows -> Nat],
           queue' \in Nat, triggers' \in Nat, lost' \subseteq Losses,
           pc' \in [Workers -> Steps], owns' \in [Workers -> BOOLEAN],
           mem' \in [Workers -> JobRow], base' \in [Workers -> JobRow],
           tx' \in [Workers -> TxRecord],
           crashes' \in Nat, overlaps' \in Nat, aborts' \in Nat, faults' \in Nat
    PROVE  TypeOK'
<1>1. file' = file /\ kind' = kind /\ headerOk' = headerOk /\ prior' = prior
  BY DEF fileVars
<1>2. Rows' = Rows /\ JobRow' = JobRow
  BY <1>1 DEF Rows, JobRow
<1>3. QED
  BY <1>1, <1>2 DEF TypeOK, TxRecord

\* Every step of the upload, the run and the delivery keeps the types.
LEMMA StepTyped == TypeOK /\ [Next]_vars => TypeOK'
<1> SUFFICES ASSUME TypeOK, [Next]_vars
             PROVE  TypeOK'
  OBVIOUS
<1> USE DEF uploadVars, storeVars, workerVars, boundVars
<1>0. /\ Len(file) \in Nat
      /\ upload \in Uploads /\ object \in BOOLEAN
      /\ job \in JobRow /\ catalog \in [Keys -> Int]
      /\ applied \in [Rows -> Nat] /\ issues \in [Rows -> Nat]
      /\ queue \in Nat /\ triggers \in Nat /\ lost \subseteq Losses
      /\ pc \in [Workers -> Steps] /\ owns \in [Workers -> BOOLEAN]
      /\ mem \in [Workers -> JobRow] /\ base \in [Workers -> JobRow]
      /\ tx \in [Workers -> TxRecord] /\ NoTx \in TxRecord
      /\ crashes \in Nat /\ overlaps \in Nat /\ aborts \in Nat /\ faults \in Nat
  BY NoTxType DEF TypeOK, TxRecord
<1>1. CASE UNCHANGED vars
  BY <1>0, <1>1, Retyped DEF vars
<1>2. CASE Api
  <2>1. NoJob \in JobRow
    BY <1>0 DEF NoJob, JobRow, Statuses
  <2>2. WithStatus(NoJob, "PENDING") \in JobRow
    BY <2>1, WithStatusType DEF Statuses
  <2>3. CASE StoreObject
    BY <1>0, <2>3, Retyped DEF StoreObject, Uploads
  <2>4. CASE RejectEmpty
    BY <1>0, <2>4, Retyped DEF RejectEmpty, Uploads
  <2>5. CASE CommitJob
    BY <1>0, <2>2, <2>5, Retyped DEF CommitJob, Uploads
  <2>6. CASE CommitJobFails
    BY <1>0, <2>2, <2>6, Retyped DEF CommitJobFails, Uploads
  <2>7. CASE Dispatch
    BY <1>0, <2>7, Retyped DEF Dispatch, Uploads
  <2>8. CASE ApiCrash
    BY <1>0, <2>8, Retyped DEF ApiCrash, Uploads
  <2>9. QED
    BY <1>2, <2>3, <2>4, <2>5, <2>6, <2>7, <2>8 DEF Api
<1>3. ASSUME NEW w \in Workers, Receive(w) PROVE TypeOK'
  <2>1. queue' \in Nat
    BY <1>0, <1>3 DEF Receive
  <2>2. QED
    BY <1>0, <1>3, <2>1, Retyped DEF Receive, Steps, Loaded, Arrived
<1>4. ASSUME NEW w \in Workers, StartRun(w) PROVE TypeOK'
  <2> DEFINE m == WithStatus(mem[w], "RUNNING")
  <2>1. m \in JobRow
    BY <1>0, WithStatusType DEF Statuses
  <2>2. Flushed(w, m) \in JobRow
    BY <1>0, <2>1, FlushedType
  <2>3. mem' = [mem EXCEPT ![w] = m] /\ base' = [base EXCEPT ![w] = m] /\ job' = Flushed(w, m)
    BY <1>4 DEF StartRun
  <2> HIDE DEF m
  <2>4. QED
    BY <1>0, <1>4, <2>1, <2>2, <2>3, Retyped DEF StartRun, Steps
<1>5. ASSUME NEW w \in Workers,
             Materialize(w) \/ MaterializeFails(w) \/ Abort(w) \/ MarkFailedFails(w)
      PROVE TypeOK'
  <2>1. CASE Materialize(w)
    BY <1>0, <2>1, Retyped DEF Materialize, Steps
  <2>2. CASE MaterializeFails(w)
    BY <1>0, <2>2, Retyped DEF MaterializeFails, Steps, Losses
  <2>3. CASE Abort(w)
    <3>1. aborts' \in Nat /\ tx' \in [Workers -> TxRecord]
      BY <1>0, <2>3 DEF Abort
    <3>2. QED
      BY <1>0, <2>3, <3>1, Retyped DEF Abort, Steps
  <2>4. CASE MarkFailedFails(w)
    BY <1>0, <2>4, Retyped DEF MarkFailedFails, Steps, Losses
  <2>5. QED
    BY <1>5, <2>1, <2>2, <2>3, <2>4
<1>6. ASSUME NEW w \in Workers, NEW ok \in BOOLEAN, ProcessRow(w, ok) PROVE TypeOK'
  <2> DEFINE r == mem[w].row + 1
             m == Counted(mem[w], ok, ~KeyPresent(w, file[r]))
             t == Traced(tx[w], ok, r)
  <2>1. r \in Rows
    <3>1. mem[w] \in JobRow /\ mem[w].row + 1 <= Len(file)
      BY <1>0, <1>6 DEF ProcessRow
    <3>2. mem[w].row \in Nat
      BY <3>1 DEF JobRow
    <3>3. Len(file) \in Nat
      BY <1>0
    <3>4. QED
      BY <3>1, <3>2, <3>3 DEF Rows
  <2>2. m \in JobRow
    <3>1. mem[w] \in JobRow /\ mem[w].row + 1 <= Len(file)
      BY <2>1, <1>0 DEF Rows
    <3>2. KeyPresent(w, file[r]) \in BOOLEAN
      BY DEF KeyPresent
    <3>3. QED
      BY <1>0, <3>1, <3>2, CountedType
  <2>3. t \in TxRecord
    BY <2>1, <1>0, TracedType DEF TypeOK
  <2>4. Flushed(w, m) \in JobRow
    BY <1>0, <2>2, FlushedType
  <2>5. /\ Committed(t.writes) \in [Keys -> Int]
        /\ Tally(applied, t.ok) \in [Rows -> Nat]
        /\ Tally(issues, t.bad) \in [Rows -> Nat]
    BY <1>0, <2>3, CommittedType, TallyType DEF TxRecord
  <2>6. /\ mem' = [mem EXCEPT ![w] = m]
        /\ \/ /\ job' = Flushed(w, m)
              /\ base' = [base EXCEPT ![w] = m]
              /\ catalog' = Committed(t.writes)
              /\ applied' = Tally(applied, t.ok)
              /\ issues' = Tally(issues, t.bad)
              /\ tx' = [tx EXCEPT ![w] = NoTx]
           \/ /\ tx' = [tx EXCEPT ![w] = t]
              /\ UNCHANGED <<storeVars, base>>
        /\ UNCHANGED <<fileVars, uploadVars, queue, pc, owns, triggers, lost, boundVars>>
    BY <1>6 DEF ProcessRow
  <2> HIDE DEF r, m, t
  <2>7. /\ job' \in JobRow /\ base' \in [Workers -> JobRow]
        /\ catalog' \in [Keys -> Int]
        /\ applied' \in [Rows -> Nat] /\ issues' \in [Rows -> Nat]
        /\ mem' \in [Workers -> JobRow]
    BY <1>0, <2>2, <2>4, <2>5, <2>6
  <2>8. tx' \in [Workers -> TxRecord]
    BY <1>0, <2>3, <2>6
  <2>9. QED
    BY <1>0, <2>6, <2>7, <2>8, Retyped
<1>7. ASSUME NEW w \in Workers, FinishRun(w) PROVE TypeOK'
  <2> DEFINE m == WithStatus(mem[w], FinalStatus(mem[w]))
  <2>1. m \in JobRow
    BY <1>0, WithStatusType DEF FinalStatus, Statuses
  <2>2. Flushed(w, m) \in JobRow
    BY <1>0, <2>1, FlushedType
  <2>3. /\ Committed(tx[w].writes) \in [Keys -> Int]
        /\ Tally(applied, tx[w].ok) \in [Rows -> Nat]
        /\ Tally(issues, tx[w].bad) \in [Rows -> Nat]
    BY <1>0, CommittedType, TallyType DEF TxRecord
  <2>4. mem' = [mem EXCEPT ![w] = m] /\ base' = [base EXCEPT ![w] = m] /\ job' = Flushed(w, m)
    BY <1>7 DEF FinishRun
  <2>5. tx' \in [Workers -> TxRecord]
    BY <1>7, <1>0 DEF FinishRun
  <2> HIDE DEF m
  <2>6. QED
    BY <1>0, <1>7, <2>1, <2>2, <2>3, <2>4, <2>5, Retyped DEF FinishRun, Steps
<1>8. ASSUME NEW w \in Workers, MarkFailed(w) PROVE TypeOK'
  <2>1. MarkedFailed(w) \in JobRow
    BY <1>0, WithStatusType DEF MarkedFailed, Statuses
  <2>2. QED
    BY <1>0, <1>8, <2>1, Retyped DEF MarkFailed, Steps
<1>9. ASSUME NEW w \in Workers,
             SendTrigger(w) \/ Ack(w) \/ Crash(w) \/ Redeliver(w)
      PROVE TypeOK'
  <2>1. CASE SendTrigger(w)
    <3>1. triggers' \in Nat
      BY <1>0, <2>1 DEF SendTrigger
    <3>2. faults' \in Nat /\ overlaps' = overlaps /\ crashes' = crashes /\ aborts' = aborts
      BY <1>0, <2>1 DEF SendTrigger
    <3>3. lost' \subseteq Losses
      BY <1>0, <2>1 DEF SendTrigger, Losses
    <3>4. QED
      BY <1>0, <2>1, <3>1, <3>2, <3>3, Retyped DEF SendTrigger, Steps
  <2>2. CASE Ack(w)
    BY <1>0, <2>2, Retyped DEF Ack, Steps
  <2>3. CASE Crash(w)
    <3>1. queue' \in Nat
      BY <1>0, <2>3 DEF Crash
    <3>2. lost' \subseteq Losses
      BY <1>0, <2>3 DEF Crash, Losses
    <3>3. QED
      BY <1>0, <2>3, <3>1, <3>2, Retyped DEF Crash, Steps
  <2>4. CASE Redeliver(w)
    BY <1>0, <2>4, Retyped DEF Redeliver
  <2>5. QED
    BY <1>9, <2>1, <2>2, <2>3, <2>4
<1>10. QED
  BY <1>1, <1>2, <1>3, <1>4, <1>5, <1>6, <1>7, <1>8, <1>9 DEF Next, Work, Quiet

\* Every reachable state is well typed.
THEOREM Typing == Spec => []TypeOK
  BY InitTyped, StepTyped, PTL DEF Spec

-----------------------------------------------------------------------------
(* A processed job has decided every row, whatever deliveries overlap       *)

Pending(w, r) == r \in tx[w].ok \/ r \in tx[w].bad

\* What a worker's copy of the checkpoint stands for: rows that are decided,
\* or that its own open transaction is about to decide.
Backed(w) ==
    /\ pc[w] \in {"fetched", "started", "rows"} =>
          \A r \in Rows : r <= mem[w].row => Decided(r) \/ Pending(w, r)
    /\ pc[w] \in {"started", "rows"} => mem[w].status = "RUNNING"
    /\ pc[w] # "rows" => tx[w] = NoTx

\* The inductive strengthening of ProcessedMeansDecided.
Sound ==
    /\ \A r \in Rows : r <= job.row => Decided(r)
    /\ ProcessedMeansDecided
    /\ \A w \in Workers : Backed(w)

\* A flush (_checkpoint) takes each column from the worker's copy or from the row.
LEMMA FlushedFields ==
    ASSUME NEW w \in Workers, NEW m \in JobRow
    PROVE  /\ Flushed(w, m).row = m.row \/ Flushed(w, m).row = job.row
           /\ Flushed(w, m).status = m.status \/ Flushed(w, m).status = job.status
  BY DEF Flushed, Column

\* A committed row (_checkpoint) stays counted, and one more is counted.
LEMMA TallyGrows ==
    ASSUME NEW count \in [Rows -> Nat], NEW S, NEW r \in Rows
    PROVE  /\ Tally(count, S)[r] \in Nat
           /\ Tally(count, S)[r] >= count[r]
           /\ r \in S => Tally(count, S)[r] > 0
  BY DEF Tally

\* No step rewrites the staged file (create_job).
LEMMA FileConstant == [Next]_vars => UNCHANGED fileVars
<1> SUFFICES ASSUME [Next]_vars PROVE UNCHANGED fileVars
  OBVIOUS
<1>1. CASE UNCHANGED vars
  BY <1>1 DEF vars
<1>2. CASE Api
  BY <1>2 DEF Api, StoreObject, RejectEmpty, CommitJob, CommitJobFails, Dispatch, ApiCrash
<1>3. ASSUME NEW w \in Workers, Work(w) PROVE UNCHANGED fileVars
  BY <1>3 DEF Work, Receive, StartRun, Materialize, MaterializeFails, ProcessRow, FinishRun,
     Abort, MarkFailed, MarkFailedFails, SendTrigger, Ack
<1>4. ASSUME NEW w \in Workers, Crash(w) \/ Redeliver(w) PROVE UNCHANGED fileVars
  BY <1>4 DEF Crash, Redeliver
<1>5. QED
  BY <1>1, <1>2, <1>3, <1>4 DEF Next, Quiet

\* Before the upload (create_job) no worker knows anything wrong.
LEMMA InitSound == Init => Sound
<1> SUFFICES ASSUME Init PROVE Sound
  OBVIOUS
<1>1. job.row = 0 /\ job.status = "ABSENT"
  BY DEF Init, NoJob
<1>2. \A r \in Rows : r > 0
  BY DEF Rows
<1>3. \A w \in Workers : pc[w] = "idle" /\ tx[w] = NoTx
  BY DEF Init
<1>4. QED
  BY <1>1, <1>2, <1>3 DEF Sound, Backed, ProcessedMeansDecided, Rows

\* Rows stay decided: the stores only ever gain applications and issues.
LEMMA DecidedStays ==
    ASSUME TypeOK, [Next]_vars
    PROVE  /\ Rows' = Rows
           /\ \A r \in Rows : Decided(r) => Decided(r)'
<1>1. Rows' = Rows
  BY FileConstant DEF fileVars, Rows
<1>2. SUFFICES ASSUME NEW r \in Rows, Decided(r) PROVE Decided(r)'
  BY <1>1
<1>3. applied[r] \in Nat /\ issues[r] \in Nat
  BY DEF TypeOK
<1>4. CASE UNCHANGED <<applied, issues>>
  BY <1>2, <1>4 DEF Decided
<1>5. ASSUME NEW A, NEW B, applied' = Tally(applied, A), issues' = Tally(issues, B)
      PROVE Decided(r)'
  <2>1. /\ applied'[r] \in Nat /\ applied'[r] >= applied[r]
        /\ issues'[r] \in Nat /\ issues'[r] >= issues[r]
    BY <1>5, TallyGrows DEF TypeOK
  <2>2. QED
    BY <1>2, <1>3, <2>1 DEF Decided
<1> USE DEF storeVars
<1>6. CASE UNCHANGED vars
  BY <1>4, <1>6 DEF vars
<1>7. CASE Api
  BY <1>4, <1>7 DEF Api, StoreObject, RejectEmpty, CommitJob, CommitJobFails, Dispatch, ApiCrash
<1>8. ASSUME NEW w \in Workers, NEW ok \in BOOLEAN, ProcessRow(w, ok) PROVE Decided(r)'
  BY <1>4, <1>5, <1>8 DEF ProcessRow
<1>9. ASSUME NEW w \in Workers, FinishRun(w) PROVE Decided(r)'
  BY <1>5, <1>9 DEF FinishRun
<1>10. ASSUME NEW w \in Workers,
              \/ Receive(w) \/ StartRun(w) \/ Materialize(w) \/ MaterializeFails(w)
              \/ Abort(w) \/ MarkFailed(w) \/ MarkFailedFails(w) \/ SendTrigger(w)
              \/ Ack(w) \/ Crash(w) \/ Redeliver(w)
       PROVE  Decided(r)'
  BY <1>4, <1>10 DEF Receive, StartRun, Materialize, MaterializeFails, Abort, MarkFailed,
     MarkFailedFails, SendTrigger, Ack, Crash, Redeliver
<1>11. QED
  BY <1>6, <1>7, <1>8, <1>9, <1>10 DEF Next, Work, Quiet

\* The committed row stays sound when its checkpoint and status only take
\* values that were sound already, or a status that claims nothing.
LEMMA JobKept ==
    ASSUME TypeOK, Sound, [Next]_vars,
           job'.row = job.row \/ \A r \in Rows : r <= job'.row => Decided(r)',
           \/ job'.status = job.status
           \/ job'.status \notin {"PARTIAL", "COMPLETED"}
           \/ \A r \in Rows : Decided(r)'
    PROVE  /\ \A r \in Rows' : r <= job'.row => Decided(r)'
           /\ ProcessedMeansDecided'
<1>1. \A r \in Rows' : r <= job'.row => Decided(r)'
  BY DecidedStays DEF Sound
<1>2. \A r \in Rows : job'.status \in {"PARTIAL", "COMPLETED"} => Decided(r)'
  BY DecidedStays DEF Sound, ProcessedMeansDecided
<1>3. QED
  BY <1>1, <1>2, DecidedStays DEF ProcessedMeansDecided

\* A worker whose run stays at its step, or leaves the rows behind.
LEMMA BackedKept ==
    ASSUME TypeOK, Sound, [Next]_vars, NEW v \in Workers,
           mem'[v] = mem[v],
           \/ pc'[v] = pc[v] /\ tx'[v] = tx[v]
           \/ pc'[v] \notin {"fetched", "started", "rows"} /\ tx'[v] = NoTx
    PROVE  Backed(v)'
<1>1. Backed(v)
  BY DEF Sound
<1>2. CASE pc'[v] = pc[v] /\ tx'[v] = tx[v]
  <2>1. \A r \in Rows : Pending(v, r)' <=> Pending(v, r)
    BY <1>2 DEF Pending
  <2>2. ASSUME pc[v] \in {"fetched", "started", "rows"}
        PROVE  \A r \in Rows' : r <= mem'[v].row => Decided(r)' \/ Pending(v, r)'
    BY <1>1, <2>1, <2>2, DecidedStays DEF Backed
  <2>3. NoTx' = NoTx
    BY DEF NoTx, Absent
  <2>4. QED
    BY <1>1, <1>2, <2>2, <2>3 DEF Backed
<1>3. CASE pc'[v] \notin {"fetched", "started", "rows"} /\ tx'[v] = NoTx
  BY <1>3 DEF Backed, NoTx, Absent
<1>4. QED
  BY <1>2, <1>3

\* Every step keeps Sound, overlapping deliveries included.
LEMMA StepSound == TypeOK /\ Sound /\ [Next]_vars => Sound'
<1> SUFFICES ASSUME TypeOK, Sound, [Next]_vars
             PROVE  Sound'
  OBVIOUS
<1> USE DEF storeVars, workerVars
<1>0. /\ job \in JobRow /\ Len(file) \in Nat
      /\ pc \in [Workers -> Steps]
      /\ mem \in [Workers -> JobRow] /\ tx \in [Workers -> TxRecord]
      /\ applied \in [Rows -> Nat] /\ issues \in [Rows -> Nat]
  BY DEF TypeOK, TxRecord
<1>1. ASSUME UNCHANGED <<job, pc, mem, tx>> PROVE Sound'
  BY <1>1, JobKept, BackedKept DEF Sound
<1>2. CASE CommitJob \/ CommitJobFails
  <2>1. job' = job \/ job' = WithStatus(NoJob, "PENDING")
    BY <1>2 DEF CommitJob, CommitJobFails
  <2>2. /\ WithStatus(NoJob, "PENDING").row = 0
        /\ WithStatus(NoJob, "PENDING").status = "PENDING"
    BY DEF WithStatus, NoJob
  <2>3. \A r \in Rows : ~(r <= 0)
    BY DEF Rows
  <2>4. UNCHANGED <<pc, mem, tx>>
    BY <1>2 DEF CommitJob, CommitJobFails
  <2>5. QED
    BY <2>1, <2>2, <2>3, <2>4, JobKept, BackedKept DEF Sound
<1>3. ASSUME NEW w \in Workers, Receive(w) PROVE Sound'
  <2>1. /\ mem' = [mem EXCEPT ![w] = job] /\ job' = job /\ tx' = tx
        /\ pc[w] = "idle" /\ pc'[w] \in {"returned", "fetched"}
        /\ \A v \in Workers \ {w} : pc'[v] = pc[v]
    BY <1>0, <1>3 DEF Receive, Loaded, Arrived
  <2>2. tx[w] = NoTx
    BY <2>1 DEF Sound, Backed
  <2>3. Backed(w)'
    BY <1>0, <2>1, <2>2, DecidedStays DEF Sound, Backed, NoTx, Absent
  <2>4. \A v \in Workers \ {w} : Backed(v)'
    BY <1>0, <2>1, BackedKept
  <2>5. QED
    BY <2>1, <2>3, <2>4, JobKept DEF Sound
<1>4. ASSUME NEW w \in Workers, StartRun(w) PROVE Sound'
  <2> DEFINE m == WithStatus(mem[w], "RUNNING")
  <2>1. m \in JobRow /\ m.status = "RUNNING" /\ m.row = mem[w].row
    BY <1>0, WithStatusType DEF Statuses
  <2>2. Flushed(w, m).status = "RUNNING" \/ Flushed(w, m).status = job.status
    BY <2>1, FlushedFields
  <2>3. Flushed(w, m).row = m.row \/ Flushed(w, m).row = job.row
    BY <2>1, FlushedFields
  <2>4. pc[w] = "fetched" /\ tx[w] = NoTx
    BY <1>4 DEF StartRun, Sound, Backed
  <2>5. \A r \in Rows : r <= mem[w].row => Decided(r)
    BY <2>4 DEF Sound, Backed, Pending, NoTx
  <2>6. /\ job' = Flushed(w, m) /\ mem' = [mem EXCEPT ![w] = m]
        /\ pc' = [pc EXCEPT ![w] = "started"] /\ tx' = tx
    BY <1>4 DEF StartRun
  <2> HIDE DEF m
  <2>7. \A r \in Rows : r <= job'.row => Decided(r)'
    BY <2>1, <2>3, <2>5, <2>6, DecidedStays DEF Sound
  <2>8. Backed(w)'
    BY <1>0, <2>1, <2>4, <2>5, <2>6, DecidedStays DEF Backed, NoTx, Absent
  <2>9. \A v \in Workers \ {w} : Backed(v)'
    BY <1>0, <2>6, BackedKept
  <2>10. QED
    BY <2>2, <2>6, <2>7, <2>8, <2>9, JobKept DEF Sound
<1>5. ASSUME NEW w \in Workers, Materialize(w) PROVE Sound'
  <2>1. /\ pc[w] = "started" /\ pc' = [pc EXCEPT ![w] = "rows"]
        /\ UNCHANGED <<job, mem, tx>>
    BY <1>5 DEF Materialize
  <2>2. Backed(w)'
    BY <1>0, <2>1, DecidedStays DEF Sound, Backed, Pending
  <2>3. \A v \in Workers \ {w} : Backed(v)'
    BY <1>0, <2>1, BackedKept
  <2>4. QED
    BY <2>1, <2>2, <2>3, JobKept DEF Sound
<1>6. ASSUME NEW w \in Workers, NEW ok \in BOOLEAN, ProcessRow(w, ok) PROVE Sound'
  <2> DEFINE r == mem[w].row + 1
             m == Counted(mem[w], ok, ~KeyPresent(w, file[r]))
             t == Traced(tx[w], ok, r)
  <2>1. pc[w] = "rows" /\ r \in Rows /\ pc' = pc
    BY <1>0, <1>6 DEF ProcessRow, JobRow, Rows
  <2>2. m \in JobRow /\ m.row = r /\ m.status = "RUNNING"
    <3>1. mem[w] \in JobRow /\ mem[w].row + 1 <= Len(file)
      BY <2>1, <1>0 DEF Rows
    <3>2. KeyPresent(w, file[r]) \in BOOLEAN
      BY DEF KeyPresent
    <3>3. m \in JobRow
      BY <1>0, <3>1, <3>2, CountedType
    <3>4. mem[w].status = "RUNNING"
      BY <2>1 DEF Sound, Backed
    <3>5. QED
      BY <3>3, <3>4 DEF Counted
  <2>3. \A q \in Rows : (Pending(w, q) \/ q = r) => (q \in t.ok \/ q \in t.bad)
    BY <1>0 DEF Traced, Pending, TxRecord
  <2>4. \A q \in Rows : q <= r => Decided(q) \/ q \in t.ok \/ q \in t.bad
    <3>1. SUFFICES ASSUME NEW q \in Rows, q <= r PROVE Decided(q) \/ Pending(w, q) \/ q = r
      BY <2>3
    <3>2. q = r \/ q <= mem[w].row
      BY <1>0, <3>1 DEF JobRow, Rows
    <3>3. QED
      BY <2>1, <3>2 DEF Sound, Backed
  <2>5. /\ mem' = [mem EXCEPT ![w] = m]
        /\ \/ /\ job' = Flushed(w, m)
              /\ applied' = Tally(applied, t.ok)
              /\ issues' = Tally(issues, t.bad)
              /\ tx' = [tx EXCEPT ![w] = NoTx]
           \/ /\ tx' = [tx EXCEPT ![w] = t]
              /\ job' = job
    BY <1>6 DEF ProcessRow
  <2> HIDE DEF r, m, t
  <2>6. \A v \in Workers \ {w} : Backed(v)'
    BY <1>0, <2>1, <2>5, BackedKept
  <2>7. CASE job' = Flushed(w, m) /\ applied' = Tally(applied, t.ok)
             /\ issues' = Tally(issues, t.bad) /\ tx' = [tx EXCEPT ![w] = NoTx]
    <3>1. \A q \in Rows : q <= r => Decided(q)'
      <4>1. SUFFICES ASSUME NEW q \in Rows, q \in t.ok \/ q \in t.bad PROVE Decided(q)'
        BY <2>4, DecidedStays
      <4>2. /\ applied'[q] \in Nat /\ issues'[q] \in Nat
            /\ applied'[q] > 0 \/ issues'[q] > 0
        BY <1>0, <2>7, <4>1, TallyGrows
      <4>3. QED
        BY <4>2 DEF Decided
    <3>2. job'.row = job.row \/ \A q \in Rows : q <= job'.row => Decided(q)'
      BY <2>2, <2>7, <3>1, FlushedFields
    <3>3. job'.status = "RUNNING" \/ job'.status = job.status
      BY <2>2, <2>7, FlushedFields
    <3>4. Backed(w)'
      BY <1>0, <2>1, <2>2, <2>5, <3>1, DecidedStays DEF Backed
    <3>5. QED
      BY <2>6, <3>2, <3>3, <3>4, JobKept DEF Sound
  <2>8. CASE tx' = [tx EXCEPT ![w] = t] /\ job' = job
    <3>1. tx'[w] = t
      BY <1>0, <2>8
    <3>2. \A q \in Rows : q <= r => Decided(q)' \/ Pending(w, q)'
      BY <2>4, <3>1, DecidedStays DEF Pending
    <3>3. Backed(w)'
      BY <1>0, <2>1, <2>2, <2>5, <3>2, DecidedStays DEF Backed
    <3>4. QED
      BY <2>6, <2>8, <3>3, JobKept DEF Sound
  <2>9. QED
    BY <2>5, <2>7, <2>8
<1>7. ASSUME NEW w \in Workers, FinishRun(w) PROVE Sound'
  <2>1. /\ pc[w] = "rows" /\ mem[w].row >= Len(file)
        /\ applied' = Tally(applied, tx[w].ok) /\ issues' = Tally(issues, tx[w].bad)
        /\ tx' = [tx EXCEPT ![w] = NoTx] /\ pc' = [pc EXCEPT ![w] = "returned"]
        /\ \A v \in Workers \ {w} : mem'[v] = mem[v]
    BY <1>0, <1>7 DEF FinishRun
  <2>2. \A q \in Rows : Decided(q)'
    <3>1. ASSUME NEW q \in Rows PROVE Decided(q) \/ Pending(w, q)
      <4>1. mem[w].row \in Nat
        BY <1>0 DEF JobRow
      <4>2. q <= mem[w].row
        BY <1>0, <2>1, <4>1 DEF Rows
      <4>3. QED
        BY <2>1, <4>2 DEF Sound, Backed
    <3>2. SUFFICES ASSUME NEW q \in Rows, Pending(w, q) PROVE Decided(q)'
      BY <3>1, DecidedStays
    <3>3. /\ applied'[q] \in Nat /\ issues'[q] \in Nat
          /\ applied'[q] > 0 \/ issues'[q] > 0
      BY <1>0, <2>1, <3>2, TallyGrows DEF Pending
    <3>4. QED
      BY <3>3 DEF Decided
  <2>3. Backed(w)'
    BY <1>0, <2>1 DEF Backed, NoTx, Absent
  <2>4. \A v \in Workers \ {w} : Backed(v)'
    BY <1>0, <2>1, BackedKept
  <2>5. QED
    BY <2>2, <2>3, <2>4, JobKept DEF Sound
<1>8. ASSUME NEW w \in Workers, MarkFailed(w) PROVE Sound'
  <2>1. job'.row = job.row /\ job'.status = "FAILED"
    BY <1>0, <1>8, WithStatusType DEF MarkFailed, MarkedFailed, Statuses
  <2>2. pc[w] = "failing" /\ pc' = [pc EXCEPT ![w] = "acking"] /\ UNCHANGED <<mem, tx>>
    BY <1>8 DEF MarkFailed
  <2>3. \A v \in Workers : Backed(v)'
    <3>1. tx[w] = NoTx
      BY <2>2 DEF Sound, Backed
    <3>2. QED
      BY <1>0, <2>2, <3>1, BackedKept
  <2>4. QED
    BY <2>1, <2>3, JobKept DEF Sound
<1>9. ASSUME NEW w \in Workers, Abort(w) \/ Crash(w) PROVE Sound'
  <2>1. /\ pc'[w] \in {"failing", "idle"} /\ tx'[w] = NoTx
        /\ \A v \in Workers \ {w} : pc'[v] = pc[v] /\ tx'[v] = tx[v]
        /\ job' = job /\ mem' = mem
    BY <1>0, <1>9 DEF Abort, Crash
  <2>2. \A v \in Workers : Backed(v)'
    BY <2>1, BackedKept
  <2>3. QED
    BY <2>1, <2>2, JobKept DEF Sound
<1>10. ASSUME NEW w \in Workers,
              MaterializeFails(w) \/ MarkFailedFails(w) \/ SendTrigger(w) \/ Ack(w)
       PROVE  Sound'
  <2>1. /\ pc[w] # "rows" /\ pc'[w] \in {"acking", "idle"}
        /\ \A v \in Workers \ {w} : pc'[v] = pc[v]
        /\ UNCHANGED <<job, mem, tx>>
    BY <1>0, <1>10 DEF MaterializeFails, MarkFailedFails, SendTrigger, Ack
  <2>2. tx[w] = NoTx
    BY <2>1 DEF Sound, Backed
  <2>3. \A v \in Workers : Backed(v)'
    BY <2>1, <2>2, BackedKept
  <2>4. QED
    BY <2>1, <2>3, JobKept DEF Sound
<1>11. ASSUME NEW w \in Workers, Redeliver(w) PROVE Sound'
  BY <1>1, <1>11 DEF Redeliver
<1>12. CASE StoreObject \/ RejectEmpty \/ Dispatch \/ ApiCrash \/ UNCHANGED vars
  BY <1>1, <1>12 DEF StoreObject, RejectEmpty, Dispatch, ApiCrash, vars
<1>13. QED
  BY <1>2, <1>3, <1>4, <1>5, <1>6, <1>7, <1>8, <1>9, <1>10, <1>11, <1>12
     DEF Next, Api, Work, Quiet

\* A job marked COMPLETED or PARTIAL has decided every row of its file, for
\* any number of workers, crashes, aborts and overlapping deliveries
\* (CSVImportOrchestrator.run commits the final status with the last rows).
THEOREM ProcessedJobsAreDecided == Spec => []ProcessedMeansDecided
<1>1. Init => TypeOK /\ Sound
  BY InitTyped, InitSound
<1>2. TypeOK /\ Sound /\ [Next]_vars => (TypeOK /\ Sound)'
  BY StepTyped, StepSound
<1>3. Sound => ProcessedMeansDecided
  BY DEF Sound
<1>4. QED
  BY <1>1, <1>2, <1>3, PTL DEF Spec
-----------------------------------------------------------------------------
(* A delivery finds its job and its file                                    *)

\* The task is queued last, and neither the object nor the row goes away
\* after that.
Staged ==
    /\ upload \in {"stored", "committed", "done"} => object
    /\ upload \in {"committed", "done"} => job.status # "ABSENT"
    /\ queue > 0 => upload = "done"
    /\ \A w \in Workers : pc[w] # "idle" \/ owns[w] => upload = "done"

\* Before the upload (create_job) there is nothing to find.
LEMMA InitStaged == Init => Staged
  BY DEF Init, Staged

\* What a worker stores of the job row (run, _checkpoint) names a status.
LEMMA StepStored ==
    ASSUME TypeOK, Sound, NEW w \in Workers, Work(w), job.status # "ABSENT"
    PROVE  job'.status # "ABSENT"
<1>1. job \in JobRow /\ mem \in [Workers -> JobRow] /\ Len(file) \in Nat
  BY DEF TypeOK
<1> USE DEF storeVars, workerVars
<1>2. CASE job' = job
  BY <1>2
<1>3. CASE StartRun(w)
  <2>1. WithStatus(mem[w], "RUNNING").status = "RUNNING"
    BY <1>1, WithStatusType DEF Statuses
  <2>2. job'.status \in {WithStatus(mem[w], "RUNNING").status, job.status}
    BY <1>3 DEF StartRun, Flushed, Column
  <2>3. QED
    BY <2>1, <2>2
<1>4. ASSUME NEW ok \in BOOLEAN, ProcessRow(w, ok) PROVE job'.status # "ABSENT"
  <2>1. mem[w].status = "RUNNING"
    BY <1>4 DEF ProcessRow, Sound, Backed
  <2>2. job'.status \in {mem[w].status, job.status}
    BY <1>4 DEF ProcessRow, Flushed, Column, Counted
  <2>3. QED
    BY <2>1, <2>2
<1>5. CASE FinishRun(w)
  <2>1. WithStatus(mem[w], FinalStatus(mem[w])).status \in {"PARTIAL", "COMPLETED"}
    BY <1>1, WithStatusType DEF Statuses, FinalStatus
  <2>2. job'.status \in {WithStatus(mem[w], FinalStatus(mem[w])).status, job.status}
    BY <1>5 DEF FinishRun, Flushed, Column
  <2>3. QED
    BY <2>1, <2>2
<1>6. CASE MarkFailed(w)
  BY <1>1, <1>6, WithStatusType DEF MarkFailed, MarkedFailed, Statuses
<1>7. CASE \/ Receive(w) \/ Materialize(w) \/ MaterializeFails(w) \/ Abort(w)
           \/ MarkFailedFails(w) \/ SendTrigger(w) \/ Ack(w)
  BY <1>2, <1>7 DEF Receive, Materialize, MaterializeFails, Abort, MarkFailedFails, SendTrigger, Ack
<1>8. QED
  BY <1>3, <1>4, <1>5, <1>6, <1>7 DEF Work

\* Every step keeps Staged, overlapping deliveries included.
LEMMA StepStaged == TypeOK /\ Sound /\ Staged /\ [Next]_vars => Staged'
<1> SUFFICES ASSUME TypeOK, Sound, Staged, [Next]_vars
             PROVE  Staged'
  OBVIOUS
<1> USE DEF uploadVars, storeVars, workerVars
<1>0. /\ pc \in [Workers -> Steps] /\ owns \in [Workers -> BOOLEAN] /\ queue \in Nat
      /\ job \in JobRow
  BY DEF TypeOK
<1>1. CASE UNCHANGED vars
  BY <1>1 DEF vars, Staged
<1>2. CASE Api
  <2>1. UNCHANGED <<pc, owns>> /\ upload # "done"
    BY <1>2 DEF Api, StoreObject, RejectEmpty, CommitJob, CommitJobFails, Dispatch, ApiCrash
  <2>2. queue = 0 /\ \A w \in Workers : pc[w] = "idle" /\ ~owns[w]
    BY <1>0, <2>1 DEF Staged
  <2>3. CASE CommitJob
    <3>1. job'.status = "PENDING"
      BY <2>3 DEF CommitJob, WithStatus, NoJob
    <3>2. QED
      BY <2>1, <2>2, <2>3, <3>1 DEF CommitJob, Staged
  <2>4. CASE StoreObject \/ RejectEmpty \/ CommitJobFails \/ Dispatch \/ ApiCrash
    BY <2>1, <2>2, <2>4 DEF StoreObject, RejectEmpty, CommitJobFails, Dispatch, ApiCrash, Staged
  <2>5. QED
    BY <1>2, <2>3, <2>4 DEF Api
<1>3. ASSUME NEW w \in Workers, Work(w) PROVE Staged'
  <2>1. upload = "done"
    BY <1>3 DEF Work, Receive, StartRun, Materialize, MaterializeFails, ProcessRow, FinishRun, Abort,
       MarkFailed, MarkFailedFails, SendTrigger, Ack, Staged
  <2>2. UNCHANGED <<upload, object>>
    BY <1>3 DEF Work, Receive, StartRun, Materialize, MaterializeFails, ProcessRow, FinishRun, Abort,
       MarkFailed, MarkFailedFails, SendTrigger, Ack
  <2>3. job'.status # "ABSENT"
    BY <1>3, <2>1, StepStored DEF Staged
  <2>4. QED
    BY <2>1, <2>2, <2>3 DEF Staged
<1>4. ASSUME NEW w \in Workers, Crash(w) \/ Redeliver(w) PROVE Staged'
  <2>1. upload = "done" /\ UNCHANGED <<upload, object, job>>
    BY <1>4 DEF Crash, Redeliver, Staged
  <2>2. QED
    BY <2>1 DEF Staged
<1>5. QED
  BY <1>1, <1>2, <1>3, <1>4 DEF Next, Quiet

\* While a message of the task waits or a worker runs it, the raw file is in
\* the store and the job row is committed, even when the commit of the request
\* raised (create_job; the dispatch in api/v1/admin.py).
THEOREM DeliveriesAreStaged == Spec => []DeliveredJobIsStaged
<1>1. Init => TypeOK /\ Sound /\ Staged
  BY InitTyped, InitSound, InitStaged
<1>2. TypeOK /\ Sound /\ Staged /\ [Next]_vars => (TypeOK /\ Sound /\ Staged)'
  BY StepTyped, StepSound, StepStaged
<1>3. Staged => DeliveredJobIsStaged
  BY DEF Staged, DeliveredJobIsStaged
<1>4. QED
  BY <1>1, <1>2, <1>3, PTL DEF Spec

-----------------------------------------------------------------------------
(* Until a first overlap                                                   *)

Busy == {w \in Workers : pc[w] # "idle"}

\* The message is in the queue or in the hands of the one busy worker, and
\* does not exist before it is dispatched.
OneToken ==
    /\ overlaps = 0
    /\ queue = 0 \/ (queue = 1 /\ Busy = {})
    /\ \A v, w \in Busy : v = w
    /\ upload # "done" => queue = 0 /\ Busy = {}
    /\ upload \in {"idle", "stored"} => job = NoJob

\* The counters of a job row, committed or in memory, cover its checkpoint.
Adds(j) ==
    /\ j.read = j.row
    /\ j.inserted + j.updated + j.failed = j.row

\* What a worker in the middle of a run holds against what is committed.
InStep(w) ==
    /\ pc[w] \in {"fetched", "started", "rows"} =>
          base[w] = job /\ Adds(mem[w])
    /\ pc[w] \in {"fetched", "started"} => mem[w] = job
    /\ pc[w] = "rows" =>
          /\ job.row <= mem[w].row
          /\ \A r \in Rows : Pending(w, r) <=> job.row < r /\ r <= mem[w].row
          /\ \A r \in Rows : ~(r \in tx[w].ok /\ r \in tx[w].bad)
    /\ pc[w] # "rows" => tx[w] = NoTx

\* The inductive strengthening of ExactlyOnce and CountersAddUp.
Once ==
    /\ OneToken
    /\ ExactlyOnce
    /\ Adds(job)
    /\ \A w \in Workers : InStep(w)

-----------------------------------------------------------------------------
(* Operators                                                               *)

\* A flush (_checkpoint) over a row nobody else wrote stores the worker's copy as it is.
LEMMA FlushedAlone ==
    ASSUME NEW w \in Workers, NEW m \in JobRow, job \in JobRow, base[w] = job
    PROVE  Flushed(w, m) = m
  BY DEF Flushed, Column, JobRow

\* Setting a status (run) touches no counter and no checkpoint.
LEMMA WithStatusAdds ==
    ASSUME NEW m \in JobRow, NEW s \in Statuses
    PROVE  /\ WithStatus(m, s) \in JobRow
           /\ WithStatus(m, s).row = m.row
           /\ Adds(m) => Adds(WithStatus(m, s))
<1>1. /\ WithStatus(m, s).row = m.row /\ WithStatus(m, s).read = m.read
      /\ WithStatus(m, s).inserted = m.inserted
      /\ WithStatus(m, s).updated = m.updated
      /\ WithStatus(m, s).failed = m.failed
  BY DEF WithStatus, JobRow
<1>2. QED
  BY <1>1, WithStatusType DEF Adds

\* Counting a row (_run_hotels, _run_reviews) keeps the counters in step with the checkpoint.
LEMMA CountedAdds ==
    ASSUME NEW m \in JobRow, NEW ok \in BOOLEAN, NEW new \in BOOLEAN, Adds(m)
    PROVE  Adds(Counted(m, ok, new)) /\ Counted(m, ok, new).row = m.row + 1
<1>1. m.row \in Int /\ m.read \in Int /\ m.inserted \in Int /\ m.updated \in Int /\ m.failed \in Int
  BY DEF JobRow
<1>2. QED
  BY <1>1 DEF Adds, Counted

\* Committing rows of which none was decided before, each on one side only.
LEMMA TallyOnce ==
    ASSUME TypeOK, ExactlyOnce, NEW A, NEW B, NEW n \in 0 .. Len(file), job.row <= n,
           \A r \in Rows : r \in A \/ r \in B <=> job.row < r /\ r <= n,
           \A r \in Rows : ~(r \in A /\ r \in B)
    PROVE  \A r \in Rows : Tally(applied, A)[r] + Tally(issues, B)[r] = IF r <= n THEN 1 ELSE 0
<1>1. SUFFICES ASSUME NEW r \in Rows
               PROVE  Tally(applied, A)[r] + Tally(issues, B)[r] = IF r <= n THEN 1 ELSE 0
  OBVIOUS
<1>2. applied[r] \in Nat /\ issues[r] \in Nat /\ r \in Nat /\ job.row \in Nat /\ n \in Nat
  BY DEF TypeOK, JobRow, Rows
<1>3. applied[r] + issues[r] = IF r <= job.row THEN 1 ELSE 0
  BY DEF ExactlyOnce
<1>4. /\ Tally(applied, A)[r] = IF r \in A THEN applied[r] + 1 ELSE applied[r]
      /\ Tally(issues, B)[r] = IF r \in B THEN issues[r] + 1 ELSE issues[r]
  BY DEF Tally
<1>5. QED
  BY <1>2, <1>3, <1>4

-----------------------------------------------------------------------------
(* The token                                                               *)

\* A busy worker of a job delivered once (task_acks_late) has the only message.
LEMMA TokenHolder ==
    ASSUME OneToken, NEW w \in Workers, pc[w] # "idle"
    PROVE  /\ queue = 0 /\ upload = "done"
           /\ \A v \in Workers \ {w} : pc[v] = "idle"
  BY DEF OneToken, Busy

\* A worker's own step keeps the token, whether or not it gives the message back.
LEMMA TokenKept ==
    ASSUME TypeOK, OneToken, NEW w \in Workers, pc[w] # "idle",
           \A v \in Workers \ {w} : pc'[v] = pc[v],
           upload' = upload, overlaps' = overlaps,
           \/ queue' = queue
           \/ queue' = queue + 1 /\ pc'[w] = "idle"
    PROVE  OneToken'
<1>1. queue = 0 /\ upload = "done" /\ \A v \in Workers \ {w} : pc'[v] = "idle"
  BY TokenHolder
<1>2. Busy' \subseteq {w} /\ (pc'[w] = "idle" => Busy' = {})
  BY <1>1 DEF Busy
<1>3. QED
  BY <1>1, <1>2 DEF OneToken

\* There is one token through upload, delivery, death and acknowledgement.
LEMMA StepOneToken ==
    ASSUME overlaps' = 0, TypeOK, Once, [Next]_vars
    PROVE  OneToken'
<1> USE DEF uploadVars, storeVars, workerVars, boundVars
<1>0. OneToken /\ pc \in [Workers -> Steps]
  BY DEF Once, TypeOK
<1>1. CASE UNCHANGED vars
  BY <1>0, <1>1 DEF vars, OneToken, Busy
<1>2. CASE Api
  <2>1. pc' = pc /\ overlaps' = overlaps
    BY <1>2 DEF Api, StoreObject, RejectEmpty, CommitJob, CommitJobFails, Dispatch, ApiCrash
  <2>2. Busy' = Busy
    BY <2>1 DEF Busy
  <2>3. upload # "done" => queue = 0 /\ Busy = {}
    BY <1>0 DEF OneToken
  <2>4. CASE StoreObject
    BY <1>0, <2>1, <2>2, <2>4 DEF StoreObject, OneToken
  <2>5. CASE RejectEmpty \/ CommitJob \/ CommitJobFails \/ ApiCrash
    <3>1. /\ queue' = queue /\ upload # "done"
          /\ upload' \notin {"idle", "stored"}
      BY <2>5 DEF RejectEmpty, CommitJob, CommitJobFails, ApiCrash
    <3>2. QED
      BY <1>0, <2>1, <2>2, <2>3, <3>1 DEF OneToken
  <2>6. CASE Dispatch
    BY <1>0, <2>1, <2>2, <2>3, <2>6 DEF Dispatch, OneToken
  <2>7. QED
    BY <1>2, <2>4, <2>5, <2>6 DEF Api
<1>3. ASSUME NEW w \in Workers, Receive(w) PROVE OneToken'
  <2>1. queue = 1 /\ Busy = {} /\ upload = "done" /\ overlaps = 0
    BY <1>0, <1>3 DEF Receive, OneToken
  <2>2. Busy' \subseteq {w}
    BY <1>0, <1>3, <2>1 DEF Receive, Busy
  <2>3. queue' = 0 /\ upload' = "done" /\ overlaps' = 0
    BY <1>3, <2>1 DEF Receive
  <2>4. QED
    BY <2>2, <2>3 DEF OneToken
<1>4. ASSUME NEW w \in Workers,
             \/ StartRun(w) \/ Materialize(w) \/ MaterializeFails(w)
             \/ \E ok \in BOOLEAN : ProcessRow(w, ok)
             \/ FinishRun(w) \/ Abort(w) \/ MarkFailed(w) \/ MarkFailedFails(w)
             \/ SendTrigger(w) \/ Ack(w)
      PROVE  OneToken'
  <2>1. /\ pc[w] # "idle" /\ upload' = upload /\ overlaps' = overlaps /\ queue' = queue
        /\ \A v \in Workers \ {w} : pc'[v] = pc[v]
    BY <1>0, <1>4 DEF StartRun, Materialize, MaterializeFails, ProcessRow, FinishRun, Abort,
       MarkFailed, MarkFailedFails, SendTrigger, Ack
  <2>2. QED
    BY <1>0, <2>1, TokenKept
<1>5. ASSUME NEW w \in Workers, Crash(w) PROVE OneToken'
  <2>1. /\ pc[w] # "idle" /\ pc'[w] = "idle" /\ upload' = upload /\ overlaps' = overlaps
        /\ queue' = queue \/ queue' = queue + 1
        /\ \A v \in Workers \ {w} : pc'[v] = pc[v]
    BY <1>0, <1>5 DEF Crash
  <2>2. QED
    BY <1>0, <2>1, TokenKept
<1>6. ASSUME NEW w \in Workers, Redeliver(w) PROVE OneToken'
  BY <1>0, <1>6 DEF Redeliver, OneToken
<1>7. QED
  BY <1>1, <1>2, <1>3, <1>4, <1>5, <1>6 DEF Next, Work, Quiet

-----------------------------------------------------------------------------
(* The invariant                                                           *)

\* Before the upload (create_job) nothing is decided.
LEMMA InitOnce == Init => Once
<1> SUFFICES ASSUME Init PROVE Once
  OBVIOUS
<1>1. OneToken
  BY DEF Init, OneToken, Busy
<1>2. job.row = 0 /\ Adds(job)
  BY DEF Init, NoJob, Adds
<1>3. ExactlyOnce
  BY <1>2 DEF Init, ExactlyOnce, Rows
<1>4. \A w \in Workers : InStep(w)
  BY DEF Init, InStep
<1>5. QED
  BY <1>1, <1>2, <1>3, <1>4 DEF Once

\* An idle worker has nothing at stake.
LEMMA IdleInStep ==
    ASSUME NEW v \in Workers, pc'[v] \notin {"fetched", "started", "rows"}, tx'[v] = NoTx
    PROVE  InStep(v)'
  BY DEF InStep, NoTx, Absent

\* The other workers, while one holds the token.
LEMMA OthersInStep ==
    ASSUME Once, NEW w \in Workers, pc[w] # "idle" \/ Busy = {},
           \A v \in Workers \ {w} : pc'[v] = pc[v] /\ tx'[v] = tx[v]
    PROVE  \A v \in Workers \ {w} : InStep(v)'
<1>1. SUFFICES ASSUME NEW v \in Workers \ {w} PROVE InStep(v)'
  OBVIOUS
<1>2. pc[v] = "idle"
  BY TokenHolder DEF Once, Busy
<1>3. tx[v] = NoTx
  BY <1>2 DEF Once, InStep
<1>4. QED
  BY <1>2, <1>3, IdleInStep

\* Every step of an import delivered once keeps Once.
LEMMA StepOnce ==
    ASSUME overlaps' = 0, TypeOK, Once, [Next]_vars
    PROVE  Once'
<1> USE DEF uploadVars, storeVars, workerVars, boundVars
<1>0. /\ job \in JobRow /\ Len(file) \in Nat
      /\ pc \in [Workers -> Steps]
      /\ mem \in [Workers -> JobRow] /\ base \in [Workers -> JobRow]
      /\ tx \in [Workers -> TxRecord]
      /\ OneToken /\ ExactlyOnce /\ Adds(job) /\ \A w \in Workers : InStep(w)
  BY DEF TypeOK, TxRecord, Once
<1>1. OneToken' /\ Rows' = Rows
  BY StepOneToken, DecidedStays

\* Once the stores and the checkpoint are as before, only the workers are left.
<1>2. ASSUME UNCHANGED <<applied, issues>>, job'.row = job.row, Adds(job')
      PROVE  ExactlyOnce' /\ Adds(job)'
  BY <1>0, <1>1, <1>2 DEF ExactlyOnce, Adds
<1>3. ASSUME UNCHANGED <<job, applied, issues, pc, mem, base, tx>> PROVE Once'
  <2>1. \A w \in Workers : InStep(w)'
    <3>1. SUFFICES ASSUME NEW w \in Workers PROVE InStep(w)'
      OBVIOUS
    <3>2. InStep(w)
      BY <1>0
    <3>3. /\ \A r \in Rows : Pending(w, r)' <=> Pending(w, r)
          /\ Adds(mem[w])' <=> Adds(mem[w])
          /\ NoTx' = NoTx
      BY <1>3 DEF Pending, Adds, NoTx, Absent
    <3>4. QED
      BY <1>1, <1>3, <3>2, <3>3 DEF InStep
  <2>2. QED
    BY <1>0, <1>1, <1>2, <1>3, <2>1 DEF Once
<1>4. CASE StoreObject \/ RejectEmpty \/ Dispatch \/ ApiCrash \/ UNCHANGED vars
  BY <1>3, <1>4 DEF StoreObject, RejectEmpty, Dispatch, ApiCrash, vars
<1>5. CASE CommitJob \/ CommitJobFails
  <2>1. /\ upload = "stored" /\ UNCHANGED <<applied, issues, pc, mem, base, tx>>
        /\ job' = job \/ job' = WithStatus(NoJob, "PENDING")
    BY <1>5 DEF CommitJob, CommitJobFails
  <2>2. job = NoJob /\ Busy = {}
    BY <1>0, <2>1 DEF OneToken
  <2>3. job'.row = job.row /\ Adds(job')
    BY <1>0, <2>1, <2>2 DEF WithStatus, NoJob, Adds
  <2>4. \A w \in Workers : InStep(w)'
    <3>1. \A w \in Workers : pc[w] = "idle"
      BY <2>2 DEF Busy
    <3>2. \A w \in Workers : tx[w] = NoTx
      BY <1>0, <3>1 DEF InStep
    <3>3. QED
      BY <2>1, <3>1, <3>2, IdleInStep
  <2>5. QED
    BY <1>1, <1>2, <2>1, <2>3, <2>4 DEF Once
<1>6. ASSUME NEW w \in Workers, Receive(w) PROVE Once'
  <2>1. /\ mem' = [mem EXCEPT ![w] = job] /\ base' = [base EXCEPT ![w] = job]
        /\ pc[w] = "idle" /\ pc'[w] \in {"returned", "fetched"} /\ queue > 0
        /\ \A v \in Workers \ {w} : pc'[v] = pc[v]
        /\ UNCHANGED <<job, applied, issues, tx>>
    BY <1>0, <1>6 DEF Receive, Loaded, Arrived
  <2>2. Busy = {}
    BY <1>0, <2>1 DEF OneToken
  <2>3. tx[w] = NoTx
    BY <1>0, <2>1 DEF InStep
  <2>4. InStep(w)'
    BY <1>0, <2>1, <2>3 DEF InStep, NoTx, Absent, Adds
  <2>5. \A v \in Workers \ {w} : InStep(v)'
    BY <2>1, <2>2, OthersInStep
  <2>6. QED
    BY <1>0, <1>1, <1>2, <2>1, <2>4, <2>5 DEF Once
<1>7. ASSUME NEW w \in Workers, StartRun(w) PROVE Once'
  <2> DEFINE m == WithStatus(mem[w], "RUNNING")
  <2>1. m \in JobRow /\ m.row = mem[w].row /\ (Adds(mem[w]) => Adds(m))
    BY <1>0, WithStatusAdds DEF Statuses
  <2>2. /\ pc[w] = "fetched" /\ pc' = [pc EXCEPT ![w] = "started"]
        /\ job' = Flushed(w, m)
        /\ mem' = [mem EXCEPT ![w] = m] /\ base' = [base EXCEPT ![w] = m]
        /\ UNCHANGED <<applied, issues, tx>>
    BY <1>7 DEF StartRun
  <2>3. base[w] = job /\ mem[w] = job /\ Adds(mem[w]) /\ tx[w] = NoTx
    BY <1>0, <2>2 DEF InStep
  <2>4. job' = m
    BY <1>0, <2>1, <2>2, <2>3, FlushedAlone
  <2> HIDE DEF m
  <2>5. InStep(w)'
    BY <1>0, <2>1, <2>2, <2>3, <2>4 DEF InStep, NoTx, Absent, Adds
  <2>6. \A v \in Workers \ {w} : InStep(v)'
    BY <1>0, <2>2, OthersInStep
  <2>7. QED
    BY <1>1, <1>2, <2>1, <2>2, <2>3, <2>4, <2>5, <2>6 DEF Once
<1>8. ASSUME NEW w \in Workers, Materialize(w) PROVE Once'
  <2>1. /\ pc[w] = "started" /\ pc' = [pc EXCEPT ![w] = "rows"]
        /\ UNCHANGED <<job, applied, issues, mem, base, tx>>
    BY <1>8 DEF Materialize
  <2>2. base[w] = job /\ mem[w] = job /\ Adds(mem[w]) /\ tx[w] = NoTx
    BY <1>0, <2>1 DEF InStep
  <2>3. job.row \in Nat /\ \A r \in Rows : r \in Nat
    BY <1>0 DEF JobRow, Rows
  <2>4. /\ tx'[w].ok = {} /\ tx'[w].bad = {}
        /\ \A r \in Rows : ~(job.row < r /\ r <= job.row)
    BY <2>1, <2>2, <2>3 DEF NoTx
  <2>5. InStep(w)'
    BY <1>0, <1>1, <2>1, <2>2, <2>3, <2>4 DEF InStep, Pending, Adds
  <2>6. \A v \in Workers \ {w} : InStep(v)'
    BY <1>0, <2>1, OthersInStep
  <2>7. QED
    BY <1>0, <1>1, <1>2, <2>1, <2>5, <2>6 DEF Once
<1>9. ASSUME NEW w \in Workers, NEW ok \in BOOLEAN, ProcessRow(w, ok) PROVE Once'
  <2> DEFINE r == mem[w].row + 1
             m == Counted(mem[w], ok, ~KeyPresent(w, file[r]))
             t == Traced(tx[w], ok, r)
  <2>1. pc[w] = "rows" /\ r \in Rows /\ pc' = pc
    <3>1. pc[w] = "rows" /\ pc' = pc /\ mem[w].row + 1 <= Len(file)
      BY <1>9 DEF ProcessRow
    <3>2. mem[w].row \in Nat /\ Len(file) \in Nat
      BY <1>0 DEF JobRow
    <3>3. r \in Rows
      BY <3>1, <3>2 DEF Rows
    <3>4. QED
      BY <3>1, <3>3
  <2>2. /\ base[w] = job /\ Adds(mem[w]) /\ job.row <= mem[w].row
        /\ \A q \in Rows : Pending(w, q) <=> job.row < q /\ q <= mem[w].row
        /\ \A q \in Rows : ~(q \in tx[w].ok /\ q \in tx[w].bad)
    BY <1>0, <2>1 DEF InStep
  <2>3. m \in JobRow /\ m.row = r /\ Adds(m)
    <3>1. mem[w] \in JobRow /\ mem[w].row + 1 <= Len(file)
      BY <2>1, <1>0 DEF Rows
    <3>2. KeyPresent(w, file[r]) \in BOOLEAN
      BY DEF KeyPresent
    <3>3. QED
      BY <1>0, <2>2, <3>1, <3>2, CountedType, CountedAdds
  <2>4. r \in Nat /\ job.row \in Nat /\ mem[w].row \in Nat /\ \A q \in Rows : q \in Nat
    <3>1. \A q \in Rows : q \in Nat
      BY DEF Rows
    <3>2. job \in JobRow /\ mem[w] \in JobRow
      BY <1>0
    <3>3. job.row \in Nat /\ mem[w].row \in Nat
      BY <3>2 DEF JobRow
    <3>4. QED
      BY <2>1, <3>1, <3>3
  <2>5. ~Pending(w, r)
    BY <2>1, <2>2, <2>4
  <2>6. \A q \in Rows : (q \in t.ok \/ q \in t.bad) <=> (Pending(w, q) \/ q = r)
    BY <1>0 DEF Traced, Pending, TxRecord
  <2>7. \A q \in Rows : (q \in t.ok \/ q \in t.bad) <=> (job.row < q /\ q <= r)
    BY <2>1, <2>2, <2>4, <2>6
  <2>8. \A q \in Rows : ~(q \in t.ok /\ q \in t.bad)
    BY <1>0, <2>2, <2>5 DEF Traced, Pending, TxRecord
  <2>9. /\ mem' = [mem EXCEPT ![w] = m]
        /\ \/ /\ job' = Flushed(w, m)
              /\ base' = [base EXCEPT ![w] = m]
              /\ applied' = Tally(applied, t.ok)
              /\ issues' = Tally(issues, t.bad)
              /\ tx' = [tx EXCEPT ![w] = NoTx]
           \/ /\ tx' = [tx EXCEPT ![w] = t]
              /\ UNCHANGED <<job, applied, issues, base>>
    BY <1>9 DEF ProcessRow
  <2>10. job.row <= r /\ r \in 0 .. Len(file)
    BY <1>0, <2>1, <2>2, <2>4 DEF Rows
  <2> HIDE DEF r, m, t
  <2>11. \A v \in Workers \ {w} : InStep(v)'
    BY <1>0, <2>1, <2>9, OthersInStep
  <2>12. CASE /\ job' = Flushed(w, m)
              /\ base' = [base EXCEPT ![w] = m]
              /\ applied' = Tally(applied, t.ok)
              /\ issues' = Tally(issues, t.bad)
              /\ tx' = [tx EXCEPT ![w] = NoTx]
    <3>1. job' = m
      BY <1>0, <2>2, <2>3, <2>12, FlushedAlone
    <3>2. \A q \in Rows : applied'[q] + issues'[q] = IF q <= r THEN 1 ELSE 0
      BY <1>0, <2>7, <2>8, <2>10, <2>12, TallyOnce
    <3>3. ExactlyOnce'
      BY <1>1, <2>3, <3>1, <3>2 DEF ExactlyOnce
    <3>4. /\ mem'[w] = m /\ base'[w] = m /\ tx'[w] = NoTx
          /\ m.row \in Nat /\ \A q \in Rows : ~(m.row < q /\ q <= m.row)
      BY <1>0, <2>3, <2>4, <2>9, <2>12
    <3>5. InStep(w)'
      <4>1. \A q \in Rows : ~Pending(w, q)' /\ ~(q \in tx'[w].ok /\ q \in tx'[w].bad)
        BY <3>4 DEF Pending, NoTx
      <4>2. pc'[w] = "rows" /\ job'.row <= mem'[w].row /\ base'[w] = job' /\ Adds(mem[w])'
        BY <2>1, <2>3, <3>1, <3>4 DEF Adds
      <4>3. \A q \in Rows : ~(job'.row < q /\ q <= mem'[w].row)
        BY <3>1, <3>4
      <4>4. QED
        BY <1>1, <4>1, <4>2, <4>3 DEF InStep
    <3>6. QED
      BY <1>1, <2>3, <2>11, <3>1, <3>3, <3>5 DEF Once, Adds
  <2>13. CASE tx' = [tx EXCEPT ![w] = t] /\ UNCHANGED <<job, applied, issues, base>>
    <3>1. mem'[w] = m /\ tx'[w] = t
      BY <1>0, <2>9, <2>13
    <3>2. \A q \in Rows : Pending(w, q)' <=> (job.row < q /\ q <= r)
      BY <2>7, <3>1 DEF Pending
    <3>3. InStep(w)'
      BY <1>1, <2>1, <2>2, <2>3, <2>8, <2>10, <2>13, <3>1, <3>2 DEF InStep, Adds
    <3>4. QED
      BY <1>0, <1>1, <1>2, <2>11, <2>13, <3>3 DEF Once
  <2>14. QED
    BY <2>9, <2>12, <2>13
<1>10. ASSUME NEW w \in Workers, FinishRun(w) PROVE Once'
  <2> DEFINE m == WithStatus(mem[w], FinalStatus(mem[w]))
  <2>1. /\ pc[w] = "rows" /\ job' = Flushed(w, m)
        /\ applied' = Tally(applied, tx[w].ok) /\ issues' = Tally(issues, tx[w].bad)
        /\ tx' = [tx EXCEPT ![w] = NoTx] /\ pc' = [pc EXCEPT ![w] = "returned"]
    BY <1>10 DEF FinishRun
  <2>2. m \in JobRow /\ m.row = mem[w].row /\ (Adds(mem[w]) => Adds(m))
    BY <1>0, WithStatusAdds DEF FinalStatus, Statuses
  <2>3. /\ base[w] = job /\ Adds(mem[w]) /\ job.row <= mem[w].row
        /\ \A q \in Rows : Pending(w, q) <=> job.row < q /\ q <= mem[w].row
        /\ \A q \in Rows : ~(q \in tx[w].ok /\ q \in tx[w].bad)
    BY <1>0, <2>1 DEF InStep
  <2>4. job' = m
    BY <1>0, <2>1, <2>2, <2>3, FlushedAlone
  <2> HIDE DEF m
  <2>5. \A q \in Rows : applied'[q] + issues'[q] = IF q <= mem[w].row THEN 1 ELSE 0
    <3>1. mem[w].row \in 0 .. Len(file)
      BY <1>0 DEF JobRow
    <3>2. QED
      BY <1>0, <2>1, <2>3, <3>1, TallyOnce DEF Pending
  <2>6. ExactlyOnce'
    BY <1>1, <2>2, <2>4, <2>5 DEF ExactlyOnce
  <2>7. InStep(w)'
    BY <1>0, <2>1, IdleInStep
  <2>8. \A v \in Workers \ {w} : InStep(v)'
    BY <1>0, <2>1, OthersInStep
  <2>9. QED
    BY <1>1, <2>2, <2>3, <2>4, <2>6, <2>7, <2>8 DEF Once, Adds
<1>11. ASSUME NEW w \in Workers, MarkFailed(w) PROVE Once'
  <2>1. /\ pc[w] = "failing" /\ pc' = [pc EXCEPT ![w] = "acking"]
        /\ job' = WithStatus(job, "FAILED") /\ UNCHANGED <<applied, issues, tx>>
    BY <1>11 DEF MarkFailed, MarkedFailed
  <2>2. job'.row = job.row /\ Adds(job')
    BY <1>0, <2>1, WithStatusAdds DEF Statuses
  <2>3. InStep(w)'
    <3>1. tx[w] = NoTx
      BY <1>0, <2>1 DEF InStep
    <3>2. QED
      BY <1>0, <2>1, <3>1, IdleInStep
  <2>4. \A v \in Workers \ {w} : InStep(v)'
    BY <1>0, <2>1, OthersInStep
  <2>5. QED
    BY <1>1, <1>2, <2>1, <2>2, <2>3, <2>4 DEF Once
<1>12. ASSUME NEW w \in Workers,
              \/ Abort(w) \/ Crash(w) \/ MaterializeFails(w) \/ MarkFailedFails(w)
              \/ SendTrigger(w) \/ Ack(w)
       PROVE  Once'
  <2>1. /\ pc[w] # "idle" /\ pc'[w] \in {"failing", "acking", "idle"}
        /\ tx'[w] = NoTx \/ (pc[w] # "rows" /\ tx' = tx)
        /\ \A v \in Workers \ {w} : pc'[v] = pc[v] /\ tx'[v] = tx[v]
        /\ UNCHANGED <<job, applied, issues, mem, base>>
    BY <1>0, <1>12 DEF Abort, Crash, MaterializeFails, MarkFailedFails, SendTrigger, Ack
  <2>2. InStep(w)'
    <3>1. tx'[w] = NoTx
      BY <1>0, <2>1 DEF InStep
    <3>2. QED
      BY <2>1, <3>1, IdleInStep
  <2>3. \A v \in Workers \ {w} : InStep(v)'
    BY <2>1, OthersInStep
  <2>4. QED
    BY <1>0, <1>1, <1>2, <2>1, <2>2, <2>3 DEF Once
<1>13. ASSUME NEW w \in Workers, Redeliver(w) PROVE Once'
  BY <1>3, <1>13 DEF Redeliver
<1>14. QED
  BY <1>4, <1>5, <1>6, <1>7, <1>8, <1>9, <1>10, <1>11, <1>12, <1>13
     DEF Next, Api, Work, Quiet

\* An overlap (the broker redelivers an unacknowledged message) is never undone.
LEMMA OverlapsCount == TypeOK /\ [Next]_vars => overlaps \in Nat /\ overlaps' >= overlaps
<1> SUFFICES ASSUME TypeOK, [Next]_vars
             PROVE  overlaps \in Nat /\ overlaps' >= overlaps
  OBVIOUS
<1> USE DEF boundVars
<1>0. overlaps \in Nat
  BY DEF TypeOK
<1>1. CASE UNCHANGED vars \/ Api
  BY <1>0, <1>1 DEF vars, Api, StoreObject, RejectEmpty, CommitJob, CommitJobFails, Dispatch, ApiCrash
<1>2. ASSUME NEW w \in Workers, Work(w) PROVE overlaps' = overlaps
  BY <1>2 DEF Work, Receive, StartRun, Materialize, MaterializeFails, ProcessRow, FinishRun,
     Abort, MarkFailed, MarkFailedFails, SendTrigger, Ack
<1>3. ASSUME NEW w \in Workers, Crash(w) \/ Redeliver(w) PROVE overlaps' >= overlaps
  BY <1>0, <1>3 DEF Crash, Redeliver
<1>4. QED
  BY <1>0, <1>1, <1>2, <1>3 DEF Next, Quiet

\* As long as no message was redelivered under a running worker, every row up
\* to the committed checkpoint has been decided exactly once and no other row
\* has left a trace (_checkpoint commits the counters with the rows they count).
THEOREM EveryRowOnce == Spec => [](overlaps = 0 => ExactlyOnce)
<1> DEFINE Alone == overlaps = 0 => Once
<1>1. Init => TypeOK /\ Alone
  BY InitTyped, InitOnce
<1>2. TypeOK /\ Alone /\ [Next]_vars => (TypeOK /\ Alone)'
  BY StepTyped, StepOnce, OverlapsCount
<1>3. Alone => (overlaps = 0 => ExactlyOnce)
  BY DEF Once
<1> HIDE DEF Alone
<1>4. QED
  BY <1>1, <1>2, <1>3, PTL DEF Spec

\* Under the same condition the counters of the committed row add up to its
\* checkpoint: nothing is counted twice by a run that resumes.
THEOREM CountersCoverRows == Spec => [](overlaps = 0 => CountersAddUp)
<1> DEFINE Alone == overlaps = 0 => Once
<1>1. Init => TypeOK /\ Alone
  BY InitTyped, InitOnce
<1>2. TypeOK /\ Alone /\ [Next]_vars => (TypeOK /\ Alone)'
  BY StepTyped, StepOnce, OverlapsCount
<1>3. Alone => (overlaps = 0 => CountersAddUp)
  BY DEF Once, Adds, CountersAddUp
<1> HIDE DEF Alone
<1>4. QED
  BY <1>1, <1>2, <1>3, PTL DEF Spec
-----------------------------------------------------------------------------
(* What the counters and the catalog tell                                  *)

\* Keys the job has brought into the catalog, an open transaction's included.
Brought(cat, writes) == {k \in Keys \ prior : cat[k] # Absent \/ writes[k] # Absent}

\* What a job row says when transaction t is open over these stores.
Tells(m, t, cat, iss) ==
    /\ m.failed > 0 <=> \E r \in Rows : iss[r] > 0 \/ r \in t.bad
    /\ IsFiniteSet(Brought(cat, t.writes))
    /\ m.inserted = Cardinality(Brought(cat, t.writes))

\* A transaction holds the last row it applied to each key.
InOrder(t) ==
    /\ \A k \in Keys : t.writes[k] # Absent => t.writes[k] \in t.ok
    /\ \A r \in t.ok : t.writes[file[r]] >= r

\* What the worker that holds the token relies on.
Opened(w) ==
    /\ pc[w] = "fetched" => job.status \notin {"ABSENT", "COMPLETED"}
    /\ pc[w] \in {"started", "rows", "failing"} => job.status = "RUNNING"
    /\ pc[w] = "rows" => Tells(mem[w], tx[w], catalog, issues) /\ InOrder(tx[w])

\* The inductive strengthening of InsertedCountsNewKeys and CatalogFollowsFile,
\* and what the refinement needs besides.
Faithful ==
    /\ Tells(job, NoTx, catalog, issues)
    /\ CatalogFollowsFile
    /\ \A k \in prior : catalog[k] # Absent
    /\ \A w \in Workers : Opened(w)

\* A row (_run_hotels, _run_reviews) brings its key at most once, and a failed one shows.
LEMMA RowTold ==
    ASSUME TypeOK, NEW w \in Workers, NEW ok \in BOOLEAN, NEW r \in Rows,
           Tells(mem[w], tx[w], catalog, issues), \A k \in prior : catalog[k] # Absent
    PROVE  Tells(Counted(mem[w], ok, ~KeyPresent(w, file[r])), Traced(tx[w], ok, r),
                 catalog, issues)
<1> DEFINE k == file[r]
           m == Counted(mem[w], ok, ~KeyPresent(w, k))
           t == Traced(tx[w], ok, r)
           B == Brought(catalog, tx[w].writes)
<1>1. /\ mem[w] \in JobRow /\ tx[w] \in TxRecord /\ k \in Keys /\ r \in Nat
      /\ mem[w].failed \in Nat /\ mem[w].inserted \in Nat
  <2>1. file \in Seq(Keys) /\ mem[w] \in JobRow /\ tx[w] \in TxRecord
    BY DEF TypeOK, TxRecord
  <2>2. k \in Keys /\ r \in Nat
    BY <2>1 DEF Rows
  <2>3. QED
    BY <2>1, <2>2 DEF JobRow
<1>2. /\ m.failed = IF ok THEN mem[w].failed ELSE mem[w].failed + 1
      /\ m.inserted = IF ok /\ ~KeyPresent(w, k) THEN mem[w].inserted + 1 ELSE mem[w].inserted
  BY DEF Counted
<1>3. /\ t.bad = IF ok THEN tx[w].bad ELSE tx[w].bad \cup {r}
      /\ t.writes = IF ok THEN [tx[w].writes EXCEPT ![k] = r] ELSE tx[w].writes
  BY DEF Traced, Upsert
<1>4. m.failed > 0 <=> \E q \in Rows : issues[q] > 0 \/ q \in t.bad
  <2>1. CASE ok
    BY <1>2, <1>3, <2>1 DEF Tells
  <2>2. CASE ~ok
    BY <1>1, <1>2, <1>3, <2>2
  <2>3. QED
    BY <2>1, <2>2
<1>5. IsFiniteSet(B) /\ mem[w].inserted = Cardinality(B)
  BY DEF Tells
<1>6. CASE ok /\ ~KeyPresent(w, k)
  <2>1. k \notin prior /\ k \notin B
    BY <1>6 DEF KeyPresent, Brought
  <2>2. tx[w].writes \in [Keys -> Int] /\ r # Absent
    BY <1>1 DEF TxRecord, Absent
  <2>3. Brought(catalog, t.writes) = B \cup {k}
    BY <1>1, <1>3, <1>6, <2>1, <2>2 DEF Brought
  <2>4. IsFiniteSet(B \cup {k}) /\ Cardinality(B \cup {k}) = Cardinality(B) + 1
    BY <1>5, <2>1, FS_AddElement
  <2>5. QED
    BY <1>2, <1>4, <1>5, <1>6, <2>3, <2>4 DEF Tells
<1>7. CASE ~(ok /\ ~KeyPresent(w, k))
  <2>1. tx[w].writes \in [Keys -> Int] /\ r # Absent
    BY <1>1 DEF TxRecord, Absent
  <2>2. Brought(catalog, t.writes) = B
    BY <1>1, <1>3, <1>7, <2>1 DEF Brought, KeyPresent
  <2>3. QED
    BY <1>2, <1>4, <1>5, <1>7, <2>2 DEF Tells
<1>8. QED
  BY <1>6, <1>7

\* The upsert of the next row (upsert_hotels, upsert_reviews) is the last one of its key.
LEMMA RowInOrder ==
    ASSUME TypeOK, NEW w \in Workers, NEW ok \in BOOLEAN, NEW r \in Rows,
           InOrder(tx[w]), \A q \in tx[w].ok : q < r
    PROVE  InOrder(Traced(tx[w], ok, r))
<1>1. /\ tx[w].ok \subseteq Rows /\ tx[w].writes \in [Keys -> Int]
      /\ \A q \in Rows : file[q] \in Keys /\ q \in Nat
  BY DEF TypeOK, Rows
<1>2. CASE ~ok
  BY <1>2 DEF Traced, InOrder
<1>3. CASE ok
  <2>1. /\ Traced(tx[w], ok, r).ok = tx[w].ok \cup {r}
        /\ Traced(tx[w], ok, r).writes = [tx[w].writes EXCEPT ![file[r]] = r]
    BY <1>3 DEF Traced, Upsert
  <2>2. QED
    BY <1>1, <2>1 DEF InOrder
<1>4. QED
  BY <1>2, <1>3

\* Once a transaction is committed (_checkpoint) the row tells of the stores alone.
LEMMA CommitTold ==
    ASSUME TypeOK, NEW t \in TxRecord, NEW m, NEW n,
           Tells(m, t, catalog, issues), n.failed = m.failed, n.inserted = m.inserted
    PROVE  Tells(n, NoTx, Committed(t.writes), Tally(issues, t.bad))
<1>1. Brought(Committed(t.writes), NoTx.writes) = Brought(catalog, t.writes)
  BY DEF Brought, Committed, NoTx
<1>2. ASSUME NEW r \in Rows
      PROVE  Tally(issues, t.bad)[r] > 0 <=> issues[r] > 0 \/ r \in t.bad
  <2>1. issues[r] \in Nat
    BY DEF TypeOK
  <2>2. QED
    BY <2>1 DEF Tally
<1>3. (\E r \in Rows : Tally(issues, t.bad)[r] > 0 \/ r \in NoTx.bad)
      <=> \E r \in Rows : issues[r] > 0 \/ r \in t.bad
  BY <1>2 DEF NoTx
<1>4. QED
  BY <1>1, <1>3 DEF Tells

\* A commit (_checkpoint) puts no older row of the file over a newer one.
LEMMA CommitFollows ==
    ASSUME TypeOK, ExactlyOnce, CatalogFollowsFile, NEW t \in TxRecord, InOrder(t),
           \A q \in t.ok : job.row < q
    PROVE  \A k \in Keys : \A r \in Rows :
              Tally(applied, t.ok)[r] > 0 /\ file[r] = k => Committed(t.writes)[k] >= r
<1>1. SUFFICES ASSUME NEW k \in Keys, NEW r \in Rows, file[r] = k, Tally(applied, t.ok)[r] > 0
               PROVE  Committed(t.writes)[k] >= r
  OBVIOUS
<1>2. /\ r \in Nat /\ r >= 1 /\ t.ok \subseteq Rows /\ t.writes \in [Keys -> Int]
      /\ catalog \in [Keys -> Int] /\ applied[r] \in Nat /\ issues[r] \in Nat
      /\ job.row \in Nat
  <2>1. Rows \subseteq Nat \ {0}
    BY DEF TypeOK, Rows
  <2>2. job \in JobRow /\ Len(file) \in Nat
    BY DEF TypeOK
  <2>3. QED
    BY <2>1, <2>2 DEF TypeOK, TxRecord, JobRow
<1>3. CASE r \in t.ok
  BY <1>1, <1>2, <1>3 DEF InOrder, Committed, Absent
<1>4. CASE r \notin t.ok
  <2>1. applied[r] > 0
    BY <1>1, <1>4 DEF Tally
  <2>2. r <= job.row
    BY <1>2, <2>1 DEF ExactlyOnce
  <2>3. catalog[k] >= r
    BY <1>1, <2>1 DEF CatalogFollowsFile
  <2>4. t.writes[k] # Absent => t.writes[k] \in Rows /\ job.row < t.writes[k]
    BY <1>2 DEF InOrder
  <2>5. QED
    BY <1>2, <2>2, <2>3, <2>4 DEF Committed, Rows
<1>5. QED
  BY <1>3, <1>4

\* Before the upload (create_job) nothing was brought.
LEMMA InitFaithful == Init => Faithful
<1> SUFFICES ASSUME Init PROVE Faithful
  OBVIOUS
<1>1. /\ job.failed = 0 /\ job.inserted = 0
      /\ \A r \in Rows : applied[r] = 0 /\ issues[r] = 0
      /\ catalog = [k \in Keys |-> IF k \in prior THEN Prior ELSE Absent]
      /\ prior \subseteq Keys
  BY DEF Init, NoJob
<1>2. Brought(catalog, NoTx.writes) = {}
  BY <1>1 DEF Brought, NoTx
<1>3. Tells(job, NoTx, catalog, issues)
  BY <1>1, <1>2, FS_EmptySet DEF Tells, NoTx
<1>4. CatalogFollowsFile /\ \A k \in prior : catalog[k] # Absent
  BY <1>1 DEF CatalogFollowsFile, Prior, Absent
<1>5. \A w \in Workers : Opened(w)
  BY DEF Init, Opened
<1>6. QED
  BY <1>3, <1>4, <1>5 DEF Faithful

\* A step that commits no row tells what was told.
LEMMA StoresKept ==
    ASSUME Faithful, UNCHANGED fileVars, UNCHANGED <<catalog, applied, issues>>,
           job'.failed = job.failed, job'.inserted = job.inserted,
           \A w \in Workers : Opened(w)'
    PROVE  Faithful'
<1>1. Rows' = Rows /\ prior' = prior /\ file' = file /\ NoTx' = NoTx
  BY DEF fileVars, Rows, NoTx, Absent
<1>2. Brought(catalog, NoTx.writes)' = Brought(catalog, NoTx.writes)
  BY <1>1 DEF Brought, Absent
<1>3. Tells(job, NoTx, catalog, issues)'
  BY <1>1, <1>2 DEF Faithful, Tells
<1>4. CatalogFollowsFile' /\ \A k \in prior' : catalog'[k] # Absent'
  BY <1>1 DEF Faithful, CatalogFollowsFile, Absent
<1>5. QED
  BY <1>3, <1>4 DEF Faithful

\* The rows a worker has open lie after the committed checkpoint.
LEMMA OpenRows ==
    ASSUME TypeOK, Once, NEW w \in Workers, pc[w] = "rows"
    PROVE  \A q \in tx[w].ok : job.row < q /\ q <= mem[w].row
  BY DEF TypeOK, Once, InStep, Pending

\* Committing the rows a worker has open (_checkpoint, run) leaves the stores as told.
LEMMA CommitKept ==
    ASSUME TypeOK, Once, Faithful, UNCHANGED fileVars,
           NEW t \in TxRecord, NEW m, Tells(m, t, catalog, issues), InOrder(t),
           \A q \in t.ok : job.row < q,
           job'.failed = m.failed, job'.inserted = m.inserted,
           catalog' = Committed(t.writes), applied' = Tally(applied, t.ok),
           issues' = Tally(issues, t.bad),
           \A w \in Workers : Opened(w)'
    PROVE  Faithful'
<1>1. Rows' = Rows /\ prior' = prior /\ file' = file /\ NoTx' = NoTx
  BY DEF fileVars, Rows, NoTx, Absent
<1>2. Tells(job', NoTx, catalog', issues')
  BY CommitTold
<1>3. Brought(catalog, NoTx.writes)' = Brought(catalog', NoTx.writes)
  BY <1>1 DEF Brought, Absent
<1>4. Tells(job, NoTx, catalog, issues)'
  BY <1>1, <1>2, <1>3 DEF Tells
<1>5. CatalogFollowsFile'
  <2>1. ExactlyOnce /\ CatalogFollowsFile
    BY DEF Once, Faithful
  <2>2. \A k \in Keys : \A r \in Rows :
           Tally(applied, t.ok)[r] > 0 /\ file[r] = k => Committed(t.writes)[k] >= r
    BY <2>1, CommitFollows
  <2>3. QED
    BY <1>1, <2>2 DEF CatalogFollowsFile
<1>6. \A k \in prior' : catalog'[k] # Absent'
  BY <1>1 DEF Faithful, Committed, Absent, TypeOK
<1>7. QED
  BY <1>4, <1>5, <1>6 DEF Faithful

\* Every step of an import delivered once keeps Faithful.
LEMMA StepFaithful ==
    ASSUME overlaps' = 0, TypeOK, Sound, Once, Faithful, [Next]_vars
    PROVE  Faithful'
<1> USE DEF uploadVars, storeVars, workerVars, boundVars
<1>0. /\ UNCHANGED fileVars /\ job \in JobRow /\ Len(file) \in Nat
      /\ pc \in [Workers -> Steps] /\ mem \in [Workers -> JobRow]
      /\ tx \in [Workers -> TxRecord]
  BY FileConstant DEF TypeOK, TxRecord
<1>01. Rows' = Rows /\ prior' = prior /\ file' = file /\ NoTx' = NoTx /\ Absent' = Absent
  BY <1>0 DEF fileVars, Rows, NoTx, Absent
<1>1. CASE UNCHANGED vars
  <2>1. ASSUME NEW w \in Workers PROVE Opened(w)'
    <3>1. Opened(w)
      BY DEF Faithful
    <3>2. /\ Tells(mem[w], tx[w], catalog, issues)' <=> Tells(mem[w], tx[w], catalog, issues)
          /\ InOrder(tx[w])' <=> InOrder(tx[w])
      BY <1>1, <1>01 DEF vars, Tells, InOrder, Brought
    <3>3. QED
      BY <1>1, <3>1, <3>2 DEF vars, Opened
  <2>2. QED
    BY <1>0, <1>1, <2>1, StoresKept DEF vars
<1>2. CASE Api
  <2>1. /\ upload # "done" /\ UNCHANGED <<pc, catalog, applied, issues>>
        /\ \/ job' = job
           \/ upload = "stored" /\ job' = WithStatus(NoJob, "PENDING")
    BY <1>2 DEF Api, StoreObject, RejectEmpty, CommitJob, CommitJobFails, Dispatch, ApiCrash
  <2>2. \A w \in Workers : pc'[w] = "idle"
    BY <2>1 DEF Once, OneToken, Busy
  <2>3. job'.failed = job.failed /\ job'.inserted = job.inserted
    BY <2>1 DEF Once, OneToken, WithStatus, NoJob
  <2>4. \A w \in Workers : Opened(w)'
    BY <2>2 DEF Opened
  <2>5. QED
    BY <1>0, <2>1, <2>3, <2>4, StoresKept
<1>3. ASSUME NEW w \in Workers, Work(w) PROVE Faithful'
  <2>1. \A v \in Workers \ {w} : pc[v] = "idle" /\ pc'[v] = pc[v]
    <3>1. \A v \in Workers \ {w} : pc'[v] = pc[v]
      BY <1>0, <1>3 DEF Work, Receive, StartRun, Materialize, MaterializeFails, ProcessRow, FinishRun,
         Abort, MarkFailed, MarkFailedFails, SendTrigger, Ack
    <3>2. pc[w] # "idle" \/ Busy = {}
      BY <1>3 DEF Work, Receive, StartRun, Materialize, MaterializeFails, ProcessRow, FinishRun,
         Abort, MarkFailed, MarkFailedFails, SendTrigger, Ack, Once, OneToken
    <3>3. QED
      BY <3>1, <3>2, TokenHolder DEF Once, Busy
  <2>2. Opened(w)' => \A v \in Workers : Opened(v)'
    BY <2>1 DEF Opened
  <2>3. Opened(w) /\ InStep(w) /\ Backed(w)
    BY DEF Faithful, Once, Sound
  <2>4. CASE Receive(w)
    <3>1. pc'[w] \in {"returned", "fetched"}
      BY <1>0, <2>4 DEF Receive, Arrived
    <3>2. pc'[w] = "fetched" => job.status \notin {"ABSENT", "COMPLETED"}
      BY <1>0, <2>4 DEF Receive, Arrived
    <3>3. UNCHANGED <<job, catalog, applied, issues>>
      BY <2>4 DEF Receive
    <3>4. Opened(w)'
      BY <3>1, <3>2, <3>3 DEF Opened
    <3>5. QED
      BY <1>0, <2>2, <3>3, <3>4, StoresKept
  <2>5. CASE StartRun(w)
    <3> DEFINE m == WithStatus(mem[w], "RUNNING")
    <3>1. /\ m \in JobRow /\ m.status = "RUNNING"
          /\ m.failed = mem[w].failed /\ m.inserted = mem[w].inserted
      BY <1>0, WithStatusType DEF Statuses
    <3>2. base[w] = job /\ mem[w] = job
      BY <2>3, <2>5 DEF StartRun, InStep
    <3>3. job' = m
      BY <1>0, <2>5, <3>1, <3>2, FlushedAlone DEF StartRun
    <3>4. pc'[w] = "started" /\ UNCHANGED <<catalog, applied, issues>>
      BY <1>0, <2>5 DEF StartRun
    <3> HIDE DEF m
    <3>5. Opened(w)'
      BY <3>1, <3>3, <3>4 DEF Opened
    <3>6. job'.failed = job.failed /\ job'.inserted = job.inserted
      BY <3>1, <3>2, <3>3
    <3>7. QED
      BY <1>0, <2>2, <3>4, <3>5, <3>6, StoresKept
  <2>6. CASE Materialize(w)
    <3>1. pc[w] = "started" /\ pc'[w] = "rows" /\ UNCHANGED <<job, catalog, applied, issues, mem, tx>>
      BY <1>0, <2>6 DEF Materialize
    <3>2. mem[w] = job /\ tx[w] = NoTx /\ job.status = "RUNNING"
      BY <2>3, <3>1 DEF InStep, Opened
    <3>3. InOrder(NoTx)
      BY DEF InOrder, NoTx
    <3>4. Tells(mem[w], tx[w], catalog, issues) /\ InOrder(tx[w])
      BY <3>2, <3>3 DEF Faithful
    <3>5. (Tells(mem[w], tx[w], catalog, issues) /\ InOrder(tx[w]))'
      BY <1>01, <3>1, <3>4 DEF Tells, InOrder, Brought
    <3>6. Opened(w)'
      BY <3>1, <3>2, <3>5 DEF Opened
    <3>7. QED
      BY <1>0, <2>2, <3>1, <3>6, StoresKept
  <2>7. CASE \E ok \in BOOLEAN : ProcessRow(w, ok)
    <3>1. PICK ok \in BOOLEAN : ProcessRow(w, ok)
      BY <2>7
    <3> DEFINE r == mem[w].row + 1
               m == Counted(mem[w], ok, ~KeyPresent(w, file[r]))
               t == Traced(tx[w], ok, r)
    <3>2. /\ pc[w] = "rows" /\ pc' = pc /\ r <= Len(file)
          /\ mem' = [mem EXCEPT ![w] = m]
          /\ \/ /\ job' = Flushed(w, m)
                /\ catalog' = Committed(t.writes)
                /\ applied' = Tally(applied, t.ok)
                /\ issues' = Tally(issues, t.bad)
                /\ tx' = [tx EXCEPT ![w] = NoTx]
             \/ /\ tx' = [tx EXCEPT ![w] = t]
                /\ UNCHANGED <<job, catalog, applied, issues>>
      BY <3>1 DEF ProcessRow
    <3>3. r \in Rows /\ mem[w].row \in Nat /\ job.row \in Nat
      BY <1>0, <3>2 DEF JobRow, Rows
    <3>4. \A q \in tx[w].ok : job.row < q /\ q <= mem[w].row
      BY <3>2, OpenRows
    <3>5. tx[w].ok \subseteq Nat /\ tx[w] \in TxRecord
      BY <1>0 DEF TxRecord, Rows
    <3>6. Tells(m, t, catalog, issues)
      BY <2>3, <3>2, <3>3, RowTold DEF Opened, Faithful
    <3>7. InOrder(t)
      BY <2>3, <3>2, <3>3, <3>4, <3>5, RowInOrder DEF Opened
    <3>8. t \in TxRecord
      BY <3>3, <3>5, TracedType DEF TypeOK
    <3>9. m \in JobRow /\ m.status = mem[w].status
      <4>1. mem[w] \in JobRow /\ mem[w].row + 1 <= Len(file) /\ KeyPresent(w, file[r]) \in BOOLEAN
        BY <1>0, <3>2 DEF KeyPresent
      <4>2. QED
        BY <1>0, <4>1, CountedType DEF Counted
    <3>10. \A q \in t.ok : job.row < q
      <4>1. job.row <= mem[w].row
        BY <2>3, <3>2 DEF InStep
      <4>2. t.ok \subseteq tx[w].ok \cup {r}
        BY DEF Traced
      <4>3. QED
        BY <3>3, <3>4, <4>1, <4>2
    <3>11. base[w] = job /\ mem[w].status = "RUNNING" /\ job.status = "RUNNING"
      BY <2>3, <3>2 DEF InStep, Backed, Opened
    <3>12. mem'[w] = m
      BY <1>0, <3>2
    <3> HIDE DEF r, m, t
    <3>13. CASE /\ job' = Flushed(w, m)
                /\ catalog' = Committed(t.writes)
                /\ applied' = Tally(applied, t.ok)
                /\ issues' = Tally(issues, t.bad)
                /\ tx' = [tx EXCEPT ![w] = NoTx]
      <4>1. job' = m /\ tx'[w] = NoTx
        BY <1>0, <3>9, <3>11, <3>13, FlushedAlone
      <4>2. Tells(m, NoTx, catalog', issues')
        BY <3>6, <3>8, <3>13, CommitTold
      <4>3. Tells(mem[w], tx[w], catalog, issues)'
        BY <1>01, <3>12, <4>1, <4>2 DEF Tells, Brought
      <4>4. InOrder(tx[w])'
        BY <1>01, <4>1 DEF InOrder, NoTx
      <4>5. Opened(w)'
        BY <3>2, <3>9, <3>11, <4>1, <4>3, <4>4 DEF Opened
      <4>6. QED
        BY <1>0, <2>2, <3>6, <3>7, <3>8, <3>10, <3>13, <4>1, <4>5, CommitKept
    <3>14. CASE tx' = [tx EXCEPT ![w] = t] /\ UNCHANGED <<job, catalog, applied, issues>>
      <4>1. tx'[w] = t
        BY <1>0, <3>14
      <4>2. Tells(mem[w], tx[w], catalog, issues)'
        BY <1>01, <3>6, <3>12, <3>14, <4>1 DEF Tells, Brought
      <4>3. InOrder(tx[w])'
        BY <1>01, <3>7, <4>1 DEF InOrder
      <4>4. Opened(w)'
        BY <3>2, <3>11, <3>14, <4>2, <4>3 DEF Opened
      <4>5. QED
        BY <1>0, <2>2, <3>14, <4>4, StoresKept
    <3>15. QED
      BY <3>2, <3>13, <3>14
  <2>8. CASE FinishRun(w)
    <3> DEFINE m == WithStatus(mem[w], FinalStatus(mem[w]))
    <3>1. /\ pc[w] = "rows" /\ pc'[w] = "returned" /\ job' = Flushed(w, m)
          /\ catalog' = Committed(tx[w].writes)
          /\ applied' = Tally(applied, tx[w].ok) /\ issues' = Tally(issues, tx[w].bad)
      BY <1>0, <2>8 DEF FinishRun
    <3>2. m \in JobRow /\ m.failed = mem[w].failed /\ m.inserted = mem[w].inserted
      BY <1>0, WithStatusType DEF Statuses, FinalStatus
    <3>3. job' = m
      BY <1>0, <2>3, <3>1, <3>2, FlushedAlone DEF InStep
    <3>4. Opened(w)'
      BY <3>1 DEF Opened
    <3>5. Tells(mem[w], tx[w], catalog, issues) /\ InOrder(tx[w])
      BY <2>3, <3>1 DEF Opened
    <3>6. \A q \in tx[w].ok : job.row < q
      BY <3>1, OpenRows
    <3> HIDE DEF m
    <3>7. QED
      BY <1>0, <2>2, <3>1, <3>2, <3>3, <3>4, <3>5, <3>6, CommitKept
  <2>9. CASE MarkFailed(w)
    <3>1. pc'[w] = "acking" /\ UNCHANGED <<catalog, applied, issues>> /\ job' = WithStatus(job, "FAILED")
      BY <1>0, <2>9 DEF MarkFailed, MarkedFailed
    <3>2. job'.failed = job.failed /\ job'.inserted = job.inserted
      BY <1>0, <3>1, WithStatusType DEF Statuses
    <3>3. Opened(w)'
      BY <3>1 DEF Opened
    <3>4. QED
      BY <1>0, <2>2, <3>1, <3>2, <3>3, StoresKept
  <2>10. CASE Abort(w)
    <3>1. pc[w] = "rows" /\ pc'[w] = "failing" /\ UNCHANGED <<job, catalog, applied, issues>>
      BY <1>0, <2>10 DEF Abort
    <3>2. Opened(w)'
      BY <2>3, <3>1 DEF Opened
    <3>3. QED
      BY <1>0, <2>2, <3>1, <3>2, StoresKept
  <2>11. CASE MaterializeFails(w) \/ MarkFailedFails(w) \/ SendTrigger(w) \/ Ack(w)
    <3>1. pc'[w] \in {"acking", "idle"} /\ UNCHANGED <<job, catalog, applied, issues>>
      BY <1>0, <2>11 DEF MaterializeFails, MarkFailedFails, SendTrigger, Ack
    <3>2. Opened(w)'
      BY <3>1 DEF Opened
    <3>3. QED
      BY <1>0, <2>2, <3>1, <3>2, StoresKept
  <2>12. QED
    BY <1>3, <2>4, <2>5, <2>6, <2>7, <2>8, <2>9, <2>10, <2>11 DEF Work
<1>4. ASSUME NEW w \in Workers, Crash(w) PROVE Faithful'
  <2>1. /\ pc[w] # "idle" /\ pc' = [pc EXCEPT ![w] = "idle"]
        /\ UNCHANGED <<job, catalog, applied, issues>>
    BY <1>4 DEF Crash
  <2>2. \A v \in Workers : pc'[v] = "idle"
    BY <1>0, <2>1, TokenHolder DEF Once
  <2>3. \A v \in Workers : Opened(v)'
    BY <2>2 DEF Opened
  <2>4. QED
    BY <1>0, <2>1, <2>3, StoresKept
<1>5. ASSUME NEW w \in Workers, Redeliver(w) PROVE Faithful'
  BY <1>5 DEF Redeliver, Once, OneToken
<1>6. QED
  BY <1>1, <1>2, <1>3, <1>4, <1>5 DEF Next, Quiet

\* The import until a first overlap.
Undisturbed == overlaps = 0 => Once /\ Faithful

\* Every step keeps it (run, and the delivery of its task).
LEMMA StepUndisturbed ==
    TypeOK /\ Sound /\ Undisturbed /\ [Next]_vars => (TypeOK /\ Sound /\ Undisturbed)'
<1> SUFFICES ASSUME TypeOK, Sound, Undisturbed, [Next]_vars
             PROVE  (TypeOK /\ Sound /\ Undisturbed)'
  OBVIOUS
<1>1. ASSUME overlaps' = 0 PROVE Once' /\ Faithful'
  <2>1. Once /\ Faithful
    BY <1>1, OverlapsCount DEF Undisturbed
  <2>2. QED
    BY <1>1, <2>1, StepOnce, StepFaithful
<1>2. QED
  BY <1>1, StepTyped, StepSound DEF Undisturbed

\* As long as no delivery overlapped another: the counter "inserted" of the job
\* row is the number of keys the job brought into the catalog, whatever the
\* file repeats and whatever batches rolled back (upsert_hotels,
\* upsert_reviews: a key is new when the transaction sees none).
THEOREM NewKeysAreCounted == Spec => [](overlaps = 0 => InsertedCountsNewKeys)
<1>1. Init => TypeOK /\ Sound /\ Undisturbed
  BY InitTyped, InitSound, InitOnce, InitFaithful DEF Undisturbed
<1>2. Undisturbed => (overlaps = 0 => InsertedCountsNewKeys)
  <2>1. Brought(catalog, NoTx.writes) = {k \in Keys \ prior : catalog[k] # Absent}
    BY DEF Brought, NoTx
  <2>2. QED
    BY <2>1 DEF Undisturbed, Faithful, Tells, InsertedCountsNewKeys
<1>3. QED
  BY <1>1, <1>2, StepUndisturbed, PTL DEF Spec

\* Under the same condition the catalog shows each key as the last applied row
\* of the file that carries it: a resumed run puts no older row over it (run
\* resumes after the committed checkpoint).
THEOREM CatalogIsInOrder == Spec => [](overlaps = 0 => CatalogFollowsFile)
<1>1. Init => TypeOK /\ Sound /\ Undisturbed
  BY InitTyped, InitSound, InitOnce, InitFaithful DEF Undisturbed
<1>2. Undisturbed => (overlaps = 0 => CatalogFollowsFile)
  BY DEF Undisturbed, Faithful
<1>3. QED
  BY <1>1, <1>2, StepUndisturbed, PTL DEF Spec

-----------------------------------------------------------------------------
(* The job implements the ledger                                           *)

Processed == {"PARTIAL", "COMPLETED"}

\* A step that decides no row and leaves a processed job alone is none of the ledger's.
LEMMA LedgerStutters ==
    ASSUME UNCHANGED fileVars, UNCHANGED <<applied, issues>>, job'.row = job.row,
           job'.status = job.status \/ (job.status \notin Processed /\ job'.status \notin Processed)
    PROVE  UNCHANGED Ledger!vars
<1>1. Rows' = Rows /\ file' = file
  BY DEF fileVars, Rows
<1>2. QED
  BY <1>1 DEF Ledger!vars, Processed

\* A commit (_checkpoint, run) decides the rows up to its checkpoint and no other.
LEMMA LedgerDecides ==
    ASSUME TypeOK, Once, UNCHANGED fileVars, NEW w \in Workers, pc[w] = "rows",
           NEW t \in TxRecord, NEW p \in 0 .. Len(file), job.row <= p, job'.row = p,
           \A r \in Rows : r \in t.ok \/ r \in t.bad <=> job.row < r /\ r <= p,
           applied' = Tally(applied, t.ok), issues' = Tally(issues, t.bad)
    PROVE  Ledger!DecideUpTo(p)
<1>1. Rows' = Rows /\ file' = file
  BY DEF fileVars, Rows
<1>2. job.row \in Nat /\ Len(file) \in Nat /\ p \in Nat /\ Rows = 1 .. Len(file)
  BY DEF TypeOK, JobRow, Rows
<1>3. ASSUME NEW r \in Rows, r \in job.row + 1 .. p
      PROVE  applied'[r] > 0 \/ issues'[r] > 0
  <2>1. r \in t.ok \/ r \in t.bad
    BY <1>2, <1>3
  <2>2. applied[r] \in Nat /\ issues[r] \in Nat
    BY DEF TypeOK
  <2>3. QED
    BY <2>1, <2>2 DEF Tally
<1>4. ASSUME NEW r \in Rows, r \notin job.row + 1 .. p
      PROVE  applied'[r] = applied[r] /\ issues'[r] = issues[r]
  BY <1>2, <1>4 DEF Tally
<1>5. p \in job.row .. Len(file)
  BY <1>2
<1> DEFINE shown == [r \in Rows |-> IF applied[r] > 0 THEN "ok"
                                    ELSE IF issues[r] > 0 THEN "bad" ELSE "open"]
<1>6. \A r \in Rows : IF r \in job.row + 1 .. p THEN shown'[r] \in {"ok", "bad"}
                                               ELSE shown'[r] = shown[r]
  BY <1>1, <1>3, <1>4
<1>7. DOMAIN shown' = DOMAIN shown
  BY <1>1
<1>8. QED
  BY <1>1, <1>2, <1>5, <1>6, <1>7 DEF Ledger!DecideUpTo

\* The final status (run) is PARTIAL when a row of the file has failed.
LEMMA LedgerCloses ==
    ASSUME TypeOK', ExactlyOnce', job'.row = Len(file'),
           job'.failed > 0 <=> \E r \in Rows' : issues'[r] > 0,
           job'.status = IF job'.failed > 0 THEN "PARTIAL" ELSE "COMPLETED",
           UNCHANGED fileVars, job.status \notin Processed,
           NEW p, p = Len(file), Ledger!DecideUpTo(p)
    PROVE  Ledger!Close
<1>1. Rows' = Rows /\ file' = file /\ Rows = 1 .. Len(file)
  BY DEF fileVars, Rows
<1>2. ASSUME NEW r \in Rows
      PROVE  issues'[r] > 0 <=> ~(applied'[r] > 0) /\ issues'[r] > 0
  <2>1. applied'[r] \in Nat /\ issues'[r] \in Nat /\ applied'[r] + issues'[r] \in {0, 1}
    BY <1>1 DEF TypeOK, ExactlyOnce
  <2>2. QED
    BY <2>1
<1> DEFINE shown == [r \in Rows |-> IF applied[r] > 0 THEN "ok"
                                    ELSE IF issues[r] > 0 THEN "bad" ELSE "open"]
           state == CASE job.status = "COMPLETED" -> "complete"
                      [] job.status = "PARTIAL"   -> "partial"
                      [] OTHER                    -> "open"
<1>3. (\E r \in 1 .. Len(file) : shown'[r] = "bad") <=> \E r \in Rows : issues'[r] > 0
  BY <1>1, <1>2
<1>4. state = "open"
  BY DEF Processed
<1>5. state' = IF \E r \in 1 .. Len(file) : shown'[r] = "bad" THEN "partial" ELSE "complete"
  BY <1>1, <1>3
<1>6. QED
  BY <1>4, <1>5 DEF Ledger!Close, Ledger!DecideUpTo

\* A delivery that comes back to a PARTIAL job (run) opens the ledger again.
LEMMA LedgerReopens ==
    ASSUME UNCHANGED fileVars, UNCHANGED <<applied, issues>>, job'.row = job.row,
           job.status = "PARTIAL", job'.status \notin Processed
    PROVE  Ledger!Reopen
<1>1. Rows' = Rows /\ file' = file
  BY DEF fileVars, Rows
<1>2. QED
  BY <1>1 DEF Ledger!Reopen, Processed

\* A commit in the middle of the file (_checkpoint) advances the ledger.
LEMMA LedgerAdvances ==
    ASSUME NEW p \in 0 .. Len(file), Ledger!DecideUpTo(p),
           job.status \notin Processed, job'.status \notin Processed
    PROVE  Ledger!Advance
<1> DEFINE state == CASE job.status = "COMPLETED" -> "complete"
                      [] job.status = "PARTIAL"   -> "partial"
                      [] OTHER                    -> "open"
<1>1. state = "open" /\ state' = "open"
  BY DEF Processed
<1>2. QED
  BY <1>1 DEF Ledger!Advance

\* Every step of an import delivered once is a step of the ledger, or none.
LEMMA StepLedger ==
    ASSUME overlaps' = 0, TypeOK, TypeOK', Sound, Once, Once', Faithful, Faithful', [Next]_vars
    PROVE  [Ledger!Next]_(Ledger!vars)
<1> USE DEF uploadVars, storeVars, workerVars, boundVars
<1>0. /\ UNCHANGED fileVars /\ job \in JobRow /\ Len(file) \in Nat
      /\ pc \in [Workers -> Steps] /\ mem \in [Workers -> JobRow]
      /\ tx \in [Workers -> TxRecord]
  BY FileConstant DEF TypeOK, TxRecord
<1>1. CASE UNCHANGED <<job, applied, issues>>
  BY <1>0, <1>1, LedgerStutters
<1>2. CASE CommitJob \/ CommitJobFails
  <2>1. /\ upload = "stored" /\ UNCHANGED <<applied, issues>>
        /\ job' = job \/ job' = WithStatus(NoJob, "PENDING")
    BY <1>2 DEF CommitJob, CommitJobFails
  <2>2. job = NoJob
    BY <2>1 DEF Once, OneToken
  <2>3. /\ NoJob.row = 0 /\ NoJob.status = "ABSENT"
        /\ WithStatus(NoJob, "PENDING").row = 0 /\ WithStatus(NoJob, "PENDING").status = "PENDING"
    BY DEF NoJob, WithStatus
  <2>4. QED
    BY <1>0, <2>1, <2>2, <2>3, LedgerStutters DEF Processed
<1>3. ASSUME NEW w \in Workers, StartRun(w) PROVE [Ledger!Next]_(Ledger!vars)
  <2> DEFINE m == WithStatus(mem[w], "RUNNING")
  <2>1. m \in JobRow /\ m.status = "RUNNING" /\ m.row = mem[w].row
    BY <1>0, WithStatusType DEF Statuses
  <2>2. pc[w] = "fetched" /\ job' = Flushed(w, m) /\ UNCHANGED <<applied, issues>>
    BY <1>3 DEF StartRun
  <2>3. base[w] = job /\ mem[w] = job /\ job.status # "COMPLETED"
    BY <2>2 DEF Once, InStep, Faithful, Opened
  <2>4. job' = m
    BY <1>0, <2>1, <2>2, <2>3, FlushedAlone
  <2> HIDE DEF m
  <2>5. CASE job.status = "PARTIAL"
    BY <1>0, <2>1, <2>2, <2>3, <2>4, <2>5, LedgerReopens DEF Ledger!Next, Processed
  <2>6. CASE job.status # "PARTIAL"
    BY <1>0, <2>1, <2>2, <2>3, <2>4, <2>6, LedgerStutters DEF Processed
  <2>7. QED
    BY <2>5, <2>6
<1>4. ASSUME NEW w \in Workers, NEW ok \in BOOLEAN, ProcessRow(w, ok)
      PROVE  [Ledger!Next]_(Ledger!vars)
  <2> DEFINE r == mem[w].row + 1
             m == Counted(mem[w], ok, ~KeyPresent(w, file[r]))
             t == Traced(tx[w], ok, r)
  <2>1. /\ pc[w] = "rows" /\ r <= Len(file)
        /\ \/ UNCHANGED <<job, applied, issues>>
           \/ /\ job' = Flushed(w, m)
              /\ applied' = Tally(applied, t.ok)
              /\ issues' = Tally(issues, t.bad)
    BY <1>4 DEF ProcessRow
  <2>2. r \in Rows /\ mem[w].row \in Nat /\ job.row \in Nat /\ \A q \in Rows : q \in Nat
    BY <1>0, <2>1 DEF JobRow, Rows
  <2>3. /\ base[w] = job /\ job.row <= mem[w].row
        /\ \A q \in Rows : Pending(w, q) <=> job.row < q /\ q <= mem[w].row
        /\ mem[w].status = "RUNNING" /\ job.status = "RUNNING"
    BY <2>1 DEF Once, InStep, Sound, Backed, Faithful, Opened
  <2>4. m \in JobRow /\ m.status = "RUNNING" /\ m.row = r
    <3>1. mem[w] \in JobRow /\ mem[w].row + 1 <= Len(file) /\ KeyPresent(w, file[r]) \in BOOLEAN
      BY <1>0, <2>1 DEF KeyPresent
    <3>2. QED
      BY <1>0, <2>3, <3>1, CountedType DEF Counted
  <2>5. t \in TxRecord
    BY <1>0, <2>2, TracedType DEF TypeOK
  <2>6. \A q \in Rows : (q \in t.ok \/ q \in t.bad) <=> (Pending(w, q) \/ q = r)
    BY <1>0 DEF Traced, Pending, TxRecord
  <2>7. \A q \in Rows : q \in t.ok \/ q \in t.bad <=> job.row < q /\ q <= r
    BY <2>2, <2>3, <2>6
  <2>8. r \in 0 .. Len(file) /\ job.row <= r
    BY <1>0, <2>1, <2>2, <2>3
  <2> HIDE DEF r, m, t
  <2>9. CASE UNCHANGED <<job, applied, issues>>
    BY <1>1, <2>9
  <2>10. CASE /\ job' = Flushed(w, m)
              /\ applied' = Tally(applied, t.ok)
              /\ issues' = Tally(issues, t.bad)
    <3>1. job' = m
      BY <1>0, <2>3, <2>4, <2>10, FlushedAlone
    <3>2. PICK p \in 0 .. Len(file) : p = r
      BY <2>8
    <3>3. Ledger!DecideUpTo(p)
      BY <1>0, <2>1, <2>4, <2>5, <2>7, <2>8, <2>10, <3>1, <3>2, LedgerDecides
    <3>4. Ledger!Advance
      BY <2>3, <2>4, <3>1, <3>3, LedgerAdvances DEF Processed
    <3>5. QED
      BY <3>4 DEF Ledger!Next
  <2>11. QED
    BY <2>1, <2>9, <2>10
<1>5. ASSUME NEW w \in Workers, FinishRun(w) PROVE [Ledger!Next]_(Ledger!vars)
  <2> DEFINE m == WithStatus(mem[w], FinalStatus(mem[w]))
  <2>1. /\ pc[w] = "rows" /\ mem[w].row >= Len(file) /\ job' = Flushed(w, m)
        /\ applied' = Tally(applied, tx[w].ok) /\ issues' = Tally(issues, tx[w].bad)
    BY <1>5 DEF FinishRun
  <2>2. /\ m \in JobRow /\ m.row = mem[w].row /\ m.failed = mem[w].failed
        /\ m.status = FinalStatus(mem[w])
    BY <1>0, WithStatusType DEF Statuses, FinalStatus
  <2>3. /\ base[w] = job /\ job.row <= mem[w].row
        /\ \A q \in Rows : Pending(w, q) <=> job.row < q /\ q <= mem[w].row
        /\ job.status = "RUNNING"
    BY <2>1 DEF Once, InStep, Faithful, Opened
  <2>4. job' = m
    BY <1>0, <2>1, <2>2, <2>3, FlushedAlone
  <2>5. mem[w].row = Len(file)
    BY <1>0, <2>1 DEF JobRow
  <2>6. job'.status = IF job'.failed > 0 THEN "PARTIAL" ELSE "COMPLETED"
    BY <2>2, <2>4 DEF FinalStatus
  <2> HIDE DEF m
  <2>7. PICK p \in 0 .. Len(file) : p = Len(file)
    BY <1>0
  <2>8. Ledger!DecideUpTo(p)
    <3>1. job.row <= p /\ job'.row = p
      BY <1>0, <2>2, <2>3, <2>4, <2>5, <2>7
    <3>2. \A q \in Rows : q \in tx[w].ok \/ q \in tx[w].bad <=> job.row < q /\ q <= p
      BY <2>3, <2>5, <2>7 DEF Pending
    <3>3. tx[w] \in TxRecord
      BY <1>0
    <3>4. QED
      BY <1>0, <2>1, <3>1, <3>2, <3>3, LedgerDecides
  <2>9. job'.failed > 0 <=> \E q \in Rows' : issues'[q] > 0
    <3>1. Tells(job, NoTx, catalog, issues)'
      BY DEF Faithful
    <3>2. QED
      BY <3>1 DEF Tells, NoTx
  <2>10. job'.row = Len(file') /\ ExactlyOnce'
    BY <1>0, <2>2, <2>4, <2>5 DEF fileVars, Once
  <2>11. Ledger!Close
    BY <1>0, <2>3, <2>6, <2>7, <2>8, <2>9, <2>10, LedgerCloses DEF Processed
  <2>12. QED
    BY <2>11 DEF Ledger!Next
<1>6. ASSUME NEW w \in Workers, MarkFailed(w) PROVE [Ledger!Next]_(Ledger!vars)
  <2>1. pc[w] = "failing" /\ job' = WithStatus(job, "FAILED") /\ UNCHANGED <<applied, issues>>
    BY <1>6 DEF MarkFailed, MarkedFailed
  <2>2. job.status = "RUNNING"
    BY <2>1 DEF Faithful, Opened
  <2>3. job'.row = job.row /\ job'.status = "FAILED"
    BY <1>0, <2>1, WithStatusType DEF Statuses
  <2>4. QED
    BY <1>0, <2>1, <2>2, <2>3, LedgerStutters DEF Processed
<1>7. ASSUME NEW w \in Workers,
             \/ Receive(w) \/ Materialize(w) \/ MaterializeFails(w) \/ Abort(w)
             \/ MarkFailedFails(w) \/ SendTrigger(w) \/ Ack(w) \/ Crash(w) \/ Redeliver(w)
      PROVE  [Ledger!Next]_(Ledger!vars)
  BY <1>1, <1>7 DEF Receive, Materialize, MaterializeFails, Abort, MarkFailedFails, SendTrigger,
     Ack, Crash, Redeliver
<1>8. CASE StoreObject \/ RejectEmpty \/ Dispatch \/ ApiCrash \/ UNCHANGED vars
  BY <1>1, <1>8 DEF StoreObject, RejectEmpty, Dispatch, ApiCrash, vars
<1>9. QED
  BY <1>2, <1>3, <1>4, <1>5, <1>6, <1>7, <1>8 DEF Next, Api, Work, Quiet

\* A file that was just staged (create_job) is an open ledger.
LEMMA InitLedger == Init => Ledger!Init
<1> SUFFICES ASSUME Init PROVE Ledger!Init
  OBVIOUS
<1>1. /\ job.row = 0 /\ job.status = "ABSENT"
      /\ \A r \in Rows : applied[r] = 0 /\ issues[r] = 0
  BY DEF Init, NoJob
<1>2. Len(file) \in Nat /\ Rows = 1 .. Len(file)
  BY InitTyped DEF TypeOK, Rows
<1>3. QED
  BY <1>1, <1>2 DEF Ledger!Init

\* Without overlapping deliveries the import is the ledger: seen through the
\* committed row and the stores, rows are decided in order and for good, and
\* the final status agrees with their verdicts, through every crash, abort and
\* resumption (run, _checkpoint).
THEOREM ImportIsALedger == ASSUME MaxOverlaps = 0 PROVE Spec => LedgerSpec
<1> DEFINE Inv == TypeOK /\ Sound /\ Undisturbed /\ overlaps = 0
<1>1. Init => Inv
  BY InitTyped, InitSound, InitOnce, InitFaithful DEF Undisturbed, Init
<1>2. Inv /\ [Next]_vars => Inv'
  <2> SUFFICES ASSUME Inv, [Next]_vars PROVE overlaps' = 0
    BY StepUndisturbed
  <2> USE DEF boundVars
  <2>1. CASE UNCHANGED vars \/ Api
    BY <2>1 DEF vars, Api, StoreObject, RejectEmpty, CommitJob, CommitJobFails, Dispatch, ApiCrash
  <2>2. ASSUME NEW w \in Workers, Work(w) PROVE overlaps' = 0
    BY <2>2 DEF Work, Receive, StartRun, Materialize, MaterializeFails, ProcessRow, FinishRun,
       Abort, MarkFailed, MarkFailedFails, SendTrigger, Ack
  <2>3. ASSUME NEW w \in Workers, Crash(w) \/ Redeliver(w) PROVE overlaps' = 0
    BY <2>3 DEF Crash, Redeliver
  <2>4. QED
    BY <2>1, <2>2, <2>3 DEF Next, Quiet
<1>3. Inv /\ Inv' /\ [Next]_vars => [Ledger!Next]_(Ledger!vars)
  BY StepLedger DEF Undisturbed
<1> HIDE DEF Inv
<1>4. QED
  BY <1>1, <1>2, <1>3, InitLedger, PTL DEF Spec, LedgerSpec, Ledger!Spec

-----------------------------------------------------------------------------
(* What an import leaves behind when nothing of it runs any more            *)

\* The task was queued, no message of it waits and no worker runs it.
AtRest == upload = "done" /\ queue = 0 /\ \A w \in Workers : pc[w] = "idle"

\* A worker is on its way to a final status.
Alive(w) == pc[w] \in {"fetched", "started", "rows", "failing"}

\* The inductive strengthening of RestingJobIsSettled: a job without a final
\* status has a message, or a worker, that will bring it one.
Pursued ==
    /\ \A w \in Workers : pc[w] \in {"started", "rows"} => base[w].status = "RUNNING"
    /\ upload = "done" =>
          Settled \/ queue > 0 \/ (\E w \in Workers : Alive(w)) \/ Abandoned

\* A job at rest has a final status: it can stay PENDING or RUNNING only after
\* a failure outside the try block of the run or of its own mark, or when an
\* execution went without its message coming back (killed at the time limit, or
\* dead after the broker had given the message to another).
RestingJobIsSettled == AtRest => Settled \/ Abandoned

\* What a flush (_checkpoint) makes of the status: a run that was read as
\* RUNNING stores the status it ends with, and leaves the row's own status
\* alone while it goes on.
LEMMA FlushedStatus ==
    ASSUME NEW w \in Workers, NEW m \in JobRow
    PROVE  /\ m.status # base[w].status => Flushed(w, m).status = m.status
           /\ m.status = base[w].status => Flushed(w, m).status = job.status
  BY DEF Flushed, Column

\* A step of the upload (create_job) meets no message and no busy worker, and
\* a task is only ever queued with one.
LEMMA UploadAtWork ==
    ASSUME TypeOK, Staged, Api
    PROVE  /\ \A w \in Workers : pc[w] = "idle"
           /\ UNCHANGED <<workerVars, triggers, overlaps, aborts, kind, headerOk>>
           /\ upload' = "done" => queue' > 0
           /\ job' = job \/ job'.status = "PENDING"
<1>1. upload # "done" /\ UNCHANGED <<workerVars, triggers, overlaps, aborts, kind, headerOk>>
  BY DEF Api, StoreObject, RejectEmpty, CommitJob, CommitJobFails, Dispatch, ApiCrash,
     fileVars, boundVars
<1>2. \A w \in Workers : pc[w] = "idle"
  BY <1>1 DEF Staged
<1>3. upload' = "done" => queue' > 0
  <2>1. queue \in Nat
    BY DEF TypeOK
  <2>2. CASE Dispatch
    BY <2>1, <2>2 DEF Dispatch
  <2>3. CASE StoreObject \/ RejectEmpty \/ CommitJob \/ CommitJobFails \/ ApiCrash
    BY <2>3 DEF StoreObject, RejectEmpty, CommitJob, CommitJobFails, ApiCrash
  <2>4. QED
    BY <2>2, <2>3 DEF Api
<1>4. job' = job \/ job'.status = "PENDING"
  <2>1. WithStatus(NoJob, "PENDING").status = "PENDING"
    BY DEF WithStatus, NoJob
  <2>2. QED
    BY <2>1 DEF Api, StoreObject, RejectEmpty, CommitJob, CommitJobFails, Dispatch, ApiCrash,
       storeVars
<1>5. QED
  BY <1>1, <1>2, <1>3, <1>4

\* Before the upload (create_job) nothing was queued.
LEMMA InitPursued == Init => Pursued
  BY DEF Init, Pursued

\* A run that was started (run) flushes against the RUNNING it wrote.
LEMMA StepStarted ==
    ASSUME TypeOK, Sound, Pursued, [Next]_vars
    PROVE  \A v \in Workers : pc'[v] \in {"started", "rows"} => base'[v].status = "RUNNING"
<1> USE DEF workerVars
<1>0. /\ pc \in [Workers -> Steps] /\ base \in [Workers -> JobRow] /\ mem \in [Workers -> JobRow]
      /\ Len(file) \in Nat
  BY DEF TypeOK
<1>1. SUFFICES ASSUME NEW v \in Workers, pc'[v] \in {"started", "rows"}
               PROVE  base'[v].status = "RUNNING"
  OBVIOUS
<1>2. CASE UNCHANGED vars \/ Api
  BY <1>1, <1>2 DEF vars, Api, StoreObject, RejectEmpty, CommitJob, CommitJobFails, Dispatch,
     ApiCrash, Pursued
<1>3. ASSUME NEW w \in Workers, StartRun(w) PROVE base'[v].status = "RUNNING"
  <2>1. WithStatus(mem[w], "RUNNING").status = "RUNNING"
    BY <1>0, WithStatusType DEF Statuses
  <2>2. QED
    BY <1>0, <1>1, <1>3, <2>1 DEF StartRun, Pursued
<1>4. ASSUME NEW w \in Workers, NEW ok \in BOOLEAN, ProcessRow(w, ok)
      PROVE  base'[v].status = "RUNNING"
  <2> DEFINE m == Counted(mem[w], ok, ~KeyPresent(w, file[mem[w].row + 1]))
  <2>1. mem[w].status = "RUNNING" /\ m.status = mem[w].status
    BY <1>4 DEF ProcessRow, Sound, Backed, Counted
  <2>2. pc' = pc /\ (base' = base \/ base' = [base EXCEPT ![w] = m])
    BY <1>4 DEF ProcessRow
  <2> HIDE DEF m
  <2>3. QED
    BY <1>0, <1>1, <2>1, <2>2 DEF Pursued
<1>5. ASSUME NEW w \in Workers,
             \/ Receive(w) \/ FinishRun(w) \/ Abort(w) \/ MarkFailed(w) \/ MarkFailedFails(w)
             \/ MaterializeFails(w) \/ SendTrigger(w) \/ Ack(w) \/ Crash(w) \/ Redeliver(w)
      PROVE  base'[v].status = "RUNNING"
  <2>1. pc'[v] = pc[v] /\ base'[v] = base[v]
    BY <1>0, <1>1, <1>5 DEF Receive, Arrived, FinishRun, Abort, MarkFailed, MarkFailedFails,
       MaterializeFails, SendTrigger, Ack, Crash, Redeliver
  <2>2. QED
    BY <1>1, <2>1 DEF Pursued
<1>6. ASSUME NEW w \in Workers, Materialize(w) PROVE base'[v].status = "RUNNING"
  BY <1>0, <1>1, <1>6 DEF Materialize, Pursued
<1>7. QED
  BY <1>2, <1>3, <1>4, <1>5, <1>6 DEF Next, Work, Quiet

\* Every step leaves a job without a final status with something that pursues it.
LEMMA StepPursued == TypeOK /\ Sound /\ Staged /\ Pursued /\ [Next]_vars => Pursued'
<1> SUFFICES ASSUME TypeOK, Sound, Staged, Pursued, [Next]_vars
             PROVE  Pursued'
  OBVIOUS
<1> USE DEF uploadVars, storeVars, boundVars
<1>0. /\ pc \in [Workers -> Steps] /\ owns \in [Workers -> BOOLEAN] /\ queue \in Nat
      /\ job \in JobRow /\ mem \in [Workers -> JobRow] /\ base \in [Workers -> JobRow]
      /\ Len(file) \in Nat
      /\ overlaps \in Nat /\ crashes \in Nat /\ faults \in Nat
  BY DEF TypeOK
<1> DEFINE Left == Settled \/ queue > 0 \/ (\E u \in Workers : Alive(u)) \/ Abandoned
<1>1. SUFFICES ASSUME upload' = "done" PROVE Left'
  BY <1>1, StepStarted DEF Pursued
<1>2. CASE UNCHANGED vars
  BY <1>1, <1>2 DEF vars, Pursued, Settled, Alive, Abandoned, workerVars
<1>3. CASE Api
  BY <1>1, <1>3, UploadAtWork
<1>4. ASSUME NEW w \in Workers, Receive(w) PROVE Left'
  <2>1. job.status # "ABSENT" /\ job' = job /\ pc' = [pc EXCEPT ![w] =
            IF job.status \in {"ABSENT", "COMPLETED"} THEN "returned" ELSE "fetched"]
    BY <1>4 DEF Receive, Arrived, Staged
  <2>2. CASE job.status = "COMPLETED"
    BY <2>1, <2>2 DEF Settled
  <2>3. CASE job.status # "COMPLETED"
    <3>1. pc'[w] = "fetched"
      BY <1>0, <2>1, <2>3
    <3>2. QED
      BY <3>1 DEF Alive
  <2>4. QED
    BY <2>2, <2>3
<1>5. ASSUME NEW w \in Workers, StartRun(w) \/ Materialize(w) \/ Abort(w) PROVE Left'
  <2>1. pc'[w] \in {"started", "rows", "failing"}
    BY <1>0, <1>5 DEF StartRun, Materialize, Abort
  <2>2. QED
    BY <2>1 DEF Alive
<1>6. ASSUME NEW w \in Workers, NEW ok \in BOOLEAN, ProcessRow(w, ok) PROVE Left'
  <2>1. pc'[w] = "rows"
    BY <1>6 DEF ProcessRow
  <2>2. QED
    BY <2>1 DEF Alive
<1>7. ASSUME NEW w \in Workers, MaterializeFails(w) \/ MarkFailedFails(w) PROVE Left'
  BY <1>7 DEF MaterializeFails, MarkFailedFails, Abandoned
<1>8. ASSUME NEW w \in Workers, FinishRun(w) PROVE Left'
  <2> DEFINE m == WithStatus(mem[w], FinalStatus(mem[w]))
  <2>1. m \in JobRow /\ m.status \in {"PARTIAL", "COMPLETED"}
    BY <1>0, WithStatusType DEF FinalStatus, Statuses
  <2>2. base[w].status = "RUNNING"
    BY <1>8 DEF FinishRun, Pursued
  <2>3. job' = Flushed(w, m)
    BY <1>8 DEF FinishRun
  <2> HIDE DEF m
  <2>4. job'.status = m.status
    BY <2>1, <2>2, <2>3, FlushedStatus
  <2>5. QED
    BY <2>1, <2>4 DEF Settled
<1>9. ASSUME NEW w \in Workers, MarkFailed(w) PROVE Left'
  <2>1. job'.status = "FAILED"
    BY <1>0, <1>9, WithStatusType DEF MarkFailed, MarkedFailed, Statuses
  <2>2. QED
    BY <2>1 DEF Settled
<1>10. ASSUME NEW w \in Workers, SendTrigger(w) \/ Ack(w) PROVE Left'
  <2>1. /\ job' = job /\ queue' = queue /\ lost \subseteq lost' /\ upload' = upload /\ ~Alive(w)
        /\ \A u \in Workers : u # w => pc'[u] = pc[u]
    BY <1>0, <1>10 DEF SendTrigger, Ack, Alive
  <2>2. QED
    BY <1>1, <2>1 DEF Pursued, Settled, Alive, Abandoned
<1>11. ASSUME NEW w \in Workers, Crash(w) PROVE Left'
  <2>1. CASE owns[w] /\ queue' = queue + 1
    BY <1>0, <2>1
  <2>2. CASE pc[w] # "acking" /\ lost' = lost \cup {"delivery"}
    BY <2>2 DEF Abandoned
  <2>3. CASE pc[w] = "acking" /\ UNCHANGED <<queue, lost>>
    <3>1. UNCHANGED <<job, upload>> /\ \A u \in Workers : u # w => pc'[u] = pc[u]
      BY <1>0, <1>11 DEF Crash
    <3>2. QED
      BY <1>1, <2>3, <3>1 DEF Pursued, Settled, Alive, Abandoned
  <2>4. QED
    BY <1>11, <2>1, <2>2, <2>3 DEF Crash
<1>12. ASSUME NEW w \in Workers, Redeliver(w) PROVE Left'
  BY <1>0, <1>12 DEF Redeliver
<1>13. QED
  BY <1>2, <1>3, <1>4, <1>5, <1>6, <1>7, <1>8, <1>9, <1>10, <1>11, <1>12 DEF Next, Work, Quiet

\* When nothing of a queued import runs any more, its job row says how it ended
\* (run; the acks_late task): no order of deaths, aborts and retries leaves a
\* job PENDING or RUNNING, save a failure outside run's try block or of its
\* mark, an execution killed at the time limit, or one that dies after the
\* broker gave its message to another.
THEOREM RestingJobsAreSettled == Spec => []RestingJobIsSettled
<1>1. Init => TypeOK /\ Sound /\ Staged /\ Pursued
  BY InitTyped, InitSound, InitStaged, InitPursued
<1>2. TypeOK /\ Sound /\ Staged /\ Pursued /\ [Next]_vars => (TypeOK /\ Sound /\ Staged /\ Pursued)'
  BY StepTyped, StepSound, StepStaged, StepPursued
<1>3. TypeOK /\ Pursued => RestingJobIsSettled
  BY DEF Pursued, RestingJobIsSettled, AtRest, Alive, TypeOK
<1>4. QED
  BY <1>1, <1>2, <1>3, PTL DEF Spec

\* The inductive strengthening of RestingReviewsAreRequested: a job that
\* completed stays with its request, its message, or the worker that will send
\* the request.
Requested ==
    /\ \A w \in Workers : pc[w] # "idle" => mem[w].status # "ABSENT"
    /\ job.status = "COMPLETED" =>
          triggers > 0 \/ queue > 0 \/ Unsent \/ \E w \in Workers : pc[w] = "returned"

\* A review job at rest that COMPLETED has requested the extraction of its
\* reviews, unless the request could not be sent, or an execution went without
\* its message coming back.
RestingReviewsAreRequested ==
    (AtRest /\ kind = "REVIEWS" /\ job.status = "COMPLETED") => triggers > 0 \/ Unsent

\* Before the upload (create_job) nothing was queued and nothing completed.
LEMMA InitRequested == Init => Requested
  BY DEF Init, Requested, NoJob

\* A review import keeps, at every step, the message or the worker that will
\* request the extraction (import_csv: send_task after run).
LEMMA StepRequested ==
    TypeOK /\ Sound /\ Staged /\ Pursued /\ Requested /\ kind = "REVIEWS" /\ [Next]_vars
        => Requested'
<1> SUFFICES ASSUME TypeOK, Sound, Staged, Pursued, Requested, kind = "REVIEWS", [Next]_vars
             PROVE  Requested'
  OBVIOUS
<1> USE DEF uploadVars, storeVars, boundVars, fileVars
<1>0. /\ pc \in [Workers -> Steps] /\ owns \in [Workers -> BOOLEAN] /\ queue \in Nat
      /\ job \in JobRow /\ mem \in [Workers -> JobRow] /\ base \in [Workers -> JobRow]
      /\ Len(file) \in Nat /\ triggers \in Nat
  BY DEF TypeOK
<1>1. CASE UNCHANGED vars
  BY <1>1 DEF vars, Requested, Unsent, workerVars
<1>2. CASE Api
  <2>1. \A w \in Workers : pc'[w] = "idle" /\ pc[w] = "idle"
    BY <1>2, UploadAtWork DEF workerVars
  <2>2. queue = 0 /\ UNCHANGED <<triggers, lost>>
    BY <1>0, <1>2, UploadAtWork DEF Staged, Api, StoreObject, RejectEmpty, CommitJob,
       CommitJobFails, Dispatch, ApiCrash
  <2>3. job'.status = "COMPLETED" => job' = job
    BY <1>2, UploadAtWork
  <2>4. QED
    BY <2>1, <2>2, <2>3 DEF Requested, Unsent
<1>3. ASSUME NEW w \in Workers, Receive(w) PROVE Requested'
  <2>1. /\ job.status # "ABSENT" /\ mem'[w] = job /\ job' = job
        /\ job.status = "COMPLETED" => pc'[w] = "returned"
        /\ \A u \in Workers : u # w => pc'[u] = pc[u] /\ mem'[u] = mem[u]
    BY <1>0, <1>3 DEF Receive, Arrived, Staged, Loaded
  <2>2. QED
    BY <2>1 DEF Requested
<1>4. ASSUME NEW w \in Workers, StartRun(w) PROVE Requested'
  <2> DEFINE m == WithStatus(mem[w], "RUNNING")
  <2>1. m \in JobRow /\ m.status = "RUNNING"
    BY <1>0, WithStatusType DEF Statuses
  <2>2. job' = Flushed(w, m) /\ mem' = [mem EXCEPT ![w] = m] /\ pc[w] = "fetched"
    BY <1>4 DEF StartRun
  <2> HIDE DEF m
  <2>3. job'.status = "COMPLETED" => job.status = "COMPLETED"
    BY <2>1, <2>2, FlushedStatus
  <2>4. /\ mem'[w].status = "RUNNING"
        /\ \A u \in Workers : u # w => pc'[u] = pc[u] /\ mem'[u] = mem[u]
        /\ UNCHANGED <<queue, triggers, lost>>
    BY <1>0, <1>4, <2>1, <2>2 DEF StartRun
  <2>5. QED
    BY <2>2, <2>3, <2>4 DEF Requested, Unsent
<1>5. ASSUME NEW w \in Workers,
             Materialize(w) \/ MaterializeFails(w) \/ MarkFailedFails(w) \/ Abort(w) \/ Ack(w)
      PROVE  Requested'
  <2>1. /\ pc[w] \notin {"idle", "returned"}
        /\ \A u \in Workers : u # w => pc'[u] = pc[u]
        /\ UNCHANGED <<job, mem, queue, triggers>> /\ lost \subseteq lost'
    BY <1>0, <1>5 DEF Materialize, MaterializeFails, MarkFailedFails, Abort, Ack
  <2>2. QED
    BY <2>1 DEF Requested, Unsent
<1>6. ASSUME NEW w \in Workers, NEW ok \in BOOLEAN, ProcessRow(w, ok) PROVE Requested'
  <2> DEFINE m == Counted(mem[w], ok, ~KeyPresent(w, file[mem[w].row + 1]))
  <2>1. /\ mem[w].status = "RUNNING" /\ base[w].status = "RUNNING" /\ m.status = "RUNNING"
        /\ mem[w] \in JobRow /\ mem[w].row + 1 <= Len(file)
    BY <1>0, <1>6 DEF ProcessRow, Sound, Backed, Pursued, Counted
  <2>2. m \in JobRow
    BY <1>0, <2>1, CountedType DEF KeyPresent
  <2>3. mem' = [mem EXCEPT ![w] = m] /\ (job' = job \/ job' = Flushed(w, m))
    BY <1>6 DEF ProcessRow
  <2>4. UNCHANGED <<pc, queue, triggers, lost>>
    BY <1>6 DEF ProcessRow
  <2> HIDE DEF m
  <2>5. job'.status = job.status
    BY <2>1, <2>2, <2>3, FlushedStatus
  <2>6. \A u \in Workers : mem'[u].status = mem[u].status
    BY <1>0, <2>1, <2>3
  <2>7. QED
    BY <2>4, <2>5, <2>6 DEF Requested, Unsent
<1>7. ASSUME NEW w \in Workers, FinishRun(w) PROVE Requested'
  <2> DEFINE m == WithStatus(mem[w], FinalStatus(mem[w]))
  <2>1. m \in JobRow /\ m.status \in {"PARTIAL", "COMPLETED"}
    BY <1>0, WithStatusType DEF FinalStatus, Statuses
  <2>2. mem' = [mem EXCEPT ![w] = m]
    BY <1>7 DEF FinishRun
  <2> HIDE DEF m
  <2>3. /\ mem'[w].status # "ABSENT" /\ pc'[w] = "returned"
        /\ \A u \in Workers : u # w => pc'[u] = pc[u] /\ mem'[u] = mem[u]
    BY <1>0, <1>7, <2>1, <2>2 DEF FinishRun
  <2>4. QED
    BY <2>3 DEF Requested
<1>8. ASSUME NEW w \in Workers, MarkFailed(w) PROVE Requested'
  <2>1. job'.status = "FAILED"
    BY <1>0, <1>8, WithStatusType DEF MarkFailed, MarkedFailed, Statuses
  <2>2. /\ pc[w] # "idle" /\ mem' = mem
        /\ \A u \in Workers : u # w => pc'[u] = pc[u]
    BY <1>0, <1>8 DEF MarkFailed
  <2>3. QED
    BY <2>1, <2>2 DEF Requested
<1>9. ASSUME NEW w \in Workers, SendTrigger(w) PROVE Requested'
  <2>1. /\ pc[w] = "returned" /\ mem' = mem
        /\ \A u \in Workers : u # w => pc'[u] = pc[u]
    BY <1>0, <1>9 DEF SendTrigger
  <2>2. Triggering(w)
    BY <2>1 DEF Triggering, Requested
  <2>3. triggers' > 0 \/ Unsent'
    BY <1>0, <1>9, <2>2 DEF SendTrigger, Unsent
  <2>4. QED
    BY <2>1, <2>3 DEF Requested
<1>10. ASSUME NEW w \in Workers, Crash(w) PROVE Requested'
  <2>1. /\ UNCHANGED <<job, mem, triggers>> /\ pc'[w] = "idle"
        /\ \A u \in Workers : u # w => pc'[u] = pc[u]
    BY <1>0, <1>10 DEF Crash
  <2>2. CASE queue' = queue + 1
    BY <1>0, <2>1, <2>2 DEF Requested
  <2>3. CASE lost' = lost \cup {"delivery"}
    BY <2>1, <2>3 DEF Requested, Unsent
  <2>4. CASE pc[w] = "acking" /\ UNCHANGED <<queue, lost>>
    BY <2>1, <2>4 DEF Requested, Unsent
  <2>5. QED
    BY <1>10, <2>2, <2>3, <2>4 DEF Crash
<1>11. ASSUME NEW w \in Workers, Redeliver(w) PROVE Requested'
  <2>1. queue' > 0 /\ UNCHANGED <<pc, mem>>
    BY <1>0, <1>11 DEF Redeliver
  <2>2. QED
    BY <2>1 DEF Requested
<1>12. QED
  BY <1>1, <1>2, <1>3, <1>4, <1>5, <1>6, <1>7, <1>8, <1>9, <1>10, <1>11 DEF Next, Work, Quiet

\* The extraction of imported reviews (import_csv sends process_reviews after
\* run) is requested by the time nothing of a COMPLETED import runs any more,
\* whatever deaths fall between the last commit and the send. It is lost only
\* when send_task itself raises, or when an execution goes without its message
\* coming back: killed at the time limit, or dead after the broker gave the
\* message to another.
THEOREM RestingReviewsAreSent == Spec => []RestingReviewsAreRequested
<1> DEFINE Asked == kind = "REVIEWS" => Requested
<1>1. Init => TypeOK /\ Sound /\ Staged /\ Pursued /\ Asked
  BY InitTyped, InitSound, InitStaged, InitPursued, InitRequested
<1>2. TypeOK /\ Sound /\ Staged /\ Pursued /\ Asked /\ [Next]_vars => Asked'
  BY StepRequested, FileConstant DEF fileVars
<1>3. TypeOK /\ Sound /\ Staged /\ Pursued /\ Asked /\ [Next]_vars
         => (TypeOK /\ Sound /\ Staged /\ Pursued /\ Asked)'
  BY <1>2, StepTyped, StepSound, StepStaged, StepPursued
<1>4. Asked /\ TypeOK => RestingReviewsAreRequested
  BY DEF Requested, RestingReviewsAreRequested, AtRest, TypeOK
<1> HIDE DEF Asked
<1>5. QED
  BY <1>1, <1>3, <1>4, PTL DEF Spec
=============================================================================
