----------------------------- MODULE ScrapeProofs -----------------------------
(***************************************************************************)
(* Proofs about Scrape for any number of workers, pages, retries, repeated *)
(* messages and failures: types; that a completed run is whole however its *)
(* executions overlap; and, while they do not, that the open failure       *)
(* is of the next page, the counters are exact and no page is stored twice *)
(* but after a failure; and that a run of which nothing is under way has   *)
(* ended.                                                                  *)
(***************************************************************************)
EXTENDS Scrape, SumTheorems, FiniteSetTheorems, SequenceTheorems, TLAPS

-----------------------------------------------------------------------------
(* Type correctness                                                        *)

\* A commit of run_scrape writes only known columns.
LEMMA CommitTyped ==
    ASSUME NEW w \in Workers, row \in Row, mem[w] \in Row, NEW new \in Row, Commit(w, new)
    PROVE  row' \in Row
<1>1. DOMAIN row = {"status", "processed", "success", "failed"}
  BY DEF Row
<1>2. row' = [status    |-> IF new.status = mem[w].status THEN row.status ELSE new.status,
              processed |-> IF new.processed = mem[w].processed THEN row.processed
                            ELSE new.processed,
              success   |-> IF new.success = mem[w].success THEN row.success ELSE new.success,
              failed    |-> IF new.failed = mem[w].failed THEN row.failed ELSE new.failed]
  BY <1>1 DEF Commit
<1>3. QED
  BY <1>2 DEF Row

\* A page that is stored or has failed is counted in the row.
LEMMA CountedTyped ==
    ASSUME NEW r \in Row
    PROVE  CountStored(r) \in Row /\ CountFailed(r) \in Row
<1>1. /\ r.processed + 1 \in Nat /\ r.success + 1 \in Nat /\ r.failed + 1 \in Nat
      /\ "PARTIAL" \in Statuses
  BY DEF Row, Statuses
<1>2. QED
  BY <1>1 DEF CountStored, CountFailed, Row

\* Messages are counted by their number of retries; one more, or one less.
LEMMA QueueTyped ==
    ASSUME queue \in [0 .. MaxRetries -> Nat], NEW k \in 0 .. MaxRetries
    PROVE  /\ [queue EXCEPT ![k] = @ + 1] \in [0 .. MaxRetries -> Nat]
           /\ queue[k] > 0 => [queue EXCEPT ![k] = @ - 1] \in [0 .. MaxRetries -> Nat]
  OBVIOUS

\* Resolving failures of pages (_record_failure's counterpart in run) leaves as
\* many; recording one adds it at the end.
LEMMA FailuresTyped ==
    ASSUME failures \in Seq(FailureRow), NEW n \in Nat, NEW p \in Pages
    PROVE  /\ [i \in DOMAIN failures |-> [failures[i] EXCEPT !.open = @ /\ i # n]]
                 \in Seq(FailureRow)
           /\ Len([i \in DOMAIN failures |-> [failures[i] EXCEPT !.open = @ /\ i # n]])
                 = Len(failures)
           /\ Append(failures, [page |-> p, open |-> TRUE]) \in Seq(FailureRow)
           /\ Len(Append(failures, [page |-> p, open |-> TRUE])) = Len(failures) + 1
<1> DEFINE resolved == [i \in 1 .. Len(failures) |-> [failures[i] EXCEPT !.open = @ /\ i # n]]
<1>1. \A i \in 1 .. Len(failures) : [failures[i] EXCEPT !.open = @ /\ i # n] \in FailureRow
  <2>1. SUFFICES ASSUME NEW i \in 1 .. Len(failures)
                 PROVE  [failures[i] EXCEPT !.open = @ /\ i # n] \in FailureRow
    OBVIOUS
  <2>2. failures[i] \in FailureRow
    BY ElementOfSeq, Zenon
  <2>3. (failures[i].open /\ i # n) \in BOOLEAN
    OBVIOUS
  <2>4. QED
    BY <2>2, <2>3 DEF FailureRow
<1>2. resolved \in Seq(FailureRow) /\ Len(resolved) = Len(failures)
  BY <1>1
<1>3. [page |-> p, open |-> TRUE] \in FailureRow
  BY DEF FailureRow
<1>4. Append(failures, [page |-> p, open |-> TRUE]) \in Seq(FailureRow)
      /\ Len(Append(failures, [page |-> p, open |-> TRUE])) = Len(failures) + 1
  BY <1>3
<1>5. [i \in DOMAIN failures |-> [failures[i] EXCEPT !.open = @ /\ i # n]] = resolved
  <2>1. DOMAIN failures = 1 .. Len(failures)
    OBVIOUS
  <2>2. QED
    BY <2>1, Zenon
<1>6. QED
  BY <1>2, <1>4, <1>5

\* A worker between a fetch and its commit is at a page of the run: it makes
\* what the worker stores, records and counts well typed.
AtPageSteps == {"fetching", "saving", "recording"}
AtRealPage  == \A w \in Workers : pc[w] \in AtPageSteps => page[w] \in Pages
Typed == RunOK /\ WorkersOK /\ AtRealPage

\* A worker that leaves its session (_run) stays well typed.
LEMMA LeaveTyped ==
    ASSUME Typed, NEW w \in Workers, NEW step \in Steps \ AtPageSteps, Leave(w, step),
           retries' \in [Workers -> 0 .. MaxRetries],
           Len(failures') \in Nat, Len(failures) <= Len(failures')
    PROVE  WorkersOK' /\ AtRealPage'
<1>1. NoRun \in Row /\ 0 \in 0 .. MaxPages
  BY ScrapeAssumption DEF NoRun, Row, Statuses
<1>2. pc' \in [Workers -> Steps] /\ mem' \in [Workers -> Row]
      /\ page' \in [Workers -> 0 .. MaxPages] /\ found' \in [Workers -> Nat]
  BY <1>1 DEF Typed, WorkersOK, Leave, Goto
<1>3. \A v \in Workers : found'[v] <= Len(failures')
  <2>1. Len(failures) \in Nat
    BY DEF Typed, RunOK
  <2>2. \A v \in Workers : found'[v] = found[v] \/ found'[v] = 0
    BY DEF Typed, WorkersOK, Leave
  <2>3. \A v \in Workers : found[v] \in Nat /\ found[v] <= Len(failures)
    BY DEF Typed, WorkersOK
  <2>4. QED
    BY <2>1, <2>2, <2>3
<1>4. AtRealPage'
  BY DEF Typed, WorkersOK, AtRealPage, Leave, Goto
<1>5. QED
  BY <1>2, <1>3, <1>4 DEF WorkersOK

\* The initial state is well typed and no worker is at a page.
LEMMA InitTyped == Init => Typed
<1> SUFFICES ASSUME Init PROVE Typed
  OBVIOUS
<1>1. NoRun \in Row
  BY DEF NoRun, Row, Statuses
<1>2. failures \in Seq(FailureRow) /\ Len(failures) = 0
  BY DEF Init
<1>3. RunOK
  BY <1>1, <1>2, ScrapeAssumption DEF Init, RunOK
<1>4. WorkersOK /\ AtRealPage
  BY <1>1, <1>2, ScrapeAssumption DEF Init, WorkersOK, Steps, AtRealPage, AtPageSteps
<1>5. QED
  BY <1>3, <1>4 DEF Typed

\* The operator's requests, the dispatch of their messages and the redelivery of
\* messages leave the executions alone.
LEMMA RequestsTyped ==
    ASSUME Typed, Start \/ RetryFailures \/ Dispatch \/ Redeliver
    PROVE  Typed'
<1>1. UNCHANGED <<pc, retries, mem, page, found, failures>>
  BY DEF Start, RetryFailures, Dispatch, Redeliver, taskVars, runVars
<1>2. WorkersOK' /\ AtRealPage'
  BY <1>1 DEF Typed, WorkersOK, AtRealPage
<1>3. RunOK'
  <2>1. CASE Start
    <3>1. row' \in Row
      BY <2>1 DEF Start, Typed, RunOK, Row, Statuses
    <3>2. QED
      BY <2>1, <3>1 DEF Start, Typed, RunOK, bounds
  <2>2. CASE RetryFailures
    BY <2>2, ScrapeAssumption DEF RetryFailures, Repeat, Typed, RunOK, runVars
  <2>3. CASE Dispatch
    BY <2>3, ScrapeAssumption DEF Dispatch, Failure, Typed, RunOK, runVars, bounds
  <2>4. CASE Redeliver
    BY <2>4, ScrapeAssumption DEF Redeliver, Repeat, Typed, RunOK, runVars
  <2>5. QED
    BY <2>1, <2>2, <2>3, <2>4
<1>4. QED
  BY <1>2, <1>3 DEF Typed

\* A worker takes a message, and begins the execution.
LEMMA BeginTyped ==
    ASSUME Typed, NEW w \in Workers, Load(w) \/ Begin(w)
    PROVE  Typed'
<1>0. RunOK /\ WorkersOK /\ AtRealPage /\ Len(failures) \in Nat
  BY DEF Typed, RunOK
<1>1. CASE Load(w)
  <2>1. UNCHANGED <<row, checkpoint, failures, objects, requests, repeats, broken>>
    BY <1>1 DEF Load, runVars, bounds
  <2>2. retries' \in [Workers -> 0 .. MaxRetries]
    BY <1>0, <1>1 DEF Load, WorkersOK
  <2>3. RunOK'
    <3>1. queue \in [0 .. MaxRetries -> Nat]
      BY <1>0 DEF RunOK
    <3>2. queue' \in [0 .. MaxRetries -> Nat]
      BY <1>1, <3>1, QueueTyped DEF Load
    <3>3. QED
      BY <1>0, <2>1, <3>2 DEF RunOK
  <2>4. CASE Goto(w, "starting") /\ mem' = [mem EXCEPT ![w] = row] /\ UNCHANGED <<page, found>>
    <3>1. pc' \in [Workers -> Steps] /\ mem' \in [Workers -> Row]
      BY <1>0, <2>4 DEF Goto, RunOK, WorkersOK, Steps
    <3>2. WorkersOK'
      BY <1>0, <2>1, <2>2, <2>4, <3>1 DEF WorkersOK
    <3>3. AtRealPage'
      BY <1>0, <2>4 DEF Goto, WorkersOK, AtRealPage, AtPageSteps
    <3>4. QED
      BY <2>3, <3>2, <3>3 DEF Typed
  <2>5. CASE Leave(w, "raised")
    <3>1. "raised" \in Steps \ AtPageSteps
      BY DEF Steps, AtPageSteps
    <3>2. WorkersOK' /\ AtRealPage'
      BY <1>0, <2>1, <2>2, <2>5, <3>1, LeaveTyped
    <3>3. QED
      BY <2>3, <3>2 DEF Typed
  <2>6. QED
    BY <1>1, <2>4, <2>5 DEF Load
<1>2. CASE Begin(w)
  <2>1. UNCHANGED <<checkpoint, failures, objects, requests, queue, retries, repeats, broken>>
    BY <1>2 DEF Begin, bounds
  <2>2. CASE Finished(w)
    <3>1. "acking" \in Steps \ AtPageSteps
      BY DEF Steps, AtPageSteps
    <3>2. Leave(w, "acking") /\ UNCHANGED row
      BY <1>2, <2>2 DEF Begin
    <3>3. retries' \in [Workers -> 0 .. MaxRetries]
      BY <1>0, <2>1 DEF WorkersOK
    <3>4. WorkersOK' /\ AtRealPage'
      BY <1>0, <2>1, <3>1, <3>2, <3>3, LeaveTyped
    <3>5. RunOK'
      BY <1>0, <2>1, <3>2 DEF RunOK
    <3>6. QED
      BY <3>4, <3>5 DEF Typed
  <2>3. CASE ~Finished(w)
    <3> DEFINE new == [mem[w] EXCEPT !.status = "RUNNING"]
    <3>1. new \in Row
      BY <1>0 DEF WorkersOK, Row, Statuses
    <3>2. /\ Commit(w, new) /\ mem' = [mem EXCEPT ![w] = new]
          /\ page' = [page EXCEPT ![w] = checkpoint]
          /\ pc' = [pc EXCEPT ![w] = AtPage(checkpoint)]
          /\ found' = found
      BY <1>2, <2>3 DEF Begin, ResumePage, Goto
    <3>3. row \in Row /\ mem[w] \in Row
      BY <1>0 DEF RunOK, WorkersOK
    <3>4. row' \in Row
      BY <3>1, <3>2, <3>3, CommitTyped
    <3>5. RunOK'
      BY <1>0, <2>1, <3>4 DEF RunOK
    <3>6. /\ checkpoint \in 0 .. MaxPages /\ AtPage(checkpoint) \in Steps
          /\ AtPage(checkpoint) \in AtPageSteps => checkpoint \in Pages
      BY <1>0, ScrapeAssumption DEF AtPage, AtPageSteps, Steps, Pages, RunOK
    <3>7. AtRealPage'
      BY <1>0, <3>2, <3>6 DEF AtRealPage, WorkersOK
    <3>8. WorkersOK'
      BY <1>0, <2>1, <3>1, <3>2, <3>6 DEF WorkersOK
    <3>9. QED
      BY <3>5, <3>7, <3>8 DEF Typed
  <2>4. QED
    BY <2>2, <2>3
<1>3. QED
  BY <1>1, <1>2

\* A worker fetches a page.
LEMMA FetchTyped ==
    ASSUME Typed, NEW w \in Workers, Fetch(w)
    PROVE  Typed'
<1>0. RunOK /\ WorkersOK /\ AtRealPage /\ Len(failures) \in Nat
  BY DEF Typed, RunOK
<1>1. page[w] \in Pages
  BY <1>0 DEF Fetch, AtRealPage, AtPageSteps
<1>2. UNCHANGED <<row, failures, requests, queue, retries, mem, page, repeats, broken>>
  BY DEF Fetch, bounds
<1>3. found' \in [Workers -> Nat] /\ \A v \in Workers : found'[v] <= Len(failures)
  <2>1. PICK i \in OpenAt(page[w]) : found' = [found EXCEPT ![w] = i]
    BY DEF Fetch
  <2>2. i \in Nat /\ i <= Len(failures)
    BY <1>0 DEF OpenAt, Open, RunOK
  <2>3. QED
    BY <1>0, <2>1, <2>2 DEF WorkersOK
<1>4. objects' \in [Pages -> Nat] /\ checkpoint' = checkpoint
  BY <1>0, <1>1 DEF Fetch, Store, RunOK
<1>5. pc' \in [Workers -> Steps] /\ \A v \in Workers : v # w => pc'[v] = pc[v]
  BY <1>0 DEF Fetch, Goto, WorkersOK, Steps
<1>6. AtRealPage'
  BY <1>0, <1>1, <1>2, <1>5 DEF AtRealPage
<1>7. RunOK'
  BY <1>0, <1>2, <1>4 DEF RunOK
<1>8. WorkersOK'
  BY <1>0, <1>2, <1>3, <1>5 DEF WorkersOK
<1>9. QED
  BY <1>6, <1>7, <1>8 DEF Typed

\* A worker accounts for a page: stored, or failed.
LEMMA AccountTyped ==
    ASSUME Typed, NEW w \in Workers, Save(w) \/ Record(w)
    PROVE  Typed'
<1>0. RunOK /\ WorkersOK /\ AtRealPage /\ Len(failures) \in Nat
  BY DEF Typed, RunOK
<1>1. page[w] \in Pages /\ found[w] \in Nat /\ row \in Row /\ mem[w] \in Row
  BY <1>0 DEF Save, Record, AtRealPage, AtPageSteps, RunOK, WorkersOK
<1>2. failures \in Seq(FailureRow)
  BY <1>0 DEF RunOK
<1>3. UNCHANGED <<objects, requests, queue, retries, repeats, broken>>
  BY DEF Save, Record, bounds
<1>4. CASE Save(w)
  <2> DEFINE new == CountStored(mem[w])
  <2>1. new \in Row
    BY <1>1, CountedTyped
  <2>2. /\ Commit(w, new) /\ mem' = [mem EXCEPT ![w] = new]
        /\ page' = [page EXCEPT ![w] = @ + 1] /\ found' = [found EXCEPT ![w] = 0]
        /\ checkpoint' = page[w] + 1
        /\ pc' = [pc EXCEPT ![w] = AtPage(page[w] + 1)]
    BY <1>4 DEF Save, Goto
  <2>3. row' \in Row
    BY <1>1, <2>1, <2>2, CommitTyped
  <2>4. failures' \in Seq(FailureRow) /\ Len(failures') = Len(failures)
    BY <1>1, <1>2, <1>4, FailuresTyped DEF Save
  <2>5. page[w] + 1 \in 0 .. MaxPages
    BY <1>1, ScrapeAssumption DEF Pages
  <2>6. AtPage(page[w] + 1) \in Steps
    BY DEF AtPage, Steps
  <2>7. AtPage(page[w] + 1) \in AtPageSteps => page[w] + 1 \in Pages
    BY <2>5, ScrapeAssumption DEF Pages, AtPage, AtPageSteps
  <2>8. RunOK'
    <3>1. checkpoint' \in 0 .. MaxPages
      BY <2>2, <2>5
    <3>2. QED
      BY <1>0, <1>3, <2>3, <2>4, <3>1 DEF RunOK
  <2>9. /\ pc' \in [Workers -> Steps] /\ mem' \in [Workers -> Row]
        /\ page' \in [Workers -> 0 .. MaxPages]
    <3> HIDE DEF new
    <3>1. QED
      BY <1>0, <2>1, <2>2, <2>5, <2>6 DEF WorkersOK
  <2>10. found' \in [Workers -> Nat] /\ \A v \in Workers : found'[v] <= Len(failures')
    BY <1>0, <2>2, <2>4 DEF WorkersOK
  <2>11. WorkersOK'
    BY <1>0, <1>3, <2>9, <2>10 DEF WorkersOK
  <2>12. AtRealPage'
    <3>1. \A v \in Workers : v # w => pc'[v] = pc[v] /\ page'[v] = page[v]
      BY <1>0, <2>2 DEF WorkersOK
    <3>2. pc'[w] = AtPage(page[w] + 1) /\ page'[w] = page[w] + 1
      BY <1>0, <2>2 DEF WorkersOK
    <3>3. QED
      BY <1>0, <2>7, <3>1, <3>2 DEF AtRealPage
  <2>13. QED
    BY <2>8, <2>11, <2>12 DEF Typed
<1>5. CASE Record(w)
  <2> DEFINE new == CountFailed(mem[w])
  <2>1. new \in Row
    BY <1>1, CountedTyped
  <2>2. Commit(w, new) /\ Leave(w, "raised") /\ checkpoint' = checkpoint
    BY <1>5 DEF Record
  <2>3. row' \in Row
    BY <1>1, <2>1, <2>2, CommitTyped
  <2>4. failures' \in Seq(FailureRow) /\ Len(failures') \in Nat
        /\ Len(failures) <= Len(failures')
    <3>1. CASE found[w] = 0
      <4>1. failures' = Append(failures, [page |-> page[w], open |-> TRUE])
        BY <1>5, <3>1 DEF Record
      <4>2. failures' \in Seq(FailureRow) /\ Len(failures') = Len(failures) + 1
        BY <1>1, <1>2, <4>1, FailuresTyped
      <4>3. QED
        BY <1>0, <4>2
    <3>2. CASE found[w] # 0
      BY <1>0, <1>2, <1>5, <3>2 DEF Record
    <3>3. QED
      BY <3>1, <3>2
  <2>5. RunOK'
    BY <1>0, <1>3, <2>2, <2>3, <2>4 DEF RunOK
  <2>6. "raised" \in Steps \ AtPageSteps /\ retries' \in [Workers -> 0 .. MaxRetries]
    BY <1>0, <1>3 DEF Steps, AtPageSteps, WorkersOK
  <2>7. WorkersOK' /\ AtRealPage'
    BY <2>2, <2>4, <2>6, LeaveTyped
  <2>8. QED
    BY <2>5, <2>7 DEF Typed
<1>6. QED
  BY <1>4, <1>5

\* A worker leaves the run: it completed it, or something raised, or it died, or
\* it is done with its message.
LEMMA LeavingTyped ==
    ASSUME Typed, NEW w \in Workers,
           Complete(w) \/ Raise(w) \/ MarkFailed(w) \/ Acknowledge(w) \/ Crash(w)
    PROVE  Typed'
<1>0. RunOK /\ WorkersOK /\ AtRealPage /\ Len(failures) \in Nat
  BY DEF Typed, RunOK
<1>1. row \in Row /\ mem[w] \in Row /\ queue \in [0 .. MaxRetries -> Nat]
      /\ retries[w] \in 0 .. MaxRetries
  BY <1>0 DEF RunOK, WorkersOK
<1>2. UNCHANGED <<checkpoint, failures, objects, requests>>
  BY DEF Complete, Raise, MarkFailed, Acknowledge, Crash, runVars
<1>3. retries' \in [Workers -> 0 .. MaxRetries]
  BY <1>0, ScrapeAssumption
  DEF Complete, Raise, MarkFailed, Acknowledge, Crash, Idle, WorkersOK
<1>4. \E step \in Steps \ AtPageSteps : Leave(w, step)
  <2>1. {"acking", "raised", "idle"} \subseteq Steps \ AtPageSteps
    BY DEF Steps, AtPageSteps
  <2>2. Leave(w, "acking") \/ Leave(w, "raised") \/ Leave(w, "idle")
    BY DEF Complete, Raise, MarkFailed, Acknowledge, Crash, Idle
  <2>3. QED
    BY <2>1, <2>2
<1>5. WorkersOK' /\ AtRealPage'
  BY <1>0, <1>2, <1>3, <1>4, LeaveTyped
<1>6. row' \in Row
  <2>1. CASE row' = row
    BY <1>1, <2>1
  <2>2. CASE Commit(w, [mem[w] EXCEPT !.status = "COMPLETED"])
    <3>1. [mem[w] EXCEPT !.status = "COMPLETED"] \in Row
      BY <1>1 DEF Row, Statuses
    <3>2. QED
      BY <1>1, <2>2, <3>1, CommitTyped
  <2>3. CASE Commit(w, [mem[w] EXCEPT !.status = "FAILED"])
    <3>1. [mem[w] EXCEPT !.status = "FAILED"] \in Row
      BY <1>1 DEF Row, Statuses
    <3>2. QED
      BY <1>1, <2>3, <3>1, CommitTyped
  <2>4. QED
    BY <2>1, <2>2, <2>3 DEF Complete, Raise, MarkFailed, Acknowledge, Crash, runVars
<1>7. queue' \in [0 .. MaxRetries -> Nat]
  BY <1>1, QueueTyped DEF Complete, Raise, MarkFailed, Acknowledge, Crash
<1>8. repeats' \in 0 .. MaxRepeats /\ broken' \in 0 .. MaxFailures
  BY <1>0, ScrapeAssumption
  DEF Complete, Raise, MarkFailed, Acknowledge, Crash, Failure, RunOK, bounds
<1>9. RunOK'
  BY <1>0, <1>2, <1>6, <1>7, <1>8 DEF RunOK
<1>10. QED
  BY <1>5, <1>9 DEF Typed

\* A worker whose execution raised sends the retry, or opens the session that
\* marks the run.
LEMMA RetryTyped ==
    ASSUME Typed, NEW w \in Workers, Retry(w) \/ GiveUp(w)
    PROVE  Typed'
<1>0. RunOK /\ WorkersOK /\ AtRealPage
  BY DEF Typed
<1>1. /\ UNCHANGED <<row, checkpoint, failures, objects, requests, retries, page, found>>
      /\ repeats' \in 0 .. MaxRepeats /\ broken' \in 0 .. MaxFailures
  BY <1>0, ScrapeAssumption DEF Retry, GiveUp, Failure, RunOK, runVars, bounds
<1>2. queue' \in [0 .. MaxRetries -> Nat]
  <2>1. queue \in [0 .. MaxRetries -> Nat] /\ retries[w] \in 0 .. MaxRetries
    BY <1>0 DEF RunOK, WorkersOK
  <2>2. CASE Retry(w)
    <3>1. retries[w] + 1 \in 0 .. MaxRetries
      BY <2>1, <2>2, ScrapeAssumption DEF Retry
    <3>2. QED
      BY <2>1, <2>2, <3>1, QueueTyped DEF Retry
  <2>3. CASE GiveUp(w)
    BY <2>1, <2>3 DEF GiveUp
  <2>4. QED
    BY <2>2, <2>3
<1>3. mem' \in [Workers -> Row]
  BY <1>0 DEF Retry, GiveUp, RunOK, WorkersOK
<1>4. pc' \in [Workers -> Steps]
  BY <1>0 DEF Retry, GiveUp, Goto, WorkersOK, Steps
<1>5. AtRealPage'
  BY <1>0, <1>1 DEF Retry, GiveUp, Goto, WorkersOK, AtRealPage, AtPageSteps
<1>6. RunOK'
  BY <1>0, <1>1, <1>2 DEF RunOK
<1>7. WorkersOK'
  BY <1>0, <1>1, <1>3, <1>4 DEF WorkersOK
<1>8. QED
  BY <1>5, <1>6, <1>7 DEF Typed

\* Every step of the system, and every step of something else, keeps the types.
LEMMA StepTyped == Typed /\ [Next]_vars => Typed'
<1> SUFFICES ASSUME Typed, [Next]_vars PROVE Typed'
  OBVIOUS
<1>1. CASE UNCHANGED vars
  <2>1. UNCHANGED <<row, checkpoint, failures, objects, requests, queue, pc, retries, mem,
                    page, found, repeats, broken>>
    BY <1>1 DEF vars, runVars, taskVars, bounds
  <2>2. RunOK'
    BY <2>1 DEF Typed, RunOK
  <2>3. WorkersOK' /\ AtRealPage'
    BY <2>1 DEF Typed, WorkersOK, AtRealPage
  <2>4. QED
    BY <2>2, <2>3 DEF Typed
<1>2. CASE Start \/ RetryFailures \/ Dispatch \/ Redeliver
  BY <1>2, RequestsTyped
<1>3. ASSUME NEW w \in Workers, Work(w) \/ Raise(w) \/ Crash(w) PROVE Typed'
  BY <1>3, BeginTyped, FetchTyped, AccountTyped, LeavingTyped, RetryTyped DEF Work
<1>4. QED
  BY <1>1, <1>2, <1>3 DEF Next

\* What is noted about the executions stays true or false.
LEMMA HistoryTyped == HistoryOK /\ [Next]_vars => HistoryOK'
<1> SUFFICES ASSUME HistoryOK, [Next]_vars PROVE HistoryOK'
  OBVIOUS
<1>1. overlapped' \in BOOLEAN
  <2>1. CASE \E w \in Workers : Load(w)
    BY <2>1, Zenon DEF Load
  <2>2. CASE ~ \E w \in Workers : Load(w)
    <3>1. overlapped' = overlapped
      BY <2>2, Zenon DEF Next, Work, vars, history, Start, RetryFailures, Dispatch, Redeliver,
         Begin, Fetch, Save, Record, Complete, Raise, Retry, GiveUp, MarkFailed,
         Acknowledge, Crash
    <3>2. QED
      BY <3>1, Zenon DEF HistoryOK
  <2>3. QED
    BY <2>1, <2>2
<1>2. lost' \in BOOLEAN
  <2>1. lost' = lost \/ lost' = TRUE
    BY Zenon DEF Next, Work, vars, history, Start, RetryFailures, Dispatch, Redeliver,
       Load, Begin, Fetch, Save, Record, Complete, Raise, Retry, GiveUp, MarkFailed,
       Acknowledge, Crash
  <2>2. QED
    BY <2>1, Zenon DEF HistoryOK
<1>3. QED
  BY <1>1, <1>2 DEF HistoryOK

\* Run, messages and executions have their types in every reachable state, for any
\* number of workers, pages and retries.
THEOREM Typing == Spec => []TypeOK
<1>1. Init => Typed /\ HistoryOK
  <2>1. Init => HistoryOK
    BY Zenon DEF Init, HistoryOK
  <2>2. QED
    BY <2>1, InitTyped
<1>2. (Typed /\ HistoryOK) /\ [Next]_vars => (Typed /\ HistoryOK)'
  BY StepTyped, HistoryTyped
<1>3. Typed /\ HistoryOK => TypeOK
  BY DEF Typed, TypeOK
<1>4. QED
  BY <1>1, <1>2, <1>3, PTL DEF Spec

-----------------------------------------------------------------------------
(* A completed run is whole                                                *)

StoredBelow(n) == \A p \in Pages : p < n => objects[p] > 0

\* An execution is past stored pages only: also those another execution stored,
\* and also when its row or the checkpoint it read is not the last any more.
ExecutionOK(w) ==
    /\ pc[w] \in AtPageSteps \cup {"completing"} => StoredBelow(page[w])
    /\ pc[w] = "saving" => objects[page[w]] > 0
    /\ pc[w] = "completing" => page[w] = MaxPages
    /\ mem[w].status = "COMPLETED" => StoredBelow(MaxPages)
RowOK == row.status = "COMPLETED" => StoredBelow(MaxPages)
Whole == StoredBelow(checkpoint) /\ RowOK /\ \A w \in Workers : ExecutionOK(w)

Grows == \A p \in Pages : objects'[p] \in Nat /\ objects'[p] >= objects[p]

\* No step removes an object.
LEMMA ObjectsGrow ==
    ASSUME Typed, [Next]_vars
    PROVE  Grows
<1>1. objects \in [Pages -> Nat]
  BY DEF Typed, RunOK
<1>2. ASSUME NEW w \in Workers, Fetch(w) PROVE Grows
  <2>1. page[w] \in Pages
    BY <1>2 DEF Fetch, Typed, AtRealPage, AtPageSteps
  <2>2. objects' = [objects EXCEPT ![page[w]] = @ + 1] \/ objects' = objects
    BY <1>2 DEF Fetch, Store
  <2>3. QED
    BY <1>1, <2>1, <2>2 DEF Grows
<1>3. CASE ~ \E w \in Workers : Fetch(w)
  <2>1. objects' = objects
    BY <1>3, Zenon DEF Next, Work, vars, runVars, Start, RetryFailures, Dispatch, Redeliver,
       Load, Begin, Save, Record, Complete, Raise, Retry, GiveUp, MarkFailed,
       Acknowledge, Crash
  <2>2. QED
    BY <1>1, <2>1 DEF Grows
<1>4. QED
  BY <1>2, <1>3

\* What is stored stays stored.
LEMMA StoredStays ==
    ASSUME Typed, Grows, NEW n \in Nat, StoredBelow(n)
    PROVE  \A p \in Pages : p < n => objects'[p] > 0
<1>1. objects \in [Pages -> Nat]
  BY DEF Typed, RunOK
<1>2. QED
  BY <1>1 DEF Grows, StoredBelow

\* An execution that does not move keeps what it relies on.
LEMMA OthersOK ==
    ASSUME Typed, Grows, NEW v \in Workers, ExecutionOK(v),
           pc'[v] = pc[v], page'[v] = page[v], mem'[v] = mem[v]
    PROVE  ExecutionOK(v)'
<1>1. page[v] \in Nat /\ MaxPages \in Nat
  BY ScrapeAssumption DEF Typed, WorkersOK
<1>2. pc[v] \in AtPageSteps \cup {"completing"} => StoredBelow(page[v])'
  BY <1>1, StoredStays DEF ExecutionOK, StoredBelow
<1>3. pc[v] = "saving" => objects'[page[v]] > 0
  <2>1. pc[v] = "saving" => page[v] \in Pages
    BY DEF Typed, AtRealPage, AtPageSteps
  <2>2. objects \in [Pages -> Nat]
    BY DEF Typed, RunOK
  <2>3. QED
    BY <2>1, <2>2 DEF ExecutionOK, Grows
<1>4. mem[v].status = "COMPLETED" => StoredBelow(MaxPages)'
  BY <1>1, StoredStays DEF ExecutionOK, StoredBelow
<1>5. QED
  BY <1>2, <1>3, <1>4 DEF ExecutionOK

\* The row after a commit says COMPLETED only if it said so or the commit does.
LEMMA CommitStatus ==
    ASSUME row \in Row, NEW w \in Workers, mem[w] \in Row, NEW new \in Row, Commit(w, new)
    PROVE  row'.status = row.status \/ row'.status = new.status
<1>1. "status" \in DOMAIN row
  BY DEF Row
<1>2. QED
  BY <1>1 DEF Commit

\* No run is complete before it is started.
LEMMA InitWhole == Init => Whole
  BY ScrapeAssumption DEF Init, Whole, RowOK, ExecutionOK, StoredBelow, AtPageSteps, NoRun, Pages

\* A worker that leaves its session relies on nothing any more.
LEMMA LeaveWhole ==
    ASSUME Typed, Grows, Whole, NEW w \in Workers,
           NEW step \in {"idle", "raised", "acking"}, Leave(w, step)
    PROVE  \A v \in Workers : ExecutionOK(v)'
<1>1. ASSUME NEW v \in Workers, v # w PROVE ExecutionOK(v)'
  <2>1. pc'[v] = pc[v] /\ page'[v] = page[v] /\ mem'[v] = mem[v]
    BY <1>1 DEF Leave, Goto, Typed, WorkersOK
  <2>2. QED
    BY <2>1, OthersOK DEF Whole
<1>2. ExecutionOK(w)'
  <2>1. pc'[w] = step /\ mem'[w] = NoRun
    BY DEF Leave, Goto, Typed, WorkersOK
  <2>2. QED
    BY <2>1 DEF ExecutionOK, AtPageSteps, NoRun
<1>3. QED
  BY <1>1, <1>2

\* A step that leaves checkpoint and row alone keeps what they rely on.
LEMMA RowStays ==
    ASSUME Typed, Grows, Whole, checkpoint' = checkpoint,
           row'.status = row.status \/ row'.status # "COMPLETED"
    PROVE  StoredBelow(checkpoint)' /\ RowOK'
<1>1. checkpoint \in Nat /\ MaxPages \in Nat
  BY ScrapeAssumption DEF Typed, RunOK
<1>2. StoredBelow(checkpoint)'
  BY <1>1, StoredStays DEF Whole, StoredBelow
<1>3. RowOK'
  <2>1. CASE row.status = "COMPLETED"
    BY <1>1, <2>1, StoredStays DEF Whole, RowOK, StoredBelow
  <2>2. CASE row.status # "COMPLETED"
    BY <2>2 DEF RowOK
  <2>3. QED
    BY <2>1, <2>2
<1>4. QED
  BY <1>2, <1>3

\* Requests, dispatch and redelivery touch no execution; Start makes a run that is
\* not complete.
LEMMA RequestsWhole ==
    ASSUME Typed, Grows, Whole, Start \/ RetryFailures \/ Dispatch \/ Redeliver \/ UNCHANGED vars
    PROVE  Whole'
<1>1. UNCHANGED <<pc, mem, page, checkpoint>>
  BY DEF Start, RetryFailures, Dispatch, Redeliver, taskVars, runVars, vars
<1>2. row'.status = row.status \/ row'.status # "COMPLETED"
  <2>1. CASE Start
    BY <2>1 DEF Start, Typed, RunOK, Row
  <2>2. CASE ~Start
    BY <2>2 DEF RetryFailures, Dispatch, Redeliver, runVars, vars
  <2>3. QED
    BY <2>1, <2>2
<1>3. \A v \in Workers : ExecutionOK(v)'
  BY <1>1, OthersOK DEF Whole
<1>4. QED
  BY <1>1, <1>2, <1>3, RowStays DEF Whole

\* An execution starts with the row it reads, and resumes from the checkpoint.
LEMMA BeginWhole ==
    ASSUME Typed, Typed', Grows, Whole, NEW w \in Workers, Load(w) \/ Begin(w)
    PROVE  Whole'
<1>0. RunOK /\ WorkersOK /\ RowOK /\ StoredBelow(checkpoint) /\ checkpoint \in 0 .. MaxPages
      /\ MaxPages \in Nat
  BY ScrapeAssumption DEF Typed, RunOK, Whole
<1>1. UNCHANGED <<checkpoint, objects>>
  BY DEF Load, Begin, runVars
<1>2. row'.status = row.status \/ row'.status # "COMPLETED"
  <2>1. CASE row' = row
    BY <2>1
  <2>2. CASE Commit(w, [mem[w] EXCEPT !.status = "RUNNING"])
    <3>1. row \in Row /\ mem[w] \in Row
      BY <1>0 DEF RunOK, WorkersOK
    <3>2. /\ [mem[w] EXCEPT !.status = "RUNNING"] \in Row
          /\ [mem[w] EXCEPT !.status = "RUNNING"].status = "RUNNING"
      BY <3>1 DEF Row, Statuses
    <3>3. QED
      BY <2>2, <3>1, <3>2, CommitStatus
  <2>3. QED
    BY <2>1, <2>2 DEF Load, Begin, runVars
<1>3. ASSUME NEW v \in Workers, v # w PROVE ExecutionOK(v)'
  <2>1. pc'[v] = pc[v] /\ page'[v] = page[v] /\ mem'[v] = mem[v]
    BY <1>0, <1>3 DEF Load, Begin, Leave, Goto, WorkersOK
  <2>2. QED
    BY <2>1, OthersOK DEF Whole
<1>4. ExecutionOK(w)'
  <2>1. CASE Leave(w, "raised") \/ Leave(w, "acking")
    BY <2>1, LeaveWhole
  <2>2. CASE Goto(w, "starting") /\ mem' = [mem EXCEPT ![w] = row]
    <3>1. pc'[w] = "starting" /\ mem'[w] = row
      BY <1>0, <2>2 DEF Goto, WorkersOK
    <3>2. QED
      BY <1>0, <1>1, <3>1 DEF ExecutionOK, AtPageSteps, RowOK, StoredBelow
  <2>3. CASE /\ mem' = [mem EXCEPT ![w] = [mem[w] EXCEPT !.status = "RUNNING"]]
             /\ page' = [page EXCEPT ![w] = checkpoint]
             /\ Goto(w, AtPage(checkpoint))
    <3>1. mem[w] \in Row
      BY <1>0 DEF WorkersOK
    <3>2. /\ pc'[w] = AtPage(checkpoint) /\ page'[w] = checkpoint
          /\ mem'[w] = [mem[w] EXCEPT !.status = "RUNNING"]
      BY <1>0, <2>3 DEF Goto, WorkersOK
    <3>3. mem'[w].status # "COMPLETED"
      BY <3>1, <3>2 DEF Row
    <3>4. pc'[w] # "saving" /\ (pc'[w] = "completing" => page'[w] = MaxPages)
      BY <1>0, <3>2 DEF AtPage
    <3>5. StoredBelow(page[w])'
      BY <1>0, <1>1, <3>2 DEF StoredBelow
    <3>6. QED
      BY <3>3, <3>4, <3>5 DEF ExecutionOK
  <2>4. QED
    BY <2>1, <2>2, <2>3 DEF Load, Begin, ResumePage
<1>5. QED
  BY <1>1, <1>2, <1>3, <1>4, RowStays DEF Whole

\* A page that arrives is stored before anything is said of it.
LEMMA FetchWhole ==
    ASSUME Typed, Grows, Whole, NEW w \in Workers, Fetch(w)
    PROVE  Whole'
<1>0. RunOK /\ WorkersOK /\ ExecutionOK(w) /\ objects \in [Pages -> Nat]
  BY DEF Typed, RunOK, Whole
<1>1. page[w] \in Pages /\ page[w] \in Nat /\ MaxPages \in Nat
  BY <1>0, ScrapeAssumption DEF Fetch, Typed, AtRealPage, AtPageSteps, WorkersOK
<1>2. UNCHANGED <<row, mem, page, checkpoint>>
  BY DEF Fetch, Store
<1>3. ASSUME NEW v \in Workers, v # w PROVE ExecutionOK(v)'
  <2>1. pc'[v] = pc[v]
    BY <1>0, <1>3 DEF Fetch, Goto, WorkersOK
  <2>2. QED
    BY <1>2, <2>1, OthersOK DEF Whole
<1>4. ExecutionOK(w)'
  <2>1. StoredBelow(page[w])
    BY <1>0 DEF Fetch, ExecutionOK, AtPageSteps
  <2>2. StoredBelow(page[w])'
    BY <1>1, <1>2, <2>1, StoredStays DEF StoredBelow
  <2>3. pc'[w] \in {"saving", "recording"} /\ (pc'[w] = "saving" => objects'[page[w]] > 0)
    BY <1>0, <1>1 DEF Fetch, Store, Goto, WorkersOK
  <2>4. mem[w].status = "COMPLETED" => StoredBelow(MaxPages)'
    BY <1>0, <1>1, StoredStays DEF ExecutionOK, StoredBelow
  <2>5. QED
    BY <1>2, <2>2, <2>3, <2>4 DEF ExecutionOK
<1>5. QED
  BY <1>2, <1>3, <1>4, RowStays DEF Whole

\* The checkpoint moves past a page that is stored, and everything below it is.
LEMMA SaveWhole ==
    ASSUME Typed, Grows, Whole, NEW w \in Workers, Save(w)
    PROVE  Whole'
<1>0. RunOK /\ WorkersOK /\ ExecutionOK(w) /\ mem[w] \in Row /\ MaxPages \in Nat
  BY ScrapeAssumption DEF Typed, Whole, WorkersOK
<1>1. page[w] \in Pages /\ page[w] \in Nat
  BY <1>0 DEF Save, Typed, AtRealPage, AtPageSteps, WorkersOK
<1>2. /\ objects' = objects /\ checkpoint' = page[w] + 1
      /\ pc' = [pc EXCEPT ![w] = AtPage(page[w] + 1)]
      /\ page' = [page EXCEPT ![w] = @ + 1]
      /\ mem' = [mem EXCEPT ![w] = CountStored(@)]
      /\ Commit(w, CountStored(mem[w]))
  BY DEF Save, Goto
<1>3. StoredBelow(page[w] + 1)
  <2>1. StoredBelow(page[w]) /\ objects[page[w]] > 0
    BY <1>0 DEF Save, ExecutionOK, AtPageSteps
  <2>2. QED
    BY <1>1, <2>1 DEF StoredBelow, Pages
<1>4. CountStored(mem[w]) \in Row /\ CountStored(mem[w]).status = mem[w].status
  BY <1>0, CountedTyped DEF CountStored, Row
<1>5. RowOK'
  <2>1. row'.status = row.status \/ row'.status = mem[w].status
    BY <1>0, <1>2, <1>4, CommitStatus DEF RunOK
  <2>2. QED
    BY <1>0, <1>2, <2>1 DEF Whole, RowOK, ExecutionOK, StoredBelow
<1>6. ASSUME NEW v \in Workers, v # w PROVE ExecutionOK(v)'
  <2>1. pc'[v] = pc[v] /\ page'[v] = page[v] /\ mem'[v] = mem[v]
    BY <1>0, <1>2, <1>6 DEF WorkersOK
  <2>2. QED
    BY <2>1, OthersOK DEF Whole
<1>7. ExecutionOK(w)'
  <2>1. /\ pc'[w] = AtPage(page[w] + 1) /\ page'[w] = page[w] + 1
        /\ mem'[w].status = mem[w].status
    BY <1>0, <1>2, <1>4 DEF WorkersOK
  <2>2. StoredBelow(page[w])'
    BY <1>2, <1>3, <2>1 DEF StoredBelow
  <2>3. pc'[w] # "saving" /\ (pc'[w] = "completing" => page'[w] = MaxPages)
    BY <1>0, <1>1, <2>1 DEF AtPage, Pages
  <2>4. mem'[w].status = "COMPLETED" => StoredBelow(MaxPages)'
    BY <1>0, <1>2, <2>1 DEF ExecutionOK, StoredBelow
  <2>5. QED
    BY <2>2, <2>3, <2>4 DEF ExecutionOK
<1>8. StoredBelow(checkpoint)'
  BY <1>2, <1>3 DEF StoredBelow
<1>9. QED
  BY <1>5, <1>6, <1>7, <1>8 DEF Whole

\* An execution says COMPLETED behind the last page; any other way to leave the run
\* says something else, or nothing.
LEMMA LeavingWhole ==
    ASSUME Typed, Grows, Whole, NEW w \in Workers,
           \/ Record(w) \/ Complete(w) \/ Raise(w) \/ MarkFailed(w)
           \/ Acknowledge(w) \/ Crash(w)
    PROVE  Whole'
<1>0. row \in Row /\ mem[w] \in Row /\ MaxPages \in Nat /\ ExecutionOK(w)
  BY ScrapeAssumption DEF Typed, RunOK, WorkersOK, Whole
<1>1. checkpoint' = checkpoint /\ objects' = objects
  BY DEF Record, Complete, Raise, MarkFailed, Acknowledge, Crash, runVars
<1>2. \A v \in Workers : ExecutionOK(v)'
  <2>1. Leave(w, "acking") \/ Leave(w, "raised") \/ Leave(w, "idle")
    BY DEF Record, Complete, Raise, MarkFailed, Acknowledge, Crash, Idle
  <2>2. QED
    BY <2>1, LeaveWhole
<1>3. StoredBelow(checkpoint)' /\ RowOK'
  <2>1. CASE Complete(w)
    <3>1. StoredBelow(MaxPages)
      BY <1>0, <2>1 DEF Complete, ExecutionOK
    <3>2. QED
      BY <1>1, <3>1 DEF Whole, RowOK, StoredBelow
  <2>2. CASE row' = row
    BY <1>1, <2>2, RowStays
  <2>3. CASE Commit(w, CountFailed(mem[w]))
    <3>1. CountFailed(mem[w]) \in Row /\ CountFailed(mem[w]).status = "PARTIAL"
      BY <1>0, CountedTyped DEF CountFailed, Row
    <3>2. QED
      BY <1>0, <1>1, <2>3, <3>1, CommitStatus, RowStays
  <2>4. CASE Commit(w, [mem[w] EXCEPT !.status = "FAILED"])
    <3>1. /\ [mem[w] EXCEPT !.status = "FAILED"] \in Row
          /\ [mem[w] EXCEPT !.status = "FAILED"].status = "FAILED"
      BY <1>0 DEF Row, Statuses
    <3>2. QED
      BY <1>0, <1>1, <2>4, <3>1, CommitStatus, RowStays
  <2>5. QED
    BY <2>1, <2>2, <2>3, <2>4 DEF Record, Raise, MarkFailed, Acknowledge, Crash, runVars
<1>4. QED
  BY <1>2, <1>3 DEF Whole

\* A retry changes nothing but messages; the row that is about to be marked is the
\* committed one.
LEMMA RetryWhole ==
    ASSUME Typed, Grows, Whole, NEW w \in Workers, Retry(w) \/ GiveUp(w)
    PROVE  Whole'
<1>0. WorkersOK /\ RowOK /\ ExecutionOK(w) /\ MaxPages \in Nat
  BY ScrapeAssumption DEF Typed, Whole
<1>1. UNCHANGED <<row, checkpoint, objects, page>>
  BY DEF Retry, GiveUp, runVars
<1>2. /\ pc'[w] \in {"acking", "marking"}
      /\ mem'[w] = mem[w] \/ mem'[w] = row
  BY <1>0 DEF Retry, GiveUp, Goto, WorkersOK
<1>3. ASSUME NEW v \in Workers, v # w PROVE ExecutionOK(v)'
  <2>1. pc'[v] = pc[v] /\ mem'[v] = mem[v]
    BY <1>0, <1>3 DEF Retry, GiveUp, Goto, WorkersOK
  <2>2. QED
    BY <1>1, <2>1, OthersOK DEF Whole
<1>4. ExecutionOK(w)'
  BY <1>0, <1>1, <1>2 DEF ExecutionOK, AtPageSteps, RowOK, StoredBelow
<1>5. QED
  BY <1>1, <1>3, <1>4, RowStays DEF Whole

\* Every step keeps Whole, overlapping executions included.
LEMMA StepWhole ==
    ASSUME Typed, Whole, [Next]_vars
    PROVE  Whole'
<1>1. Typed'
  BY StepTyped
<1>2. Grows
  BY ObjectsGrow
<1>3. CASE Start \/ RetryFailures \/ Dispatch \/ Redeliver \/ UNCHANGED vars
  BY <1>1, <1>2, <1>3, RequestsWhole
<1>4. ASSUME NEW w \in Workers, Work(w) \/ Raise(w) \/ Crash(w) PROVE Whole'
  BY <1>1, <1>2, <1>4, BeginWhole, FetchWhole, SaveWhole, LeavingWhole, RetryWhole DEF Work
<1>5. QED
  BY <1>3, <1>4 DEF Next

\* Whatever fails, dies, comes twice or overlaps, in a run of any number of pages:
\* a run that says COMPLETED has stored every page, and so has the checkpoint
\* those below it (ScrapeOrchestrator.run).
THEOREM CompletedRunsAreWhole == Spec => []CompletedIsWhole
<1>1. Init => Typed /\ Whole
  BY InitTyped, InitWhole
<1>2. Typed /\ Whole /\ [Next]_vars => (Typed /\ Whole)'
  BY StepTyped, StepWhole
<1>3. Typed /\ Whole => CompletedIsWhole
  <2> SUFFICES ASSUME Typed, Whole PROVE CompletedIsWhole
    OBVIOUS
  <2>1. \A p \in Pages : p < MaxPages
    BY ScrapeAssumption DEF Pages
  <2>2. QED
    BY <2>1 DEF Whole, RowOK, StoredBelow, CompletedIsWhole, CheckpointIsBacked
<1>4. QED
  BY <1>1, <1>2, <1>3, PTL DEF Spec
-----------------------------------------------------------------------------
(* The counters and the failures of a run whose executions do not overlap  *)

SessionSteps == AtPageSteps \cup {"starting", "completing", "marking"}

\* Before it is started a run has neither messages nor executions.
Unstarted ==
    row.status = "NONE" =>
        /\ row = NoRun /\ failures = <<>> /\ requests = 0
        /\ \A k \in 0 .. MaxRetries : queue[k] = 0
        /\ \A w \in Workers : pc[w] = "idle"

\* What the one execution holds is what is committed, and it has found the
\* failure of its page if there is one.
InHand(w) ==
    /\ pc[w] \in SessionSteps => mem[w] = row
    /\ pc[w] \in AtPageSteps \cup {"completing"} => page[w] = checkpoint
    /\ pc[w] \in {"saving", "recording"} => found[w] \in OpenAt(page[w])
OneBusy   == \A v, w \in Workers : pc[v] # "idle" /\ pc[w] # "idle" => v = w
AheadOnly == \A i \in Open : failures[i].page = checkpoint /\ \A j \in Open : i = j

\* The inductive strengthening of FailuresAreAhead and of what the counters tell.
Exact ==
    /\ Unstarted
    /\ Alone => OneBusy /\ (\A w \in Workers : InHand(w)) /\ CountersTell /\ AheadOnly

\* A commit over a row nobody else wrote (update_run) stores the copy as it is.
LEMMA CommitAlone ==
    ASSUME NEW w \in Workers, row \in Row, mem[w] = row, NEW new \in Row, Commit(w, new)
    PROVE  row' = new
<1>1. /\ DOMAIN row = {"status", "processed", "success", "failed"}
      /\ new = [c \in {"status", "processed", "success", "failed"} |-> new[c]]
  BY DEF Row
<1>2. row' = [c \in DOMAIN row |-> IF new[c] = row[c] THEN row[c] ELSE new[c]]
  BY DEF Commit
<1>3. row' = [c \in {"status", "processed", "success", "failed"} |-> new[c]]
  BY <1>1, <1>2
<1>4. QED
  BY <1>1, <1>3

\* Nothing happens to a run before an operator starts it (start), and it stays started.
LEMMA StepUnstarted ==
    ASSUME Typed, Unstarted, [Next]_vars
    PROVE  Unstarted'
<1>0. /\ row \in Row /\ queue \in [0 .. MaxRetries -> Nat] /\ requests \in Nat
      /\ mem \in [Workers -> Row] /\ pc \in [Workers -> Steps]
  BY DEF Typed, RunOK, WorkersOK
<1>1. CASE UNCHANGED vars
  BY <1>1 DEF vars, runVars, taskVars, Unstarted
<1>2. CASE Start
  BY <1>0, <1>2 DEF Start, Unstarted, Row
<1>3. CASE RetryFailures \/ Dispatch \/ Redeliver
  <2>1. row' = row
    BY <1>3 DEF RetryFailures, Dispatch, Redeliver, runVars
  <2>2. row.status # "NONE"
    BY <1>3 DEF RetryFailures, Dispatch, Redeliver, Unstarted, Open
  <2>3. QED
    BY <2>1, <2>2 DEF Unstarted
<1>4. ASSUME NEW w \in Workers, Work(w) \/ Raise(w) \/ Crash(w) PROVE Unstarted'
  <2>1. row.status # "NONE"
    BY <1>4 DEF Work, Load, Begin, Fetch, Save, Record, Complete, Raise, Retry, GiveUp, MarkFailed,
       Acknowledge, Crash, Unstarted
  <2>2. ASSUME NEW new \in Row, Commit(w, new), new.status = mem[w].status \/ new.status # "NONE"
        PROVE  row'.status # "NONE"
    <3>1. "status" \in DOMAIN row
      BY <1>0 DEF Row
    <3>2. row'.status = IF new.status = mem[w].status THEN row.status ELSE new.status
      BY <2>2, <3>1 DEF Commit
    <3>3. QED
      BY <2>1, <2>2, <3>2
  <2>3. mem[w] \in Row
    BY <1>0
  <2>4. CASE row' = row
    BY <2>1, <2>4 DEF Unstarted
  <2>5. CASE Begin(w) /\ row' # row
    <3>1. Commit(w, [mem[w] EXCEPT !.status = "RUNNING"])
      BY <2>5 DEF Begin
    <3>2. /\ [mem[w] EXCEPT !.status = "RUNNING"] \in Row
          /\ [mem[w] EXCEPT !.status = "RUNNING"].status # "NONE"
      BY <2>3 DEF Row, Statuses
    <3>3. QED
      BY <2>2, <3>1, <3>2 DEF Unstarted
  <2>6. CASE Save(w)
    <3>1. CountStored(mem[w]) \in Row /\ CountStored(mem[w]).status = mem[w].status
      BY <2>3, CountedTyped DEF CountStored, Row
    <3>2. QED
      BY <2>2, <2>6, <3>1 DEF Save, Unstarted
  <2>7. CASE Record(w)
    <3>1. CountFailed(mem[w]) \in Row /\ CountFailed(mem[w]).status # "NONE"
      BY <2>3, CountedTyped DEF CountFailed, Row
    <3>2. QED
      BY <2>2, <2>7, <3>1 DEF Record, Unstarted
  <2>8. CASE Complete(w)
    <3>1. /\ [mem[w] EXCEPT !.status = "COMPLETED"] \in Row
          /\ [mem[w] EXCEPT !.status = "COMPLETED"].status # "NONE"
      BY <2>3 DEF Row, Statuses
    <3>2. QED
      BY <2>2, <2>8, <3>1 DEF Complete, Unstarted
  <2>9. CASE MarkFailed(w) /\ row' # row
    <3>1. /\ [mem[w] EXCEPT !.status = "FAILED"] \in Row
          /\ [mem[w] EXCEPT !.status = "FAILED"].status # "NONE"
      BY <2>3 DEF Row, Statuses
    <3>2. QED
      BY <2>2, <2>9, <3>1 DEF MarkFailed, Unstarted
  <2>10. CASE \/ Load(w) \/ Fetch(w) \/ Raise(w) \/ Retry(w) \/ GiveUp(w) \/ Acknowledge(w)
              \/ Crash(w)
    BY <2>4, <2>10 DEF Load, Fetch, Raise, Retry, GiveUp, Acknowledge, Crash, runVars
  <2>11. QED
    BY <1>4, <2>4, <2>5, <2>6, <2>7, <2>8, <2>9, <2>10 DEF Work
<1>5. QED
  BY <1>1, <1>2, <1>3, <1>4 DEF Next

\* While one execution acts, the others rest; what it holds is all there is to check.
LEMMA OneInHand ==
    ASSUME NEW w \in Workers, \A v \in Workers \ {w} : pc'[v] = "idle", InHand(w)'
    PROVE  OneBusy' /\ \A v \in Workers : InHand(v)'
  BY DEF OneBusy, InHand, SessionSteps, AtPageSteps

\* The counters and the failures of a run that a step leaves alone.
LEMMA RunKept ==
    ASSUME CountersTell, AheadOnly, UNCHANGED <<row, checkpoint, failures>>
    PROVE  CountersTell' /\ AheadOnly'
  BY DEF CountersTell, AheadOnly, Open

\* A page that was stored is counted, its failure resolved, and it is below the
\* checkpoint (run).
LEMMA SaveExact ==
    ASSUME Typed, Exact, Alone, NEW w \in Workers, Save(w)
    PROVE  InHand(w)' /\ CountersTell' /\ AheadOnly'
<1>0. /\ row \in Row /\ mem[w] \in Row /\ failures \in Seq(FailureRow) /\ MaxPages \in Nat
      /\ pc \in [Workers -> Steps] /\ mem \in [Workers -> Row] /\ page[w] \in Pages
      /\ page \in [Workers -> 0 .. MaxPages] /\ found \in [Workers -> Nat]
      /\ Len(failures) \in Nat
  BY ScrapeAssumption DEF Save, Typed, RunOK, WorkersOK, AtRealPage, AtPageSteps
<1>1. /\ mem[w] = row /\ page[w] = checkpoint /\ found[w] \in OpenAt(page[w])
      /\ CountersTell /\ AheadOnly
  BY DEF Save, Exact, InHand, SessionSteps, AtPageSteps
<1>2. /\ Commit(w, CountStored(mem[w])) /\ mem' = [mem EXCEPT ![w] = CountStored(@)]
      /\ page' = [page EXCEPT ![w] = @ + 1]
      /\ checkpoint' = page[w] + 1
      /\ pc' = [pc EXCEPT ![w] = AtPage(page[w] + 1)]
      /\ failures' = [i \in DOMAIN failures |-> [failures[i] EXCEPT !.open = @ /\ i # found[w]]]
  BY DEF Save, Goto
<1>3. row' = CountStored(row) /\ CountStored(row) \in Row
  BY <1>0, <1>1, <1>2, CommitAlone, CountedTyped
<1>4. InHand(w)'
  <2>1. mem'[w] = row' /\ page'[w] = checkpoint' /\ pc'[w] = AtPage(page[w] + 1)
    BY <1>0, <1>1, <1>2, <1>3
  <2>2. pc'[w] \notin {"saving", "recording"}
    BY <2>1 DEF AtPage
  <2>3. QED
    BY <2>1, <2>2 DEF InHand
<1>5. Len(failures') = Len(failures)
  BY <1>0, <1>2, FailuresTyped
<1>6. CountersTell'
  <2>1. /\ row.processed \in Nat /\ row.success \in Nat /\ row.failed \in Nat
        /\ row'.processed = row.processed + 1 /\ row'.success = row.success + 1
        /\ row'.failed = row.failed /\ row'.status = row.status
    BY <1>0, <1>3 DEF CountStored, Row
  <2>2. row.status # "COMPLETED"
    BY <1>0, <1>1 DEF CountersTell, Pages
  <2>3. QED
    BY <1>1, <1>2, <1>5, <2>1, <2>2 DEF CountersTell
<1>7. Open' = {}
  <2>1. SUFFICES ASSUME NEW i \in Open' PROVE FALSE
    OBVIOUS
  <2>2. /\ i \in DOMAIN failures
        /\ failures'[i].open = (failures[i].open /\ i # found[w]) /\ failures'[i].open
    <3>1. i \in DOMAIN failures
      BY <1>2, <2>1 DEF Open
    <3>2. failures[i] \in FailureRow
      BY <1>0, <3>1
    <3>3. "open" \in DOMAIN failures[i]
      BY <3>2 DEF FailureRow
    <3>4. failures'[i].open = (failures[i].open /\ i # found[w])
      BY <1>2, <3>1, <3>3
    <3>5. failures'[i].open
      BY <2>1 DEF Open
    <3>6. QED
      BY <3>1, <3>4, <3>5
  <2>3. i \in Open /\ i # found[w]
    BY <2>2 DEF Open
  <2>4. failures[i].page = page[w]
    BY <1>1, <2>3 DEF AheadOnly
  <2>5. found[w] \in Open
    BY <1>1, <2>3, <2>4 DEF OpenAt
  <2>6. QED
    BY <1>1, <2>3, <2>5 DEF AheadOnly
<1>8. AheadOnly'
  BY <1>7 DEF AheadOnly
<1>9. QED
  BY <1>4, <1>6, <1>8

\* A page that failed is counted, and its failure is the one left open (record_failure).
LEMMA RecordExact ==
    ASSUME Typed, Exact, Alone, NEW w \in Workers, Record(w)
    PROVE  InHand(w)' /\ CountersTell' /\ AheadOnly'
<1>0. /\ row \in Row /\ mem[w] \in Row /\ failures \in Seq(FailureRow) /\ Len(failures) \in Nat
      /\ pc \in [Workers -> Steps] /\ page[w] \in Pages /\ MaxPages \in Nat
  BY ScrapeAssumption DEF Record, Typed, RunOK, WorkersOK, AtRealPage, AtPageSteps
<1>1. /\ mem[w] = row /\ page[w] = checkpoint /\ found[w] \in OpenAt(page[w])
      /\ CountersTell /\ AheadOnly
  BY DEF Record, Exact, InHand, SessionSteps, AtPageSteps
<1>2. Commit(w, CountFailed(mem[w])) /\ checkpoint' = checkpoint /\ pc'[w] = "raised"
  BY <1>0 DEF Record, Leave, Goto
<1>3. row' = CountFailed(row) /\ CountFailed(row) \in Row
  BY <1>0, <1>1, <1>2, CommitAlone, CountedTyped
<1>4. InHand(w)'
  BY <1>2 DEF InHand, SessionSteps, AtPageSteps
<1>5. /\ row.processed \in Nat /\ row.success \in Nat /\ row.failed \in Nat
      /\ row'.processed = row.processed + 1 /\ row'.success = row.success
      /\ row'.failed = row.failed + 1 /\ row'.status = "PARTIAL"
  BY <1>0, <1>3 DEF CountFailed, Row
<1>6. CASE found[w] # 0
  <2>1. failures' = failures
    BY <1>6 DEF Record
  <2>2. QED
    BY <1>0, <1>1, <1>2, <1>4, <1>5, <2>1 DEF CountersTell, AheadOnly, Open
<1>7. CASE found[w] = 0
  <2> DEFINE new == [page |-> page[w], open |-> TRUE]
             n == Len(failures) + 1
  <2>1. failures' = Append(failures, new)
    BY <1>7 DEF Record
  <2>2. Open = {}
    <3>1. SUFFICES ASSUME NEW i \in Open PROVE FALSE
      OBVIOUS
    <3>2. failures[i].page = page[w]
      BY <1>1 DEF AheadOnly
    <3>3. 0 \in Open
      BY <1>1, <1>7, <3>2 DEF OpenAt
    <3>4. QED
      BY <1>0, <3>3 DEF Open
  <2>3. Len(failures') = n /\ new \in FailureRow
    BY <1>0, <2>1, FailuresTyped DEF FailureRow
  <2>4. /\ DOMAIN failures' = 1 .. n /\ failures'[n] = new
        /\ \A i \in 1 .. Len(failures) : failures'[i] = failures[i]
    BY <1>0, <2>1
  <2>5. Open' = {n}
    BY <1>0, <2>2, <2>4 DEF Open
  <2>6. AheadOnly'
    BY <1>1, <1>2, <2>4, <2>5 DEF AheadOnly
  <2>7. CountersTell'
    BY <1>0, <1>1, <1>2, <1>5, <2>3 DEF CountersTell
  <2>8. QED
    BY <1>4, <2>6, <2>7
<1>8. QED
  BY <1>6, <1>7

\* A worker that is not at a page of the run.
LEMMA WorkExact ==
    ASSUME Typed, Whole, Exact, Alone, Alone', NEW w \in Workers,
           Work(w) \/ Raise(w) \/ Crash(w), ~Save(w), ~Record(w)
    PROVE  InHand(w)' /\ CountersTell' /\ AheadOnly'
<1>0. /\ row \in Row /\ mem \in [Workers -> Row] /\ MaxPages \in Nat
      /\ pc \in [Workers -> Steps] /\ page \in [Workers -> 0 .. MaxPages]
      /\ found \in [Workers -> Nat] /\ checkpoint \in 0 .. MaxPages
  BY ScrapeAssumption DEF Typed, RunOK, WorkersOK
<1>1. InHand(w) /\ CountersTell /\ AheadOnly
  BY DEF Exact
<1>2. ASSUME pc'[w] \notin SessionSteps PROVE InHand(w)'
  BY <1>2 DEF InHand, SessionSteps, AtPageSteps
<1>3. ASSUME NEW s \in Statuses \ {"COMPLETED"}, row' = [row EXCEPT !.status = s],
             UNCHANGED <<checkpoint, failures>>
      PROVE  CountersTell' /\ AheadOnly'
  <2>1. /\ row'.status = s /\ row'.processed = row.processed /\ row'.success = row.success
        /\ row'.failed = row.failed
    BY <1>0, <1>3 DEF Row
  <2>2. QED
    BY <1>1, <1>3, <2>1 DEF CountersTell, AheadOnly, Open
<1>4. ASSUME NEW s \in Statuses, Commit(w, [mem[w] EXCEPT !.status = s]), mem[w] = row
      PROVE  row' = [row EXCEPT !.status = s]
  <2>1. [row EXCEPT !.status = s] \in Row
    BY <1>0 DEF Row
  <2>2. QED
    BY <1>0, <1>4, <2>1, CommitAlone
<1>5. CASE Load(w)
  <2>1. UNCHANGED <<row, checkpoint, failures>>
    BY <1>5 DEF Load, runVars
  <2>2. pc'[w] = "raised" \/ (pc'[w] = "starting" /\ mem'[w] = row)
    BY <1>0, <1>5 DEF Load, Leave, Goto
  <2>3. InHand(w)'
    BY <2>1, <2>2 DEF InHand, SessionSteps, AtPageSteps
  <2>4. QED
    BY <1>1, <2>1, <2>3, RunKept
<1>6. CASE Begin(w)
  <2>1. UNCHANGED <<checkpoint, failures>> /\ mem[w] = row
    BY <1>1, <1>6 DEF Begin, InHand, SessionSteps
  <2>2. CASE Finished(w)
    <3>1. pc'[w] = "acking" /\ row' = row
      BY <1>0, <1>6, <2>2 DEF Begin, Leave, Goto
    <3>2. QED
      BY <1>1, <1>2, <2>1, <3>1, RunKept DEF SessionSteps, AtPageSteps
  <2>3. CASE ~Finished(w)
    <3>1. /\ Commit(w, [mem[w] EXCEPT !.status = "RUNNING"])
          /\ mem'[w] = [mem[w] EXCEPT !.status = "RUNNING"]
          /\ page'[w] = checkpoint /\ pc'[w] = AtPage(checkpoint)
      BY <1>0, <1>6, <2>3 DEF Begin, ResumePage, Goto
    <3>2. row' = [row EXCEPT !.status = "RUNNING"]
      BY <1>4, <2>1, <3>1 DEF Statuses
    <3>3. InHand(w)'
      BY <2>1, <3>1, <3>2 DEF InHand, AtPage
    <3>4. QED
      BY <1>3, <2>1, <3>2, <3>3 DEF Statuses
  <2>4. QED
    BY <2>2, <2>3
<1>7. CASE Fetch(w)
  <2>1. /\ UNCHANGED <<row, checkpoint, failures, mem, page>>
        /\ pc'[w] \in {"saving", "recording"} /\ found'[w] \in OpenAt(page[w])
    BY <1>0, <1>7 DEF Fetch, Store, Goto
  <2>2. pc[w] = "fetching"
    BY <1>7 DEF Fetch
  <2>3. OpenAt(page[w])' = OpenAt(page[w])
    BY <2>1 DEF OpenAt, Open
  <2>4. InHand(w)'
    BY <1>1, <2>1, <2>2, <2>3 DEF InHand, SessionSteps, AtPageSteps
  <2>5. QED
    BY <1>1, <2>1, <2>4, RunKept
<1>8. CASE Complete(w)
  <2>1. /\ pc[w] = "completing" /\ pc'[w] = "acking" /\ UNCHANGED <<checkpoint, failures>>
        /\ Commit(w, [mem[w] EXCEPT !.status = "COMPLETED"])
    BY <1>0, <1>8 DEF Complete, Leave, Goto
  <2>2. mem[w] = row /\ checkpoint = MaxPages
    BY <1>1, <2>1 DEF InHand, SessionSteps, Whole, ExecutionOK
  <2>3. row' = [row EXCEPT !.status = "COMPLETED"]
    BY <1>4, <2>1, <2>2 DEF Statuses
  <2>4. row'.processed = row.processed /\ row'.success = row.success /\ row'.failed = row.failed
    BY <1>0, <2>3 DEF Row
  <2>5. CountersTell' /\ AheadOnly'
    BY <1>1, <2>1, <2>2, <2>4 DEF CountersTell, AheadOnly, Open
  <2>6. QED
    BY <1>2, <2>1, <2>5 DEF SessionSteps, AtPageSteps
<1>9. CASE GiveUp(w)
  <2>1. /\ UNCHANGED <<row, checkpoint, failures>>
        /\ pc'[w] = "acking" \/ (pc'[w] = "marking" /\ mem'[w] = row)
    BY <1>0, <1>9 DEF GiveUp, Goto, runVars
  <2>2. InHand(w)'
    BY <2>1 DEF InHand, SessionSteps, AtPageSteps
  <2>3. QED
    BY <1>1, <2>1, <2>2, RunKept
<1>10. CASE MarkFailed(w)
  <2>1. /\ pc[w] = "marking" /\ pc'[w] = "acking" /\ UNCHANGED <<checkpoint, failures>>
        /\ row' = row \/ Commit(w, [mem[w] EXCEPT !.status = "FAILED"])
    BY <1>0, <1>10 DEF MarkFailed, Leave, Goto
  <2>2. mem[w] = row
    BY <1>1, <2>1 DEF InHand, SessionSteps
  <2>3. CountersTell' /\ AheadOnly'
    BY <1>1, <1>3, <1>4, <2>1, <2>2, RunKept DEF Statuses
  <2>4. QED
    BY <1>2, <2>1, <2>3 DEF SessionSteps, AtPageSteps
<1>11. CASE Raise(w) \/ Retry(w) \/ Acknowledge(w) \/ Crash(w)
  <2>1. UNCHANGED <<row, checkpoint, failures>> /\ pc'[w] \in {"raised", "acking", "idle"}
    BY <1>0, <1>11 DEF Raise, Retry, Acknowledge, Crash, Idle, Leave, Goto, runVars
  <2>2. QED
    BY <1>1, <1>2, <2>1, RunKept DEF SessionSteps, AtPageSteps
<1>12. QED
  BY <1>5, <1>6, <1>7, <1>8, <1>9, <1>10, <1>11 DEF Work

\* A run that is not started has nothing to count.
LEMMA InitExact == Init => Exact
<1> SUFFICES ASSUME Init PROVE Exact
  OBVIOUS
<1>1. /\ row = NoRun /\ checkpoint = 0 /\ failures = <<>> /\ Len(failures) = 0
      /\ \A w \in Workers : pc[w] = "idle"
  BY DEF Init
<1>2. Unstarted
  BY <1>1 DEF Init, Unstarted
<1>3. CountersTell
  BY <1>1 DEF CountersTell, NoRun
<1>4. Open = {}
  BY <1>1 DEF Open
<1>5. OneBusy /\ \A w \in Workers : InHand(w)
  BY <1>1 DEF OneBusy, InHand, SessionSteps, AtPageSteps
<1>6. QED
  BY <1>2, <1>3, <1>4, <1>5 DEF Exact, AheadOnly

\* Every step keeps Exact.
LEMMA StepExact ==
    ASSUME Typed, Whole, Exact, [Next]_vars
    PROVE  Exact'
<1>0. pc \in [Workers -> Steps] /\ row \in Row
  BY DEF Typed, WorkersOK, RunOK
<1>1. Unstarted'
  BY StepUnstarted DEF Exact
<1>2. SUFFICES ASSUME Alone'
               PROVE  OneBusy' /\ (\A w \in Workers : InHand(w)') /\ CountersTell' /\ AheadOnly'
  BY <1>1 DEF Exact
<1>3. CASE RetryFailures \/ Dispatch \/ Redeliver \/ UNCHANGED vars
  <2>1. UNCHANGED <<row, checkpoint, failures, pc, mem, page, found, overlapped>>
    BY <1>3 DEF RetryFailures, Dispatch, Redeliver, vars, runVars, taskVars, history
  <2>2. Alone
    BY <1>2, <2>1 DEF Alone
  <2>3. \A w \in Workers : InHand(w)'
    BY <2>1, <2>2 DEF Exact, InHand, OpenAt, Open
  <2>4. OneBusy'
    BY <2>1, <2>2 DEF Exact, OneBusy
  <2>5. QED
    BY <2>1, <2>2, <2>3, <2>4, RunKept DEF Exact
<1>4. CASE Start
  <2>1. /\ row.status = "NONE" /\ row' = [row EXCEPT !.status = "PENDING"]
        /\ UNCHANGED <<checkpoint, failures, pc, overlapped>>
    BY <1>4 DEF Start, taskVars, history
  <2>2. \A w \in Workers : pc'[w] = "idle"
    BY <2>1 DEF Exact, Unstarted
  <2>3. Alone
    BY <1>2, <2>1 DEF Alone
  <2>4. /\ row'.status = "PENDING" /\ row'.processed = row.processed
        /\ row'.success = row.success /\ row'.failed = row.failed
    BY <1>0, <2>1 DEF Row
  <2>5. CountersTell' /\ AheadOnly'
    BY <2>1, <2>3, <2>4 DEF Exact, CountersTell, AheadOnly, Open
  <2>6. QED
    BY <2>2, <2>5 DEF OneBusy, InHand, SessionSteps, AtPageSteps
<1>5. ASSUME NEW w \in Workers, Work(w) \/ Raise(w) \/ Crash(w)
      PROVE  OneBusy' /\ (\A v \in Workers : InHand(v)') /\ CountersTell' /\ AheadOnly'
  <2>1. Alone
    BY <1>2, <1>5 DEF Alone, Work, Load, Begin, Fetch, Save, Record, Complete, Raise, Retry, GiveUp,
       MarkFailed, Acknowledge, Crash, history
  <2>2. \A v \in Workers \ {w} : pc'[v] = pc[v]
    BY <1>0, <1>5 DEF Work, Load, Begin, Fetch, Save, Record, Complete, Raise, Retry, GiveUp,
       MarkFailed, Acknowledge, Crash, Idle, Leave, Goto
  <2>3. \A v \in Workers \ {w} : pc[v] = "idle"
    <3>1. CASE Load(w)
      BY <1>2, <3>1 DEF Load, Alone
    <3>2. CASE ~Load(w)
      <4>1. pc[w] # "idle"
        BY <1>5, <3>2 DEF Work, Begin, Fetch, Save, Record, Complete, Raise, Retry, GiveUp,
           MarkFailed, Acknowledge, Crash
      <4>2. QED
        BY <2>1, <4>1 DEF Exact, OneBusy
    <3>3. QED
      BY <3>1, <3>2
  <2>4. InHand(w)' /\ CountersTell' /\ AheadOnly'
    BY <1>2, <1>5, <2>1, SaveExact, RecordExact, WorkExact
  <2>5. QED
    BY <2>2, <2>3, <2>4, OneInHand
<1>6. QED
  BY <1>3, <1>4, <1>5 DEF Next

\* Types, whole pages and exact counters hold together.
LEMMA StepAll ==
    ASSUME Typed, Whole, Exact, [Next]_vars
    PROVE  Typed' /\ Whole' /\ Exact'
  BY StepTyped, StepWhole, StepExact

\* While executions do not overlap, the only failure left unresolved is one of
\* the page that comes next: a retry meets it, and a completed run leaves none
\* (unresolved_failure, run).
THEOREM OpenFailuresAreNext == Spec => []FailuresAreAhead
<1>1. Init => Typed /\ Whole /\ Exact
  BY InitTyped, InitWhole, InitExact
<1>2. Typed /\ Whole /\ Exact /\ [Next]_vars => (Typed /\ Whole /\ Exact)'
  BY StepAll
<1>3. Exact => FailuresAreAhead
  <2> SUFFICES ASSUME Exact, Alone
               PROVE  (\A i \in Open : failures[i].page = checkpoint) /\ Cardinality(Open) <= 1
    BY DEF FailuresAreAhead
  <2>1. AheadOnly
    BY DEF Exact
  <2>2. CASE Open = {}
    BY <2>2, FS_EmptySet
  <2>3. ASSUME NEW i \in Open PROVE Cardinality(Open) <= 1
    <3>1. Open = {i}
      BY <2>1 DEF AheadOnly
    <3>2. Cardinality({i}) = 1
      BY FS_Singleton
    <3>3. QED
      BY <3>1, <3>2
  <2>4. QED
    BY <2>1, <2>2, <2>3 DEF AheadOnly
<1>4. QED
  BY <1>1, <1>2, <1>3, PTL DEF Spec

-----------------------------------------------------------------------------
(* Pages are stored once                                                   *)

\* Of workers of which one at most is busy, one at most is saving.
LEMMA SavingCounts ==
    ASSUME NEW p, \A v, w \in Workers : p[v] # "idle" /\ p[w] # "idle" => v = w,
           NEW w \in Workers, \A v \in Workers \ {w} : p[v] = "idle"
    PROVE  Cardinality({v \in Workers : p[v] = "saving"}) = IF p[w] = "saving" THEN 1 ELSE 0
<1>1. CASE p[w] = "saving"
  <2>1. {v \in Workers : p[v] = "saving"} = {w}
    BY <1>1
  <2>2. QED
    BY <1>1, <2>1, FS_Singleton
<1>2. CASE p[w] # "saving"
  <2>1. {v \in Workers : p[v] = "saving"} = {}
    BY <1>2
  <2>2. QED
    BY <1>2, <2>1, FS_EmptySet
<1>3. QED
  BY <1>1, <1>2

\* All objects of the run.
Objects == SumOver(objects, Pages)

\* Storing a page once more adds one object (Store), whatever is there.
LEMMA StoreAdds ==
    ASSUME objects \in [Pages -> Nat], NEW p \in Pages, objects' = [objects EXCEPT ![p] = @ + 1]
    PROVE  Objects' = Objects + 1 /\ Objects \in Nat
<1>1. IsFiniteSet(Pages)
  BY FS_Interval, ScrapeAssumption DEF Pages
<1>2. PICK old, new : old = objects /\ new = objects'
  OBVIOUS
<1>3. SumOver(new, Pages) = SumOver(old, Pages) + 1
  <2>1. \A q \in Pages : old[q] \in Int /\ new[q] \in Int
    BY <1>2
  <2>2. /\ \A q \in Pages \ {p} : old[q] = new[q]
        /\ new[p] = old[p] + 1
    BY <1>2
  <2>3. SumOver(new, Pages) = SumOver(old, Pages) + new[p] - old[p]
    BY <1>1, <2>1, <2>2, SumChanges
  <2>4. SumOver(old, Pages) \in Int /\ old[p] \in Int
    BY <1>1, <2>1, SumTyped
  <2>5. QED
    BY <2>2, <2>3, <2>4
<1>4. Objects \in Nat
  BY <1>1, SumTyped DEF Objects
<1>5. Objects' = SumOver(objects', Pages)
  BY DEF Objects, Pages, SumOver, MapThenSumSet, MapThenFoldSet
<1>6. QED
  BY <1>2, <1>3, <1>4, <1>5 DEF Objects

\* The objects of a run are a number, and the same where nothing is stored.
LEMMA ObjectsKept ==
    /\ \A g \in [Pages -> Nat] : SumOver(g, Pages) \in Nat
    /\ Objects' = SumOver(objects', Pages)
    /\ objects' = objects => Objects' = Objects
<1>1. IsFiniteSet(Pages)
  BY FS_Interval, ScrapeAssumption DEF Pages
<1>2. ASSUME NEW g \in [Pages -> Nat] PROVE SumOver(g, Pages) \in Nat
  <2>1. \A p \in Pages : g[p] \in Nat
    OBVIOUS
  <2>2. QED
    BY <1>1, <2>1, SumTyped
<1>3. QED
  BY <1>2 DEF Objects, Pages, SumOver, MapThenSumSet, MapThenFoldSet

\* Storing a page (Store) is the only step of run_scrape that adds an object,
\* and it is paid for by the checkpoint that follows it, or by a failure.
LEMMA StepStoredOnce ==
    ASSUME Typed, Exact, Exact', [Next]_vars, Alone => StoredOnce, Alone'
    PROVE  StoredOnce'
<1> DEFINE saving(p) == {v \in Workers : p[v] = "saving"}
<1>1. Alone
  <2>1. CASE Start \/ RetryFailures \/ Dispatch \/ Redeliver \/ UNCHANGED vars
    BY <2>1 DEF Start, RetryFailures, Dispatch, Redeliver, Alone, history, vars
  <2>2. ASSUME NEW w \in Workers, Work(w) \/ Raise(w) \/ Crash(w)
        PROVE  Alone
    BY <2>2 DEF Alone, Work, Load, Begin, Fetch, Save, Record, Complete, Raise, Retry, GiveUp,
       MarkFailed, Acknowledge, Crash, history
  <2>3. QED
    BY <2>1, <2>2 DEF Next
<1>2. OneBusy /\ OneBusy'
  BY <1>1 DEF Exact
<1>3. /\ Objects <= checkpoint + broken + Cardinality(saving(pc))
      /\ Objects \in Nat /\ checkpoint \in Nat /\ broken \in Nat
      /\ Objects' \in Nat /\ checkpoint' \in Nat /\ broken' \in Nat
  <2>1. Typed'
    BY StepTyped
  <2>2. \A n \in 0 .. MaxPages : n \in Nat
    BY ScrapeAssumption
  <2>3. \A n \in 0 .. MaxFailures : n \in Nat
    BY ScrapeAssumption
  <2>4. Objects \in Nat /\ Objects' \in Nat
    <3>1. objects \in [Pages -> Nat] /\ objects' \in [Pages -> Nat]
      BY <2>1 DEF Typed, RunOK, Pages
    <3>2. SumOver(objects, Pages) \in Nat /\ SumOver(objects', Pages) \in Nat
      BY <3>1, ObjectsKept DEF Pages
    <3>3. QED
      BY <3>2, ObjectsKept DEF Objects
  <2>5. QED
    BY <1>1, <2>1, <2>2, <2>3, <2>4 DEF Typed, RunOK, StoredOnce, Objects, SumOver
<1>4. SUFFICES Objects' <= checkpoint' + broken' + Cardinality(saving(pc'))
  <2>1. StoredOnce' <=> Objects' <= checkpoint' + broken' + Cardinality(saving(pc'))
    BY DEF StoredOnce, Objects, Pages, SumOver, MapThenSumSet, MapThenFoldSet
  <2>2. QED
    BY <2>1
<1>5. CASE UNCHANGED <<objects, checkpoint, pc>> /\ broken' \in {broken, broken + 1}
  <2>1. Objects' = Objects /\ saving(pc') = saving(pc)
    BY <1>5, ObjectsKept
  <2>2. Cardinality(saving(pc)) \in Nat
    <3>1. ASSUME NEW w \in Workers, pc[w] # "idle"
          PROVE  Cardinality(saving(pc)) \in Nat
      BY <1>2, <3>1, SavingCounts DEF OneBusy
    <3>2. CASE saving(pc) = {}
      BY <3>2, FS_EmptySet
    <3>3. QED
      BY <3>1, <3>2
  <2>3. QED
    BY <1>3, <1>5, <2>1, <2>2
<1>6. ASSUME NEW w \in Workers, Work(w) \/ Raise(w) \/ Crash(w)
      PROVE  Objects' <= checkpoint' + broken' + Cardinality(saving(pc'))
  <2>1. \A v \in Workers \ {w} : pc'[v] = pc[v]
    BY <1>6 DEF Typed, WorkersOK, Work, Load, Begin, Fetch, Save, Record, Complete, Raise, Retry,
       GiveUp, MarkFailed, Acknowledge, Crash, Idle, Leave, Goto
  <2>2. pc[w] # "idle" \/ pc'[w] # "idle"
    BY <1>6 DEF Typed, WorkersOK, Work, Load, Begin, Fetch, Save, Record, Complete, Raise, Retry,
       GiveUp, MarkFailed, Acknowledge, Crash, Idle, Leave, Goto
  <2>3. \A v \in Workers \ {w} : pc[v] = "idle" /\ pc'[v] = "idle"
    BY <1>2, <2>1, <2>2 DEF OneBusy
  <2>4. Cardinality(saving(pc)) = IF pc[w] = "saving" THEN 1 ELSE 0
    BY <1>2, <2>3, SavingCounts DEF OneBusy
  <2>5. Cardinality(saving(pc')) = IF pc'[w] = "saving" THEN 1 ELSE 0
    BY <1>2, <2>3, SavingCounts DEF OneBusy
  <2>6. CASE Fetch(w)
    <3>1. pc[w] = "fetching" /\ UNCHANGED <<checkpoint, broken>>
      BY <2>6 DEF Fetch, Store, bounds
    <3>2. CASE Store(page[w]) /\ Goto(w, "saving")
      <4>1. page[w] \in Pages
        BY <3>1 DEF Typed, AtRealPage, AtPageSteps
      <4>2. Objects' = Objects + 1
        BY <3>2, <4>1, StoreAdds DEF Store, Typed, RunOK
      <4>3. pc'[w] = "saving"
        BY <3>2 DEF Goto, Typed, WorkersOK
      <4>4. QED
        BY <1>3, <2>4, <2>5, <3>1, <4>2, <4>3
    <3>3. CASE UNCHANGED objects
      BY <1>3, <2>4, <2>5, <3>1, <3>3, ObjectsKept
    <3>4. QED
      BY <2>6, <3>2, <3>3 DEF Fetch
  <2>7. CASE Save(w)
    <3>1. /\ pc[w] = "saving" /\ checkpoint' = page[w] + 1
          /\ UNCHANGED <<objects, broken>>
      BY <2>7 DEF Save, bounds
    <3>2. page[w] = checkpoint
      BY <1>1, <3>1 DEF Exact, InHand, AtPageSteps
    <3>3. pc'[w] # "saving"
      BY <2>7 DEF Save, Goto, AtPage, Typed, WorkersOK
    <3>4. QED
      BY <1>3, <2>4, <2>5, <3>1, <3>2, <3>3, ObjectsKept
  <2>8. CASE Raise(w) \/ Crash(w)
    <3>1. UNCHANGED <<objects, checkpoint>> /\ broken' = broken + 1
      BY <2>8 DEF Raise, Crash, Failure, runVars
    <3>2. QED
      BY <1>3, <2>4, <2>5, <3>1, ObjectsKept
  <2>9. CASE \/ Load(w) \/ Begin(w) \/ Record(w) \/ Complete(w) \/ Retry(w) \/ GiveUp(w)
             \/ MarkFailed(w) \/ Acknowledge(w)
    <3>1. UNCHANGED <<objects, checkpoint>> /\ broken' \in {broken, broken + 1}
      BY <2>9 DEF Load, Begin, Record, Complete, Retry, GiveUp, MarkFailed, Acknowledge, Failure,
         runVars, bounds
    <3>2. pc[w] # "saving" /\ pc'[w] # "saving"
      BY <2>9 DEF Load, Begin, Record, Complete, Retry, GiveUp, MarkFailed, Acknowledge, Idle,
         Leave, Goto, AtPage, Typed, WorkersOK
    <3>3. Objects' = Objects
      BY <3>1, ObjectsKept
    <3>4. Cardinality(saving(pc)) = 0 /\ Cardinality(saving(pc')) = 0
      BY <2>4, <2>5, <3>2
    <3>5. broken <= broken'
      BY <1>3, <3>1
    <3>6. Objects <= checkpoint + broken
      BY <1>3, <3>4
    <3>7. Objects' <= checkpoint' + broken'
      <4>1. checkpoint' = checkpoint
        BY <3>1
      <4>2. \A n, c, b, d \in Nat : n <= c + b /\ b <= d => n <= c + d
        OBVIOUS
      <4>3. Objects <= checkpoint + broken'
        BY <1>3, <3>5, <3>6, <4>2
      <4>4. QED
        BY <3>3, <4>1, <4>3
    <3>8. checkpoint' \in Int /\ broken' \in Int
      BY <1>3, <3>1
    <3>9. QED
      BY <3>4, <3>7, <3>8
  <2>10. QED
    BY <1>6, <2>6, <2>7, <2>8, <2>9 DEF Work
<1>7. CASE Start \/ RetryFailures \/ Dispatch \/ Redeliver \/ UNCHANGED vars
  <2>1. UNCHANGED <<objects, checkpoint, pc>> /\ broken' \in {broken, broken + 1}
    BY <1>7 DEF Start, RetryFailures, Dispatch, Redeliver, Repeat, Failure, runVars, taskVars, bounds,
       vars
  <2>2. QED
    BY <1>5, <2>1
<1>8. QED
  BY <1>6, <1>7 DEF Next

\* While executions do not overlap, the committed counters tell the pages the
\* checkpoint covers and at least the failures recorded, a run completes at its
\* last page, and a page is stored a second time only after an execution that
\* died or raised before its checkpoint (run, update_run): for any number of
\* pages, retries, deaths and repeated messages.
THEOREM CountersAreExact == Spec => []CountersFollowPages
<1> DEFINE Once == Alone => StoredOnce
<1>1. Init => Typed /\ Whole /\ Exact /\ Once
  <2>1. Init => Typed /\ Whole /\ Exact
    BY InitTyped, InitWhole, InitExact
  <2>2. ASSUME Init PROVE StoredOnce
    <3>1. IsFiniteSet(Pages)
      BY FS_Interval, ScrapeAssumption DEF Pages
    <3>2. /\ checkpoint = 0 /\ broken = 0 /\ \A p \in Pages : objects[p] = 0
          /\ {w \in Workers : pc[w] = "saving"} = {}
      BY <2>2 DEF Init
    <3>3. SumOver(objects, Pages) = 0
      BY <3>1, <3>2, SumOfZeros
    <3>4. QED
      BY <3>2, <3>3, FS_EmptySet DEF StoredOnce, SumOver
  <2>3. QED
    BY <2>1, <2>2
<1>2. Typed /\ Whole /\ Exact /\ Once /\ [Next]_vars => (Typed /\ Whole /\ Exact /\ Once)'
  <2> SUFFICES ASSUME Typed, Whole, Exact, Once, [Next]_vars
               PROVE  Typed' /\ Whole' /\ Exact' /\ Once'
    OBVIOUS
  <2>1. Typed' /\ Whole' /\ Exact'
    BY StepAll
  <2>2. QED
    BY <2>1, StepStoredOnce
<1>3. Exact /\ Once => CountersFollowPages
  BY DEF Exact, CountersFollowPages
<1>4. QED
  BY <1>1, <1>2, <1>3, PTL DEF Spec
-----------------------------------------------------------------------------
(* A run that is not settled is pursued                                    *)

\* What RunSettles asks for in the end.
Settled == row.status \in {"NONE", "COMPLETED", "FAILED"} \/ lost

\* A worker that will settle the run, send a message or hand it on: not one that
\* found it completed, or found it failed when it was about to mark it.
Pursues(w) ==
    \/ pc[w] \in AtPageSteps \cup {"completing", "raised"}
    \/ pc[w] = "starting" /\ mem[w].status # "COMPLETED"
    \/ pc[w] = "marking" /\ mem[w].status # "FAILED"
Waiting == requests > 0 \/ \E k \in 0 .. MaxRetries : queue[k] > 0
Running == \A w \in Workers : pc[w] \in AtPageSteps \cup {"completing"} => mem[w].status = "RUNNING"
Pursued == Running /\ (Settled \/ Waiting \/ \E w \in Workers : Pursues(w))

\* No request, execution or redelivery is left, and the run is not settled: never.
SettledWhenQuiet == Quiet => Settled

\* A worker at work changes its own place and memory only.
LEMMA OthersPursue ==
    ASSUME Typed, NEW w \in Workers, Work(w) \/ Raise(w) \/ Crash(w)
    PROVE  \A v \in Workers \ {w} : pc'[v] = pc[v] /\ mem'[v] = mem[v]
  BY DEF Typed, WorkersOK, Work, Load, Begin, Fetch, Save, Record, Complete, Raise, Retry, GiveUp,
         MarkFailed, Acknowledge, Idle, Crash, Leave, Goto

\* The status of the row after a commit.
LEMMA StatusCommitted ==
    ASSUME row \in Row, NEW w \in Workers, NEW new, Commit(w, new)
    PROVE  row'.status = IF new.status = mem[w].status THEN row.status ELSE new.status
<1>1. "status" \in DOMAIN row
  BY DEF Row
<1>2. QED
  BY <1>1 DEF Commit

\* An execution is RUNNING in its own session until it leaves it.
LEMMA StaysRunning ==
    ASSUME Typed, Running, NEW w \in Workers, Work(w) \/ Raise(w) \/ Crash(w)
    PROVE  Running'
<1> DEFINE Busy == AtPageSteps \cup {"completing"}
<1>1. /\ pc \in [Workers -> Steps] /\ mem \in [Workers -> Row]
      /\ pc[w] \in Busy => mem[w].status = "RUNNING"
  BY DEF Typed, WorkersOK, Running
<1>2. CASE Begin(w)
  <2>1. CASE Finished(w)
    BY <1>1, <1>2, <2>1 DEF Begin, Leave, Goto, AtPageSteps, Running
  <2>2. CASE ~Finished(w)
    <3>1. mem' = [mem EXCEPT ![w] = [mem[w] EXCEPT !.status = "RUNNING"]]
      BY <1>2, <2>2 DEF Begin
    <3>2. mem'[w].status = "RUNNING"
      BY <1>1, <3>1 DEF Row
    <3>3. QED
      BY <3>2, OthersPursue DEF Running
  <2>3. QED
    BY <2>1, <2>2
<1>3. CASE Fetch(w) \/ Save(w)
  <2>1. pc[w] \in Busy /\ (mem' = mem \/ mem' = [mem EXCEPT ![w] = CountStored(@)])
    BY <1>3 DEF Fetch, Save, AtPageSteps
  <2>2. mem'[w].status = "RUNNING"
    BY <1>1, <2>1 DEF CountStored, Row
  <2>3. QED
    BY <2>2, OthersPursue DEF Running
<1>4. CASE ~(Begin(w) \/ Fetch(w) \/ Save(w))
  <2>1. pc'[w] \notin Busy
    BY <1>1, <1>4 DEF Work, Load, Record, Complete, Raise, Retry, GiveUp, MarkFailed,
                      Acknowledge, Idle, Crash, Leave, Goto, AtPageSteps
  <2>2. QED
    BY <2>1, OthersPursue DEF Running
<1>5. QED
  BY <1>2, <1>3, <1>4

\* What a worker does settles the run or leaves it pursued, unless the worker did not
\* pursue it and leaves row and messages as they are.
LEMMA WorkerPursues ==
    ASSUME Typed, Running, NEW w \in Workers, Work(w) \/ Raise(w) \/ Crash(w)
    PROVE  \/ Settled' \/ Waiting' \/ Pursues(w)'
           \/ UNCHANGED <<row, lost, requests, queue>> /\ ~Pursues(w)
<1>1. /\ pc \in [Workers -> Steps] /\ mem \in [Workers -> Row] /\ row \in Row
      /\ queue \in [0 .. MaxRetries -> Nat] /\ retries[w] \in 0 .. MaxRetries
  BY DEF Typed, WorkersOK, RunOK
<1>2. CASE Load(w)
  <2>1. \/ pc'[w] = "starting" /\ mem'[w] = row /\ row' = row
        \/ pc'[w] = "raised"
    BY <1>1, <1>2 DEF Load, Goto, Leave, runVars
  <2>2. QED
    BY <2>1 DEF Settled, Pursues
<1>3. CASE Begin(w)
  <2>1. CASE Finished(w)
    BY <1>3, <2>1 DEF Begin, Finished, Pursues, AtPageSteps, history
  <2>2. CASE ~Finished(w)
    BY <1>1, <1>3, <2>2 DEF Begin, Goto, AtPage, Pursues, AtPageSteps
  <2>3. QED
    BY <2>1, <2>2
<1>4. CASE Fetch(w) \/ Save(w) \/ Record(w) \/ Raise(w)
  <2>1. pc'[w] \in AtPageSteps \cup {"completing", "raised"}
    BY <1>1, <1>4 DEF Fetch, Save, Record, Raise, Leave, Goto, AtPage, AtPageSteps
  <2>2. QED
    BY <2>1 DEF Pursues
<1>5. CASE Complete(w)
  <2> DEFINE new == [mem[w] EXCEPT !.status = "COMPLETED"]
  <2>1. Commit(w, new) /\ mem[w].status = "RUNNING" /\ new.status = "COMPLETED"
    BY <1>1, <1>5 DEF Complete, Running, AtPageSteps, Row
  <2> HIDE DEF new
  <2>2. row'.status = "COMPLETED"
    BY <1>1, <2>1, StatusCommitted
  <2>3. QED
    BY <2>2 DEF Settled
<1>6. CASE Retry(w) \/ Crash(w)
  <2>1. lost' = TRUE \/ \E k \in 0 .. MaxRetries : queue' = [queue EXCEPT ![k] = @ + 1]
    <3>1. CASE Retry(w)
      <4>1. retries[w] + 1 \in 0 .. MaxRetries
        BY <1>1, <3>1, ScrapeAssumption DEF Retry
      <4>2. QED
        BY <3>1, <4>1 DEF Retry
    <3>2. CASE Crash(w)
      BY <1>1, <3>2 DEF Crash
    <3>3. QED
      BY <1>6, <3>1, <3>2
  <2>2. CASE lost' = TRUE
    BY <2>2 DEF Settled
  <2>3. ASSUME NEW k \in 0 .. MaxRetries, queue' = [queue EXCEPT ![k] = @ + 1]
        PROVE  Waiting'
    <3>1. queue'[k] = queue[k] + 1 /\ queue[k] \in Nat
      BY <1>1, <2>3
    <3>2. queue'[k] > 0
      BY <3>1
    <3>3. QED
      BY <3>2 DEF Waiting
  <2>4. QED
    BY <2>1, <2>2, <2>3
<1>7. CASE GiveUp(w)
  <2>1. \/ row.status = "COMPLETED"
        \/ pc'[w] = "marking" /\ mem'[w] = row
    BY <1>1, <1>7 DEF GiveUp, Failable, Goto
  <2>2. row' = row
    BY <1>7 DEF GiveUp, runVars
  <2>3. QED
    BY <2>1, <2>2 DEF Settled, Pursues
<1>8. CASE MarkFailed(w)
  <2> DEFINE new == [mem[w] EXCEPT !.status = "FAILED"]
  <2>1. /\ pc[w] = "marking" /\ UNCHANGED <<requests, queue>>
        /\ lost' = TRUE \/ (Commit(w, new) /\ UNCHANGED lost)
    BY <1>8 DEF MarkFailed
  <2>2. CASE lost' = TRUE
    BY <2>2 DEF Settled
  <2>3. CASE Commit(w, new) /\ UNCHANGED lost
    <3>1. new.status = "FAILED"
      BY <1>1 DEF Row
    <3>2. CASE mem[w].status # "FAILED"
      BY <1>1, <2>3, <3>1, <3>2, StatusCommitted DEF Settled
    <3>3. CASE mem[w].status = "FAILED"
      <4>1. new = mem[w]
        BY <1>1, <3>3 DEF Row
      <4>2. row' = row
        <5>1. row' = [c \in DOMAIN row |-> row[c]]
          BY <2>3, <4>1 DEF Commit
        <5>2. QED
          BY <1>1, <5>1 DEF Row
      <4>3. ~Pursues(w)
        BY <2>1, <3>3 DEF Pursues, AtPageSteps
      <4>4. QED
        BY <2>1, <2>3, <4>2, <4>3
    <3>4. QED
      BY <3>2, <3>3
  <2>4. QED
    BY <2>1, <2>2, <2>3
<1>9. CASE Acknowledge(w)
  BY <1>9 DEF Acknowledge, Pursues, AtPageSteps, runVars, history
<1>10. QED
  BY <1>2, <1>3, <1>4, <1>5, <1>6, <1>7, <1>8, <1>9 DEF Work

\* An operator's request waits for its message or is lost, and a message that comes
\* again waits.
LEMMA RequestsPursue ==
    ASSUME Typed, Start \/ RetryFailures \/ Dispatch \/ Redeliver
    PROVE  UNCHANGED <<pc, mem>> /\ (Settled' \/ Waiting')
<1>1. UNCHANGED <<pc, mem>>
  BY DEF Start, RetryFailures, Dispatch, Redeliver, taskVars
<1>2. requests \in Nat /\ queue \in [0 .. MaxRetries -> Nat] /\ 0 \in 0 .. MaxRetries
  BY ScrapeAssumption DEF Typed, RunOK
<1>3. CASE Start \/ RetryFailures
  BY <1>1, <1>2, <1>3 DEF Start, RetryFailures, Waiting
<1>4. CASE Dispatch
  <2>1. lost' = TRUE \/ queue' = [queue EXCEPT ![0] = @ + 1]
    BY <1>4 DEF Dispatch
  <2>2. CASE lost' = TRUE
    BY <1>1, <2>2 DEF Settled
  <2>3. CASE queue' = [queue EXCEPT ![0] = @ + 1]
    BY <1>1, <1>2, <2>3 DEF Waiting
  <2>4. QED
    BY <2>1, <2>2, <2>3
<1>5. CASE Redeliver
  BY <1>1, <1>2, <1>5 DEF Redeliver, Waiting
<1>6. QED
  BY <1>1, <1>3, <1>4, <1>5

\* Every step leaves the run settled or pursued.
LEMMA StepPursued ==
    ASSUME Typed, Pursued, [Next]_vars
    PROVE  Pursued'
<1>1. CASE Start \/ RetryFailures \/ Dispatch \/ Redeliver
  BY <1>1, RequestsPursue DEF Pursued, Running
<1>2. CASE UNCHANGED vars
  BY <1>2 DEF vars, runVars, taskVars, history, Pursued, Running, Settled, Waiting, Pursues
<1>3. ASSUME NEW w \in Workers, Work(w) \/ Raise(w) \/ Crash(w) PROVE Pursued'
  <2>1. Running'
    BY <1>3, StaysRunning DEF Pursued
  <2>2. CASE Settled' \/ Waiting' \/ Pursues(w)'
    BY <2>1, <2>2 DEF Pursued
  <2>3. CASE UNCHANGED <<row, lost, requests, queue>> /\ ~Pursues(w)
    <3>1. \A v \in Workers : Pursues(v) => Pursues(v)'
      BY <1>3, <2>3, OthersPursue DEF Pursues
    <3>2. QED
      BY <2>1, <2>3, <3>1 DEF Pursued, Settled, Waiting
  <2>4. QED
    BY <1>3, <2>2, <2>3, WorkerPursues DEF Pursued
<1>4. QED
  BY <1>1, <1>2, <1>3 DEF Next

\* However its messages overlap, come again or fail: when nothing of the run is under way
\* or waits, it is COMPLETED or FAILED, or was never started (run_scrape, _mark_failed),
\* unless a request or a retry could not be sent, the mark could not be stored, or the time
\* limit ended an execution and its message with it. Nothing else leaves the run PENDING,
\* RUNNING or PARTIAL with nobody at it. RunSettles rests on it.
THEOREM QuietRunsAreSettled == Spec => []SettledWhenQuiet
<1>1. Init => Typed /\ Pursued
  <2>1. Init => Pursued
    BY DEF Init, Pursued, Running, Settled, NoRun, AtPageSteps
  <2>2. QED
    BY <2>1, InitTyped
<1>2. Typed /\ Pursued /\ [Next]_vars => (Typed /\ Pursued)'
  BY StepTyped, StepPursued
<1>3. Typed /\ Pursued => SettledWhenQuiet
  <2> SUFFICES ASSUME Typed, Pursued, Quiet PROVE Settled
    BY DEF SettledWhenQuiet
  <2>1. ~Waiting
    BY DEF Quiet, Waiting, Typed, RunOK
  <2>2. \A w \in Workers : ~Pursues(w)
    BY DEF Quiet, Pursues, AtPageSteps
  <2>3. QED
    BY <2>1, <2>2 DEF Pursued
<1>4. QED
  BY <1>1, <1>2, <1>3, PTL DEF Spec
=============================================================================
