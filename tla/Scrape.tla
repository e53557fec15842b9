-------------------------------- MODULE Scrape --------------------------------
(***************************************************************************)
(* One scrape run: the operator's requests, the messages of run_scrape and *)
(* the executions that fetch pages of listings.                            *)
(*                                                                         *)
(*   - an execution loads the run's row, needs a free slot of the source,  *)
(*     resumes from the checkpoint, stores each page as an object and then *)
(*     commits counters and checkpoint; a failed page is recorded and ends *)
(*     the execution;                                                      *)
(*   - the task retries under its own message a bounded number of times    *)
(*     and then marks the run FAILED; the operator may send it again while *)
(*     failures are unresolved;                                            *)
(*   - a message comes back when its worker dies, and also while it still  *)
(*     runs or waits for its countdown longer than the broker's visibility *)
(*     timeout: executions of one run may overlap; the message of a task   *)
(*     that is killed at its time limit is acknowledged and does not.      *)
(*                                                                         *)
(* Other runs of the source take and free slots at any time, so that an    *)
(* execution may or may not find one.                                      *)
(***************************************************************************)
EXTENDS Integers, Sequences, FiniteSets, FiniteSetsExt

CONSTANTS
    Workers,       \* Celery worker processes
    MaxPages,      \* scope["max_pages"]
    MaxRetries,    \* settings.scraper.max_retries
    MaxRepeats,    \* bound: the operator's retries and the redeliveries
    MaxFailures    \* bound: deaths, lost requests, and exceptions other than those
                   \* of a page

ASSUME ScrapeAssumption ==
    /\ MaxPages \in Nat \ {0} /\ MaxRetries \in Nat \ {0}
    /\ MaxRepeats \in Nat /\ MaxFailures \in Nat

VARIABLES
    row,         \* committed scrape_runs row
    checkpoint,  \* pages the committed checkpoint covers
    failures,    \* scrape_failures: the page, and is it unresolved?
    objects,     \* stored objects of each page
    requests,    \* requests of operators that committed and have not dispatched
    queue,       \* waiting messages by their number of retries
    pc,          \* where each worker is in run_scrape
    retries,     \* request.retries of the message a worker executes
    mem,         \* the row as the worker's session holds it
    page,        \* the page the worker is at
    found,       \* the unresolved failure of that page it found, 0 for none
    overlapped,  \* history: were two executions of the run under way at once?
    lost,        \* history: a message that was never sent, one that went with its
                 \* execution at the time limit, or a failure left unmarked
    repeats, broken  \* how often something came again, and how often something broke

runVars  == <<row, checkpoint, failures, objects>>
taskVars == <<pc, retries, mem, page, found>>
history  == <<overlapped, lost>>
bounds   == <<repeats, broken>>
vars == <<runVars, requests, queue, taskVars, history, bounds>>

Pages    == 0 .. MaxPages - 1
Statuses == {"NONE", "PENDING", "RUNNING", "PARTIAL", "COMPLETED", "FAILED"}
Steps    == {"idle", "starting", "fetching", "saving", "recording",
             "completing", "raised", "marking", "acking"}
Row      == [status: Statuses, processed: Nat, success: Nat, failed: Nat]
FailureRow == [page: Pages, open: BOOLEAN]
NoRun    == [status |-> "NONE", processed |-> 0, success |-> 0, failed |-> 0]

Init ==
    /\ row = NoRun
    /\ checkpoint = 0
    /\ failures = <<>>
    /\ objects = [p \in Pages |-> 0]
    /\ requests = 0
    /\ queue = [k \in 0 .. MaxRetries |-> 0]
    /\ pc = [w \in Workers |-> "idle"]
    /\ retries = [w \in Workers |-> 0]
    /\ mem = [w \in Workers |-> NoRun]
    /\ page = [w \in Workers |-> 0]
    /\ found = [w \in Workers |-> 0]
    /\ overlapped = FALSE /\ lost = FALSE
    /\ repeats = 0 /\ broken = 0

Repeat  == repeats < MaxRepeats /\ repeats' = repeats + 1 /\ UNCHANGED broken
Failure == broken < MaxFailures /\ broken' = broken + 1 /\ UNCHANGED repeats

-----------------------------------------------------------------------------
(* The operator's requests                                                 *)

Start ==
    /\ row.status = "NONE"
    /\ row' = [row EXCEPT !.status = "PENDING"]
    /\ requests' = requests + 1
    /\ UNCHANGED <<checkpoint, failures, objects, queue, taskVars, history, bounds>>

Open == {i \in DOMAIN failures : failures[i].open}

\* The unresolved failures are counted in one transaction; the message is
\* sent after it, whatever the run is doing.
RetryFailures ==
    /\ Open # {} /\ Repeat
    /\ requests' = requests + 1
    /\ UNCHANGED <<runVars, queue, taskVars, history>>

\* The message, or the process dies with the request.
Dispatch ==
    /\ requests > 0
    /\ requests' = requests - 1
    /\ \/ queue' = [queue EXCEPT ![0] = @ + 1] /\ UNCHANGED <<lost, bounds>>
       \/ Failure /\ lost' = TRUE /\ UNCHANGED queue
    /\ UNCHANGED <<runVars, taskVars, overlapped>>

-----------------------------------------------------------------------------
(* run_scrape                                                              *)

Goto(w, step) == pc' = [pc EXCEPT ![w] = step]

\* The session is closed: its objects are gone.
Leave(w, step) ==
    /\ Goto(w, step)
    /\ mem' = [mem EXCEPT ![w] = NoRun]
    /\ page' = [page EXCEPT ![w] = 0] /\ found' = [found EXCEPT ![w] = 0]

\* A commit sets the columns that differ from what the session has read or
\* written, to absolute values.
Commit(w, new) ==
    row' = [c \in DOMAIN row |-> IF new[c] = mem[w][c] THEN row[c] ELSE new[c]]

\* The row is read before a slot is found, or none is: the slots are tried one
\* after the other and not waited for.
Load(w) ==
    /\ pc[w] = "idle"
    /\ \E k \in 0 .. MaxRetries :
          /\ queue[k] > 0
          /\ queue' = [queue EXCEPT ![k] = @ - 1]
          /\ retries' = [retries EXCEPT ![w] = k]
    /\ overlapped' = (overlapped \/ \E v \in Workers \ {w} : pc[v] # "idle")
    /\ \/ Goto(w, "starting") /\ mem' = [mem EXCEPT ![w] = row] /\ UNCHANGED <<page, found>>
       \/ Leave(w, "raised")
    /\ UNCHANGED <<runVars, requests, lost, bounds>>

MUTANT_ResumeAfter == checkpoint + 1
ResumePage == checkpoint

AtPage(p) == IF p < MaxPages THEN "fetching" ELSE "completing"

\* The row is the one loaded before the slot was found.
Finished(w) == mem[w].status = "COMPLETED"
Begin(w) ==
    /\ pc[w] = "starting"
    /\ IF Finished(w)
       THEN Leave(w, "acking") /\ UNCHANGED row
       ELSE LET new == [mem[w] EXCEPT !.status = "RUNNING"]
            IN  /\ Commit(w, new) /\ mem' = [mem EXCEPT ![w] = new]
                /\ page' = [page EXCEPT ![w] = ResumePage]
                /\ Goto(w, AtPage(ResumePage))
                /\ UNCHANGED found
    /\ UNCHANGED <<checkpoint, failures, objects, requests, queue, retries, history, bounds>>

\* One of the unresolved failures of a page, if there is any.
MUTANT_OpenAt(p) == {0}
OpenAt(p) ==
    LET is == {i \in Open : failures[i].page = p} IN IF is = {} THEN {0} ELSE is

\* The checkpoint stays where it is until the page is accounted for.
MUTANT_Store(p) == objects' = [objects EXCEPT ![p] = @ + 1] /\ checkpoint' = p + 1
Store(p) == objects' = [objects EXCEPT ![p] = @ + 1] /\ UNCHANGED checkpoint

\* The page arrives and is stored, or an exception says it was not; the
\* transaction that records which starts with a look for its failure.
Fetch(w) ==
    /\ pc[w] = "fetching"
    /\ \E i \in OpenAt(page[w]) : found' = [found EXCEPT ![w] = i]
    /\ \/ Store(page[w]) /\ Goto(w, "saving")
       \/ Goto(w, "recording") /\ UNCHANGED <<objects, checkpoint>>
    /\ UNCHANGED <<row, failures, requests, queue, retries, mem, page, history, bounds>>

CountStored(r) ==
    [r EXCEPT !.processed = r.processed + 1, !.success = r.success + 1]
CountFailed(r) ==
    [r EXCEPT !.processed = r.processed + 1, !.failed = r.failed + 1, !.status = "PARTIAL"]

Save(w) ==
    /\ pc[w] = "saving"
    /\ failures' = [i \in DOMAIN failures |->
                      [failures[i] EXCEPT !.open = @ /\ i # found[w]]]
    /\ Commit(w, CountStored(mem[w])) /\ mem' = [mem EXCEPT ![w] = CountStored(@)]
    /\ page' = [page EXCEPT ![w] = @ + 1] /\ found' = [found EXCEPT ![w] = 0]
    /\ checkpoint' = page[w] + 1
    /\ Goto(w, AtPage(page[w] + 1))
    /\ UNCHANGED <<objects, requests, queue, retries, history, bounds>>

\* A failure that is recorded already gets another retry count and date.
Record(w) ==
    /\ pc[w] = "recording"
    /\ failures' = IF found[w] = 0 THEN Append(failures, [page |-> page[w], open |-> TRUE])
                   ELSE failures
    /\ Commit(w, CountFailed(mem[w]))
    /\ Leave(w, "raised")
    /\ UNCHANGED <<checkpoint, objects, requests, queue, retries, history, bounds>>

Complete(w) ==
    /\ pc[w] = "completing"
    /\ Commit(w, [mem[w] EXCEPT !.status = "COMPLETED"])
    /\ Leave(w, "acking")
    /\ UNCHANGED <<checkpoint, failures, objects, requests, queue, retries, history, bounds>>

\* Anything else that raises: what is not committed is rolled back.
Raise(w) ==
    /\ pc[w] \in {"starting", "saving", "recording", "completing"} /\ Failure
    /\ Leave(w, "raised")
    /\ UNCHANGED <<runVars, requests, queue, retries, overlapped, lost>>

\* The retry is sent as a message of its own, before this one is acknowledged;
\* or it cannot be sent, and this one is acknowledged all the same.
Retry(w) ==
    /\ pc[w] = "raised" /\ retries[w] < MaxRetries
    /\ \/ queue' = [queue EXCEPT ![retries[w] + 1] = @ + 1] /\ UNCHANGED <<lost, bounds>>
       \/ Failure /\ lost' = TRUE /\ UNCHANGED queue
    /\ Goto(w, "acking")
    /\ UNCHANGED <<runVars, requests, retries, mem, page, found, overlapped>>

\* Out of retries: the run fails unless its row, read in a new session, says
\* COMPLETED.
MUTANT_Failable(r) == r.status = "RUNNING"
Failable(r) == r.status # "COMPLETED"
GiveUp(w) ==
    /\ pc[w] = "raised" /\ retries[w] >= MaxRetries
    /\ IF Failable(row)
       THEN Goto(w, "marking") /\ mem' = [mem EXCEPT ![w] = row]
       ELSE Goto(w, "acking") /\ UNCHANGED mem
    /\ UNCHANGED <<runVars, requests, queue, retries, page, found, history, bounds>>

MarkFailed(w) ==
    /\ pc[w] = "marking"
    /\ \/ Commit(w, [mem[w] EXCEPT !.status = "FAILED"]) /\ UNCHANGED <<lost, bounds>>
       \/ Failure /\ lost' = TRUE /\ UNCHANGED row
    /\ Leave(w, "acking")
    /\ UNCHANGED <<checkpoint, failures, objects, requests, queue, retries, overlapped>>

Idle(w) == Leave(w, "idle") /\ retries' = [retries EXCEPT ![w] = 0]

Acknowledge(w) ==
    /\ pc[w] = "acking"
    /\ Idle(w)
    /\ UNCHANGED <<runVars, requests, queue, history, bounds>>

\* The worker dies and the message comes back (task_reject_on_worker_lost); or
\* the time limit of the task ends it, which acknowledges the message
\* (task_acks_late): nothing goes on with the run, nothing marks it.
Crash(w) ==
    /\ pc[w] # "idle" /\ Failure
    /\ \/ queue' = [queue EXCEPT ![retries[w]] = @ + 1] /\ UNCHANGED lost
       \/ pc[w] # "acking" /\ lost' = TRUE /\ UNCHANGED queue
    /\ Idle(w)
    /\ UNCHANGED <<runVars, requests, overlapped>>

\* A message that runs, or waits for its countdown, past the visibility timeout.
Redeliver ==
    /\ \E k \in 0 .. MaxRetries :
          /\ \/ \E w \in Workers : pc[w] # "idle" /\ retries[w] = k
             \/ k > 0 /\ queue[k] > 0
          /\ queue' = [queue EXCEPT ![k] = @ + 1]
    /\ Repeat
    /\ UNCHANGED <<runVars, requests, taskVars, history>>

-----------------------------------------------------------------------------

Work(w) ==
    \/ Load(w) \/ Begin(w) \/ Fetch(w) \/ Save(w) \/ Record(w)
    \/ Complete(w) \/ Retry(w) \/ GiveUp(w) \/ MarkFailed(w) \/ Acknowledge(w)

Quiet == requests = 0 /\ (\A k \in DOMAIN queue : queue[k] = 0) /\ \A w \in Workers : pc[w] = "idle"

Next ==
    \/ Start \/ RetryFailures \/ Dispatch \/ Redeliver
    \/ \E w \in Workers : Work(w) \/ Raise(w) \/ Crash(w)
    \/ Quiet /\ UNCHANGED vars

Spec == Init /\ [][Next]_vars

\* Requests go on to their dispatch; workers take messages and go on with them.
FairSpec == Spec /\ WF_vars(Dispatch) /\ \A w \in Workers : WF_vars(Work(w))

-----------------------------------------------------------------------------
(* Properties                                                              *)

RunOK ==
    /\ row \in Row
    /\ checkpoint \in 0 .. MaxPages
    /\ failures \in Seq(FailureRow)
    /\ objects \in [Pages -> Nat]
    /\ requests \in Nat
    /\ queue \in [0 .. MaxRetries -> Nat]
    /\ repeats \in 0 .. MaxRepeats /\ broken \in 0 .. MaxFailures
WorkersOK ==
    /\ pc \in [Workers -> Steps]
    /\ retries \in [Workers -> 0 .. MaxRetries]
    /\ mem \in [Workers -> Row]
    /\ page \in [Workers -> 0 .. MaxPages]
    /\ found \in [Workers -> Nat] /\ \A w \in Workers : found[w] <= Len(failures)
HistoryOK == overlapped \in BOOLEAN /\ lost \in BOOLEAN

\* Type invariant: the run and its messages, its executions, and what is noted
\* about them.
TypeOK == RunOK /\ WorkersOK /\ HistoryOK

\* Whatever fails, dies, comes twice or overlaps: pages below the checkpoint
\* are stored, and a run that says COMPLETED has every page (run: the object
\* comes before the checkpoint, the checkpoint before the status).
CheckpointIsBacked == \A p \in Pages : p < checkpoint => objects[p] > 0
CompletedIsWhole ==
    /\ CheckpointIsBacked
    /\ row.status = "COMPLETED" => \A p \in Pages : objects[p] > 0

\* While executions do not overlap, the committed counters tell the pages the
\* checkpoint covers and those that failed, through retries and deaths between
\* any two commits, and a page is stored a second time only after an execution
\* that died or raised before its checkpoint.
Alone == ~overlapped
StoredOnce ==
    MapThenSumSet(LAMBDA p : objects[p], Pages)
        <= checkpoint + broken + Cardinality({w \in Workers : pc[w] = "saving"})
CountersTell ==
    /\ row.success = checkpoint
    /\ row.processed = row.success + row.failed
    /\ Len(failures) <= row.failed
    /\ row.status = "COMPLETED" => checkpoint = MaxPages
CountersFollowPages == Alone => StoredOnce /\ CountersTell

\* While executions do not overlap, the only failure left unresolved is one of
\* the page that comes next, so that a retry meets and resolves it, and a
\* completed run leaves none (unresolved_failure).
FailuresAreAhead ==
    Alone => /\ \A i \in Open : failures[i].page = checkpoint
             /\ Cardinality(Open) <= 1

\* A run ends COMPLETED or FAILED and stays so, however its messages come
\* back, repeat and overlap, with three exceptions, all of them in lost: a
\* request or a retry could not be sent, the mark FAILED could not be stored, or
\* the time limit killed an execution, which leaves the run RUNNING for good.
\* (A run is started once: a behaviour that never starts it owes nothing.)
RunSettles ==
    <>[](row.status \in {"NONE", "COMPLETED", "FAILED"} \/ lost)
=============================================================================
