---------------------------- MODULE ReviewScoring ----------------------------
(***************************************************************************)
(* The task process_reviews: extraction of mentions from imported reviews, *)
(* recalculation of the hotel scores, normalization.                       *)
(*                                                                         *)
(*   - a run takes a Redis lock without waiting for it; a run that finds   *)
(*     it taken returns, and its message is done with;                     *)
(*   - the holder extracts one batch of pending reviews, one commit each,  *)
(*     and then either sends a follow-up for the next batch or, when none  *)
(*     is pending, recalculates every hotel and normalizes;                *)
(*   - a run whose reviews all failed, or that raises, sends a retry of    *)
(*     its own message, a bounded number of times;                         *)
(*   - the lock is released last; the lock of a worker that died stays     *)
(*     until it expires.                                                   *)
(***************************************************************************)
EXTENDS Integers, FiniteSets

CONSTANTS
    NumReviews,    \* reviews are numbered in the order of their identifiers
    Hotels,
    HotelOf,       \* the hotel of each review
    Workers,       \* Celery worker processes
    BatchSize,     \* limit of process_reviews
    MaxAttempts,   \* attempts after which a review is given up
    MaxRetries,    \* max_retries of the task
    MaxTriggers,   \* bound: messages sent by imports and administrators
    MaxCrashes,    \* bound: deaths of a worker
    MaxFaults,     \* bound: exceptions of a run other than failed extractions
    MaxOverlaps,   \* bound: messages redelivered while their worker runs on
    MaxExpiries,   \* bound: locks lost while their run goes on
    MaxEvents      \* bound: all of these and the triggers together

Reviews == 1 .. NumReviews

ASSUME ReviewScoringAssumption ==
    /\ NumReviews \in Nat
    /\ HotelOf \in [Reviews -> Hotels]
    /\ BatchSize \in Nat \ {0} /\ MaxAttempts \in Nat \ {0}
    /\ MaxRetries \in Nat /\ MaxTriggers \in Nat
    /\ MaxCrashes \in Nat /\ MaxFaults \in Nat
    /\ MaxOverlaps \in Nat /\ MaxExpiries \in Nat /\ MaxEvents \in Nat
    /\ "free" \notin Workers /\ "orphan" \notin Workers

VARIABLES
    status,      \* of each review, under the active algorithm version
    attempts,    \* attempt_count of each review
    extracted,   \* history: committed extractions of each review
    scored,      \* reviews whose mentions the stored hotel scores count
    relative,    \* hotels whose scores have a relative value
    untold,      \* imported reviews whose import has sent no trigger yet
    missed,      \* history: what was to do when a message was lost
    lock,        \* the Redis lock: free, held by a worker, or by a dead one
    queue,       \* waiting messages by their number of retries
    pc,          \* where each worker is in process_reviews
    retries,     \* request.retries of the message a worker executes
    owns,        \* does the worker still hold that message?
    batch,       \* reviews the run has loaded and not yet extracted
    result,      \* what became of the extractions of the run so far
    todo,        \* hotels the run has still to recalculate
    triggers, crashes, faults, overlaps, expiries

reviewVars == <<status, attempts, extracted, untold>>
scoreVars  == <<scored, relative>>
runVars    == <<retries, batch, result, todo>>
boundVars  == <<triggers, crashes, faults, overlaps, expiries>>
vars == <<reviewVars, scoreVars, missed, lock, queue, pc, owns, runVars, boundVars>>

Statuses == {"absent", "new", "FAILED", "COMPLETED"}
Results  == {"none", "failed", "some"}
Steps    == {"idle", "loading", "extracting", "scoring", "following", "raising",
             "releasing"}

Init ==
    /\ status = [r \in Reviews |-> "absent"]
    /\ attempts = [r \in Reviews |-> 0]
    /\ extracted = [r \in Reviews |-> 0]
    /\ scored = {} /\ relative = {}
    /\ untold = {} /\ missed = {}
    /\ lock = "free"
    /\ queue = [k \in 0 .. MaxRetries |-> 0]
    /\ pc = [w \in Workers |-> "idle"]
    /\ retries = [w \in Workers |-> 0]
    /\ owns = [w \in Workers |-> FALSE]
    /\ batch = [w \in Workers |-> {}]
    /\ result = [w \in Workers |-> "none"]
    /\ todo = [w \in Workers |-> {}]
    /\ triggers = 0 /\ crashes = 0 /\ faults = 0 /\ overlaps = 0 /\ expiries = 0

\* One more of the events the bounds count?
EventsLeft == triggers + crashes + faults + overlaps + expiries < MaxEvents

-----------------------------------------------------------------------------
(* What there is to do                                                     *)

\* Neither extracted nor given up.
MUTANT_Pending ==
    {r \in Reviews : /\ status[r] \notin {"absent", "COMPLETED"}
                     /\ attempts[r] <= MaxAttempts}
Pending ==
    {r \in Reviews : /\ status[r] \notin {"absent", "COMPLETED"}
                     /\ attempts[r] < MaxAttempts}

\* The first of them by identifier, at most n.
FirstPending(n) ==
    {r \in Pending : Cardinality({q \in Pending : q < r}) < n}

\* Hotels with mentions; every extraction is taken to find some.
Extracted == {r \in Reviews : extracted[r] > 0}
MUTANT_ToScore == Extracted
ToScore == {HotelOf[r] : r \in Extracted}

\* Reviews that are pending, or whose mentions no ranking shows.
Unshown == {r \in Extracted : r \notin scored \/ HotelOf[r] \notin relative}
Undone  == Pending \cup Unshown

-----------------------------------------------------------------------------
(* Reviews and messages arrive                                             *)

Import(r) ==
    /\ status[r] = "absent"
    /\ status' = [status EXCEPT ![r] = "new"]
    /\ untold' = untold \cup {r}
    /\ UNCHANGED <<attempts, extracted, scoreVars, missed, lock, queue, pc, owns, runVars,
                   boundVars>>

Trigger ==
    /\ triggers < MaxTriggers /\ EventsLeft
    /\ triggers' = triggers + 1
    /\ queue' = [queue EXCEPT ![0] = @ + 1]
    /\ untold' = {}
    /\ UNCHANGED <<status, attempts, extracted, scoreVars, missed, lock, pc, owns, runVars,
                   crashes, faults, overlaps, expiries>>

-----------------------------------------------------------------------------
(* One run of the task                                                     *)

\* A dropped message was needed unless the holder of the lock goes on to look
\* for pending reviews, or to send a message of its own.
Neglected ==
    IF lock \in Workers
    THEN CASE pc[lock] \in {"loading", "extracting", "following", "raising"} -> {}
           [] pc[lock] = "scoring" ->
                 Pending \cup {r \in Extracted \ scored : HotelOf[r] \notin todo[lock]}
           [] OTHER -> Undone
    ELSE Undone

MUTANT_Acquirable == TRUE
Acquirable == lock = "free"

\* The message a worker takes, and executes with its number of retries.
Taken(k) == [queue EXCEPT ![k] = @ - 1]
Begin(w, k, step) ==
    /\ pc' = [pc EXCEPT ![w] = step]
    /\ retries' = [retries EXCEPT ![w] = k]
    /\ owns' = [owns EXCEPT ![w] = TRUE]

\* lock.acquire(blocking=False): taken; or not, and the message is done with;
\* or Redis fails and the run raises.
Receive(w, k) ==
    /\ pc[w] = "idle" /\ queue[k] > 0
    /\ queue' = Taken(k)
    /\ \/ /\ Acquirable
          /\ lock' = w
          /\ Begin(w, k, "loading")
          /\ UNCHANGED <<missed, faults>>
       \/ /\ ~Acquirable
          /\ missed' = missed \cup Neglected
          /\ UNCHANGED <<lock, pc, retries, owns, faults>>
       \/ /\ faults < MaxFaults /\ EventsLeft
          /\ faults' = faults + 1
          /\ Begin(w, k, "raising")
          /\ UNCHANGED <<lock, missed>>
    /\ UNCHANGED <<reviewVars, scoreVars, batch, result, todo,
                   triggers, crashes, overlaps, expiries>>

\* A run that gets here takes care of all that was missed before.
Load(w) ==
    /\ pc[w] = "loading"
    /\ pc' = [pc EXCEPT ![w] = "extracting"]
    /\ batch' = [batch EXCEPT ![w] = FirstPending(BatchSize)]
    /\ result' = [result EXCEPT ![w] = "none"]
    /\ missed' = {}
    /\ UNCHANGED <<reviewVars, scoreVars, lock, queue, owns, retries, todo, boundVars>>

\* The next review of the batch: its mentions and its status in one commit, or
\* the failure alone.  Neither looks at what the status has become since.
Extract(w, ok) ==
    \E r \in batch[w] :
        /\ pc[w] = "extracting" /\ \A q \in batch[w] : r <= q
        /\ batch' = [batch EXCEPT ![w] = @ \ {r}]
        /\ attempts' = [attempts EXCEPT ![r] = @ + 1]
        /\ status' = [status EXCEPT ![r] = IF ok THEN "COMPLETED" ELSE "FAILED"]
        /\ extracted' = [extracted EXCEPT ![r] = IF ok THEN @ + 1 ELSE @]
        /\ result' = [result EXCEPT ![w] = IF ok \/ @ = "some" THEN "some" ELSE "failed"]
        /\ UNCHANGED <<scoreVars, untold, missed, lock, queue, pc, owns, retries, todo,
                       boundVars>>

\* After the batch: all failed, more to do, or all is extracted.
MUTANT_AfterBatch(w) == IF result[w] = "failed" THEN "raising" ELSE "scoring"
AfterBatch(w) ==
    IF result[w] = "failed" THEN "raising"
    ELSE IF Pending # {} THEN "following" ELSE "scoring"
FinishBatch(w) ==
    /\ pc[w] = "extracting" /\ batch[w] = {}
    /\ pc' = [pc EXCEPT ![w] = AfterBatch(w)]
    /\ todo' = [todo EXCEPT ![w] = IF AfterBatch(w) = "scoring" THEN ToScore ELSE {}]
    /\ UNCHANGED <<reviewVars, scoreVars, missed, lock, queue, owns, retries, batch, result,
                   boundVars>>

\* One hotel, one commit: the new scores have no relative value yet.
Recalculate(w) ==
    \E h \in todo[w] :
        /\ pc[w] = "scoring"
        /\ todo' = [todo EXCEPT ![w] = @ \ {h}]
        /\ scored' = scored \cup {r \in Extracted : HotelOf[r] = h}
        /\ relative' = relative \ {h}
        /\ UNCHANGED <<reviewVars, missed, lock, queue, pc, owns, retries, batch, result,
                       boundVars>>

Normalize(w) ==
    /\ pc[w] = "scoring" /\ todo[w] = {}
    /\ relative' = relative \cup {HotelOf[r] : r \in scored}
    /\ pc' = [pc EXCEPT ![w] = "releasing"]
    /\ UNCHANGED <<reviewVars, scored, missed, lock, queue, owns, runVars, boundVars>>

SendFollowUp(w) ==
    /\ pc[w] = "following"
    /\ queue' = [queue EXCEPT ![0] = @ + 1]
    /\ pc' = [pc EXCEPT ![w] = "releasing"]
    /\ UNCHANGED <<reviewVars, scoreVars, missed, lock, owns, runVars, boundVars>>

\* An exception while the reviews are loaded, extracted or scored, or as the
\* follow-up is sent.
Raise(w) ==
    /\ pc[w] \in {"loading", "extracting", "scoring", "following"}
    /\ faults < MaxFaults /\ EventsLeft /\ faults' = faults + 1
    /\ pc' = [pc EXCEPT ![w] = "raising"]
    /\ UNCHANGED <<reviewVars, scoreVars, missed, lock, queue, owns, runVars,
                   triggers, crashes, overlaps, expiries>>

\* self.retry: a new message while any is left; or the exception for good, also
\* when the message cannot be sent.
MUTANT_Retried(w) == queue
Retried(w) == [queue EXCEPT ![retries[w] + 1] = @ + 1]
Retry(w) ==
    /\ pc[w] = "raising"
    /\ \/ /\ retries[w] < MaxRetries
          /\ queue' = Retried(w)
          /\ UNCHANGED <<missed, faults>>
       \/ /\ retries[w] >= MaxRetries
          /\ missed' = missed \cup Undone
          /\ UNCHANGED <<queue, faults>>
       \/ /\ faults < MaxFaults /\ EventsLeft
          /\ faults' = faults + 1
          /\ missed' = missed \cup Undone
          /\ UNCHANGED queue
    /\ pc' = [pc EXCEPT ![w] = "releasing"]
    /\ UNCHANGED <<reviewVars, scoreVars, lock, owns, runVars,
                   triggers, crashes, overlaps, expiries>>

\* The end of a worker's part in its message.
Idle(w) ==
    /\ pc' = [pc EXCEPT ![w] = "idle"]
    /\ owns' = [owns EXCEPT ![w] = FALSE]
    /\ retries' = [retries EXCEPT ![w] = 0]
    /\ batch' = [batch EXCEPT ![w] = {}]
    /\ result' = [result EXCEPT ![w] = "none"]
    /\ todo' = [todo EXCEPT ![w] = {}]

\* The lock is released by its token, so that one which has expired is left
\* alone; the acknowledgement of the message follows.
Release(w) ==
    /\ pc[w] = "releasing"
    /\ lock' = IF lock = w THEN "free" ELSE lock
    /\ Idle(w)
    /\ UNCHANGED <<reviewVars, scoreVars, missed, queue, boundVars>>

-----------------------------------------------------------------------------
(* Failures                                                                *)

\* The worker dies: its lock stays behind, its message comes back.  Not so
\* when the broker had given the message out again, or when the time limit of
\* the task killed the worker, which acknowledges it.
Crash(w) ==
    /\ pc[w] # "idle" /\ crashes < MaxCrashes /\ EventsLeft
    /\ crashes' = crashes + 1
    /\ lock' = IF lock = w THEN "orphan" ELSE lock
    /\ \/ /\ owns[w]
          /\ queue' = [queue EXCEPT ![retries[w]] = @ + 1]
          /\ UNCHANGED missed
       \/ /\ missed' = missed \cup Undone
          /\ UNCHANGED queue
    /\ Idle(w)
    /\ UNCHANGED <<reviewVars, scoreVars, triggers, faults, overlaps, expiries>>

Redeliver(w) ==
    /\ owns[w] /\ overlaps < MaxOverlaps /\ EventsLeft
    /\ overlaps' = overlaps + 1
    /\ owns' = [owns EXCEPT ![w] = FALSE]
    /\ queue' = [queue EXCEPT ![retries[w]] = @ + 1]
    /\ UNCHANGED <<reviewVars, scoreVars, missed, lock, pc, runVars,
                   triggers, crashes, faults, expiries>>

\* The lock's timeout ends: that of a dead worker, or that of a run which
\* outlives it.
Expire ==
    /\ \/ lock = "orphan" /\ UNCHANGED expiries
       \/ lock \in Workers /\ expiries < MaxExpiries /\ EventsLeft /\ expiries' = expiries + 1
    /\ lock' = "free"
    /\ UNCHANGED <<reviewVars, scoreVars, missed, queue, pc, owns, runVars,
                   triggers, crashes, faults, overlaps>>

Work(w) ==
    \/ \E k \in 0 .. MaxRetries : Receive(w, k)
    \/ Load(w)
    \/ \E ok \in BOOLEAN : Extract(w, ok)
    \/ FinishBatch(w) \/ Recalculate(w) \/ Normalize(w)
    \/ SendFollowUp(w) \/ Raise(w) \/ Retry(w)
    \/ Release(w)

\* No message waits, no worker is busy.
Quiet ==
    /\ \A k \in 0 .. MaxRetries : queue[k] = 0
    /\ \A w \in Workers : pc[w] = "idle"

Next ==
    \/ \E r \in Reviews : Import(r)
    \/ Trigger
    \/ \E w \in Workers : Work(w) \/ Crash(w) \/ Redeliver(w)
    \/ Expire
    \/ Quiet /\ UNCHANGED vars

Spec == Init /\ [][Next]_vars

\* Workers go on with what they were given; imports, triggers, failures and
\* even the expiry of an orphaned lock need not happen.
Fairness == \A w \in Workers : WF_vars(Work(w))

FairSpec == Spec /\ Fairness

-----------------------------------------------------------------------------
(* Properties                                                              *)

\* Type invariant.
TypeOK ==
    /\ status \in [Reviews -> Statuses]
    /\ attempts \in [Reviews -> Nat] /\ extracted \in [Reviews -> Nat]
    /\ scored \subseteq Reviews /\ relative \subseteq Hotels
    /\ untold \subseteq Reviews /\ missed \subseteq Reviews
    /\ lock \in Workers \cup {"free", "orphan"}
    /\ queue \in [0 .. MaxRetries -> Nat]
    /\ pc \in [Workers -> Steps]
    /\ retries \in [Workers -> 0 .. MaxRetries]
    /\ owns \in [Workers -> BOOLEAN]
    /\ batch \in [Workers -> SUBSET Reviews]
    /\ result \in [Workers -> Results]
    /\ todo \in [Workers -> SUBSET Hotels]
    /\ triggers \in Nat /\ crashes \in Nat /\ faults \in Nat
    /\ overlaps \in Nat /\ expiries \in Nat

\* Extraction is bounded by retries (has_pending_reviews): no review is tried
\* more often than five times, plus once for each run that outlived its lock,
\* whatever follow-ups, retries, redeliveries and triggers run.
AttemptsBounded == \A r \in Reviews : attempts[r] <= MaxAttempts + expiries

\* As long as no run outlives its lock, a review counts once: it is extracted
\* at most once, and says COMPLETED if and only if it was (process_reviews:
\* mentions and status are one commit, and no later run takes it up again).
ExtractedOnce ==
    expiries = 0 =>
        \A r \in Reviews : extracted[r] = IF status[r] = "COMPLETED" THEN 1 ELSE 0

\* When nothing runs and nothing waits, every review whose trigger was sent is
\* either given up or counted in a score with a relative value, through batches,
\* failures and retries; the only exceptions are reviews that were to do when
\* a message was lost, and that only until the next run.
QuietIsDone == Quiet => Undone \subseteq untold \cup missed

\* Every such review gets there.
ReviewsSettle ==
    \A r \in Reviews :
        (r \in Undone \ untold) ~> (r \notin Undone \/ r \in missed)
=============================================================================
