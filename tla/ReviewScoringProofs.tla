------------------------- MODULE ReviewScoringProofs -------------------------
(***************************************************************************)
(* Proofs about ReviewScoring for any number of reviews, hotels, workers,  *)
(* messages and failures.                                                  *)
(***************************************************************************)
EXTENDS ReviewScoring, FiniteSetTheorems, TLAPS

-----------------------------------------------------------------------------
(* Type correctness                                                        *)

\* What unprocessed returns, and what there is to do, are reviews.
LEMMA PendingReviews ==
    /\ Pending \subseteq Reviews /\ Extracted \subseteq Reviews
    /\ Undone \subseteq Reviews
    /\ \A n : FirstPending(n) \subseteq Pending
  BY DEF Pending, Extracted, Unshown, Undone, FirstPending

\* What a dropped message (process_reviews, jobs.py:128) leaves undone are reviews.
LEMMA NeglectedReviews == Neglected \subseteq Reviews
<1>1. CASE lock \in Workers
  BY <1>1, PendingReviews DEF Neglected
<1>2. CASE lock \notin Workers
  BY <1>2, PendingReviews DEF Neglected
<1>3. QED
  BY <1>1, <1>2

\* recalculate_all and normalize visit known hotels.
LEMMA ScoredHotels ==
    /\ ToScore \subseteq Hotels
    /\ \A S \in SUBSET Reviews : {HotelOf[r] : r \in S} \subseteq Hotels
<1>1. ASSUME NEW S \in SUBSET Reviews
      PROVE  {HotelOf[r] : r \in S} \subseteq Hotels
  BY ReviewScoringAssumption
<1>2. QED
  BY <1>1, PendingReviews DEF ToScore

\* Messages are counted by their number of retries; one more, or one less.
LEMMA Counted ==
    ASSUME queue \in [0 .. MaxRetries -> Nat], NEW k \in 0 .. MaxRetries
    PROVE  /\ [queue EXCEPT ![k] = @ + 1] \in [0 .. MaxRetries -> Nat]
           /\ queue[k] > 0 => Taken(k) \in [0 .. MaxRetries -> Nat]
  BY DEF Taken

\* A worker that ends its part in a message (process_reviews) stays well typed.
LEMMA IdleTyped ==
    ASSUME TypeOK, NEW w \in Workers, Idle(w)
    PROVE  /\ pc' \in [Workers -> Steps] /\ owns' \in [Workers -> BOOLEAN]
           /\ retries' \in [Workers -> 0 .. MaxRetries]
           /\ batch' \in [Workers -> SUBSET Reviews]
           /\ result' \in [Workers -> Results]
           /\ todo' \in [Workers -> SUBSET Hotels]
<1>1. 0 \in 0 .. MaxRetries
  BY ReviewScoringAssumption
<1>2. QED
  BY <1>1 DEF TypeOK, Idle, Steps, Results

\* The state before any review or message is well typed.
LEMMA InitTyped == Init => TypeOK
<1> SUFFICES ASSUME Init PROVE TypeOK
  OBVIOUS
<1>1. 0 \in 0 .. MaxRetries
  BY ReviewScoringAssumption
<1>2. QED
  BY <1>1 DEF Init, TypeOK, Statuses, Results, Steps

\* Every step of process_reviews, and every failure, keeps the types.
LEMMA StepTyped == TypeOK /\ [Next]_vars => TypeOK'
<1> SUFFICES ASSUME TypeOK, [Next]_vars
             PROVE  TypeOK'
  OBVIOUS
<1> USE DEF reviewVars, scoreVars, runVars, boundVars
<1>0. \A k \in 0 .. MaxRetries : k \in Nat
  BY ReviewScoringAssumption
<1>1. CASE UNCHANGED vars
  BY <1>1 DEF TypeOK, vars
<1>2. ASSUME NEW r \in Reviews, Import(r)
      PROVE  TypeOK'
  BY <1>2 DEF TypeOK, Import, Statuses
<1>3. CASE Trigger
  <2>1. queue' \in [0 .. MaxRetries -> Nat]
    BY <1>3, Counted, ReviewScoringAssumption DEF TypeOK, Trigger
  <2>2. QED
    BY <1>3, <2>1 DEF TypeOK, Trigger
<1>4. ASSUME NEW w \in Workers, Work(w) \/ Crash(w) \/ Redeliver(w)
      PROVE  TypeOK'
  <2>1. ASSUME NEW k \in 0 .. MaxRetries, Receive(w, k)
        PROVE  TypeOK'
    <3>1. queue' \in [0 .. MaxRetries -> Nat]
      BY <2>1, Counted DEF TypeOK, Receive
    <3>2. missed' \subseteq Reviews
      BY <2>1, NeglectedReviews DEF TypeOK, Receive
    <3>3. /\ pc' \in [Workers -> Steps] /\ owns' \in [Workers -> BOOLEAN]
          /\ retries' \in [Workers -> 0 .. MaxRetries]
      <4>1. CASE UNCHANGED <<pc, retries, owns>>
        BY <4>1 DEF TypeOK
      <4>2. CASE \E step \in {"loading", "raising"} : Begin(w, k, step)
        BY <4>2 DEF TypeOK, Begin, Steps
      <4>3. QED
        BY <2>1, <4>1, <4>2 DEF Receive
    <3>4. lock' \in Workers \cup {"free", "orphan"} /\ faults' \in Nat
      BY <2>1 DEF TypeOK, Receive
    <3>5. QED
      BY <2>1, <3>1, <3>2, <3>3, <3>4 DEF TypeOK, Receive
  <2>2. CASE Load(w)
    BY <2>2, PendingReviews DEF TypeOK, Load, Steps, Results
  <2>3. ASSUME NEW ok \in BOOLEAN, Extract(w, ok)
        PROVE  TypeOK'
    <3>1. PICK r \in batch[w] : Extract(w, ok)!(r)
      BY <2>3 DEF Extract
    <3>2. r \in Reviews
      BY <3>1 DEF TypeOK
    <3>3. attempts' \in [Reviews -> Nat] /\ extracted' \in [Reviews -> Nat]
      BY <3>1, <3>2 DEF TypeOK
    <3>4. status' \in [Reviews -> Statuses] /\ result' \in [Workers -> Results]
      BY <3>1, <3>2 DEF TypeOK, Statuses, Results
    <3>5. batch' \in [Workers -> SUBSET Reviews]
      BY <3>1, <3>2 DEF TypeOK
    <3>6. QED
      BY <3>1, <3>3, <3>4, <3>5 DEF TypeOK
  <2>4. CASE FinishBatch(w)
    BY <2>4, ScoredHotels DEF TypeOK, FinishBatch, AfterBatch, Steps
  <2>5. CASE Recalculate(w)
    <3>1. PICK h \in todo[w] : Recalculate(w)!(h)
      BY <2>5 DEF Recalculate
    <3>2. QED
      BY <3>1, PendingReviews DEF TypeOK
  <2>6. CASE Normalize(w)
    BY <2>6, ScoredHotels DEF TypeOK, Normalize, Steps
  <2>7. CASE SendFollowUp(w)
    <3>1. queue' \in [0 .. MaxRetries -> Nat]
      BY <2>7, Counted, ReviewScoringAssumption DEF TypeOK, SendFollowUp
    <3>2. QED
      BY <2>7, <3>1 DEF TypeOK, SendFollowUp, Steps
  <2>8. CASE Raise(w)
    BY <2>8 DEF TypeOK, Raise, Steps
  <2>9. CASE Retry(w)
    <3>1. retries[w] \in Nat /\ MaxRetries \in Nat
      BY <1>0, ReviewScoringAssumption DEF TypeOK
    <3>2. queue' \in [0 .. MaxRetries -> Nat]
      <4>1. CASE retries[w] < MaxRetries
        <5>1. retries[w] + 1 \in 0 .. MaxRetries
          BY <3>1, <4>1
        <5>2. QED
          BY <2>9, <4>1, <5>1, Counted DEF TypeOK, Retry, Retried
      <4>2. CASE ~(retries[w] < MaxRetries)
        BY <2>9, <4>2 DEF TypeOK, Retry
      <4>3. QED
        BY <4>1, <4>2
    <3>3. missed' \subseteq Reviews
      BY <2>9, PendingReviews DEF TypeOK, Retry
    <3>4. QED
      BY <2>9, <3>2, <3>3 DEF TypeOK, Retry, Steps
  <2>10. CASE Release(w)
    BY <2>10, IdleTyped DEF TypeOK, Release
  <2>11. CASE Crash(w)
    <3>1. queue' \in [0 .. MaxRetries -> Nat] /\ missed' \subseteq Reviews
      BY <2>11, Counted, PendingReviews DEF TypeOK, Crash
    <3>2. lock' \in Workers \cup {"free", "orphan"} /\ crashes' \in Nat
      BY <2>11 DEF TypeOK, Crash
    <3>3. /\ Idle(w)
          /\ UNCHANGED <<status, attempts, extracted, untold, scored, relative, triggers,
                         faults, overlaps, expiries>>
      BY <2>11 DEF Crash, reviewVars, scoreVars
    <3>4. QED
      BY <3>1, <3>2, <3>3, IdleTyped DEF TypeOK
  <2>12. CASE Redeliver(w)
    <3>1. queue' \in [0 .. MaxRetries -> Nat]
      BY <2>12, Counted DEF TypeOK, Redeliver
    <3>2. QED
      BY <2>12, <3>1 DEF TypeOK, Redeliver
  <2>13. QED
    BY <1>4, <2>1, <2>2, <2>3, <2>4, <2>5, <2>6, <2>7, <2>8, <2>9, <2>10, <2>11, <2>12
       DEF Work
<1>5. CASE Expire
  BY <1>5 DEF TypeOK, Expire
<1>6. QED
  BY <1>1, <1>2, <1>3, <1>4, <1>5 DEF Next

\* Every variable of the extraction stays in its type.
THEOREM Typing == Spec => []TypeOK
<1>1. QED
  BY InitTyped, StepTyped, PTL DEF Spec
-----------------------------------------------------------------------------
(* Attempts and extractions                                                *)
(*                                                                         *)
(* A worker strays when it goes on with a run whose lock it has lost: only *)
(* an expiry makes it stray, so there are at most as many as expiries.  A  *)
(* review a stray worker still has to extract counts as tried already; the *)
(* one holder of the lock may then try what is pending once.               *)

Locked == {"loading", "extracting", "scoring", "following"}
Strays == {w \in Workers : pc[w] \in Locked /\ lock # w}
Trying(w, r) == pc[w] = "extracting" /\ r \in batch[w]
Overruns(r) == {w \in Workers : Trying(w, r) /\ lock # w}

StraysCounted == IsFiniteSet(Strays) /\ Cardinality(Strays) <= expiries

AttemptsCounted ==
    \A r \in Reviews :
        /\ attempts[r] + Cardinality(Overruns(r)) <= MaxAttempts + expiries
        /\ \A w \in Workers :
             Trying(w, r) /\ lock = w =>
                 attempts[r] + Cardinality(Overruns(r)) < MaxAttempts + expiries

\* While no lock was lost, nothing a run has loaded is completed under it.
BatchPending ==
    expiries = 0 =>
        \A w \in Workers, r \in Reviews : Trying(w, r) => status[r] \in {"new", "FAILED"}

IInv == StraysCounted /\ AttemptsCounted /\ BatchPending /\ ExtractedOnce

\* The runs that still try a review without the lock are among the strays.
LEMMA OverrunsFinite ==
    ASSUME StraysCounted, NEW r
    PROVE  /\ IsFiniteSet(Overruns(r)) /\ Cardinality(Overruns(r)) \in Nat
           /\ Cardinality(Strays) \in Nat
           /\ Cardinality(Overruns(r)) <= Cardinality(Strays)
<1>1. Overruns(r) \subseteq Strays
  BY DEF Overruns, Strays, Trying, Locked
<1>2. QED
  BY <1>1, FS_Subset, FS_CardinalityType DEF StraysCounted

\* While no lock was lost there is no stray worker.
LEMMA NoStray ==
    ASSUME TypeOK, StraysCounted, expiries = 0, NEW w \in Workers, pc[w] \in Locked
    PROVE  lock = w
<1>1. Cardinality(Strays) = 0
  BY FS_CardinalityType DEF StraysCounted
<1>2. Strays = {}
  BY <1>1, FS_EmptySet DEF StraysCounted
<1>3. QED
  BY <1>2 DEF Strays

\* Steps that begin and end no attempt and lose no lock.
LEMMA CountsKept ==
    ASSUME TypeOK, StraysCounted, AttemptsCounted,
           attempts' = attempts, expiries' = expiries,
           \A w \in Workers :
               /\ pc'[w] \in Locked /\ lock' # w => pc[w] \in Locked /\ lock # w
               /\ pc'[w] = "extracting" =>
                      /\ pc[w] = "extracting" /\ batch'[w] = batch[w]
                      /\ lock' = w <=> lock = w
    PROVE  StraysCounted' /\ AttemptsCounted'
<1>1. Strays' \subseteq Strays
  BY DEF Strays
<1>2. StraysCounted'
  <2>1. IsFiniteSet(Strays') /\ Cardinality(Strays') <= Cardinality(Strays)
    BY <1>1, FS_Subset DEF StraysCounted
  <2>2. Cardinality(Strays') \in Nat /\ Cardinality(Strays) \in Nat /\ expiries \in Nat
    BY <2>1, FS_CardinalityType DEF StraysCounted, TypeOK
  <2>3. QED
    BY <2>1, <2>2 DEF StraysCounted
<1>3. ASSUME NEW r \in Reviews
      PROVE  /\ IsFiniteSet(Overruns(r)') /\ Cardinality(Overruns(r)') \in Nat
             /\ Cardinality(Overruns(r)) \in Nat
             /\ Cardinality(Overruns(r)') <= Cardinality(Overruns(r))
  <2>1. Overruns(r)' \subseteq Overruns(r)
    BY DEF Overruns, Trying
  <2>2. QED
    BY <2>1, OverrunsFinite, FS_Subset, FS_CardinalityType
<1>4. ASSUME NEW w \in Workers, NEW r \in Reviews, Trying(w, r)', lock' = w
      PROVE  Trying(w, r) /\ lock = w
  BY <1>4 DEF Trying
<1>5. \A r \in Reviews : attempts[r] \in Nat
  BY DEF TypeOK
<1>6. MaxAttempts \in Nat /\ expiries \in Nat
  BY ReviewScoringAssumption DEF TypeOK
<1>7. AttemptsCounted'
  BY <1>3, <1>4, <1>5, <1>6 DEF AttemptsCounted
<1>8. QED
  BY <1>2, <1>7

\* Steps that write no processing status keep what is known about it.
LEMMA ReviewsKept ==
    ASSUME TypeOK, BatchPending, ExtractedOnce,
           status' = status, extracted' = extracted, expiries' = expiries,
           \A w \in Workers :
               pc'[w] = "extracting" => pc[w] = "extracting" /\ batch'[w] = batch[w]
    PROVE  BatchPending' /\ ExtractedOnce'
  BY DEF BatchPending, ExtractedOnce, Trying

\* Loading a batch (unprocessed) takes on only reviews with an attempt left.
LEMMA LoadKeeps ==
    ASSUME TypeOK, IInv, NEW w \in Workers, Load(w)
    PROVE  IInv'
<1> USE DEF reviewVars, boundVars
<1>1. /\ attempts' = attempts /\ expiries' = expiries /\ lock' = lock
      /\ status' = status /\ extracted' = extracted
  BY DEF Load
<1>2. \A v \in Workers : (pc'[v] \in Locked) = (pc[v] \in Locked)
  BY DEF Load, Locked, TypeOK
<1>3. Strays' = Strays
  BY <1>1, <1>2 DEF Strays
<1>4. StraysCounted /\ StraysCounted'
  BY <1>1, <1>3 DEF StraysCounted, IInv
<1>5. batch'[w] \subseteq Pending /\ \A v \in Workers \ {w} : batch'[v] = batch[v] /\ pc'[v] = pc[v]
  BY PendingReviews DEF Load, TypeOK
<1>6. ASSUME NEW r \in Reviews
      PROVE  /\ attempts[r] + Cardinality(Overruns(r)') <= MaxAttempts + expiries
             /\ \A v \in Workers :
                  Trying(v, r)' /\ lock = v =>
                      attempts[r] + Cardinality(Overruns(r)') < MaxAttempts + expiries
  <2>1. /\ Cardinality(Overruns(r)) \in Nat /\ Cardinality(Overruns(r)') \in Nat
        /\ Cardinality(Overruns(r)') <= expiries
    <3>1. /\ Cardinality(Overruns(r)') \in Nat /\ Cardinality(Strays') \in Nat
          /\ Cardinality(Overruns(r)') <= Cardinality(Strays')
      <4>1. Overruns(r)' \subseteq Strays'
        BY DEF Overruns, Strays, Trying, Locked
      <4>2. QED
        BY <1>4, <4>1, FS_Subset, FS_CardinalityType DEF StraysCounted
    <3>2. expiries \in Nat
      BY DEF TypeOK
    <3>3. QED
      BY <1>1, <1>4, <3>1, <3>2, OverrunsFinite DEF StraysCounted
  <2>2. /\ attempts[r] \in Nat /\ MaxAttempts \in Nat /\ expiries \in Nat
    BY ReviewScoringAssumption DEF TypeOK
  <2>3. CASE r \in batch'[w]
    <3>1. attempts[r] < MaxAttempts
      BY <1>5, <2>3 DEF Pending
    <3>2. QED
      BY <2>1, <2>2, <3>1
  <2>4. CASE r \notin batch'[w]
    <3>1. Overruns(r)' \subseteq Overruns(r)
      BY <1>1, <1>5, <2>4 DEF Overruns, Trying
    <3>2. Cardinality(Overruns(r)') <= Cardinality(Overruns(r))
      BY <1>4, <3>1, OverrunsFinite, FS_Subset
    <3>3. \A v \in Workers : Trying(v, r)' => Trying(v, r)
      BY <1>5, <2>4 DEF Trying
    <3>4. QED
      BY <2>1, <2>2, <3>2, <3>3 DEF IInv, AttemptsCounted
  <2>5. QED
    BY <2>3, <2>4
<1>7. AttemptsCounted'
  BY <1>1, <1>6 DEF AttemptsCounted
<1>8. BatchPending'
  <2>1. \A r \in Pending : status[r] \in {"new", "FAILED"}
    BY DEF Pending, TypeOK, Statuses
  <2>2. QED
    BY <1>1, <1>5, <2>1 DEF IInv, BatchPending, Trying
<1>9. ExtractedOnce'
  BY <1>1 DEF IInv, ExtractedOnce
<1>10. QED
  BY <1>4, <1>7, <1>8, <1>9 DEF IInv

\* An extraction (process_reviews) uses up the attempt it was counted for.
LEMMA ExtractKeeps ==
    ASSUME TypeOK, IInv, NEW w \in Workers, NEW ok \in BOOLEAN, Extract(w, ok)
    PROVE  IInv'
<1> USE DEF boundVars
<1>1. PICK r \in batch[w] : Extract(w, ok)!(r)
  BY DEF Extract
<1>2. /\ r \in Reviews /\ Trying(w, r)
      /\ lock' = lock /\ expiries' = expiries /\ pc' = pc
      /\ batch'[w] = batch[w] \ {r} /\ \A v \in Workers \ {w} : batch'[v] = batch[v]
  BY <1>1 DEF TypeOK, Trying
<1>3. /\ attempts'[r] = attempts[r] + 1
      /\ \A q \in Reviews \ {r} :
           attempts'[q] = attempts[q] /\ status'[q] = status[q] /\ extracted'[q] = extracted[q]
      /\ status'[r] = IF ok THEN "COMPLETED" ELSE "FAILED"
      /\ extracted'[r] = IF ok THEN extracted[r] + 1 ELSE extracted[r]
  BY <1>1, <1>2 DEF TypeOK
<1>4. StraysCounted /\ StraysCounted'
  <2>1. Strays' = Strays
    BY <1>2 DEF Strays
  <2>2. QED
    BY <1>2, <2>1 DEF StraysCounted, IInv
<1>5. ASSUME NEW q \in Reviews
      PROVE  /\ attempts'[q] + Cardinality(Overruns(q)') <= MaxAttempts + expiries
             /\ \A v \in Workers :
                  Trying(v, q)' /\ lock = v =>
                      attempts'[q] + Cardinality(Overruns(q)') < MaxAttempts + expiries
  <2>1. /\ attempts[q] \in Nat /\ MaxAttempts \in Nat /\ expiries \in Nat
        /\ Cardinality(Overruns(q)) \in Nat /\ IsFiniteSet(Overruns(q))
    BY <1>4, OverrunsFinite, ReviewScoringAssumption DEF TypeOK
  <2>2. CASE q # r
    <3>1. \A v \in Workers : Trying(v, q)' <=> Trying(v, q)
      BY <1>2, <2>2 DEF Trying
    <3>2. Overruns(q)' = Overruns(q)
      BY <1>2, <3>1 DEF Overruns
    <3>3. QED
      BY <1>3, <2>2, <3>1, <3>2 DEF IInv, AttemptsCounted
  <2>3. CASE q = r /\ lock = w
    <3>1. Overruns(q)' = Overruns(q)
      BY <1>2, <2>3 DEF Overruns, Trying
    <3>2. \A v \in Workers : Trying(v, q)' => lock # v
      BY <1>2, <2>3 DEF Trying
    <3>3. attempts[q] + Cardinality(Overruns(q)) < MaxAttempts + expiries
      BY <1>2, <2>3 DEF IInv, AttemptsCounted
    <3>4. QED
      BY <1>3, <2>1, <2>3, <3>1, <3>2, <3>3
  <2>4. CASE q = r /\ lock # w
    <3>1. w \in Overruns(q) /\ Overruns(q)' = Overruns(q) \ {w}
      BY <1>2, <2>4 DEF Overruns, Trying
    <3>2. Cardinality(Overruns(q)') = Cardinality(Overruns(q)) - 1
      BY <2>1, <3>1, FS_RemoveElement
    <3>3. \A v \in Workers : Trying(v, q)' => Trying(v, q)
      BY <1>2, <2>4 DEF Trying
    <3>4. attempts'[q] + Cardinality(Overruns(q)') = attempts[q] + Cardinality(Overruns(q))
      BY <1>3, <2>1, <2>4, <3>2
    <3>5. QED
      BY <3>3, <3>4 DEF IInv, AttemptsCounted
  <2>5. QED
    BY <2>2, <2>3, <2>4
<1>6. AttemptsCounted'
  BY <1>2, <1>5 DEF AttemptsCounted
<1>7. BatchPending'
  <2>1. SUFFICES ASSUME expiries = 0, NEW v \in Workers, NEW q \in Reviews, Trying(v, q)'
                 PROVE  status'[q] \in {"new", "FAILED"}
    BY <1>2 DEF BatchPending
  <2>2. Trying(v, q) /\ ~(v = w /\ q = r)
    BY <1>2, <2>1 DEF Trying
  <2>3. lock = v /\ lock = w
    BY <1>2, <1>4, <2>1, <2>2, NoStray DEF Trying, Locked
  <2>4. QED
    BY <1>3, <2>1, <2>2, <2>3 DEF IInv, BatchPending
<1>8. ExtractedOnce'
  <2>1. SUFFICES ASSUME expiries = 0, NEW q \in Reviews
                 PROVE  extracted'[q] = IF status'[q] = "COMPLETED" THEN 1 ELSE 0
    BY <1>2 DEF ExtractedOnce
  <2>2. extracted[q] = IF status[q] = "COMPLETED" THEN 1 ELSE 0
    BY <2>1 DEF IInv, ExtractedOnce
  <2>3. q = r => status[q] # "COMPLETED"
    BY <1>2, <2>1 DEF IInv, BatchPending
  <2>4. QED
    BY <1>3, <2>2, <2>3
<1>9. QED
  BY <1>4, <1>6, <1>7, <1>8 DEF IInv

\* A lock is lost: one stray worker more, paid for by the expiry.
LEMMA LossKeeps ==
    ASSUME TypeOK, IInv, NEW v \in Workers, lock = v, lock' = "free", expiries' = expiries + 1,
           pc' = pc, batch' = batch, attempts' = attempts
    PROVE  IInv'
<1>1. expiries \in Nat /\ expiries' # 0
  BY DEF TypeOK
<1>2. ASSUME NEW S, NEW T, IsFiniteSet(S), T \subseteq S \cup {v}
      PROVE  /\ IsFiniteSet(T) /\ Cardinality(T) \in Nat /\ Cardinality(S) \in Nat
             /\ Cardinality(T) <= Cardinality(S) + 1
  <2>1. /\ IsFiniteSet(S \cup {v}) /\ Cardinality(S) \in Nat /\ Cardinality(S \cup {v}) \in Nat
        /\ Cardinality(S \cup {v}) <= Cardinality(S) + 1
    <3>1. Cardinality(S) \in Nat
      BY <1>2, FS_CardinalityType
    <3>2. /\ IsFiniteSet(S \cup {v})
          /\ \/ Cardinality(S \cup {v}) = Cardinality(S)
             \/ Cardinality(S \cup {v}) = Cardinality(S) + 1
      BY <1>2, FS_AddElement
    <3>3. QED
      BY <3>1, <3>2
  <2>2. IsFiniteSet(T) /\ Cardinality(T) <= Cardinality(S \cup {v}) /\ Cardinality(T) \in Nat
    BY <1>2, <2>1, FS_Subset, FS_CardinalityType
  <2>3. QED
    BY <2>1, <2>2
<1>3. StraysCounted'
  <2>1. Strays' \subseteq Strays \cup {v}
    BY DEF Strays
  <2>2. QED
    BY <1>1, <1>2, <2>1 DEF StraysCounted, IInv
<1>4. AttemptsCounted'
  <2>1. SUFFICES ASSUME NEW r \in Reviews
                 PROVE  attempts[r] + Cardinality(Overruns(r)') <= MaxAttempts + (expiries + 1)
    BY ReviewScoringAssumption DEF AttemptsCounted
  <2>2. Overruns(r)' \subseteq Overruns(r) \cup {v}
    BY DEF Overruns, Trying
  <2>3. IsFiniteSet(Overruns(r))
    BY OverrunsFinite DEF IInv
  <2>4. /\ attempts[r] + Cardinality(Overruns(r)) <= MaxAttempts + expiries
        /\ attempts[r] \in Nat /\ MaxAttempts \in Nat
    BY ReviewScoringAssumption DEF IInv, AttemptsCounted, TypeOK
  <2>5. QED
    BY <1>1, <1>2, <2>2, <2>3, <2>4
<1>5. QED
  BY <1>1, <1>3, <1>4 DEF IInv, BatchPending, ExtractedOnce

\* Before any review or message nothing is tried.
LEMMA InitCounts == Init => IInv
<1> SUFFICES ASSUME Init PROVE IInv
  OBVIOUS
<1>1. Strays = {} /\ \A r : Overruns(r) = {}
  BY DEF Init, Strays, Overruns, Trying, Locked
<1>2. Cardinality({}) = 0 /\ IsFiniteSet({})
  BY FS_EmptySet
<1>3. StraysCounted
  BY <1>1, <1>2 DEF Init, StraysCounted
<1>4. \A r \in Reviews, w \in Workers : ~Trying(w, r)
  BY DEF Init, Trying
<1>5. AttemptsCounted
  <2>1. MaxAttempts \in Nat /\ expiries = 0 /\ \A r \in Reviews : attempts[r] = 0
    BY ReviewScoringAssumption DEF Init
  <2>2. \A r \in Reviews : Cardinality(Overruns(r)) = 0
    BY <1>1, <1>2
  <2>3. \A r \in Reviews : attempts[r] + Cardinality(Overruns(r)) <= MaxAttempts + expiries
    BY <2>1, <2>2
  <2>4. QED
    BY <1>4, <2>3 DEF AttemptsCounted
<1>6. BatchPending /\ ExtractedOnce
  BY <1>4 DEF Init, BatchPending, ExtractedOnce
<1>7. QED
  BY <1>3, <1>5, <1>6 DEF IInv

\* Every step of process_reviews, and every failure, keeps the counting invariant.
LEMMA StepCounts == TypeOK /\ IInv /\ [Next]_vars => IInv'
<1> SUFFICES ASSUME TypeOK, IInv, [Next]_vars
             PROVE  IInv'
  OBVIOUS
<1> USE DEF reviewVars, scoreVars, runVars, boundVars
<1>1. ASSUME status' = status, attempts' = attempts, extracted' = extracted, expiries' = expiries,
             \A w \in Workers :
                 /\ pc'[w] \in Locked /\ lock' # w => pc[w] \in Locked /\ lock # w
                 /\ pc'[w] = "extracting" =>
                        /\ pc[w] = "extracting" /\ batch'[w] = batch[w]
                        /\ lock' = w <=> lock = w
      PROVE  IInv'
  BY <1>1, CountsKept, ReviewsKept DEF IInv
<1>2. CASE UNCHANGED vars
  BY <1>1, <1>2 DEF vars
<1>3. ASSUME NEW r \in Reviews, Import(r)
      PROVE  IInv'
  <2>1. StraysCounted' /\ AttemptsCounted'
    BY <1>3, CountsKept DEF Import, IInv
  <2>2. BatchPending' /\ ExtractedOnce'
    BY <1>3 DEF Import, IInv, BatchPending, ExtractedOnce, Trying, TypeOK, Statuses
  <2>3. QED
    BY <2>1, <2>2 DEF IInv
<1>4. CASE Trigger
  BY <1>1, <1>4 DEF Trigger
<1>5. ASSUME NEW w \in Workers, Work(w) \/ Crash(w) \/ Redeliver(w)
      PROVE  IInv'
  <2>1. ASSUME NEW k \in 0 .. MaxRetries, Receive(w, k)
        PROVE  IInv'
    <3>1. CASE UNCHANGED <<lock, pc>>
      BY <1>1, <2>1, <3>1 DEF Receive
    <3>2. CASE lock = "free" /\ lock' = w /\ Begin(w, k, "loading")
      <4>1. /\ pc'[w] = "loading" /\ \A v \in Workers \ {w} : pc'[v] = pc[v]
        BY <3>2 DEF Begin, TypeOK
      <4>2. \A v \in Workers : lock # v
        BY <3>2, ReviewScoringAssumption
      <4>3. QED
        BY <1>1, <2>1, <3>2, <4>1, <4>2 DEF Receive
    <3>3. CASE UNCHANGED lock /\ Begin(w, k, "raising")
      <4>1. /\ pc'[w] = "raising" /\ \A v \in Workers \ {w} : pc'[v] = pc[v]
        BY <3>3 DEF Begin, TypeOK
      <4>2. QED
        BY <1>1, <2>1, <3>3, <4>1 DEF Receive, Locked
    <3>4. QED
      BY <2>1, <3>1, <3>2, <3>3 DEF Receive, Acquirable
  <2>2. CASE Load(w)
    BY <2>2, LoadKeeps
  <2>3. ASSUME NEW ok \in BOOLEAN, Extract(w, ok)
        PROVE  IInv'
    BY <2>3, ExtractKeeps
  <2>4. ASSUME NEW step \in {"scoring", "following", "raising", "releasing"},
               pc' = [pc EXCEPT ![w] = step], step \in Locked => pc[w] \in Locked,
               UNCHANGED <<status, attempts, extracted, lock, batch, expiries>>
        PROVE  IInv'
    <3>1. pc'[w] = step /\ \A v \in Workers \ {w} : pc'[v] = pc[v]
      BY <2>4 DEF TypeOK
    <3>2. QED
      BY <1>1, <2>4, <3>1
  <2>5. CASE FinishBatch(w)
    <3>1. AfterBatch(w) \in {"scoring", "following", "raising", "releasing"}
      BY DEF AfterBatch
    <3>2. QED
      BY <2>4, <2>5, <3>1 DEF FinishBatch, Locked
  <2>6. CASE Recalculate(w)
    <3>1. UNCHANGED <<reviewVars, lock, pc, batch, boundVars>>
      BY <2>6 DEF Recalculate
    <3>2. QED
      BY <1>1, <3>1
  <2>7. CASE Normalize(w)
    BY <2>4, <2>7 DEF Normalize, Locked
  <2>8. CASE SendFollowUp(w)
    BY <2>4, <2>8 DEF SendFollowUp, Locked
  <2>9. CASE Raise(w)
    BY <2>4, <2>9 DEF Raise, Locked
  <2>10. CASE Retry(w)
    BY <2>4, <2>10 DEF Retry, Locked
  <2>11. ASSUME Idle(w), lock = w => lock' \in {"free", "orphan"}, lock # w => lock' = lock,
                UNCHANGED <<reviewVars, expiries>>
         PROVE  IInv'
    <3>1. pc'[w] = "idle" /\ \A v \in Workers \ {w} : pc'[v] = pc[v] /\ batch'[v] = batch[v]
      BY <2>11 DEF Idle, TypeOK
    <3>2. \A v \in Workers \ {w} : lock' = v <=> lock = v
      BY <2>11, ReviewScoringAssumption
    <3>3. QED
      BY <1>1, <2>11, <3>1, <3>2 DEF Locked
  <2>12. CASE Release(w)
    BY <2>11, <2>12 DEF Release
  <2>13. CASE Crash(w)
    BY <2>11, <2>13 DEF Crash
  <2>14. CASE Redeliver(w)
    BY <1>1, <2>14 DEF Redeliver
  <2>15. QED
    BY <1>5, <2>1, <2>2, <2>3, <2>5, <2>6, <2>7, <2>8, <2>9, <2>10, <2>12, <2>13, <2>14 DEF Work
<1>6. CASE Expire
  <2>1. CASE lock = "orphan" /\ UNCHANGED expiries
    <3>1. \A w \in Workers : lock # w /\ lock' # w
      BY <1>6, <2>1, ReviewScoringAssumption DEF Expire
    <3>2. QED
      BY <1>1, <1>6, <2>1, <3>1 DEF Expire
  <2>2. CASE lock \in Workers /\ expiries' = expiries + 1
    BY <1>6, <2>2, LossKeeps DEF Expire
  <2>3. QED
    BY <1>6, <2>1, <2>2 DEF Expire
<1>7. QED
  BY <1>2, <1>3, <1>4, <1>5, <1>6 DEF Next

\* The counting invariant holds throughout.
LEMMA Counting == Spec => [](TypeOK /\ IInv)
<1>1. Init => TypeOK /\ IInv
  BY InitTyped, InitCounts
<1>2. TypeOK /\ IInv /\ [Next]_vars => (TypeOK /\ IInv)'
  BY StepTyped, StepCounts
<1>3. QED
  BY <1>1, <1>2, PTL DEF Spec

\* No review is tried more often than the bound of has_pending_reviews allows,
\* plus once for each run that outlived its lock.
THEOREM Bounded == Spec => []AttemptsBounded
<1>1. TypeOK /\ IInv => AttemptsBounded
  <2> SUFFICES ASSUME TypeOK, IInv, NEW r \in Reviews
               PROVE  attempts[r] <= MaxAttempts + expiries
    BY DEF AttemptsBounded
  <2>1. /\ Cardinality(Overruns(r)) \in Nat /\ attempts[r] \in Nat
        /\ MaxAttempts \in Nat /\ expiries \in Nat
    BY OverrunsFinite, ReviewScoringAssumption DEF IInv, TypeOK
  <2>2. QED
    BY <2>1 DEF IInv, AttemptsCounted
<1>2. QED
  BY <1>1, Counting, PTL

\* While no run outlives its lock, a review is extracted at most once, and says
\* COMPLETED if and only if it was.
THEOREM ExtractionOnce == Spec => []ExtractedOnce
<1>1. IInv => ExtractedOnce
  BY DEF IInv
<1>2. QED
  BY <1>1, Counting, PTL
-----------------------------------------------------------------------------
(* Nothing is forgotten                                                    *)

\* Workers that will look for pending reviews again, or send a message.
Looking == {"loading", "extracting", "following", "raising"}

\* Will w, or a message, see to r?  A run that scores has found nothing pending;
\* it recalculates the hotels it has left and normalizes what is scored.
SeesTo(w, r) ==
    \/ pc[w] \in Looking
    \/ pc[w] = "scoring" /\ r \notin Pending /\ (r \in scored \/ HotelOf[r] \in todo[w])
Waiting == \E k \in 0 .. MaxRetries : queue[k] > 0

\* What is to do has not been announced, or is seen to, or was missed.
Heeded ==
    \A r \in Undone : \/ r \in untold \cup missed \/ Waiting
                      \/ \E w \in Workers : SeesTo(w, r)

\* A step that leaves reviews, scores, and the work of the others alone, keeps
\* them heeded if what w saw to is.
LEMMA OthersSeeTo ==
    ASSUME Heeded, NEW w \in Workers, UNCHANGED <<reviewVars, scoreVars>>,
           TypeOK, \A v \in Workers \ {w} : pc'[v] = pc[v] /\ todo'[v] = todo[v],
           missed \subseteq missed', Waiting => Waiting',
           \A r \in Undone : SeesTo(w, r) => r \in missed' \/ Waiting' \/ SeesTo(w, r)'
    PROVE  Heeded'
<1>1. Undone' = Undone /\ Pending' = Pending
  BY DEF Undone, Unshown, Pending, Extracted, reviewVars, scoreVars
<1>2. \A v \in Workers \ {w}, r \in Undone : SeesTo(v, r)' = SeesTo(v, r)
  BY <1>1 DEF SeesTo, scoreVars
<1>3. QED
  BY <1>1, <1>2 DEF Heeded, reviewVars

\* One more message waits after it is sent, whatever waited before.
LEMMA SentWaits ==
    ASSUME TypeOK, NEW k \in 0 .. MaxRetries, queue' = [queue EXCEPT ![k] = @ + 1]
    PROVE  Waiting'
<1>1. queue'[k] = queue[k] + 1 /\ queue[k] \in Nat
  BY DEF TypeOK
<1>2. queue'[k] > 0
  BY <1>1
<1>3. QED
  BY <1>2 DEF Waiting

\* A dropped message (process_reviews, jobs.py:128) is missed, or whoever holds
\* the lock sees to what it was for.
LEMMA DropIsNoted ==
    ASSUME TypeOK, NEW r \in Undone, r \notin Neglected
    PROVE  \E w \in Workers : SeesTo(w, r)
<1>1. lock \in Workers /\ (pc[lock] \in Looking \/ pc[lock] = "scoring")
  BY DEF Neglected, Looking
<1>2. CASE pc[lock] \in Looking
  BY <1>1, <1>2 DEF SeesTo
<1>3. CASE pc[lock] = "scoring"
  <2>1. r \notin Pending /\ ~(r \in Extracted \ scored /\ HotelOf[r] \notin todo[lock])
    BY <1>1, <1>3 DEF Neglected
  <2>2. r \in Extracted
    BY <2>1 DEF Undone, Unshown
  <2>3. QED
    BY <1>1, <1>3, <2>1, <2>2 DEF SeesTo
<1>4. QED
  BY <1>1, <1>2, <1>3

\* Reviews arrive: a new one is announced later, a message sent now.
LEMMA ArrivalHeeded ==
    ASSUME TypeOK, Heeded, (\E r \in Reviews : Import(r)) \/ Trigger
    PROVE  Heeded'
<1>1. CASE Trigger
  <2>1. 0 \in 0 .. MaxRetries
    BY ReviewScoringAssumption
  <2>2. Waiting'
    BY <1>1, <2>1, SentWaits DEF Trigger
  <2>3. QED
    BY <2>2 DEF Heeded
<1>2. ASSUME NEW q \in Reviews, Import(q)
      PROVE  Heeded'
  <2>1. /\ status' = [status EXCEPT ![q] = "new"] /\ untold' = untold \cup {q}
        /\ UNCHANGED <<attempts, extracted, scored, relative, missed, queue, pc, todo>>
    BY <1>2 DEF Import, scoreVars, runVars
  <2>2. \A r \in Reviews \ {q} : status'[r] = status[r]
    BY <2>1 DEF TypeOK
  <2>3. \A r \in Reviews \ {q} : /\ r \in Pending' <=> r \in Pending
                                 /\ r \in Undone' <=> r \in Undone
    BY <2>1, <2>2 DEF Pending, Undone, Unshown, Extracted
  <2>4. ASSUME NEW r \in Reviews \ {q}, r \in Undone'
        PROVE  r \in untold \cup missed \/ Waiting \/ \E w \in Workers : SeesTo(w, r)'
    <3>1. r \in Undone
      BY <2>3, <2>4
    <3>2. \A w \in Workers : SeesTo(w, r)' <=> SeesTo(w, r)
      BY <2>1, <2>3, <2>4, <3>1 DEF SeesTo
    <3>3. QED
      BY <3>1, <3>2 DEF Heeded
  <2>5. Undone' \subseteq Reviews
    BY DEF Undone, Unshown, Pending, Extracted
  <2>6. QED
    BY <2>1, <2>4, <2>5 DEF Heeded, Waiting
<1>3. QED
  BY <1>1, <1>2

\* process_reviews takes its message: as the holder of the lock it goes on,
\* otherwise its work is noted.
LEMMA ReceiveHeeded ==
    ASSUME TypeOK, Heeded, NEW w \in Workers, NEW k \in 0 .. MaxRetries, Receive(w, k)
    PROVE  Heeded'
<1>1. pc[w] = "idle" /\ UNCHANGED <<reviewVars, scoreVars, todo>>
  BY DEF Receive
<1>2. CASE pc'[w] \in Looking
  BY <1>2 DEF Heeded, SeesTo
<1>3. CASE pc'[w] \notin Looking
  <2>1. missed' = missed \cup Neglected /\ UNCHANGED pc
    BY <1>3 DEF Receive, Begin, TypeOK, Looking
  <2>2. Undone' = Undone /\ Pending' = Pending
    BY <1>1 DEF Undone, Unshown, Pending, Extracted, reviewVars, scoreVars
  <2>3. \A v \in Workers, r \in Undone : SeesTo(v, r)' <=> SeesTo(v, r)
    BY <1>1, <2>1, <2>2 DEF SeesTo, scoreVars
  <2>4. QED
    BY <2>1, <2>2, <2>3, DropIsNoted DEF Heeded
<1>4. QED
  BY <1>2, <1>3

\* A batch ends: what is pending makes the run go on, or there is none, and
\* every hotel is to be recalculated.
LEMMA FinishHeeded ==
    ASSUME TypeOK, Heeded, NEW w \in Workers, FinishBatch(w)
    PROVE  Heeded'
<1>1. /\ UNCHANGED <<reviewVars, scoreVars>> /\ pc'[w] = AfterBatch(w)
      /\ todo'[w] = IF AfterBatch(w) = "scoring" THEN ToScore ELSE {}
  BY DEF FinishBatch, TypeOK
<1>2. CASE pc'[w] \in Looking
  BY <1>2 DEF Heeded, SeesTo
<1>3. CASE pc'[w] \notin Looking
  <2>1. pc'[w] = "scoring" /\ Pending = {} /\ todo'[w] = ToScore
    BY <1>1, <1>3 DEF AfterBatch, Looking
  <2>2. Pending' = {} /\ Undone' \subseteq Extracted
    BY <1>1, <2>1 DEF Undone, Unshown, Pending, Extracted, reviewVars, scoreVars
  <2>3. \A r \in Undone' : SeesTo(w, r)'
    BY <2>1, <2>2 DEF SeesTo, ToScore
  <2>4. QED
    BY <2>3 DEF Heeded
<1>4. QED
  BY <1>2, <1>3

\* One hotel is recalculated: its reviews are counted, and the run normalizes.
LEMMA RecalculateHeeded ==
    ASSUME TypeOK, Heeded, NEW w \in Workers, Recalculate(w)
    PROVE  Heeded'
<1>1. PICK h \in todo[w] :
        /\ pc[w] = "scoring" /\ todo' = [todo EXCEPT ![w] = @ \ {h}]
        /\ scored' = scored \cup {r \in Extracted : HotelOf[r] = h}
        /\ relative' = relative \ {h}
        /\ UNCHANGED <<reviewVars, missed, queue, pc>>
  BY DEF Recalculate
<1>2. Pending' = Pending /\ Extracted' = Extracted
  BY <1>1 DEF Pending, Extracted, reviewVars
<1>3. SUFFICES ASSUME NEW r \in Undone'
               PROVE  r \in untold \cup missed \/ Waiting \/ \E v \in Workers : SeesTo(v, r)'
  BY <1>1 DEF Heeded, Waiting, reviewVars
<1>4. CASE r \in scored' /\ r \notin Pending
  BY <1>1, <1>2, <1>4 DEF SeesTo
<1>5. CASE r \notin scored' \/ r \in Pending
  <2>1. r \in Undone
    BY <1>1, <1>2, <1>3, <1>5 DEF Undone, Unshown
  <2>2. r \in Pending \/ (r \in Extracted /\ r \notin scored /\ HotelOf[r] # h)
    BY <1>1, <1>2, <1>3, <1>5 DEF Undone, Unshown
  <2>3. ASSUME NEW v \in Workers, SeesTo(v, r)
        PROVE  SeesTo(v, r)'
    <3>1. pc'[v] = pc[v] /\ (todo'[v] = todo[v] \/ todo'[v] = todo[v] \ {h})
      BY <1>1 DEF TypeOK
    <3>2. QED
      BY <1>1, <1>2, <2>2, <2>3, <3>1 DEF SeesTo
  <2>4. QED
    BY <2>1, <2>3 DEF Heeded
<1>6. QED
  BY <1>4, <1>5

\* All that is scored is normalized, and shown if no other extraction followed.
LEMMA NormalizeHeeded ==
    ASSUME TypeOK, Heeded, NEW w \in Workers, Normalize(w)
    PROVE  Heeded'
<1>1. /\ pc[w] = "scoring" /\ todo[w] = {} /\ pc' = [pc EXCEPT ![w] = "releasing"]
      /\ relative' = relative \cup {HotelOf[r] : r \in scored}
      /\ UNCHANGED <<reviewVars, scored, missed, queue, todo>>
  BY DEF Normalize, runVars
<1>2. Pending' = Pending /\ Extracted' = Extracted
  BY <1>1 DEF Pending, Extracted, reviewVars
<1>3. SUFFICES ASSUME NEW r \in Undone'
               PROVE  r \in untold \cup missed \/ Waiting \/ \E v \in Workers : SeesTo(v, r)'
  BY <1>1 DEF Heeded, Waiting, reviewVars
<1>4. r \in Undone /\ (r \in Pending \/ r \notin scored)
  BY <1>1, <1>2, <1>3 DEF Undone, Unshown
<1>5. ~SeesTo(w, r)
  BY <1>1, <1>4 DEF SeesTo, Looking
<1>6. ASSUME NEW v \in Workers \ {w}, SeesTo(v, r)
      PROVE  SeesTo(v, r)'
  BY <1>1, <1>2, <1>6 DEF SeesTo, TypeOK
<1>7. QED
  BY <1>4, <1>5, <1>6 DEF Heeded

\* A run that ends its part sees to nothing any more: either it has released,
\* or it died and its message, or what there was to do, is kept.
LEMMA EndHeeded ==
    ASSUME TypeOK, Heeded, NEW w \in Workers, Release(w) \/ Crash(w) \/ Retry(w)
    PROVE  Heeded'
<1>1. CASE Release(w)
  <2>1. /\ pc[w] = "releasing" /\ UNCHANGED <<reviewVars, scoreVars, missed, queue>>
        /\ \A v \in Workers \ {w} : pc'[v] = pc[v] /\ todo'[v] = todo[v]
    BY <1>1 DEF Release, Idle, TypeOK
  <2>2. \A r \in Undone : ~SeesTo(w, r)
    BY <2>1 DEF SeesTo, Looking
  <2>3. Waiting => Waiting'
    BY <2>1 DEF Waiting
  <2>4. QED
    BY <2>1, <2>2, <2>3, OthersSeeTo
<1>2. CASE Crash(w) \/ Retry(w)
  <2>1. UNCHANGED <<reviewVars, scoreVars>>
    BY <1>2 DEF Crash, Retry
  <2>2. Undone' = Undone
    BY <2>1 DEF Undone, Unshown, Pending, Extracted, reviewVars, scoreVars
  <2>3. CASE missed' = missed \cup Undone
    BY <2>2, <2>3 DEF Heeded
  <2>4. CASE missed' # missed \cup Undone
    <3>1. PICK k \in 0 .. MaxRetries : queue' = [queue EXCEPT ![k] = @ + 1]
      <4>1. CASE Crash(w)
        BY <2>4, <4>1 DEF Crash, TypeOK
      <4>2. CASE Retry(w)
        <5>1. retries[w] \in 0 .. MaxRetries /\ retries[w] < MaxRetries
              /\ queue' = [queue EXCEPT ![retries[w] + 1] = @ + 1]
          BY <2>4, <4>2 DEF Retry, Retried, TypeOK
        <5>2. retries[w] + 1 \in 0 .. MaxRetries
          BY <5>1, ReviewScoringAssumption
        <5>3. QED
          BY <5>1, <5>2
      <4>3. QED
        BY <1>2, <4>1, <4>2
    <3>2. QED
      BY <3>1, SentWaits DEF Heeded
  <2>5. QED
    BY <2>3, <2>4
<1>3. QED
  BY <1>1, <1>2

\* Every step keeps what there is to do heeded.
LEMMA StepHeeded ==
    ASSUME TypeOK, Heeded, [Next]_vars
    PROVE  Heeded'
<1>1. CASE UNCHANGED vars
  <2>1. UNCHANGED <<status, attempts, extracted, untold, scored, relative, missed, queue, pc, todo>>
    BY <1>1 DEF vars, reviewVars, scoreVars, runVars
  <2>2. QED
    BY <2>1 DEF Heeded, Waiting, SeesTo, Undone, Unshown, Pending, Extracted
<1>2. CASE (\E r \in Reviews : Import(r)) \/ Trigger
  BY <1>2, ArrivalHeeded
<1>3. CASE Expire
  <2>1. UNCHANGED <<status, attempts, extracted, untold, scored, relative, missed, queue, pc, todo>>
    BY <1>3 DEF Expire, reviewVars, scoreVars, runVars
  <2>2. QED
    BY <2>1 DEF Heeded, Waiting, SeesTo, Undone, Unshown, Pending, Extracted
<1>4. ASSUME NEW w \in Workers, Work(w) \/ Crash(w) \/ Redeliver(w)
      PROVE  Heeded'
  <2>1. CASE \E k \in 0 .. MaxRetries : Receive(w, k)
    BY <2>1, ReceiveHeeded
  <2>2. CASE Load(w) \/ (\E ok \in BOOLEAN : Extract(w, ok)) \/ Raise(w)
    <3>1. pc'[w] \in Looking
      BY <2>2 DEF Load, Extract, Raise, TypeOK, Looking
    <3>2. QED
      BY <3>1 DEF Heeded, SeesTo
  <2>3. CASE FinishBatch(w)
    BY <2>3, FinishHeeded
  <2>4. CASE Recalculate(w)
    BY <2>4, RecalculateHeeded
  <2>5. CASE Normalize(w)
    BY <2>5, NormalizeHeeded
  <2>6. CASE SendFollowUp(w) \/ Redeliver(w)
    <3>1. 0 \in 0 .. MaxRetries /\ retries[w] \in 0 .. MaxRetries
      BY ReviewScoringAssumption DEF TypeOK
    <3>2. Waiting'
      BY <2>6, <3>1, SentWaits DEF SendFollowUp, Redeliver
    <3>3. QED
      BY <3>2 DEF Heeded
  <2>7. CASE Release(w) \/ Crash(w) \/ Retry(w)
    BY <2>7, EndHeeded
  <2>8. QED
    BY <1>4, <2>1, <2>2, <2>3, <2>4, <2>5, <2>6, <2>7 DEF Work
<1>5. QED
  BY <1>1, <1>2, <1>3, <1>4 DEF Next

\* When nothing runs and nothing waits, every review whose trigger was sent is
\* given up or shown in a ranking, or was to do when a message was lost
\* (process_reviews, jobs.py:106-176): batches, retries, redeliveries, lost
\* locks and concurrent runs forget none.
THEOREM NothingForgotten == Spec => []QuietIsDone
<1>1. Init => TypeOK /\ Heeded
  <2>1. Init => Undone = {}
    BY DEF Init, Undone, Unshown, Pending, Extracted
  <2>2. QED
    BY <2>1, InitTyped DEF Heeded
<1>2. TypeOK /\ Heeded /\ [Next]_vars => (TypeOK /\ Heeded)'
  BY StepTyped, StepHeeded
<1>3. TypeOK /\ Heeded => QuietIsDone
  <2> SUFFICES ASSUME TypeOK, Heeded, Quiet, NEW r \in Undone
               PROVE  r \in untold \cup missed
    BY DEF QuietIsDone
  <2>1. ~Waiting
    BY DEF Quiet, Waiting
  <2>2. \A w \in Workers : ~SeesTo(w, r)
    BY DEF Quiet, SeesTo, Looking
  <2>3. QED
    BY <2>1, <2>2 DEF Heeded
<1>4. QED
  BY <1>1, <1>2, <1>3, PTL DEF Spec
=============================================================================
