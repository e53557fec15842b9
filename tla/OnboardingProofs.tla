--------------------------- MODULE OnboardingProofs ---------------------------
(***************************************************************************)
(* What one step of Onboarding does to the sessions and the requests, and  *)
(* its types, for any prompts, topics and limits and any number of         *)
(* requests, sessions, completions and crashes.                            *)
(***************************************************************************)
EXTENDS Onboarding, SequenceTheorems, FiniteSetTheorems, WellFoundedInduction, TLAPS

-----------------------------------------------------------------------------
(* What the provider may answer                                            *)

\* A non-empty set of numbers has a least one.
LEMMA LeastNumber ==
    ASSUME NEW S \in SUBSET Nat, S # {}
    PROVE  \E n \in S : \A m \in S : n <= m
<1> DEFINE below == {0 .. n : n \in S}
<1> DEFINE shorter == StrictSubsetOrdering(Nat)
<1>1. \A n \in S : 0 .. n \subseteq Nat /\ IsFiniteSet(0 .. n)
  BY FS_Interval
<1>2. below \subseteq FiniteSubsetsOf(Nat) /\ below # {}
  BY <1>1 DEF FiniteSubsetsOf
<1>3. IsWellFoundedOn(shorter, FiniteSubsetsOf(Nat))
  BY FS_StrictSubsetOrderingWellFounded
<1>4. \E x \in below : \A y \in below : ~ (<<y, x>> \in shorter)
  <2> HIDE DEF below, shorter
  <2>1. QED
    BY <1>2, <1>3, WFMin
<1>5. PICK n \in S : \A m \in S : <<0 .. m, 0 .. n>> \notin shorter
  BY <1>4
<1>6. ASSUME NEW m \in S, ~(n <= m) PROVE FALSE
  <2>1. 0 .. m \subseteq 0 .. n /\ n \in 0 .. n /\ n \notin 0 .. m
    BY <1>6
  <2>2. <<0 .. m, 0 .. n>> \in shorter
    BY <1>1, <2>1 DEF StrictSubsetOrdering
  <2>3. QED
    BY <1>5, <2>2
<1>7. QED
  BY <1>6

\* A bounded one has a greatest.
LEMMA GreatestNumber ==
    ASSUME NEW k \in Nat, NEW S \in SUBSET (1 .. k), S # {}
    PROVE  \E n \in S : \A m \in S : m <= n
<1> DEFINE mirror == {k - n : n \in S}
<1>1. mirror \in SUBSET Nat /\ mirror # {}
  <2>1. \A n \in S : k - n \in Nat
    OBVIOUS
  <2>2. QED
    BY <2>1
<1>2. \E x \in mirror : \A y \in mirror : x <= y
  <2> HIDE DEF mirror
  <2>1. QED
    BY <1>1, LeastNumber
<1>3. PICK n \in S : \A m \in S : k - n <= k - m
  BY <1>2
<1>4. QED
  BY <1>3

\* A request or a retry that is accepted brings a decision that keeps the
\* contract (QuestionnaireDecision): known signals, and a known prompt unless it
\* declares the questionnaire complete.
LEMMA VerdictKept ==
    ASSUME NEW reply \in Reply, Verdict(reply) # Failed
    PROVE  /\ Verdict(reply).signals \subseteq Inferable
           /\ ~Verdict(reply).complete => Verdict(reply).prompt \in Prompts
<1> DEFINE read == Normalized(Sanitized(reply))
<1>1. read.complete \in BOOLEAN /\ read.question \in Question \cup {NoQuestion}
  BY DEF Reply, Normalized, Sanitized
<1>2. Valid(read) /\ Verdict(reply) = Decision(read)
  BY DEF Verdict
<1>3. read.signals \subseteq Inferable /\ (~read.complete => read.question \in Question)
  BY <1>1, <1>2 DEF Valid
<1>4. QED
  BY <1>2, <1>3 DEF Decision, Question

\* What the attempts come to (decide) keeps the contract, or is the failure.
LEMMA DecisionKept ==
    ASSUME NEW d \in Decisions
    PROVE  /\ d.signals \subseteq Inferable
           /\ ~d.complete /\ d # Failed => d.prompt \in Prompts
<1> DEFINE verdicts == {Failed} \cup {Verdict(reply) : reply \in Reply}
<1>1. PICK attempts \in [1 .. MaxRetries + 1 -> verdicts] : d = Validated(attempts)
  BY DEF Decisions
<1> DEFINE accepted == {n \in 1 .. MaxRetries + 1 : attempts[n] # Failed}
<1>2. CASE accepted = {}
  BY <1>1, <1>2 DEF Validated, Failed
<1>3. CASE accepted # {}
  <2>1. \E n \in accepted : \A m \in accepted : n <= m
    <3>1. accepted \in SUBSET Nat
      OBVIOUS
    <3> HIDE DEF accepted
    <3>2. QED
      BY <1>3, <3>1, LeastNumber
  <2>2. Min(accepted) \in accepted
    BY <2>1 DEF Min
  <2>3. d = attempts[Min(accepted)] /\ d # Failed
    BY <1>1, <1>3, <2>2 DEF Validated
  <2>4. PICK reply \in Reply : d = Verdict(reply)
    BY <2>2, <2>3
  <2>5. QED
    BY <2>3, <2>4, VerdictKept
<1>4. QED
  BY <1>2, <1>3

-----------------------------------------------------------------------------
(* Types, strengthened                                                     *)

Generating == {"routing", "asking", "finishing", "persisting", "failing"}
Profiling  == {"profiling", "built", "storing"}

\* Every question has its place for an answer, on a sheet of either kind.
Paired(sheet) == Len(sheet.qs) = Len(sheet.ans)

\* Types, and that a request at work has a session.
Typed ==
    /\ TypeOK
    /\ \A r \in Requests : /\ Paired(local[r].sheet)
                           /\ pc[r] \in Generating \cup Profiling => local[r].sid \in Ids

-----------------------------------------------------------------------------
(* What the operations make of a session and its sheet                     *)

\* A request writes one session and leaves the others.
Rewrites(s, new) ==
    /\ Len(sessions') = Len(sessions)
    /\ sessions'[s] = new
    /\ \A t \in Ids \ {s} : sessions'[t] = sessions[t]

\* A write of a session (commit) keeps the list of sessions.
LEMMA Rewritten ==
    ASSUME Typed, NEW s \in Ids, NEW new \in Session, Paired(new.sheet),
           sessions' = [sessions EXCEPT ![s] = new]
    PROVE  /\ Rewrites(s, new) /\ sessions' \in Seq(Session)
           /\ \A t \in 1 .. Len(sessions') : Paired(sessions'[t].sheet)
<1>1. sessions \in Seq(Session) /\ s \in 1 .. Len(sessions)
  BY DEF Typed, TypeOK, Ids
<1>2. sessions' \in Seq(Session) /\ Rewrites(s, new)
  BY <1>1, ExceptSeq DEF Rewrites, Ids
<1>3. \A t \in Ids : Paired(sessions[t].sheet)
  BY DEF Typed, TypeOK, Paired
<1>4. QED
  BY <1>2, <1>3 DEF Rewrites, Ids

\* A session of the list, and the parts of one.
LEMMA SessionParts ==
    ASSUME Typed, NEW s \in Ids
    PROVE  /\ sessions[s] \in Session /\ Paired(sessions[s].sheet)
           /\ sessions[s].sheet.qs \in Seq(Prompts)
           /\ sessions[s].sheet.ans \in Seq(Answers \cup {NoAnswer})
<1>1. sessions \in Seq(Session) /\ s \in 1 .. Len(sessions)
  BY DEF Typed, TypeOK, Ids
<1>2. sessions[s] \in Session
  BY <1>1, ElementOfSeq
<1>3. Paired(sessions[s].sheet)
  BY DEF Typed, TypeOK, Paired
<1>4. QED
  BY <1>2, <1>3 DEF Session, Sheet

\* The user's latest active session is one of the active sessions (get_active_session).
LEMMA LatestIsActive ==
    ASSUME Typed, Active # {}
    PROVE  Latest \in Active /\ Latest \in Ids
<1>1. Len(sessions) \in Nat /\ Active \in SUBSET (1 .. Len(sessions))
  BY LenProperties DEF Typed, TypeOK, Active, Ids
<1>2. \E s \in Active : \A t \in Active : t <= s
  BY <1>1, GreatestNumber
<1>3. QED
  BY <1>2 DEF Latest, Active

\* Neither kind of session is born with a broken sheet.
LEMMA FirstSessions ==
    /\ NewSession \in Session /\ LegacySession \in Session
    /\ Paired(NewSession.sheet) /\ Paired(LegacySession.sheet) /\ Paired(EmptySheet)
    /\ EmptySheet \in Sheet /\ NoLocal \in Local
<1>1. First \in Prompts
  BY OnboardingAssumption
<1>2. EmptySheet \in Sheet /\ Paired(EmptySheet)
  BY DEF EmptySheet, Sheet, Paired
<1>3. [qs |-> <<First>>, ans |-> <<NoAnswer>>] \in Sheet
  BY <1>1 DEF Sheet
<1>4. NewSession \in Session /\ Paired(NewSession.sheet)
  BY <1>2, <1>3 DEF NewSession, Session, Statuses, GenStates, Paired
<1>5. LegacySession \in Session /\ Paired(LegacySession.sheet)
  BY <1>2, <1>4 DEF LegacySession, NewSession, Session
<1>6. NoLocal \in Local
  BY <1>1, <1>2 DEF NoLocal, Local
<1>7. QED
  BY <1>2, <1>4, <1>5, <1>6

\* A new or a changed answer (_submit_adaptive) replaces one answer, of all the
\* questions or, where it differs, of those up to it.
LEMMA EditedSheet ==
    ASSUME NEW s \in Session, Paired(s.sheet), NEW i \in 1 .. Len(s.sheet.qs), NEW a \in Answers
    PROVE  LET new == Edited(s, i, a)
           IN  /\ new \in Session /\ Paired(new.sheet)
               /\ new.status = s.status /\ new.gen = "GENERATING" /\ new.profile = s.profile
               /\ new.signals \subseteq s.signals
               /\ Len(new.sheet.qs) = IF s.sheet.ans[i] \in {NoAnswer, a}
                                      THEN Len(s.sheet.qs) ELSE i
               /\ \A j \in 1 .. Len(new.sheet.qs) :
                    /\ new.sheet.qs[j] = s.sheet.qs[j]
                    /\ new.sheet.ans[j] = IF j = i THEN a ELSE s.sheet.ans[j]
<1> DEFINE qs == s.sheet.qs
<1> DEFINE ans == s.sheet.ans
<1> DEFINE changed == ans[i] \notin {NoAnswer, a}
<1> DEFINE kept == IF changed THEN [qs |-> SubSeq(qs, 1, i), ans |-> SubSeq(ans, 1, i)]
                   ELSE s.sheet
<1> DEFINE new == Edited(s, i, a)
<1>1. /\ s.sheet \in Sheet /\ qs \in Seq(Prompts) /\ ans \in Seq(Answers \cup {NoAnswer})
      /\ Len(qs) = Len(ans) /\ Len(qs) \in Nat
  BY LenProperties DEF Session, Sheet, Paired
<1>2. /\ kept \in Sheet
      /\ Len(kept.qs) = (IF changed THEN i ELSE Len(qs)) /\ Len(kept.ans) = Len(kept.qs)
      /\ \A j \in 1 .. Len(kept.qs) : kept.qs[j] = qs[j] /\ kept.ans[j] = ans[j]
  <2>1. CASE changed
    <3>1. /\ SubSeq(qs, 1, i) \in Seq(Prompts) /\ Len(SubSeq(qs, 1, i)) = i
          /\ \A j \in 1 .. i : SubSeq(qs, 1, i)[j] = qs[j]
      BY <1>1
    <3>2. /\ SubSeq(ans, 1, i) \in Seq(Answers \cup {NoAnswer}) /\ Len(SubSeq(ans, 1, i)) = i
          /\ \A j \in 1 .. i : SubSeq(ans, 1, i)[j] = ans[j]
      BY <1>1
    <3>3. QED
      BY <2>1, <3>1, <3>2 DEF Sheet
  <2>2. CASE ~changed
    BY <1>1, <2>2
  <2>3. QED
    BY <2>1, <2>2
<1> DEFINE replaced == [kept.ans EXCEPT ![i] = a]
<1>3. /\ i \in 1 .. Len(kept.ans) /\ kept.ans \in Seq(Answers \cup {NoAnswer})
      /\ kept.qs \in Seq(Prompts)
  BY <1>1, <1>2 DEF Sheet
<1>4. /\ replaced \in Seq(Answers \cup {NoAnswer}) /\ Len(replaced) = Len(kept.ans)
      /\ \A j \in 1 .. Len(kept.ans) : replaced[j] = IF j = i THEN a ELSE kept.ans[j]
  <2> HIDE DEF kept
  <2>1. QED
    BY <1>3, ExceptSeq
<1>5. [kept EXCEPT !.ans[i] = a] = [qs |-> kept.qs, ans |-> replaced]
  <2>1. kept = [qs |-> kept.qs, ans |-> kept.ans]
    BY <1>2 DEF Sheet
  <2> HIDE DEF kept
  <2>2. QED
    BY <2>1
<1>6. new = [s EXCEPT !.sheet = [qs |-> kept.qs, ans |-> replaced],
                      !.signals = IF changed THEN {} ELSE @, !.gen = "GENERATING"]
  BY <1>5 DEF Edited
<1>7. /\ new.sheet = [qs |-> kept.qs, ans |-> replaced] /\ new.gen = "GENERATING"
      /\ new.signals = (IF changed THEN {} ELSE s.signals)
      /\ new.status = s.status /\ new.profile = s.profile /\ new.mode = s.mode
  BY <1>6 DEF Session
<1>8. new \in Session
  <2>1. [qs |-> kept.qs, ans |-> replaced] \in Sheet
    BY <1>3, <1>4 DEF Sheet
  <2> HIDE DEF kept, replaced, changed
  <2>2. QED
    BY <1>6, <2>1 DEF Session, GenStates
<1>9. QED
  <2> HIDE DEF kept, replaced
  <2>1. QED
    BY <1>2, <1>4, <1>7, <1>8 DEF Paired

\* Of the rows it read, a request keeps the answer it replaces.
LEMMA HeldSheet ==
    ASSUME NEW sheet \in Sheet, Paired(sheet), NEW i \in 1 .. Len(sheet.qs)
    PROVE  Held(sheet, i) \in Sheet /\ Paired(Held(sheet, i))
<1> DEFINE held == [j \in 1 .. Len(sheet.ans) |-> IF j = i THEN sheet.ans[i] ELSE NoAnswer]
<1>1. /\ sheet.qs \in Seq(Prompts) /\ sheet.ans \in Seq(Answers \cup {NoAnswer})
      /\ Len(sheet.ans) = Len(sheet.qs) /\ Len(sheet.ans) \in Nat
  BY LenProperties DEF Sheet, Paired
<1>2. sheet.ans[i] \in Answers \cup {NoAnswer}
  BY <1>1, ElementOfSeq
<1>3. held \in Seq(Answers \cup {NoAnswer}) /\ Len(held) = Len(sheet.ans)
  <2>1. \A j \in 1 .. Len(sheet.ans) :
          (IF j = i THEN sheet.ans[i] ELSE NoAnswer) \in Answers \cup {NoAnswer}
    BY <1>2
  <2>2. QED
    BY <1>1, <2>1
<1>4. Held(sheet, i) = [qs |-> sheet.qs, ans |-> held]
  <2>1. Held(sheet, i) = [sheet EXCEPT !.ans = held]
    BY DEF Held
  <2> HIDE DEF held
  <2>2. QED
    BY <2>1 DEF Sheet
<1>5. QED
  BY <1>1, <1>3, <1>4 DEF Sheet, Paired

\* What a request sees of its session (conversation_context) are its questions,
\* with answers to the same ones, of which some may be old.
LEMMA SeenSheet ==
    ASSUME Typed, NEW r \in Requests, local[r].sid \in Ids
    PROVE  LET now == sessions[local[r].sid].sheet
           IN  /\ Seen(r) \in Sheet /\ Paired(Seen(r)) /\ Seen(r).qs = now.qs
               /\ Answered(Seen(r)) = Answered(now)
<1> DEFINE held == local[r].sheet
<1> DEFINE now == sessions[local[r].sid].sheet
<1> DEFINE Keeps(i) == /\ i <= Len(held.qs) /\ held.qs[i] = now.qs[i]
                       /\ held.ans[i] # NoAnswer /\ now.ans[i] # NoAnswer
<1> DEFINE seen == [i \in 1 .. Len(now.ans) |-> IF Keeps(i) THEN held.ans[i] ELSE now.ans[i]]
<1>1. /\ now.qs \in Seq(Prompts) /\ now.ans \in Seq(Answers \cup {NoAnswer})
      /\ now \in Sheet /\ Len(now.qs) = Len(now.ans) /\ Len(now.ans) \in Nat
  BY SessionParts, LenProperties DEF Session, Sheet, Paired
<1>2. /\ held.ans \in Seq(Answers \cup {NoAnswer}) /\ Len(held.qs) = Len(held.ans)
  BY DEF Typed, TypeOK, Local, Sheet, Paired
<1>3. \A i \in 1 .. Len(now.ans) :
        /\ seen[i] \in Answers \cup {NoAnswer}
        /\ seen[i] = NoAnswer <=> now.ans[i] = NoAnswer
  <2>1. SUFFICES ASSUME NEW i \in 1 .. Len(now.ans)
                 PROVE  /\ seen[i] \in Answers \cup {NoAnswer}
                        /\ seen[i] = NoAnswer <=> now.ans[i] = NoAnswer
    OBVIOUS
  <2>2. now.ans[i] \in Answers \cup {NoAnswer}
    BY <1>1, ElementOfSeq
  <2>3. CASE Keeps(i)
    <3>1. i \in 1 .. Len(held.ans)
      BY <1>1, <1>2, <2>3, LenProperties
    <3>2. held.ans[i] \in Answers \cup {NoAnswer}
      BY <1>2, <3>1, ElementOfSeq
    <3>3. QED
      BY <2>3, <3>2
  <2>4. CASE ~Keeps(i)
    BY <2>2, <2>4
  <2>5. QED
    BY <2>3, <2>4
<1>4. Seen(r) = [now EXCEPT !.ans = seen]
  BY DEF Seen
<1>5. Seen(r) = [qs |-> now.qs, ans |-> seen]
  <2> HIDE DEF now, seen
  <2>1. QED
    BY <1>1, <1>4 DEF Sheet
<1>6. seen \in Seq(Answers \cup {NoAnswer}) /\ Len(seen) = Len(now.ans)
  <2>1. seen \in [1 .. Len(now.ans) -> Answers \cup {NoAnswer}]
    BY <1>3
  <2> HIDE DEF now, seen
  <2>2. QED
    BY <1>1, <2>1
<1>7. QED
  <2> HIDE DEF now, seen
  <2>1. Seen(r) \in Sheet /\ Paired(Seen(r)) /\ Seen(r).qs = now.qs
    BY <1>1, <1>5, <1>6 DEF Sheet, Paired
  <2>2. Answered(Seen(r)) = Answered(now)
    BY <1>1, <1>3, <1>5 DEF Answered
  <2>3. QED
    BY <2>1, <2>2 DEF now

\* A question is added behind the others, without an answer (_persist_next_question).
LEMMA AskedSheet ==
    ASSUME NEW sheet \in Sheet, Paired(sheet), NEW p \in Prompts,
           \A i \in 1 .. Len(sheet.qs) : sheet.qs[i] # p
    PROVE  LET new == Asked(sheet, p)
           IN  /\ new \in Sheet /\ Paired(new) /\ Len(new.qs) = Len(sheet.qs) + 1
               /\ new.qs[Len(new.qs)] = p /\ new.ans[Len(new.qs)] = NoAnswer
               /\ \A j \in 1 .. Len(sheet.qs) :
                    new.qs[j] = sheet.qs[j] /\ new.ans[j] = sheet.ans[j]
<1>1. /\ sheet.qs \in Seq(Prompts) /\ sheet.ans \in Seq(Answers \cup {NoAnswer})
      /\ Len(sheet.ans) = Len(sheet.qs) /\ Len(sheet.ans) \in Nat
  BY LenProperties DEF Sheet, Paired
<1>2. Asked(sheet, p) = [qs |-> Append(sheet.qs, p), ans |-> Append(sheet.ans, NoAnswer)]
  BY DEF Asked
<1>3. QED
  BY <1>1, <1>2, AppendProperties DEF Sheet, Paired

\* Whether it is asked or not, the questions stay a sheet.
LEMMA AskedTyped ==
    ASSUME NEW sheet \in Sheet, Paired(sheet), NEW p \in Prompts
    PROVE  Asked(sheet, p) \in Sheet /\ Paired(Asked(sheet, p))
<1>1. CASE \E i \in 1 .. Len(sheet.qs) : sheet.qs[i] = p
  BY <1>1 DEF Asked
<1>2. CASE \A i \in 1 .. Len(sheet.qs) : sheet.qs[i] # p
  BY <1>2, AskedSheet
<1>3. QED
  BY <1>1, <1>2

-----------------------------------------------------------------------------
(* Type correctness                                                        *)

\* A request that moves on with well-typed memory, over well-typed sessions,
\* keeps everything well typed.
LEMMA MovesTyped ==
    ASSUME Typed, NEW r \in Requests, NEW step \in Steps, NEW l \in Local, Paired(l.sheet),
           Become(r, step, l), l.sid \in 0 .. Len(sessions),
           step \in Generating \cup Profiling => l.sid \in Ids,
           sessions' \in Seq(Session), Len(sessions') \in {Len(sessions), Len(sessions) + 1},
           \A t \in 1 .. Len(sessions') : Paired(sessions'[t].sheet),
           user' \in [completed: BOOLEAN, skipped: BOOLEAN],
           completions' \in Nat, crashes' \in Nat
    PROVE  Typed'
<1>1. /\ pc' = [pc EXCEPT ![r] = step] /\ local' = [local EXCEPT ![r] = l]
      /\ pc \in [Requests -> Steps] /\ local \in [Requests -> Local]
      /\ Len(sessions) \in Nat
  BY LenProperties DEF Become, Typed, TypeOK
<1>2. pc' \in [Requests -> Steps] /\ local' \in [Requests -> Local]
  BY <1>1
<1>3. \A q \in Requests : /\ local[q].sid \in 0 .. Len(sessions) /\ Paired(local[q].sheet)
                          /\ pc[q] \in Generating \cup Profiling => local[q].sid \in Ids
  BY DEF Typed, TypeOK
<1>4. \A q \in Requests :
        /\ local'[q].sid \in 0 .. Len(sessions') /\ Paired(local'[q].sheet)
        /\ pc'[q] \in Generating \cup Profiling => local'[q].sid \in 1 .. Len(sessions')
  <2>1. SUFFICES ASSUME NEW q \in Requests
                 PROVE  /\ local'[q].sid \in 0 .. Len(sessions') /\ Paired(local'[q].sheet)
                        /\ pc'[q] \in Generating \cup Profiling
                             => local'[q].sid \in 1 .. Len(sessions')
    OBVIOUS
  <2>2. CASE q = r
    BY <1>1, <2>2 DEF Ids
  <2>3. CASE q # r
    BY <1>1, <1>3, <2>3 DEF Ids
  <2>4. QED
    BY <2>2, <2>3
<1>5. TypeOK'
  BY <1>2, <1>4 DEF TypeOK, Paired, Ids
<1>6. QED
  BY <1>4, <1>5 DEF Typed, Paired, Ids

\* The common case: the sessions and the counters stay.
LEMMA ThinksTyped ==
    ASSUME Typed, NEW r \in Requests, NEW step \in Steps, NEW l \in Local, Paired(l.sheet),
           Become(r, step, l), l.sid \in 0 .. Len(sessions),
           step \in Generating \cup Profiling => l.sid \in Ids,
           UNCHANGED <<sessions, user, completions>>, crashes' \in Nat
    PROVE  Typed'
<1>1. /\ sessions' \in Seq(Session) /\ Len(sessions') \in {Len(sessions), Len(sessions) + 1}
      /\ \A t \in 1 .. Len(sessions') : Paired(sessions'[t].sheet)
      /\ user' \in [completed: BOOLEAN, skipped: BOOLEAN] /\ completions' \in Nat
  BY DEF Typed, TypeOK, Paired, Ids
<1>2. QED
  BY <1>1, MovesTyped

\* The other: it writes one session of the list.
LEMMA WritesTyped ==
    ASSUME Typed, NEW r \in Requests, NEW step \in Steps, NEW l \in Local, Paired(l.sheet),
           Become(r, step, l), l.sid \in 0 .. Len(sessions),
           step \in Generating \cup Profiling => l.sid \in Ids,
           NEW s \in Ids, NEW new \in Session, Paired(new.sheet),
           sessions' = [sessions EXCEPT ![s] = new],
           user' \in [completed: BOOLEAN, skipped: BOOLEAN], completions' \in Nat,
           UNCHANGED crashes
    PROVE  Typed'
<1>1. /\ sessions' \in Seq(Session) /\ Len(sessions') \in {Len(sessions), Len(sessions) + 1}
      /\ \A t \in 1 .. Len(sessions') : Paired(sessions'[t].sheet)
  BY Rewritten DEF Rewrites
<1>2. crashes' \in Nat
  BY DEF Typed, TypeOK
<1>3. QED
  BY <1>1, <1>2, MovesTyped

\* What a request keeps when it moves on or ends.
LEMMA MemoryKept ==
    ASSUME Typed, NEW r \in Requests
    PROVE  /\ local[r] \in Local /\ Paired(local[r].sheet)
           /\ local[r].sid \in 0 .. Len(sessions)
           /\ Bare(local[r]) \in Local /\ Bare(local[r]).sid = local[r].sid
           /\ Paired(Bare(local[r]).sheet)
           /\ Paired(NoLocal.sheet) /\ NoLocal.sid \in 0 .. Len(sessions)
<1>1. local[r] \in Local /\ Paired(local[r].sheet) /\ local[r].sid \in 0 .. Len(sessions)
  BY DEF Typed, TypeOK
<1>2. Bare(local[r]) \in Local /\ Bare(local[r]).sid = local[r].sid
      /\ Bare(local[r]).sheet = EmptySheet
  BY <1>1, FirstSessions DEF Bare, Local, NoLocal
<1>3. NoLocal.sheet = EmptySheet /\ NoLocal.sid = 0 /\ Len(sessions) \in Nat
  BY LenProperties DEF NoLocal, Typed, TypeOK
<1>4. QED
  BY <1>1, <1>2, <1>3, FirstSessions

\* What it keeps of a decision: the signals noted, how far the provider got.
LEMMA NotedTyped ==
    ASSUME Typed, NEW r \in Requests, NEW noted \in SUBSET Inferable
    PROVE  LET l == [local[r] EXCEPT !.signals = @ \cup noted]
           IN  /\ l \in Local /\ l.sheet = local[r].sheet /\ l.sid = local[r].sid
               /\ Bare(l) = Bare(local[r])
               /\ \A stage \in {"corrective", "replacement"} :
                    LET next == [l EXCEPT !.stage = stage]
                    IN  next \in Local /\ next.sheet = l.sheet /\ next.sid = l.sid
<1>1. local[r] \in Local
  BY DEF Typed, TypeOK
<1>2. QED
  BY <1>1 DEF Local, Bare, NoLocal

\* A step that writes no session: what the request may become, and why it may
\* generate, build a profile or be asked for a question.
Thinks(r) ==
    /\ UNCHANGED <<sessions, completions>>
    /\ \E step \in Steps, l \in Local :
         /\ Become(r, step, l)
         /\ step \in Generating =>
              pc[r] \in Generating \cup {"profiling"} /\ l.sid = local[r].sid
         /\ step \in Profiling => pc[r] \in Profiling /\ l.sheet = local[r].sheet
         /\ step \in {"asking", "persisting"} =>
              pc[r] = "asking" \/ (pc[r] = "routing" /\ AnswerCount(Seen(r)) <= MaxQuestions)

\* start (start_onboarding): resumes, or retires what it replaces.
LEMMA StartStep ==
    ASSUME Typed, NEW r \in Requests, Start(r)
    PROVE  /\ Typed'
           /\ \/ Thinks(r)
              \/ /\ Latest \in Active /\ Become(r, "creating", local[r]) /\ UNCHANGED completions
                 /\ Rewrites(Latest, [sessions[Latest] EXCEPT !.status = "RESTART_REQUIRED"])
<1>1. "creating" \in Steps /\ "creating" \notin Generating \cup Profiling
  BY DEF Steps, Generating, Profiling
<1>2. Become(r, "creating", local[r]) /\ crashes' \in Nat /\ completions' \in Nat
  BY DEF Start, Goto, Typed, TypeOK
<1>3. CASE UNCHANGED sessions
  <2>1. Typed'
    BY <1>1, <1>2, <1>3, MemoryKept, ThinksTyped DEF Start
  <2>2. Thinks(r)
    BY <1>1, <1>2, <1>3, MemoryKept DEF Start, Thinks
  <2>3. QED
    BY <2>1, <2>2
<1>4. CASE ~UNCHANGED sessions
  <2> DEFINE new == [sessions[Latest] EXCEPT !.status = "RESTART_REQUIRED"]
  <2>1. /\ Active # {} /\ sessions' = [sessions EXCEPT ![Latest].status = "RESTART_REQUIRED"]
        /\ UNCHANGED <<user, completions, crashes>>
    BY <1>4 DEF Start
  <2>2. Latest \in Active /\ Latest \in Ids
    BY <2>1, LatestIsActive
  <2>3. new \in Session /\ Paired(new.sheet)
    BY <2>2, SessionParts DEF Session, Statuses
  <2>4. sessions' = [sessions EXCEPT ![Latest] = new]
    BY <2>1
  <2>5. user' \in [completed: BOOLEAN, skipped: BOOLEAN]
    BY <2>1 DEF Typed, TypeOK
  <2> HIDE DEF new
  <2>6. Typed'
    BY <1>1, <1>2, <2>1, <2>2, <2>3, <2>4, <2>5, MemoryKept, WritesTyped
  <2>7. Rewrites(Latest, new)
    BY <2>2, <2>3, <2>4, Rewritten
  <2>8. QED
    BY <1>2, <2>1, <2>2, <2>6, <2>7 DEF new
<1>5. QED
  BY <1>3, <1>4

\* The new session comes last.
LEMMA CreateStep ==
    ASSUME Typed, NEW r \in Requests, Create(r)
    PROVE  /\ Typed'
           /\ Len(sessions') = Len(sessions) + 1 /\ sessions'[Len(sessions')] = NewSession
           /\ \A t \in Ids : sessions'[t] = sessions[t]
<1>1. /\ sessions \in Seq(Session) /\ NewSession \in Session /\ Paired(NewSession.sheet)
      /\ sessions' = Append(sessions, NewSession)
  BY FirstSessions DEF Typed, TypeOK, Create
<1>2. /\ sessions' \in Seq(Session) /\ Len(sessions') = Len(sessions) + 1
      /\ sessions'[Len(sessions')] = NewSession /\ Len(sessions) \in Nat
      /\ \A t \in Ids : sessions'[t] = sessions[t]
  BY <1>1, AppendProperties, LenProperties DEF Ids
<1>3. \A t \in 1 .. Len(sessions') : Paired(sessions'[t].sheet)
  <2>1. \A t \in Ids : Paired(sessions[t].sheet)
    BY DEF Typed, TypeOK, Paired
  <2>2. QED
    BY <1>1, <1>2, <2>1 DEF Ids
<1>4. /\ Become(r, "idle", NoLocal) /\ "idle" \in Steps /\ NoLocal \in Local
      /\ "idle" \notin Generating \cup Profiling
  BY FirstSessions DEF Create, Done, Steps, Generating, Profiling
<1>5. /\ user' \in [completed: BOOLEAN, skipped: BOOLEAN] /\ completions' \in Nat
      /\ crashes' \in Nat
  BY DEF Create, Typed, TypeOK
<1>6. Typed'
  BY <1>2, <1>3, <1>4, <1>5, MemoryKept, MovesTyped
<1>7. QED
  BY <1>2, <1>6

\* An answer (_submit_adaptive) edits the session it is for.
LEMMA SubmitStep ==
    ASSUME Typed, NEW r \in Requests, Submit(r)
    PROVE  \E s \in Ids : \E i \in 1 .. Len(sessions[s].sheet.qs) : \E a \in Answers :
             /\ Typed'
             /\ Accepts(sessions[s], i, a)
             /\ Rewrites(s, Edited(sessions[s], i, a))
             /\ \E l \in Local : l.sid = s /\ Become(r, "routing", l)
<1>1. PICK s \in Ids : \E i \in 1 .. Len(sessions[s].sheet.qs) : \E a \in Answers :
        /\ Accepts(sessions[s], i, a)
        /\ sessions' = [sessions EXCEPT ![s] = Edited(sessions[s], i, a)]
        /\ Become(r, "routing", [NoLocal EXCEPT !.sid = s,
                                    !.signals = Edited(sessions[s], i, a).signals,
                                    !.sheet = Held(sessions[s].sheet, i)])
        /\ UNCHANGED <<user, completions, crashes>>
  BY DEF Submit
<1>2. PICK i \in 1 .. Len(sessions[s].sheet.qs), a \in Answers :
        /\ Accepts(sessions[s], i, a)
        /\ sessions' = [sessions EXCEPT ![s] = Edited(sessions[s], i, a)]
        /\ Become(r, "routing", [NoLocal EXCEPT !.sid = s,
                                    !.signals = Edited(sessions[s], i, a).signals,
                                    !.sheet = Held(sessions[s].sheet, i)])
        /\ UNCHANGED <<user, completions, crashes>>
  BY <1>1
<1> DEFINE new == Edited(sessions[s], i, a)
<1> DEFINE l == [NoLocal EXCEPT !.sid = s, !.signals = new.signals,
                                !.sheet = Held(sessions[s].sheet, i)]
<1>3. sessions[s] \in Session /\ Paired(sessions[s].sheet) /\ sessions[s].sheet \in Sheet
  BY SessionParts DEF Session
<1>4. new \in Session /\ Paired(new.sheet)
  BY <1>3, EditedSheet
<1>5. l \in Local /\ Paired(l.sheet) /\ l.sid = s
  <2>1. Held(sessions[s].sheet, i) \in Sheet /\ Paired(Held(sessions[s].sheet, i))
    BY <1>3, HeldSheet
  <2>2. new.signals \in SUBSET Inferable /\ s \in Nat
    BY <1>4 DEF Session, Ids
  <2> HIDE DEF new
  <2>3. QED
    BY <2>1, <2>2, FirstSessions DEF Local, NoLocal
<1>6. /\ sessions' = [sessions EXCEPT ![s] = new] /\ Become(r, "routing", l)
      /\ UNCHANGED <<user, completions, crashes>>
  BY <1>2
<1>7. "routing" \in Steps /\ s \in 0 .. Len(sessions)
  BY DEF Steps, Ids
<1> HIDE DEF new, l
<1>8. /\ user' \in [completed: BOOLEAN, skipped: BOOLEAN] /\ completions' \in Nat
  BY <1>6 DEF Typed, TypeOK
<1>9. Typed'
  BY <1>4, <1>5, <1>6, <1>7, <1>8, WritesTyped
<1>10. Rewrites(s, new)
  BY <1>4, <1>6, Rewritten
<1>11. QED
  BY <1>2, <1>5, <1>6, <1>9, <1>10 DEF new

\* A step to a generating state keeps its session and a typed memory.
LEMMA GenerationGoesOn ==
    ASSUME Typed, NEW r \in Requests, pc[r] \in Generating \cup {"profiling"},
           NEW step \in Generating, NEW l \in Local, Paired(l.sheet), l.sid = local[r].sid,
           Become(r, step, l), UNCHANGED <<sessions, user, completions, crashes>>,
           step \in {"asking", "persisting"} =>
             pc[r] = "asking" \/ (pc[r] = "routing" /\ AnswerCount(Seen(r)) <= MaxQuestions)
    PROVE  Typed' /\ Thinks(r)
<1>1. step \in Steps /\ step \notin Profiling
  BY DEF Generating, Profiling, Steps
<1>2. l.sid \in Ids /\ l.sid \in 0 .. Len(sessions) /\ crashes' \in Nat
  BY DEF Typed, TypeOK, Profiling, Ids
<1>3. Typed'
  BY <1>1, <1>2, ThinksTyped
<1>4. QED
  BY <1>1, <1>3 DEF Thinks

\* The routing of an answer (_route_adaptive) looks at what the request sees.
LEMMA RouteStep ==
    ASSUME Typed, NEW r \in Requests, Route(r)
    PROVE  Typed' /\ Thinks(r)
<1> DEFINE l == [local[r] EXCEPT !.sheet = Seen(r)]
<1>1. pc[r] = "routing" /\ UNCHANGED <<sessions, user, completions, crashes>>
  BY DEF Route
<1>2. local[r].sid \in Ids
  BY <1>1 DEF Typed, Generating
<1>3. l \in Local /\ Paired(l.sheet) /\ l.sid = local[r].sid /\ Bare(l) = Bare(local[r])
  <2>1. Seen(r) \in Sheet /\ Paired(Seen(r))
    BY <1>2, SeenSheet
  <2>2. QED
    BY <2>1, MemoryKept DEF Local, Bare, NoLocal
<1>4. \/ Become(r, "finishing", Bare(local[r])) \/ Become(r, "failing", Bare(local[r]))
      \/ Become(r, "asking", l) /\ AnswerCount(Seen(r)) <= MaxQuestions
  <2> HIDE DEF l
  <2>1. \/ Become(r, "finishing", Bare(l)) \/ Become(r, "failing", Bare(l))
        \/ Become(r, "asking", l) /\ AnswerCount(Seen(r)) <= MaxQuestions
    BY DEF Route, l
  <2>2. QED
    BY <1>3, <2>1
<1>5. QED
  <2> HIDE DEF l
  <2>1. \A step \in {"finishing", "failing", "asking"} : step \in Generating
    BY DEF Generating
  <2>2. QED
    BY <1>1, <1>3, <1>4, <2>1, MemoryKept, GenerationGoesOn DEF Generating

\* A decision of the provider, whichever it is, leaves the request asking, with
\* a question to add, or about to end.
LEMMA ProviderStep ==
    ASSUME Typed, NEW r \in Requests, Provider(r)
    PROVE  Typed' /\ Thinks(r)
<1>1. pc[r] = "asking"
  BY DEF Provider
<1> DEFINE Reaches(step, l) ==
             /\ step \in Generating /\ l \in Local /\ Paired(l.sheet) /\ l.sid = local[r].sid
             /\ Become(r, step, l) /\ UNCHANGED <<sessions, user, completions, crashes>>
<1>2. PICK d \in Decisions :
         \/ d.complete /\ DecideComplete(r, d.signals)
         \/ ~d.complete /\ d # Failed /\ DecideQuestion(r, d.signals, d.prompt)
         \/ d = Failed /\ ProviderFails(r)
  BY DEF Provider
<1> DEFINE l == [local[r] EXCEPT !.signals = @ \cup d.signals]
<1>3. d.signals \in SUBSET Inferable /\ (~d.complete /\ d # Failed => d.prompt \in Prompts)
  BY DecisionKept
<1>4. /\ l \in Local /\ Paired(l.sheet) /\ l.sid = local[r].sid
      /\ Bare(l) = Bare(local[r])
      /\ \A stage \in {"corrective", "replacement"} :
           LET next == [l EXCEPT !.stage = stage]
           IN  next \in Local /\ Paired(next.sheet) /\ next.sid = local[r].sid
  <2>1. /\ l \in Local /\ l.sheet = local[r].sheet /\ l.sid = local[r].sid
        /\ Bare(l) = Bare(local[r])
        /\ \A stage \in {"corrective", "replacement"} :
             LET next == [l EXCEPT !.stage = stage]
             IN  next \in Local /\ next.sheet = l.sheet /\ next.sid = l.sid
    BY <1>3, NotedTyped, Zenon
  <2> HIDE DEF l
  <2>2. QED
    BY <2>1, MemoryKept
<1>5. Bare(l) \in Local /\ Paired(Bare(l).sheet) /\ Bare(l).sid = local[r].sid
  BY <1>4, MemoryKept
<1>6. \E step, m : Reaches(step, m)
  <2>1. \A step \in {"finishing", "failing", "asking", "persisting"} : step \in Generating
    BY DEF Generating
  <2>2. CASE d.complete /\ DecideComplete(r, d.signals)
    <3>1. UNCHANGED <<sessions, user, completions, crashes>>
      BY <2>2 DEF DecideComplete
    <3>2. \/ Become(r, "finishing", Bare(l)) \/ Become(r, "failing", Bare(l))
          \/ Become(r, "asking", [l EXCEPT !.stage = "corrective"])
      BY <2>2 DEF DecideComplete
    <3> HIDE DEF l
    <3>3. QED
      BY <1>4, <1>5, <2>1, <3>1, <3>2
  <2>3. CASE ~d.complete /\ d # Failed /\ DecideQuestion(r, d.signals, d.prompt)
    <3>1. UNCHANGED <<sessions, user, completions, crashes>>
      BY <2>3 DEF DecideQuestion
    <3>2. \/ Become(r, "finishing", Bare(l)) \/ Become(r, "failing", Bare(l))
          \/ Become(r, "asking", [l EXCEPT !.stage = "replacement"])
          \/ Become(r, "persisting", [Bare(l) EXCEPT !.prompt = d.prompt])
      BY <2>3 DEF DecideQuestion
    <3>3. LET m == [Bare(l) EXCEPT !.prompt = d.prompt]
          IN  m \in Local /\ Paired(m.sheet) /\ m.sid = local[r].sid
      <4> HIDE DEF l
      <4>1. QED
        BY <1>3, <1>5, <2>3 DEF Local
    <3> HIDE DEF l
    <3>4. QED
      BY <1>4, <1>5, <2>1, <3>1, <3>2, <3>3
  <2>4. CASE d = Failed /\ ProviderFails(r)
    <3>1. /\ Become(r, "failing", Bare(local[r]))
          /\ UNCHANGED <<sessions, user, completions, crashes>>
      BY <2>4 DEF ProviderFails
    <3>2. QED
      BY <2>1, <3>1, MemoryKept
  <2>5. QED
    BY <1>2, <2>2, <2>3, <2>4
<1>7. PICK step, m : Reaches(step, m)
  BY <1>6
<1>8. QED
  BY <1>1, <1>7, GenerationGoesOn DEF Generating

\* A request that ends, dies or waits for the user's row neither generates nor
\* builds a profile.
LEMMA EndingStep ==
    ASSUME Typed, NEW r \in Requests, LockUser(r) \/ BreakDeadlock(r) \/ Crash(r)
    PROVE  Typed' /\ Thinks(r)
<1> DEFINE Ends(step, l) == Become(r, step, l) /\ step \in {"skipping", "idle"}
                            /\ l \in {local[r], NoLocal}
<1>1. /\ UNCHANGED <<sessions, user, completions>> /\ crashes' \in Nat
      /\ \E step, l : Ends(step, l)
  BY DEF LockUser, BreakDeadlock, Crash, Goto, Done, Typed, TypeOK
<1>2. PICK step, l : Ends(step, l)
  BY <1>1
<1>3. /\ step \in Steps /\ step \notin Generating \cup Profiling
      /\ step \notin {"asking", "persisting"}
      /\ l \in Local /\ Paired(l.sheet) /\ l.sid \in 0 .. Len(sessions)
  BY <1>2, MemoryKept, FirstSessions DEF Steps, Generating, Profiling
<1>4. Typed'
  BY <1>1, <1>2, <1>3, ThinksTyped
<1>5. QED
  BY <1>1, <1>2, <1>3, <1>4 DEF Thinks

\* Building the profile and waiting for the session's row (complete) keep the
\* sheet that passed the gate; a profile that fails is a generation that failed.
LEMMA ProfilingStep ==
    ASSUME Typed, NEW r \in Requests, BuildProfile(r) \/ LockSession(r)
    PROVE  Typed' /\ Thinks(r)
<1>1. /\ UNCHANGED <<sessions, user, completions, crashes>> /\ pc[r] \in {"profiling", "built"}
      /\ pc[r] \in Profiling /\ local[r].sid \in Ids /\ crashes' \in Nat
  BY DEF BuildProfile, LockSession, Typed, TypeOK, Profiling
<1>2. CASE LockSession(r)
  <2>1. Become(r, "storing", local[r]) /\ "storing" \in Steps /\ "storing" \in Profiling
        /\ "storing" \notin Generating
    BY <1>2 DEF LockSession, Goto, Steps, Profiling, Generating
  <2>2. Typed'
    BY <1>1, <2>1, MemoryKept, ThinksTyped
  <2>3. QED
    BY <1>1, <2>1, <2>2, MemoryKept DEF Thinks
<1>3. CASE BuildProfile(r)
  <2>1. PICK inserts \in BOOLEAN, ok \in BOOLEAN :
          LET l == [local[r] EXCEPT !.shares = inserts]
          IN  IF ok THEN Become(r, "built", l) ELSE Become(r, "failing", Bare(l))
    BY <1>3 DEF BuildProfile
  <2> DEFINE l == [local[r] EXCEPT !.shares = inserts]
  <2>2. l \in Local /\ Bare(l) \in Local /\ l.sid = local[r].sid /\ Bare(l).sid = l.sid
        /\ l.sheet = local[r].sheet /\ Bare(l).sheet = EmptySheet
    BY MemoryKept, FirstSessions DEF Local, Bare, NoLocal
  <2>3. Become(r, "built", l) \/ Become(r, "failing", Bare(l))
    BY <2>1
  <2> HIDE DEF l
  <2>4. Paired(l.sheet) /\ Paired(Bare(l).sheet) /\ l.sid \in 0 .. Len(sessions)
    BY <2>2, MemoryKept, FirstSessions
  <2>5. CASE Become(r, "built", l)
    <3>1. "built" \in Steps /\ "built" \in Profiling /\ "built" \notin Generating
      BY DEF Steps, Profiling, Generating
    <3>2. Typed'
      BY <1>1, <2>2, <2>4, <2>5, <3>1, ThinksTyped
    <3>3. QED
      BY <1>1, <2>2, <2>5, <3>1, <3>2 DEF Thinks
  <2>6. CASE Become(r, "failing", Bare(l))
    <3>1. "failing" \in Steps /\ "failing" \notin Profiling
      BY DEF Steps, Profiling
    <3>2. pc[r] = "profiling"
      BY <1>3 DEF BuildProfile
    <3>3. Typed'
      BY <1>1, <2>2, <2>4, <2>6, <3>1, ThinksTyped
    <3>4. QED
      BY <1>1, <2>2, <2>6, <3>1, <3>2, <3>3 DEF Thinks
  <2>7. QED
    BY <2>3, <2>5, <2>6
<1>4. QED
  BY <1>2, <1>3

\* The end of a generation: the session was skipped, or it becomes new.
Settles(r, new) ==
    LET sid == local[r].sid
    IN  /\ pc[r] \in Generating /\ sid \in Ids /\ Done(r) /\ UNCHANGED completions
        /\ \/ sessions[sid].status = "SKIPPED" /\ Thinks(r)
           \/ sessions[sid].status # "SKIPPED" /\ Rewrites(sid, new)

\* A settled session keeps the signals that are saved (populate_existing).
LEMMA SettleStep ==
    ASSUME Typed, NEW r \in Requests, pc[r] \in Generating,
           NEW new \in Session, Paired(new.sheet),
           new.signals = sessions[local[r].sid].signals, Settle(r, new)
    PROVE  Typed' /\ Settles(r, new)
<1> DEFINE sid == local[r].sid
<1>1. sid \in Ids
  BY DEF Typed
<1>2. [new EXCEPT !.signals = SavedSignals(r)] = new
  BY DEF Session, SavedSignals
<1>3. /\ Become(r, "idle", NoLocal) /\ "idle" \in Steps /\ "idle" \notin Generating \cup Profiling
      /\ UNCHANGED <<user, completions, crashes>> /\ NoLocal \in Local
      /\ user' \in [completed: BOOLEAN, skipped: BOOLEAN] /\ completions' \in Nat
      /\ crashes' \in Nat
  BY FirstSessions DEF Settle, Done, Steps, Generating, Profiling, Typed, TypeOK
<1>4. CASE sessions[sid].status = "SKIPPED"
  <2>1. UNCHANGED sessions
    BY <1>4 DEF Settle
  <2>2. Typed'
    BY <1>3, <2>1, MemoryKept, ThinksTyped
  <2>3. Thinks(r)
    BY <1>3, <2>1 DEF Thinks
  <2>4. QED
    BY <1>1, <1>3, <1>4, <2>2, <2>3 DEF Settles, Done
<1>5. CASE sessions[sid].status # "SKIPPED"
  <2>1. sessions' = [sessions EXCEPT ![sid] = new]
    BY <1>2, <1>5 DEF Settle
  <2>2. Typed'
    BY <1>1, <1>3, <2>1, MemoryKept, WritesTyped
  <2>3. Rewrites(sid, new)
    BY <1>1, <2>1, Rewritten
  <2>4. QED
    BY <1>1, <1>3, <1>5, <2>2, <2>3 DEF Settles, Done
<1>6. QED
  BY <1>4, <1>5

\* _persist_next_question, _finish_questionnaire, _mark_generation_failed.
LEMMA SettlingStep ==
    ASSUME Typed, NEW r \in Requests, Persist(r) \/ Finish(r) \/ MarkFailed(r)
    PROVE  /\ Typed'
           /\ \E new \in Session :
                LET old == sessions[local[r].sid]
                IN  /\ Settles(r, new)
                    /\ new.status \in {old.status, "READY_TO_COMPLETE"}
                    /\ new.profile = old.profile /\ new.signals = old.signals
                    /\ \/ new.sheet = old.sheet /\ new.gen = "IDLE"
                       \/ new.sheet = old.sheet /\ new.gen = "FAILED"
                       \/ /\ pc[r] = "persisting" /\ new.gen = "IDLE"
                          /\ new.sheet = Asked(old.sheet, local[r].prompt)
<1> DEFINE old == sessions[local[r].sid]
<1>1. pc[r] \in {"persisting", "finishing", "failing"} /\ pc[r] \in Generating
  BY DEF Persist, Finish, MarkFailed, Generating
<1>2. local[r].sid \in Ids /\ old \in Session /\ Paired(old.sheet) /\ old.sheet \in Sheet
  BY <1>1, SessionParts DEF Typed, Session
<1>3. CASE Persist(r)
  <2> DEFINE sheet == Asked(old.sheet, local[r].prompt)
  <2> DEFINE new == [old EXCEPT !.sheet = sheet, !.gen = "IDLE"]
  <2>1. pc[r] = "persisting" /\ Settle(r, new)
    BY <1>3 DEF Persist
  <2>2. local[r].prompt \in Prompts
    BY MemoryKept DEF Local
  <2>3. sheet \in Sheet /\ Paired(sheet)
    BY <1>2, <2>2, AskedTyped
  <2>4. /\ new \in Session /\ new.sheet = sheet /\ new.status = old.status
        /\ new.profile = old.profile /\ new.signals = old.signals /\ new.gen = "IDLE"
    <3> HIDE DEF sheet, old
    <3>1. QED
      BY <1>2, <2>3 DEF Session, GenStates
  <2> HIDE DEF new
  <2>5. Typed' /\ Settles(r, new)
    BY <1>1, <2>1, <2>3, <2>4, SettleStep
  <2>6. QED
    BY <2>1, <2>4, <2>5
<1>4. CASE Finish(r)
  <2> DEFINE new == [old EXCEPT !.status = "READY_TO_COMPLETE", !.gen = "IDLE"]
  <2>1. Settle(r, new)
    BY <1>4 DEF Finish
  <2>2. /\ new \in Session /\ new.sheet = old.sheet /\ new.status = "READY_TO_COMPLETE"
        /\ new.profile = old.profile /\ new.signals = old.signals /\ new.gen = "IDLE"
    BY <1>2 DEF Session, GenStates, Statuses
  <2> HIDE DEF new
  <2>3. Typed' /\ Settles(r, new)
    BY <1>1, <1>2, <2>1, <2>2, SettleStep
  <2>4. QED
    BY <2>2, <2>3
<1>5. CASE MarkFailed(r)
  <2> DEFINE new == [old EXCEPT !.gen = "FAILED"]
  <2>1. Settle(r, new)
    BY <1>5 DEF MarkFailed
  <2>2. /\ new \in Session /\ new.sheet = old.sheet /\ new.status = old.status
        /\ new.profile = old.profile /\ new.signals = old.signals /\ new.gen = "FAILED"
    BY <1>2 DEF Session, GenStates
  <2> HIDE DEF new
  <2>3. Typed' /\ Settles(r, new)
    BY <1>1, <1>2, <2>1, <2>2, SettleStep
  <2>4. QED
    BY <2>2, <2>3
<1>6. QED
  BY <1>3, <1>4, <1>5

\* skip retires the latest active session, if there is one.
LEMMA SkipStep ==
    ASSUME Typed, NEW r \in Requests, Skip(r)
    PROVE  /\ Typed' /\ Done(r) /\ UNCHANGED completions
           /\ \/ Thinks(r)
              \/ /\ Latest \in Active
                 /\ Rewrites(Latest, [sessions[Latest] EXCEPT !.status = "SKIPPED", !.gen = "IDLE"])
<1>1. /\ Become(r, "idle", NoLocal) /\ "idle" \in Steps /\ "idle" \notin Generating \cup Profiling
      /\ UNCHANGED <<completions, crashes>> /\ NoLocal \in Local /\ Done(r)
      /\ user' \in [completed: BOOLEAN, skipped: BOOLEAN] /\ completions' \in Nat
      /\ crashes' \in Nat
  BY FirstSessions DEF Skip, Done, Steps, Generating, Profiling, Typed, TypeOK
<1>2. CASE Active = {}
  <2>1. UNCHANGED sessions
    BY <1>2 DEF Skip
  <2>2. /\ sessions' \in Seq(Session) /\ Len(sessions') \in {Len(sessions), Len(sessions) + 1}
        /\ \A t \in 1 .. Len(sessions') : Paired(sessions'[t].sheet)
    BY <2>1 DEF Typed, TypeOK, Paired, Ids
  <2>3. Typed'
    BY <1>1, <2>2, MemoryKept, MovesTyped
  <2>4. Thinks(r)
    BY <1>1, <2>1 DEF Thinks
  <2>5. QED
    BY <1>1, <2>3, <2>4
<1>3. CASE Active # {}
  <2> DEFINE new == [sessions[Latest] EXCEPT !.status = "SKIPPED", !.gen = "IDLE"]
  <2>1. Latest \in Active /\ Latest \in Ids
    BY <1>3, LatestIsActive
  <2>2. new \in Session /\ Paired(new.sheet)
    BY <2>1, SessionParts DEF Session, Statuses, GenStates
  <2>3. sessions' = [sessions EXCEPT ![Latest].status = "SKIPPED", ![Latest].gen = "IDLE"]
    BY <1>3 DEF Skip
  <2>4. sessions' = [sessions EXCEPT ![Latest] = new]
    BY <2>1, <2>3, LenProperties DEF Typed, TypeOK, Ids
  <2> HIDE DEF new
  <2>5. Typed'
    BY <1>1, <2>1, <2>2, <2>4, MemoryKept, WritesTyped
  <2>6. Rewrites(Latest, new)
    BY <2>1, <2>2, <2>4, Rewritten
  <2>7. QED
    BY <1>1, <2>1, <2>5, <2>6 DEF new
<1>4. QED
  BY <1>2, <1>3

\* A completion (adaptive_complete) keeps the sheet that passed the gate.
LEMMA CompleteStep ==
    ASSUME Typed, NEW r \in Requests, Complete(r)
    PROVE  /\ Typed' /\ completions' = completions + 1
           /\ \E s \in Ids, l \in Local :
                /\ Completable(sessions[s])
                /\ Rewrites(s, [sessions[s] EXCEPT !.gen = "PROFILE_GENERATING"])
                /\ Become(r, "profiling", l) /\ l.sheet = sessions[s].sheet
<1>1. PICK s \in Ids :
        /\ Completable(sessions[s])
        /\ sessions' = [sessions EXCEPT ![s].gen = "PROFILE_GENERATING"]
        /\ Become(r, "profiling", [NoLocal EXCEPT !.sid = s, !.sheet = sessions[s].sheet,
                                                  !.skipped = user.skipped])
        /\ completions' = completions + 1 /\ UNCHANGED <<user, crashes>>
  BY DEF Complete
<1> DEFINE new == [sessions[s] EXCEPT !.gen = "PROFILE_GENERATING"]
<1> DEFINE l == [NoLocal EXCEPT !.sid = s, !.sheet = sessions[s].sheet, !.skipped = user.skipped]
<1>2. /\ new \in Session /\ Paired(new.sheet)
      /\ sessions[s].sheet \in Sheet /\ Paired(sessions[s].sheet)
  BY SessionParts DEF Session, GenStates
<1>3. l \in Local /\ l.sid = s /\ l.sheet = sessions[s].sheet
  <2>1. s \in Nat /\ user.skipped \in BOOLEAN /\ NoLocal \in Local
    BY FirstSessions DEF Typed, TypeOK, Ids
  <2>2. QED
    BY <1>2, <2>1 DEF Local, NoLocal
<1>4. sessions' = [sessions EXCEPT ![s] = new] /\ Become(r, "profiling", l)
  BY <1>1
<1>5. /\ "profiling" \in Steps /\ s \in 0 .. Len(sessions) /\ completions' \in Nat
      /\ user' \in [completed: BOOLEAN, skipped: BOOLEAN]
  BY <1>1 DEF Steps, Typed, TypeOK, Ids
<1> HIDE DEF new, l
<1>6. Typed'
  BY <1>1, <1>2, <1>3, <1>4, <1>5, WritesTyped
<1>7. Rewrites(s, new)
  BY <1>2, <1>4, Rewritten
<1>8. QED
  BY <1>1, <1>3, <1>4, <1>6, <1>7 DEF new

\* The profile is stored whatever became of the session meanwhile (complete).
LEMMA StoreStep ==
    ASSUME Typed, NEW r \in Requests, StoreProfile(r)
    PROVE  /\ Typed' /\ Done(r) /\ UNCHANGED completions
           /\ pc[r] \in Profiling /\ local[r].sid \in Ids
           /\ Rewrites(local[r].sid, [sessions[local[r].sid] EXCEPT
                          !.status = "COMPLETED", !.gen = "IDLE", !.profile = local[r].sheet])
<1> DEFINE s == local[r].sid
<1> DEFINE new == [sessions[s] EXCEPT !.status = "COMPLETED", !.gen = "IDLE",
                                      !.profile = local[r].sheet]
<1>1. pc[r] \in Profiling /\ s \in Ids
  BY DEF StoreProfile, Profiling, Typed
<1>2. new \in Session /\ Paired(new.sheet)
  <2>1. sessions[s] \in Session /\ Paired(sessions[s].sheet) /\ local[r].sheet \in Sheet
    BY <1>1, SessionParts, MemoryKept DEF Local
  <2>2. QED
    BY <2>1 DEF Session, Statuses, GenStates
<1>3. sessions' = [sessions EXCEPT ![s].status = "COMPLETED", ![s].gen = "IDLE",
                                   ![s].profile = local[r].sheet]
  BY DEF StoreProfile
<1>4. sessions' = [sessions EXCEPT ![s] = new]
  BY <1>1, <1>3, LenProperties DEF Typed, TypeOK, Ids
<1>5. /\ Become(r, "idle", NoLocal) /\ "idle" \in Steps /\ "idle" \notin Generating \cup Profiling
      /\ UNCHANGED <<completions, crashes>> /\ NoLocal \in Local /\ Done(r)
      /\ user' \in [completed: BOOLEAN, skipped: BOOLEAN] /\ completions' \in Nat
  BY FirstSessions DEF StoreProfile, Done, Steps, Generating, Profiling, Typed, TypeOK
<1> HIDE DEF new
<1>6. Typed'
  BY <1>1, <1>2, <1>4, <1>5, MemoryKept, WritesTyped
<1>7. Rewrites(s, new)
  BY <1>1, <1>2, <1>4, Rewritten
<1>8. QED
  BY <1>1, <1>5, <1>6, <1>7 DEF new

\* The user has no session, or a legacy one, and no request is under way.
LEMMA InitTyped == Init => Typed
<1> SUFFICES ASSUME Init PROVE Typed
  OBVIOUS
<1>1. /\ sessions \in Seq(Session)
      /\ \A s \in Ids : sessions[s] = LegacySession
  <2>1. CASE sessions = <<>>
    BY <2>1, EmptySeq DEF Ids
  <2>2. CASE sessions = <<LegacySession>>
    BY <2>2, FirstSessions DEF Ids
  <2>3. QED
    BY <2>1, <2>2 DEF Init
<1>2. /\ pc \in [Requests -> Steps] /\ local \in [Requests -> Local]
      /\ \A r \in Requests : local[r] = NoLocal /\ pc[r] = "idle"
  BY FirstSessions DEF Init, Steps
<1>3. NoLocal.sid = 0 /\ NoLocal.sheet = EmptySheet /\ Len(sessions) \in Nat
  BY <1>1, LenProperties DEF NoLocal
<1>4. user \in [completed: BOOLEAN, skipped: BOOLEAN] /\ completions \in Nat /\ crashes \in Nat
  BY DEF Init
<1>5. QED
  BY <1>1, <1>2, <1>3, <1>4, FirstSessions
     DEF Typed, TypeOK, Paired, Generating, Profiling

\* The steps of one request.
Acts(r) ==
    \/ Start(r) \/ Create(r) \/ Submit(r) \/ Complete(r) \/ Skip(r) \/ StoreProfile(r)
    \/ Persist(r) \/ Finish(r) \/ MarkFailed(r)
    \/ Route(r) \/ Provider(r) \/ LockUser(r) \/ BreakDeadlock(r) \/ Crash(r)
    \/ BuildProfile(r) \/ LockSession(r)

\* There are no other steps (every handler runs in one request).
LEMMA StepIsOfRequest == [Next]_vars => (\E r \in Requests : Acts(r)) \/ UNCHANGED vars
  BY DEF Next, Proceed, Quiet, Acts

\* The steps keep the types.
LEMMA StepTyped == Typed /\ [Next]_vars => Typed'
<1> SUFFICES ASSUME Typed, [Next]_vars PROVE Typed'
  OBVIOUS
<1>1. CASE UNCHANGED vars
  BY <1>1 DEF vars, Typed, TypeOK, Ids
<1>2. ASSUME NEW r \in Requests, Acts(r) PROVE Typed'
  BY <1>2, StartStep, CreateStep, SubmitStep, CompleteStep, SkipStep, StoreStep,
     SettlingStep, RouteStep, ProviderStep, EndingStep, ProfilingStep DEF Acts
<1>3. QED
  BY <1>1, <1>2, StepIsOfRequest

\* Sessions, requests and what they hold stay in the domains of the models, for
\* any number of them (TypeOK).
THEOREM Typing == Spec => []TypeOK
<1>1. Typed => TypeOK
  BY DEF Typed
<1>2. QED
  BY <1>1, InitTyped, StepTyped, PTL DEF Spec
=============================================================================
