------------------------ MODULE OnboardingSafetyProofs ------------------------
(***************************************************************************)
(* Safety of Onboarding for any prompts, limits, requests, sessions,       *)
(* completions and crashes: profiles are gated, questions come one by one  *)
(* and never twice, one request generates, a skipped session is final, and *)
(* a session marked GENERATING has a request at work that can go on.       *)
(***************************************************************************)
EXTENDS OnboardingProofs

-----------------------------------------------------------------------------
(* Profiles are gated                                                      *)

\* No signal is ever saved; the answers a completion holds have passed the gate.
Gated ==
    /\ \A s \in Ids : sessions[s].signals = {}
    /\ \A r \in Requests : pc[r] \in Profiling => Ready(local[r].sheet, {})
    /\ ProfilesGated

\* A request that moves on without a session written keeps the gate.
LEMMA GatedThought ==
    ASSUME Typed, Gated, NEW r \in Requests, NEW step, NEW l, Become(r, step, l),
           UNCHANGED sessions, step \in Profiling => Ready(l.sheet, {})
    PROVE  Gated'
<1>1. \A q \in Requests : pc'[q] \in Profiling => Ready(local'[q].sheet, {})
  <2>1. SUFFICES ASSUME NEW q \in Requests, pc'[q] \in Profiling
                 PROVE  Ready(local'[q].sheet, {})
    OBVIOUS
  <2>2. pc \in [Requests -> Steps] /\ local \in [Requests -> Local]
    BY DEF Typed, TypeOK
  <2>3. CASE q = r
    BY <2>1, <2>2, <2>3 DEF Become
  <2>4. CASE q # r
    BY <2>1, <2>2, <2>4 DEF Become, Gated
  <2>5. QED
    BY <2>3, <2>4
<1>2. QED
  BY <1>1 DEF Gated, ProfilesGated, Ids

\* So does one that writes a session whose profile, if it is complete, is gated.
LEMMA GatedWrite ==
    ASSUME Typed, Gated, NEW r \in Requests, NEW step, NEW l, Become(r, step, l),
           step \in Profiling => Ready(l.sheet, {}),
           NEW s \in Ids, NEW new, Rewrites(s, new), new.signals = {},
           new.status = "COMPLETED" => Ready(new.profile, {})
    PROVE  Gated'
<1>1. \A q \in Requests : pc'[q] \in Profiling => Ready(local'[q].sheet, {})
  <2>1. SUFFICES ASSUME NEW q \in Requests, pc'[q] \in Profiling
                 PROVE  Ready(local'[q].sheet, {})
    OBVIOUS
  <2>2. pc \in [Requests -> Steps] /\ local \in [Requests -> Local]
    BY DEF Typed, TypeOK
  <2>3. CASE q = r
    BY <2>1, <2>2, <2>3 DEF Become
  <2>4. CASE q # r
    BY <2>1, <2>2, <2>4 DEF Become, Gated
  <2>5. QED
    BY <2>3, <2>4
<1>2. \A t \in 1 .. Len(sessions') :
        /\ sessions'[t].signals = {}
        /\ sessions'[t].status = "COMPLETED" => Ready(sessions'[t].profile, {})
  <2>1. SUFFICES ASSUME NEW t \in Ids
                 PROVE  /\ sessions'[t].signals = {}
                        /\ sessions'[t].status = "COMPLETED" => Ready(sessions'[t].profile, {})
    BY DEF Rewrites, Ids
  <2>2. CASE t = s
    BY <2>2 DEF Rewrites
  <2>3. CASE t # s
    BY <2>3 DEF Rewrites, Gated, ProfilesGated
  <2>4. QED
    BY <2>2, <2>3
<1>3. QED
  BY <1>1, <1>2 DEF Gated, ProfilesGated, Ids

\* The writes of a session that keep its profile and do not complete it.
LEMMA GatedStep == Typed /\ Gated /\ [Next]_vars => Gated'
<1> SUFFICES ASSUME Typed, Gated, [Next]_vars PROVE Gated'
  OBVIOUS
<1>1. CASE UNCHANGED vars
  BY <1>1 DEF vars, Gated, ProfilesGated, Ids
<1>2. ASSUME NEW r \in Requests, Acts(r) PROVE Gated'
  <2> "idle" \notin Profiling /\ "creating" \notin Profiling /\ "routing" \notin Profiling
    BY DEF Profiling
  <2>1. \A s \in Ids : sessions[s] \in Session /\ sessions[s].signals = {}
    BY SessionParts DEF Gated
  <2>2. CASE Thinks(r)
    <3>1. PICK step \in Steps, l \in Local :
            /\ Become(r, step, l) /\ UNCHANGED sessions
            /\ step \in Profiling => pc[r] \in Profiling /\ l.sheet = local[r].sheet
      BY <2>2 DEF Thinks
    <3>2. step \in Profiling => Ready(l.sheet, {})
      BY <3>1 DEF Gated
    <3>3. QED
      BY <3>1, <3>2, GatedThought
  <2>3. CASE Start(r) /\ ~Thinks(r)
    <3> DEFINE new == [sessions[Latest] EXCEPT !.status = "RESTART_REQUIRED"]
    <3>1. Latest \in Ids /\ Become(r, "creating", local[r]) /\ Rewrites(Latest, new)
      BY <2>3, StartStep DEF Active
    <3>2. new.signals = {} /\ new.status # "COMPLETED"
      BY <2>1, <3>1 DEF Session
    <3> HIDE DEF new
    <3>3. QED
      BY <3>1, <3>2, GatedWrite
  <2>4. CASE Create(r)
    <3>1. /\ Len(sessions') = Len(sessions) + 1 /\ sessions'[Len(sessions')] = NewSession
          /\ \A t \in Ids : sessions'[t] = sessions[t]
          /\ Len(sessions) \in Nat
      BY <2>4, CreateStep, LenProperties DEF Typed, TypeOK
    <3>2. NewSession.signals = {} /\ NewSession.status # "COMPLETED"
      BY DEF NewSession
    <3>3. \A q \in Requests : pc'[q] \in Profiling => pc[q] \in Profiling /\ local'[q] = local[q]
      BY <2>4 DEF Create, Done, Become, Typed, TypeOK
    <3>4. \A t \in 1 .. Len(sessions') : t \in Ids \/ sessions'[t] = NewSession
      BY <3>1 DEF Ids
    <3>5. QED
      BY <3>1, <3>2, <3>3, <3>4 DEF Gated, ProfilesGated, Ids
  <2>5. CASE Submit(r)
    <3>1. PICK s \in Ids : \E i \in 1 .. Len(sessions[s].sheet.qs), a \in Answers :
            /\ Accepts(sessions[s], i, a)
            /\ Rewrites(s, Edited(sessions[s], i, a))
            /\ \E l \in Local : Become(r, "routing", l)
      BY <2>5, SubmitStep
    <3>2. PICK i \in 1 .. Len(sessions[s].sheet.qs), a \in Answers, l \in Local :
            /\ Accepts(sessions[s], i, a)
            /\ Rewrites(s, Edited(sessions[s], i, a)) /\ Become(r, "routing", l)
      BY <3>1
    <3> DEFINE new == Edited(sessions[s], i, a)
    <3>3. new.status = sessions[s].status /\ new.signals \subseteq sessions[s].signals
      BY SessionParts, EditedSheet
    <3>4. new.signals = {} /\ new.status # "COMPLETED"
      BY <2>1, <3>2, <3>3 DEF Accepts
    <3> HIDE DEF new
    <3>5. QED
      BY <3>2, <3>4, GatedWrite DEF new
  <2>6. CASE (Persist(r) \/ Finish(r) \/ MarkFailed(r)) /\ ~Thinks(r)
    <3> DEFINE s == local[r].sid
    <3>1. PICK new \in Session :
            /\ Settles(r, new) /\ new.status \in {sessions[s].status, "READY_TO_COMPLETE"}
            /\ new.profile = sessions[s].profile /\ new.signals = sessions[s].signals
      BY <2>6, SettlingStep
    <3>2. s \in Ids /\ Become(r, "idle", NoLocal) /\ Rewrites(s, new)
      BY <2>6, <3>1 DEF Settles, Done
    <3>3. new.signals = {} /\ (new.status = "COMPLETED" => Ready(new.profile, {}))
      BY <2>1, <3>1, <3>2 DEF Gated, ProfilesGated
    <3>4. QED
      BY <3>2, <3>3, GatedWrite
  <2>7. CASE Skip(r) /\ ~Thinks(r)
    <3> DEFINE new == [sessions[Latest] EXCEPT !.status = "SKIPPED", !.gen = "IDLE"]
    <3>1. Latest \in Ids /\ Become(r, "idle", NoLocal) /\ Rewrites(Latest, new)
      BY <2>7, SkipStep DEF Active, Done
    <3>2. new.signals = {} /\ new.status # "COMPLETED"
      BY <2>1, <3>1 DEF Session
    <3> HIDE DEF new
    <3>3. QED
      BY <3>1, <3>2, GatedWrite
  <2>8. CASE Complete(r)
    <3>1. PICK s \in Ids, l \in Local :
            /\ Completable(sessions[s])
            /\ Rewrites(s, [sessions[s] EXCEPT !.gen = "PROFILE_GENERATING"])
            /\ Become(r, "profiling", l) /\ l.sheet = sessions[s].sheet
      BY <2>8, CompleteStep
    <3> DEFINE new == [sessions[s] EXCEPT !.gen = "PROFILE_GENERATING"]
    <3>2. Ready(l.sheet, {})
      BY <2>1, <3>1 DEF Completable
    <3>3. new.signals = {} /\ new.status # "COMPLETED"
      BY <2>1, <3>1 DEF Session, Completable
    <3> HIDE DEF new
    <3>4. QED
      BY <3>1, <3>2, <3>3, GatedWrite DEF new
  <2>9. CASE StoreProfile(r)
    <3> DEFINE s == local[r].sid
    <3> DEFINE new == [sessions[s] EXCEPT !.status = "COMPLETED", !.gen = "IDLE",
                                          !.profile = local[r].sheet]
    <3>1. Become(r, "idle", NoLocal) /\ s \in Ids /\ Rewrites(s, new) /\ pc[r] \in Profiling
      BY <2>9, StoreStep DEF Done
    <3>2. new.signals = {} /\ new.profile = local[r].sheet
      BY <2>1, <3>1 DEF Session
    <3>3. Ready(local[r].sheet, {})
      BY <3>1 DEF Gated
    <3> HIDE DEF new
    <3>4. QED
      BY <3>1, <3>2, <3>3, GatedWrite
  <2>10. QED
    BY <1>2, <2>2, <2>3, <2>4, <2>5, <2>6, <2>7, <2>8, <2>9,
       RouteStep, ProviderStep, EndingStep, ProfilingStep DEF Acts
<1>3. QED
  BY <1>1, <1>2, StepIsOfRequest

\* Before any request there are no signals and no profile.
LEMMA InitGated == Init => Gated
<1> SUFFICES ASSUME Init PROVE Gated
  OBVIOUS
<1>1. \A s \in Ids : sessions[s] = LegacySession
  BY FirstSessions, LenProperties, EmptySeq DEF Init, Ids
<1>2. LegacySession.signals = {} /\ LegacySession.status # "COMPLETED"
  BY DEF LegacySession, NewSession
<1>3. \A r \in Requests : pc[r] \notin Profiling
  BY DEF Init, Profiling
<1>4. QED
  BY <1>1, <1>2, <1>3 DEF Gated, ProfilesGated

\* However edits, skips, late replies and crashes run between the check of a
\* completion and its commit (adaptive_complete), a stored profile was built
\* from answers that passed the gate.
THEOREM StoredProfilesAreGated == Spec => []ProfilesGated
<1>1. Init => Typed /\ Gated
  BY InitTyped, InitGated
<1>2. (Typed /\ Gated) /\ [Next]_vars => (Typed /\ Gated)'
  BY StepTyped, GatedStep
<1>3. Typed /\ Gated => ProfilesGated
  BY DEF Gated
<1>4. QED
  BY <1>1, <1>2, <1>3, PTL DEF Spec

-----------------------------------------------------------------------------
(* No question is asked twice                                              *)

Distinct(qs) == \A i, j \in 1 .. Len(qs) : qs[i] = qs[j] => i = j

\* Cutting the questions off (_submit_adaptive) asks none twice.
LEMMA EditedDistinct ==
    ASSUME NEW s \in Session, Paired(s.sheet), NEW i \in 1 .. Len(s.sheet.qs), NEW a \in Answers,
           Distinct(s.sheet.qs)
    PROVE  Distinct(Edited(s, i, a).sheet.qs)
<1> DEFINE new == Edited(s, i, a).sheet
<1>1. /\ Len(new.qs) \in {i, Len(s.sheet.qs)} /\ Len(s.sheet.qs) \in Nat
      /\ \A j \in 1 .. Len(new.qs) : new.qs[j] = s.sheet.qs[j]
  <2>1. Len(s.sheet.qs) \in Nat
    BY LenProperties DEF Session, Sheet
  <2>2. /\ Len(new.qs) = (IF s.sheet.ans[i] \in {NoAnswer, a} THEN Len(s.sheet.qs) ELSE i)
        /\ \A j \in 1 .. Len(new.qs) : new.qs[j] = s.sheet.qs[j]
    BY EditedSheet
  <2>3. QED
    BY <2>1, <2>2
<1>2. 1 .. Len(new.qs) \subseteq 1 .. Len(s.sheet.qs)
  BY <1>1
<1> HIDE DEF new
<1>3. QED
  BY <1>1, <1>2 DEF Distinct, new

\* Adding one (_persist_next_question) asks none twice.
LEMMA AskedDistinct ==
    ASSUME NEW sheet \in Sheet, Paired(sheet), NEW p \in Prompts, Distinct(sheet.qs)
    PROVE  Distinct(Asked(sheet, p).qs)
<1>1. CASE \E i \in 1 .. Len(sheet.qs) : sheet.qs[i] = p
  BY <1>1 DEF Asked
<1>2. CASE \A i \in 1 .. Len(sheet.qs) : sheet.qs[i] # p
  <2> DEFINE new == Asked(sheet, p)
  <2>1. /\ Len(new.qs) = Len(sheet.qs) + 1 /\ new.qs[Len(new.qs)] = p
        /\ \A j \in 1 .. Len(sheet.qs) : new.qs[j] = sheet.qs[j]
        /\ Len(sheet.qs) \in Nat
    BY <1>2, AskedSheet, LenProperties DEF Sheet
  <2>2. \A j \in 1 .. Len(new.qs) : j \in 1 .. Len(sheet.qs) \/ j = Len(new.qs)
    BY <2>1
  <2> HIDE DEF new
  <2>3. QED
    BY <1>2, <2>1, <2>2 DEF Distinct, new
<1>3. QED
  BY <1>1, <1>2

\* A written session whose questions are distinct leaves all distinct.
LEMMA DistinctWrite ==
    ASSUME QuestionsDistinct, NEW s \in Ids, NEW new, Rewrites(s, new), Distinct(new.sheet.qs)
    PROVE  QuestionsDistinct'
<1>1. \A t \in 1 .. Len(sessions') : Distinct(sessions'[t].sheet.qs)
  <2>1. SUFFICES ASSUME NEW t \in Ids PROVE Distinct(sessions'[t].sheet.qs)
    BY DEF Rewrites, Ids
  <2>2. CASE t = s
    BY <2>2 DEF Rewrites
  <2>3. CASE t # s
    BY <2>3 DEF Rewrites, QuestionsDistinct, Distinct
  <2>4. QED
    BY <2>2, <2>3
<1>2. QED
  BY <1>1 DEF QuestionsDistinct, Distinct, Ids

\* Only an edit and a new question touch the questions of a session.
LEMMA DistinctStep == Typed /\ QuestionsDistinct /\ [Next]_vars => QuestionsDistinct'
<1> SUFFICES ASSUME Typed, QuestionsDistinct, [Next]_vars PROVE QuestionsDistinct'
  OBVIOUS
<1>1. ASSUME UNCHANGED sessions PROVE QuestionsDistinct'
  BY <1>1 DEF QuestionsDistinct, Ids
<1>2. ASSUME NEW s \in Ids, NEW new, Rewrites(s, new), new.sheet = sessions[s].sheet
      PROVE  QuestionsDistinct'
  <2>1. Distinct(new.sheet.qs)
    BY <1>2 DEF QuestionsDistinct, Distinct
  <2>2. QED
    BY <1>2, <2>1, DistinctWrite
<1>3. ASSUME NEW r \in Requests, Acts(r) PROVE QuestionsDistinct'
  <2>1. CASE Thinks(r)
    BY <1>1, <2>1 DEF Thinks
  <2>2. CASE Start(r) /\ ~Thinks(r)
    <3> DEFINE new == [sessions[Latest] EXCEPT !.status = "RESTART_REQUIRED"]
    <3>1. Latest \in Ids /\ Rewrites(Latest, new)
      BY <2>2, StartStep DEF Active
    <3>2. new.sheet = sessions[Latest].sheet
      BY <3>1, SessionParts DEF Session
    <3> HIDE DEF new
    <3>3. QED
      BY <1>2, <3>1, <3>2
  <2>3. CASE Create(r)
    <3>1. /\ Len(sessions') = Len(sessions) + 1 /\ sessions'[Len(sessions')] = NewSession
          /\ \A t \in Ids : sessions'[t] = sessions[t]
          /\ Len(sessions) \in Nat
      BY <2>3, CreateStep, LenProperties DEF Typed, TypeOK
    <3>2. Distinct(NewSession.sheet.qs)
      BY DEF NewSession, Distinct
    <3>3. \A t \in 1 .. Len(sessions') : t \in Ids \/ sessions'[t] = NewSession
      BY <3>1 DEF Ids
    <3>4. QED
      BY <3>1, <3>2, <3>3 DEF QuestionsDistinct, Distinct, Ids
  <2>4. CASE Submit(r)
    <3>1. PICK s \in Ids : \E i \in 1 .. Len(sessions[s].sheet.qs), a \in Answers :
                             Rewrites(s, Edited(sessions[s], i, a))
      BY <2>4, SubmitStep
    <3>2. PICK i \in 1 .. Len(sessions[s].sheet.qs), a \in Answers :
            Rewrites(s, Edited(sessions[s], i, a))
      BY <3>1
    <3>3. Distinct(sessions[s].sheet.qs)
      BY DEF QuestionsDistinct, Distinct
    <3>4. Distinct(Edited(sessions[s], i, a).sheet.qs)
      BY <3>3, SessionParts, EditedDistinct
    <3>5. QED
      BY <3>2, <3>4, DistinctWrite
  <2>5. CASE (Persist(r) \/ Finish(r) \/ MarkFailed(r)) /\ ~Thinks(r)
    <3> DEFINE s == local[r].sid
    <3>1. PICK new \in Session :
            /\ Settles(r, new)
            /\ new.sheet \in {sessions[s].sheet, Asked(sessions[s].sheet, local[r].prompt)}
      BY <2>5, SettlingStep
    <3>2. s \in Ids /\ Rewrites(s, new)
      BY <2>5, <3>1 DEF Settles
    <3>3. /\ sessions[s].sheet \in Sheet /\ Paired(sessions[s].sheet)
          /\ Distinct(sessions[s].sheet.qs) /\ local[r].prompt \in Prompts
      BY <3>2, SessionParts, MemoryKept DEF Session, Local, QuestionsDistinct, Distinct
    <3>4. Distinct(new.sheet.qs)
      BY <3>1, <3>3, AskedDistinct
    <3>5. QED
      BY <3>2, <3>4, DistinctWrite
  <2>6. CASE Skip(r) /\ ~Thinks(r)
    <3> DEFINE new == [sessions[Latest] EXCEPT !.status = "SKIPPED", !.gen = "IDLE"]
    <3>1. Latest \in Ids /\ Rewrites(Latest, new)
      BY <2>6, SkipStep DEF Active
    <3>2. new.sheet = sessions[Latest].sheet
      BY <3>1, SessionParts DEF Session
    <3> HIDE DEF new
    <3>3. QED
      BY <1>2, <3>1, <3>2
  <2>7. CASE Complete(r)
    <3>1. PICK s \in Ids : Rewrites(s, [sessions[s] EXCEPT !.gen = "PROFILE_GENERATING"])
      BY <2>7, CompleteStep
    <3>2. [sessions[s] EXCEPT !.gen = "PROFILE_GENERATING"].sheet = sessions[s].sheet
      BY SessionParts DEF Session
    <3>3. QED
      BY <1>2, <3>1, <3>2
  <2>8. CASE StoreProfile(r)
    <3> DEFINE s == local[r].sid
    <3> DEFINE new == [sessions[s] EXCEPT !.status = "COMPLETED", !.gen = "IDLE",
                                          !.profile = local[r].sheet]
    <3>1. s \in Ids /\ Rewrites(s, new)
      BY <2>8, StoreStep
    <3>2. new.sheet = sessions[s].sheet
      BY <3>1, SessionParts DEF Session
    <3> HIDE DEF new
    <3>3. QED
      BY <1>2, <3>1, <3>2
  <2>9. QED
    BY <1>3, <2>1, <2>2, <2>3, <2>4, <2>5, <2>6, <2>7, <2>8,
       RouteStep, ProviderStep, EndingStep, ProfilingStep DEF Acts
<1>4. QED
  BY <1>1, <1>3, StepIsOfRequest DEF vars

\* A session never asks the same question twice, even when several requests
\* generate for it from questions they read before any of them wrote
\* (_persist_next_question).
THEOREM NoQuestionTwice == Spec => []QuestionsDistinct
<1>1. Init => QuestionsDistinct
  <2> SUFFICES ASSUME Init PROVE QuestionsDistinct
    OBVIOUS
  <2>1. \A s \in Ids : sessions[s] = LegacySession
    BY FirstSessions, LenProperties, EmptySeq DEF Init, Ids
  <2>2. LegacySession.sheet.qs = <<>>
    BY DEF LegacySession, NewSession, EmptySheet
  <2>3. QED
    BY <2>1, <2>2 DEF QuestionsDistinct
<1>2. QED
  BY <1>1, InitTyped, StepTyped, DistinctStep, PTL DEF Spec

-----------------------------------------------------------------------------
(* One open question, one generator                                        *)

\* Every question has an answer.
AllAnswered(sheet) == 1 .. Len(sheet.qs) \subseteq Answered(sheet)

\* A session is asked one bounded question at a time; while a request generates
\* for it, and once that has failed, no question is open.
Orderly(session) ==
    LET sheet == session.sheet
    IN  /\ 1 .. Len(sheet.qs) - 1 \subseteq Answered(sheet)
        /\ Len(sheet.qs) <= MaxQuestions + 1
        /\ session.gen \in {"GENERATING", "FAILED"} => AllAnswered(sheet)

\* What a request that generates for a session relies on.
Pledged(r, s) ==
    Generates(r, s) =>
        /\ sessions[s].gen = "GENERATING" \/ sessions[s].status = "SKIPPED"
        /\ \A q \in Requests : Generates(q, s) => q = r
        /\ pc[r] \in {"asking", "persisting"} =>
             sessions[s].status = "SKIPPED" \/ Len(sessions[s].sheet.qs) <= MaxQuestions

\* Before the first completion all of that holds.
Calm ==
    completions = 0 =>
        /\ \A r \in Requests : pc[r] \notin Profiling
        /\ \A s \in Ids : Orderly(sessions[s])
        /\ \A r \in Requests : \A s \in Ids : Pledged(r, s)

\* Every question has an answer: these are the numbers of the questions.
LEMMA FullSheet ==
    ASSUME NEW sheet \in Sheet, AllAnswered(sheet)
    PROVE  Answered(sheet) = 1 .. Len(sheet.qs) /\ AnswerCount(sheet) = Len(sheet.qs)
<1>1. Answered(sheet) = 1 .. Len(sheet.qs)
  BY DEF AllAnswered, Answered
<1>2. Len(sheet.qs) \in Nat
  BY LenProperties DEF Sheet
<1>3. QED
  BY <1>1, <1>2, FS_Interval DEF AnswerCount

\* An accepted answer leaves no question open.
LEMMA EditedOrderly ==
    ASSUME NEW s \in Session, Paired(s.sheet), Orderly(s),
           NEW i \in 1 .. Len(s.sheet.qs), NEW a \in Answers, Accepts(s, i, a)
    PROVE  Orderly(Edited(s, i, a))
<1> DEFINE old == s.sheet
<1> DEFINE new == Edited(s, i, a).sheet
<1>1. Len(old.qs) \in Nat /\ a # NoAnswer
  BY LenProperties DEF Session, Sheet, Answers, NoAnswer
<1>2. /\ Edited(s, i, a).gen = "GENERATING"
      /\ Len(new.qs) = (IF old.ans[i] \in {NoAnswer, a} THEN Len(old.qs) ELSE i)
      /\ \A j \in 1 .. Len(new.qs) : new.ans[j] = IF j = i THEN a ELSE old.ans[j]
  BY EditedSheet
<1>3. \A j \in 1 .. Len(new.qs) : j = i \/ j \in Answered(old)
  <2>1. SUFFICES ASSUME NEW j \in 1 .. Len(new.qs), j # i PROVE j \in Answered(old)
    OBVIOUS
  <2>2. CASE old.ans[i] = a
    <3>1. AllAnswered(old)
      BY <2>2 DEF Accepts, Orderly
    <3>2. QED
      BY <1>1, <1>2, <2>1, <3>1 DEF AllAnswered
  <2>3. CASE old.ans[i] = NoAnswer
    <3>1. i \notin Answered(old)
      BY <2>3 DEF Answered
    <3>2. i = Len(old.qs)
      BY <1>1, <3>1 DEF Orderly
    <3>3. QED
      BY <1>1, <1>2, <2>1, <3>2 DEF Orderly
  <2>4. CASE old.ans[i] \notin {NoAnswer, a}
    <3>1. j \in 1 .. Len(old.qs) - 1
      BY <1>1, <1>2, <2>1, <2>4
    <3>2. QED
      BY <3>1 DEF Orderly
  <2>5. QED
    BY <2>2, <2>3, <2>4
<1>4. AllAnswered(new)
  <2>1. \A j \in 1 .. Len(new.qs) : new.ans[j] # NoAnswer
    BY <1>1, <1>2, <1>3 DEF Answered
  <2> HIDE DEF new
  <2>2. QED
    BY <2>1 DEF AllAnswered, Answered
<1>5. Len(new.qs) <= MaxQuestions + 1 /\ Len(new.qs) \in Nat
  BY <1>1, <1>2, OnboardingAssumption DEF Orderly
<1>6. 1 .. Len(new.qs) - 1 \subseteq Answered(new)
  BY <1>4, <1>5 DEF AllAnswered
<1>7. QED
  BY <1>2, <1>4, <1>5, <1>6 DEF Orderly

\* A question is added to a full sheet that has room for it.
LEMMA AskedOrderly ==
    ASSUME NEW sheet \in Sheet, Paired(sheet), NEW p \in Prompts, AllAnswered(sheet),
           Len(sheet.qs) <= MaxQuestions
    PROVE  LET new == Asked(sheet, p)
           IN  1 .. Len(new.qs) - 1 \subseteq Answered(new) /\ Len(new.qs) <= MaxQuestions + 1
<1>1. Len(sheet.qs) \in Nat /\ MaxQuestions \in Nat
  BY LenProperties, OnboardingAssumption DEF Sheet
<1>2. CASE \E i \in 1 .. Len(sheet.qs) : sheet.qs[i] = p
  BY <1>1, <1>2 DEF Asked, AllAnswered
<1>3. CASE \A i \in 1 .. Len(sheet.qs) : sheet.qs[i] # p
  <2> DEFINE new == Asked(sheet, p)
  <2>1. /\ Len(new.qs) = Len(sheet.qs) + 1
        /\ \A j \in 1 .. Len(sheet.qs) : new.ans[j] = sheet.ans[j]
    BY <1>3, AskedSheet
  <2>2. \A j \in 1 .. Len(sheet.qs) : sheet.ans[j] # NoAnswer
    BY DEF AllAnswered, Answered
  <2> HIDE DEF new
  <2>3. QED
    BY <1>1, <2>1, <2>2 DEF Answered, new
<1>4. QED
  BY <1>2, <1>3

\* A request that moves on, without a session written, generates for the session
\* it generated for, and gets to ask only where there is room.
LEMMA CalmThought ==
    ASSUME Typed, Calm, completions = 0, NEW r \in Requests, Thinks(r)
    PROVE  Calm'
<1>1. PICK step \in Steps, l \in Local :
        /\ Become(r, step, l) /\ UNCHANGED sessions
        /\ step \in Generating => pc[r] \in Generating \cup {"profiling"} /\ l.sid = local[r].sid
        /\ step \in Profiling => pc[r] \in Profiling
        /\ step \in {"asking", "persisting"} =>
             pc[r] = "asking" \/ (pc[r] = "routing" /\ AnswerCount(Seen(r)) <= MaxQuestions)
  BY DEF Thinks
<1>2. /\ \A q \in Requests : pc[q] \notin Profiling
      /\ \A s \in Ids : Orderly(sessions[s])
      /\ \A q \in Requests : \A s \in Ids : Pledged(q, s)
  BY DEF Calm
<1>3. /\ pc'[r] = step /\ local'[r] = l
      /\ \A q \in Requests \ {r} : pc'[q] = pc[q] /\ local'[q] = local[q]
  BY <1>1 DEF Become, Typed, TypeOK
<1>4. step \notin Profiling /\ (step \in Generating => pc[r] \in Generating)
  BY <1>1, <1>2 DEF Profiling
<1>5. \A q \in Requests : \A s \in Ids : Generates(q, s)' => Generates(q, s)
  BY <1>1, <1>3, <1>4 DEF Generates, Generating
<1>6. \A q \in Requests : \A s \in Ids : Pledged(q, s)'
  <2>1. SUFFICES ASSUME NEW q \in Requests, NEW s \in Ids, Generates(q, s)' PROVE Pledged(q, s)'
    BY DEF Pledged
  <2>2. /\ Generates(q, s) /\ Pledged(q, s) /\ Orderly(sessions[s])
        /\ sessions[s].gen = "GENERATING" \/ sessions[s].status = "SKIPPED"
    BY <1>2, <1>5, <2>1 DEF Pledged
  <2>3. \A p \in Requests : Generates(p, s)' => p = q
    BY <1>5, <2>2 DEF Pledged
  <2>4. ASSUME pc'[q] \in {"asking", "persisting"}, sessions[s].status # "SKIPPED"
        PROVE  Len(sessions[s].sheet.qs) <= MaxQuestions
    <3>1. CASE pc[q] \in {"asking", "persisting"}
      BY <2>2, <2>4, <3>1 DEF Pledged
    <3>2. CASE pc[q] \notin {"asking", "persisting"}
      <4>1. q = r /\ AnswerCount(Seen(r)) <= MaxQuestions /\ local[r].sid = s
        BY <1>1, <1>3, <2>2, <2>4, <3>2 DEF Generates
      <4>2. /\ Answered(Seen(r)) = Answered(sessions[s].sheet)
            /\ sessions[s].sheet \in Sheet
        BY <4>1, SeenSheet, SessionParts DEF Session
      <4>3. AllAnswered(sessions[s].sheet)
        BY <2>2, <2>4 DEF Orderly
      <4>4. QED
        BY <4>1, <4>2, <4>3, FullSheet DEF AnswerCount
    <3>3. QED
      BY <3>1, <3>2
  <2>5. QED
    BY <1>1, <2>2, <2>3, <2>4 DEF Pledged
<1>7. \A q \in Requests : pc'[q] \notin Profiling
  BY <1>2, <1>3, <1>4
<1>8. QED
  BY <1>1, <1>2, <1>6, <1>7 DEF Calm, Orderly, Ids

\* A request that writes one session keeps the promises made about it.
LEMMA CalmWrite ==
    ASSUME Typed, Calm, completions = 0, NEW r \in Requests, NEW step, NEW l,
           Become(r, step, l), NEW s \in Ids, NEW new, Rewrites(s, new), Orderly(new),
           step \notin Profiling \cup {"asking", "persisting"},
           step \in Generating => l.sid = s /\ new.gen = "GENERATING",
           \A q \in Requests \ {r} : Generates(q, s) =>
              /\ step \notin Generating
              /\ new.gen = "GENERATING" \/ new.status = "SKIPPED"
              /\ pc[q] \in {"asking", "persisting"} =>
                   new.status = "SKIPPED" \/ Len(new.sheet.qs) <= MaxQuestions
    PROVE  Calm'
<1>1. /\ \A q \in Requests : pc[q] \notin Profiling
      /\ \A t \in Ids : Orderly(sessions[t])
      /\ \A q \in Requests : \A t \in Ids : Pledged(q, t)
  BY DEF Calm
<1>2. /\ pc'[r] = step /\ local'[r] = l
      /\ \A q \in Requests \ {r} : pc'[q] = pc[q] /\ local'[q] = local[q]
  BY DEF Become, Typed, TypeOK
<1>3. /\ sessions'[s] = new /\ Ids' = Ids
      /\ \A t \in Ids \ {s} : sessions'[t] = sessions[t]
  BY DEF Rewrites, Ids
<1>4. \A q \in Requests \ {r} : \A t \in Ids : Generates(q, t)' <=> Generates(q, t)
  BY <1>2 DEF Generates
<1>5. \A t \in Ids : Generates(r, t)' => step \in Generating /\ t = s
  BY <1>2 DEF Generates, Generating
<1>6. \A q \in Requests : \A t \in Ids : Pledged(q, t)'
  <2>1. SUFFICES ASSUME NEW q \in Requests, NEW t \in Ids, Generates(q, t)' PROVE Pledged(q, t)'
    BY DEF Pledged
  <2>2. CASE t = s
    <3>1. \A p \in Requests : Generates(p, s)' => p = q
      BY <1>1, <1>4, <1>5, <2>1, <2>2 DEF Pledged
    <3>2. new.gen = "GENERATING" \/ new.status = "SKIPPED"
      BY <1>4, <1>5, <2>1, <2>2
    <3>3. pc'[q] \in {"asking", "persisting"} =>
            new.status = "SKIPPED" \/ Len(new.sheet.qs) <= MaxQuestions
      BY <1>2, <1>4, <2>1, <2>2
    <3>4. QED
      BY <1>3, <2>2, <3>1, <3>2, <3>3 DEF Pledged
  <2>3. CASE t # s
    <3>1. q # r /\ \A p \in Requests : Generates(p, t)' => p # r /\ Generates(p, t)
      BY <1>4, <1>5, <2>1, <2>3
    <3>2. QED
      BY <1>1, <1>2, <1>3, <2>1, <2>3, <3>1 DEF Pledged
  <2>4. QED
    BY <2>2, <2>3
<1>7. \A q \in Requests : pc'[q] \notin Profiling
  BY <1>1, <1>2
<1>8. \A t \in Ids : Orderly(sessions'[t])
  BY <1>1, <1>3
<1>9. QED
  BY <1>3, <1>6, <1>7, <1>8 DEF Calm, Orderly

\* The steps of one request before the first completion.
LEMMA CalmRequest ==
    ASSUME Typed, Calm, completions = 0, NEW r \in Requests, Acts(r)
    PROVE  Calm'
<1> USE DEF Generating, Profiling
<1>1. /\ \A s \in Ids : Orderly(sessions[s])
      /\ \A q \in Requests : pc[q] \notin Profiling
      /\ \A q \in Requests : \A s \in Ids : Pledged(q, s)
      /\ \A s \in Ids : sessions[s] \in Session /\ Paired(sessions[s].sheet)
  BY SessionParts DEF Calm
<1>2. CASE Thinks(r)
  BY <1>2, CalmThought
<1>3. CASE Start(r) /\ ~Thinks(r)
  <2> DEFINE new == [sessions[Latest] EXCEPT !.status = "RESTART_REQUIRED"]
  <2>1. /\ Latest \in Active /\ Latest \in Ids /\ Rewrites(Latest, new)
        /\ Become(r, "creating", local[r])
    BY <1>3, StartStep DEF Active
  <2>2. /\ new.sheet = sessions[Latest].sheet /\ new.gen = sessions[Latest].gen
        /\ sessions[Latest].status # "SKIPPED"
    BY <1>1, <2>1 DEF Session, Active
  <2> HIDE DEF new
  <2>3. Orderly(new)
    BY <1>1, <2>1, <2>2 DEF Orderly
  <2>4. \A q \in Requests \ {r} : Generates(q, Latest) =>
          /\ new.gen = "GENERATING"
          /\ pc[q] \in {"asking", "persisting"} => Len(new.sheet.qs) <= MaxQuestions
    BY <1>1, <2>1, <2>2 DEF Pledged
  <2>5. QED
    BY <2>1, <2>3, <2>4, CalmWrite
<1>4. CASE Create(r)
  <2>1. /\ Len(sessions') = Len(sessions) + 1 /\ sessions'[Len(sessions')] = NewSession
        /\ \A t \in Ids : sessions'[t] = sessions[t]
        /\ Len(sessions) \in Nat
    BY <1>4, CreateStep, LenProperties DEF Typed, TypeOK
  <2>2. Orderly(NewSession)
    <3>1. /\ NewSession.gen = "IDLE" /\ NewSession.sheet.qs = <<First>>
          /\ Len(<<First>>) = 1 /\ 1 .. 1 - 1 = {} /\ 1 <= MaxQuestions + 1
      BY OnboardingAssumption DEF NewSession
    <3>2. QED
      BY <3>1 DEF Orderly
  <2>3. \A t \in Ids' : t \in Ids \/ (t = Len(sessions) + 1 /\ sessions'[t] = NewSession)
    BY <2>1 DEF Ids
  <2>4. \A t \in Ids' : Orderly(sessions'[t])
    BY <1>1, <2>1, <2>2, <2>3
  <2>5. /\ pc'[r] = "idle"
        /\ \A q \in Requests \ {r} : pc'[q] = pc[q] /\ local'[q] = local[q]
    BY <1>4 DEF Create, Done, Become, Typed, TypeOK
  <2>6. \A q \in Requests : \A t \in Ids' : Generates(q, t)' =>
          q # r /\ t \in Ids /\ Generates(q, t)
    <3>1. SUFFICES ASSUME NEW q \in Requests, NEW t \in Ids', Generates(q, t)'
                   PROVE  q # r /\ t \in Ids /\ Generates(q, t)
      OBVIOUS
    <3>2. q # r /\ Generates(q, t)
      BY <2>5, <3>1 DEF Generates
    <3>3. local[q].sid \in Ids
      BY <3>2 DEF Generates, Typed
    <3>4. QED
      BY <3>2, <3>3 DEF Generates
  <2>7. \A q \in Requests : \A t \in Ids' : Pledged(q, t)'
    <3>1. SUFFICES ASSUME NEW q \in Requests, NEW t \in Ids', Generates(q, t)'
                   PROVE  Pledged(q, t)'
      BY DEF Pledged
    <3>2. q # r /\ t \in Ids /\ Generates(q, t) /\ Pledged(q, t)
      BY <1>1, <2>6, <3>1
    <3>3. \A p \in Requests : Generates(p, t)' => p = q
      BY <2>6, <3>1, <3>2 DEF Pledged
    <3>4. QED
      BY <2>1, <2>5, <3>2, <3>3 DEF Pledged
  <2>8. \A q \in Requests : pc'[q] \notin Profiling
    BY <1>1, <2>5
  <2>9. QED
    BY <2>4, <2>7, <2>8 DEF Calm, Orderly
<1>5. CASE Submit(r)
  <2>1. PICK s \in Ids : \E i \in 1 .. Len(sessions[s].sheet.qs), a \in Answers :
          /\ Accepts(sessions[s], i, a)
          /\ Rewrites(s, Edited(sessions[s], i, a))
          /\ \E l \in Local : l.sid = s /\ Become(r, "routing", l)
    BY <1>5, SubmitStep
  <2>2. PICK i \in 1 .. Len(sessions[s].sheet.qs), a \in Answers, l \in Local :
          /\ Accepts(sessions[s], i, a) /\ Rewrites(s, Edited(sessions[s], i, a))
          /\ l.sid = s /\ Become(r, "routing", l)
    BY <2>1
  <2> DEFINE new == Edited(sessions[s], i, a)
  <2>3. Orderly(new) /\ new.gen = "GENERATING"
    BY <1>1, <2>2, EditedOrderly, EditedSheet
  <2>4. \A q \in Requests : ~Generates(q, s)
    BY <1>1, <2>2 DEF Accepts, Pledged
  <2> HIDE DEF new
  <2>5. QED
    BY <2>2, <2>3, <2>4, CalmWrite DEF new
<1>6. CASE (Persist(r) \/ Finish(r) \/ MarkFailed(r)) /\ ~Thinks(r)
  <2> DEFINE s == local[r].sid
  <2> DEFINE old == sessions[s]
  <2>1. PICK new \in Session :
          /\ Settles(r, new)
          /\ \/ new.sheet = old.sheet /\ new.gen = "IDLE"
             \/ new.sheet = old.sheet /\ new.gen = "FAILED"
             \/ /\ pc[r] = "persisting" /\ new.gen = "IDLE"
                /\ new.sheet = Asked(old.sheet, local[r].prompt)
    BY <1>6, SettlingStep
  <2>2. /\ pc[r] \in Generating /\ s \in Ids /\ Become(r, "idle", NoLocal)
        /\ old.status # "SKIPPED" /\ Rewrites(s, new)
    BY <1>6, <2>1 DEF Settles, Done
  <2>3. Generates(r, s) /\ Pledged(r, s)
    BY <1>1, <2>2 DEF Generates
  <2>4. AllAnswered(old.sheet) /\ Orderly(old)
    BY <1>1, <2>2, <2>3 DEF Orderly, Pledged
  <2>5. Orderly(new)
    <3>1. CASE new.sheet = old.sheet /\ new.gen \in {"IDLE", "FAILED"}
      BY <2>4, <3>1 DEF Orderly
    <3>2. CASE /\ pc[r] = "persisting" /\ new.gen = "IDLE"
               /\ new.sheet = Asked(old.sheet, local[r].prompt)
      <4>1. Len(old.sheet.qs) <= MaxQuestions
        BY <2>2, <2>3, <3>2 DEF Pledged
      <4>2. old.sheet \in Sheet /\ Paired(old.sheet) /\ local[r].prompt \in Prompts
        BY <1>1, <2>2, MemoryKept DEF Session, Local
      <4>3. QED
        BY <2>4, <3>2, <4>1, <4>2, AskedOrderly DEF Orderly
    <3>3. QED
      BY <2>1, <3>1, <3>2
  <2>6. \A q \in Requests \ {r} : ~Generates(q, s)
    BY <2>3 DEF Pledged
  <2>7. QED
    BY <2>2, <2>5, <2>6, CalmWrite
<1>7. CASE Skip(r) /\ ~Thinks(r)
  <2> DEFINE new == [sessions[Latest] EXCEPT !.status = "SKIPPED", !.gen = "IDLE"]
  <2>1. Latest \in Ids /\ Become(r, "idle", NoLocal) /\ Rewrites(Latest, new)
    BY <1>7, SkipStep DEF Active, Done
  <2>2. new.sheet = sessions[Latest].sheet /\ new.gen = "IDLE" /\ new.status = "SKIPPED"
    BY <1>1, <2>1 DEF Session
  <2> HIDE DEF new
  <2>3. Orderly(new)
    BY <1>1, <2>1, <2>2 DEF Orderly
  <2>4. QED
    BY <2>1, <2>2, <2>3, CalmWrite
<1>8. CASE Complete(r)
  BY <1>8, CompleteStep DEF Calm
<1>9. CASE StoreProfile(r)
  BY <1>1, <1>9, StoreStep
<1>10. QED
  BY <1>2, <1>3, <1>4, <1>5, <1>6, <1>7, <1>8, <1>9,
     RouteStep, ProviderStep, EndingStep, ProfilingStep DEF Acts

\* Only a completion (adaptive_complete) ends the calm.
LEMMA CalmStep == Typed /\ Calm /\ [Next]_vars => Calm'
<1> SUFFICES ASSUME Typed, Calm, [Next]_vars PROVE Calm'
  OBVIOUS
<1>1. CASE UNCHANGED vars
  BY <1>1 DEF vars, Calm, Orderly, Pledged, Generates, Ids
<1>2. ASSUME NEW r \in Requests, Acts(r) PROVE Calm'
  <2>1. CASE completions = 0
    BY <1>2, <2>1, CalmRequest
  <2>2. CASE completions # 0
    <3>1. completions' \in {completions, completions + 1} /\ completions \in Nat
      BY <1>2, CompleteStep, SettlingStep, RouteStep, ProviderStep, EndingStep, ProfilingStep
         DEF Acts, Start, Create, Submit, Skip, StoreProfile, Settles, Thinks, Typed, TypeOK
    <3>2. QED
      BY <2>2, <3>1 DEF Calm
  <2>3. QED
    BY <2>1, <2>2
<1>3. QED
  BY <1>1, <1>2, StepIsOfRequest

\* Before any request it is calm.
LEMMA InitCalm == Init => Calm
<1> SUFFICES ASSUME Init PROVE Calm
  OBVIOUS
<1>1. \A s \in Ids : sessions[s] = LegacySession
  BY FirstSessions, LenProperties, EmptySeq DEF Init, Ids
<1>2. Orderly(LegacySession)
  BY OnboardingAssumption DEF Orderly, LegacySession, NewSession, EmptySheet
<1>3. \A r \in Requests : pc[r] = "idle"
  BY DEF Init
<1>4. QED
  BY <1>1, <1>2, <1>3 DEF Calm, Pledged, Generates, Profiling

\* At most one request generates for a session, and the session says so until it
\* is skipped, however requests interleave and die (_submit_adaptive).
THEOREM GenerationIsExclusive == Spec => []OneGenerator
<1>1. Calm => OneGenerator
  BY DEF Calm, OneGenerator, Pledged
<1>2. QED
  BY <1>1, InitTyped, InitCalm, StepTyped, CalmStep, PTL DEF Spec

\* A session is asked one bounded question at a time, whatever edits, repeated
\* answers and late replies come (_submit_adaptive, _persist_next_question).
THEOREM QuestionsComeOneByOne == Spec => []OneOpenQuestion
<1>1. Calm => OneOpenQuestion
  BY DEF Calm, OneOpenQuestion, Orderly
<1>2. QED
  BY <1>1, InitTyped, InitCalm, StepTyped, CalmStep, PTL DEF Spec

-----------------------------------------------------------------------------
(* A skipped session is final                                              *)

\* One step of one request.
LEMMA SkippedStays ==
    ASSUME Typed, NEW r \in Requests, Acts(r), NEW s \in Ids, sessions[s].status = "SKIPPED"
    PROVE  \/ sessions'[s] = sessions[s]
           \/ /\ sessions'[s].status = "COMPLETED"
              /\ sessions'[s].sheet = sessions[s].sheet
<1>1. s \notin Active /\ sessions[s] \in Session
  BY SessionParts DEF Active
<1>2. CASE Thinks(r)
  BY <1>2 DEF Thinks
<1>3. CASE Start(r)
  BY <1>1, <1>3, StartStep DEF Rewrites, Thinks
<1>4. CASE Create(r)
  BY <1>4, CreateStep
<1>5. CASE Submit(r)
  <2>1. PICK t \in Ids : \E i \in 1 .. Len(sessions[t].sheet.qs), a \in Answers :
          Accepts(sessions[t], i, a) /\ Rewrites(t, Edited(sessions[t], i, a))
    BY <1>5, SubmitStep
  <2>2. sessions[t].status = "IN_PROGRESS"
    BY <2>1 DEF Accepts
  <2>3. QED
    BY <2>1, <2>2 DEF Rewrites
<1>6. CASE Persist(r) \/ Finish(r) \/ MarkFailed(r)
  BY <1>6, SettlingStep DEF Settles, Rewrites, Thinks
<1>7. CASE Skip(r)
  BY <1>1, <1>7, SkipStep DEF Rewrites, Thinks
<1>8. CASE Complete(r)
  BY <1>8, CompleteStep DEF Completable, Rewrites
<1>9. CASE StoreProfile(r)
  <2> DEFINE new == [sessions[local[r].sid] EXCEPT !.status = "COMPLETED", !.gen = "IDLE",
                                                   !.profile = local[r].sheet]
  <2>1. local[r].sid \in Ids /\ Rewrites(local[r].sid, new)
    BY <1>9, StoreStep
  <2>2. new.status = "COMPLETED" /\ new.sheet = sessions[local[r].sid].sheet
    BY <2>1, SessionParts DEF Session
  <2> HIDE DEF new
  <2>3. QED
    BY <2>1, <2>2 DEF Rewrites
<1>10. QED
  BY <1>2, <1>3, <1>4, <1>5, <1>6, <1>7, <1>8, <1>9,
     RouteStep, ProviderStep, EndingStep, ProfilingStep DEF Acts

\* No answer, reply, failure or second skip that was under way changes a skipped
\* session (skip); only a completion that had passed its checks overwrites it.
THEOREM SkippedSessionsAreFinal == Spec => SkipIsFinal
<1>1. Typed /\ [Next]_vars =>
        [\A s \in Ids : sessions[s].status = "SKIPPED" =>
            \/ sessions'[s] = sessions[s]
            \/ /\ sessions'[s].status = "COMPLETED"
               /\ sessions'[s].sheet = sessions[s].sheet]_vars
  BY SkippedStays, StepIsOfRequest
<1>2. QED
  BY <1>1, InitTyped, StepTyped, PTL DEF Spec, SkipIsFinal
-----------------------------------------------------------------------------
(* A marked session is at work                                             *)

\* The inductive part of MarkIsOwned; a skip takes the mark away.
Marked(session) == session.gen = "GENERATING"
Owned ==
    /\ \A s \in Ids : Marked(sessions[s]) => sessions[s].status # "SKIPPED"
    /\ crashes = 0 =>
         \A s \in Ids : Marked(sessions[s]) => \E r \in Requests : Generates(r, s)

\* A thought of a generation (_route_adaptive, _generate) stays one of it.
LEMMA StillGenerates ==
    ASSUME Typed, NEW r \in Requests, Route(r) \/ Provider(r)
    PROVE  /\ UNCHANGED <<sessions, crashes>>
           /\ pc'[r] \in Generating /\ local'[r].sid = local[r].sid
<1> DEFINE Stays(step, l) == /\ Become(r, step, l) /\ step \in Generating
                             /\ l.sid = local[r].sid
<1>1. local[r] \in Local /\ NoLocal \in Local
  BY MemoryKept, FirstSessions
<1>2. \A step, l : Stays(step, l) => pc'[r] \in Generating /\ local'[r].sid = local[r].sid
  BY DEF Become, Typed, TypeOK
<1>3. CASE Route(r)
  <2> DEFINE l == [local[r] EXCEPT !.sheet = Seen(r)]
  <2>1. l.sid = local[r].sid /\ Bare(l).sid = local[r].sid
    BY <1>1 DEF Local, Bare
  <2>2. \/ Become(r, "finishing", Bare(l)) \/ Become(r, "failing", Bare(l))
        \/ Become(r, "asking", l)
    BY <1>3 DEF Route
  <2> HIDE DEF l
  <2>3. \E step, m : Stays(step, m)
    BY <2>1, <2>2 DEF Generating
  <2>4. QED
    BY <1>2, <1>3, <2>3 DEF Route
<1>4. CASE Provider(r)
  <2>1. PICK d \in Decisions :
          \/ DecideComplete(r, d.signals)
          \/ DecideQuestion(r, d.signals, d.prompt)
          \/ ProviderFails(r)
    BY <1>4 DEF Provider
  <2> DEFINE l == [local[r] EXCEPT !.signals = @ \cup d.signals]
  <2>2. /\ l.sid = local[r].sid /\ Bare(l).sid = local[r].sid /\ Bare(local[r]).sid = local[r].sid
        /\ \A x : [l EXCEPT !.stage = x].sid = local[r].sid
        /\ \A x : [Bare(l) EXCEPT !.prompt = x].sid = local[r].sid
    BY <1>1 DEF Local, Bare, NoLocal
  <2>3. CASE DecideComplete(r, d.signals)
    <3>1. \/ Become(r, "finishing", Bare(l)) \/ Become(r, "failing", Bare(l))
          \/ Become(r, "asking", [l EXCEPT !.stage = "corrective"])
      BY <2>3 DEF DecideComplete
    <3> HIDE DEF l
    <3>2. \E step, m : Stays(step, m)
      BY <2>2, <3>1 DEF Generating
    <3>3. QED
      BY <1>2, <2>3, <3>2 DEF DecideComplete
  <2>4. CASE DecideQuestion(r, d.signals, d.prompt)
    <3>1. \/ Become(r, "finishing", Bare(l)) \/ Become(r, "failing", Bare(l))
          \/ Become(r, "asking", [l EXCEPT !.stage = "replacement"])
          \/ Become(r, "persisting", [Bare(l) EXCEPT !.prompt = d.prompt])
      BY <2>4 DEF DecideQuestion
    <3> HIDE DEF l
    <3>2. \E step, m : Stays(step, m)
      BY <2>2, <3>1 DEF Generating
    <3>3. QED
      BY <1>2, <2>4, <3>2 DEF DecideQuestion
  <2>5. CASE ProviderFails(r)
    <3>1. \E step, m : Stays(step, m)
      BY <2>2, <2>5 DEF ProviderFails, Generating
    <3>2. QED
      BY <1>2, <2>5, <3>1 DEF ProviderFails
  <2>6. QED
    BY <2>1, <2>3, <2>4, <2>5
<1>5. QED
  BY <1>3, <1>4

\* A request that writes a session, and generates for no other, keeps what is owned.
LEMMA OwnedWrite ==
    ASSUME Typed, Owned, NEW r \in Requests, NEW step, NEW l, Become(r, step, l),
           UNCHANGED crashes, NEW s \in Ids, NEW new, Rewrites(s, new),
           \A t \in Ids \ {s} : ~Generates(r, t),
           Marked(new) => /\ new.status # "SKIPPED"
                          /\ \/ step \in Generating /\ l.sid = s
                             \/ Marked(sessions[s]) /\ ~Generates(r, s)
    PROVE  Owned'
<1>1. /\ pc'[r] = step /\ local'[r] = l
      /\ \A q \in Requests \ {r} : pc'[q] = pc[q] /\ local'[q] = local[q]
  BY DEF Become, Typed, TypeOK
<1>2. /\ sessions'[s] = new /\ Ids' = Ids
      /\ \A t \in Ids \ {s} : sessions'[t] = sessions[t]
  BY DEF Rewrites, Ids
<1>3. \A q \in Requests \ {r} : \A t \in Ids : Generates(q, t) => Generates(q, t)'
  BY <1>1 DEF Generates
<1>4. \A t \in Ids : Marked(sessions'[t]) => sessions'[t].status # "SKIPPED"
  BY <1>2 DEF Owned
<1>5. ASSUME crashes = 0, NEW t \in Ids, Marked(sessions'[t])
      PROVE  \E q \in Requests : Generates(q, t)'
  <2>1. CASE t # s
    BY <1>2, <1>3, <1>5, <2>1 DEF Owned
  <2>2. CASE t = s
    <3>1. CASE step \in Generating /\ l.sid = s
      BY <1>1, <2>2, <3>1 DEF Generates, Generating
    <3>2. CASE Marked(sessions[s]) /\ ~Generates(r, s)
      BY <1>3, <1>5, <2>2, <3>2 DEF Owned
    <3>3. QED
      BY <1>2, <1>5, <2>2, <3>1, <3>2
  <2>3. QED
    BY <2>1, <2>2
<1>6. QED
  BY <1>2, <1>4, <1>5 DEF Owned

\* One that writes none keeps it as well, if it goes on generating.
LEMMA OwnedThought ==
    ASSUME Typed, Owned, NEW r \in Requests, UNCHANGED <<sessions, crashes>>,
           \A q \in Requests \ {r} : pc'[q] = pc[q] /\ local'[q] = local[q],
           \A s \in Ids : Marked(sessions[s]) /\ Generates(r, s) => Generates(r, s)'
    PROVE  Owned'
<1>1. \A q \in Requests \ {r} : \A t \in Ids : Generates(q, t) => Generates(q, t)'
  BY DEF Generates
<1>2. Ids' = Ids
  BY DEF Ids
<1>3. QED
  BY <1>1, <1>2 DEF Owned

\* The steps of one request.
LEMMA OwnedRequest ==
    ASSUME Typed, Owned, NEW r \in Requests, Acts(r)
    PROVE  Owned'
<1>1. \A s \in Ids : sessions[s] \in Session
  BY SessionParts
<1>2. ASSUME NEW step, NEW l, Become(r, step, l)
      PROVE  \A q \in Requests \ {r} : pc'[q] = pc[q] /\ local'[q] = local[q]
  BY <1>2 DEF Become, Typed, TypeOK
<1>3. ASSUME pc[r] \notin Generating PROVE \A s \in Ids : ~Generates(r, s)
  BY <1>3 DEF Generates, Generating
<1>4. CASE Route(r) \/ Provider(r)
  <2>1. /\ UNCHANGED <<sessions, crashes>>
        /\ pc'[r] \in Generating /\ local'[r].sid = local[r].sid
    BY <1>4, StillGenerates
  <2>2. \E step, l : Become(r, step, l)
    BY <1>4, RouteStep, ProviderStep DEF Thinks
  <2>3. \A s \in Ids : Generates(r, s) => Generates(r, s)'
    BY <2>1 DEF Generates, Generating
  <2>4. QED
    BY <1>2, <2>1, <2>2, <2>3, OwnedThought
<1>5. CASE LockUser(r) \/ BreakDeadlock(r) \/ BuildProfile(r) \/ LockSession(r)
  <2>1. /\ UNCHANGED <<sessions, crashes>> /\ pc[r] \notin Generating
        /\ \E step, l : Become(r, step, l)
    BY <1>5 DEF LockUser, BreakDeadlock, InDeadlock, BuildProfile, LockSession, Goto, Done,
                Generating
  <2>2. QED
    BY <1>2, <1>3, <2>1, OwnedThought
<1>6. CASE Crash(r)
  <2>1. /\ UNCHANGED sessions /\ crashes' = crashes + 1 /\ crashes \in Nat
        /\ \E step, l : Become(r, step, l)
    BY <1>6 DEF Crash, Done, Typed, TypeOK
  <2>2. QED
    BY <2>1 DEF Owned, Ids
<1>7. CASE Start(r)
  <2>1. pc[r] = "idle" /\ pc[r] \notin Generating /\ UNCHANGED crashes
    BY <1>7 DEF Start, Generating
  <2>2. CASE Thinks(r)
    BY <1>2, <1>3, <2>1, <2>2, OwnedThought DEF Thinks
  <2>3. CASE ~Thinks(r)
    <3> DEFINE new == [sessions[Latest] EXCEPT !.status = "RESTART_REQUIRED"]
    <3>1. Latest \in Ids /\ Rewrites(Latest, new) /\ Become(r, "creating", local[r])
      BY <1>7, <2>3, StartStep DEF Active
    <3>2. new.status = "RESTART_REQUIRED" /\ new.gen = sessions[Latest].gen
      BY <1>1, <3>1 DEF Session
    <3> HIDE DEF new
    <3>3. Marked(new) => /\ new.status # "SKIPPED"
                         /\ Marked(sessions[Latest]) /\ ~Generates(r, Latest)
      BY <1>3, <2>1, <3>1, <3>2 DEF Marked
    <3>4. QED
      BY <1>3, <2>1, <3>1, <3>3, OwnedWrite
  <2>4. QED
    BY <2>2, <2>3
<1>8. CASE Create(r)
  <2>1. /\ Len(sessions') = Len(sessions) + 1 /\ sessions'[Len(sessions')] = NewSession
        /\ \A t \in Ids : sessions'[t] = sessions[t]
        /\ Len(sessions) \in Nat
    BY <1>8, CreateStep, LenProperties DEF Typed, TypeOK
  <2>2. ~Marked(NewSession)
    BY DEF NewSession, Marked
  <2>3. \A t \in Ids' : t \in Ids \/ (t = Len(sessions) + 1 /\ sessions'[t] = NewSession)
    BY <2>1 DEF Ids
  <2>4. /\ pc[r] \notin Generating /\ UNCHANGED crashes
        /\ \A q \in Requests \ {r} : pc'[q] = pc[q] /\ local'[q] = local[q]
    BY <1>8 DEF Create, Done, Become, Typed, TypeOK, Generating
  <2>5. \A q \in Requests : \A t \in Ids : Generates(q, t) => Generates(q, t)'
    BY <1>3, <2>4 DEF Generates
  <2>6. QED
    BY <2>1, <2>2, <2>3, <2>4, <2>5 DEF Owned
<1>9. CASE Submit(r)
  <2>1. PICK s \in Ids : \E i \in 1 .. Len(sessions[s].sheet.qs), a \in Answers :
          /\ Accepts(sessions[s], i, a)
          /\ Rewrites(s, Edited(sessions[s], i, a))
          /\ \E l \in Local : l.sid = s /\ Become(r, "routing", l)
    BY <1>9, SubmitStep
  <2>2. PICK i \in 1 .. Len(sessions[s].sheet.qs), a \in Answers, l \in Local :
          /\ Accepts(sessions[s], i, a) /\ Rewrites(s, Edited(sessions[s], i, a))
          /\ l.sid = s /\ Become(r, "routing", l)
    BY <2>1
  <2> DEFINE new == Edited(sessions[s], i, a)
  <2>3. new.status = "IN_PROGRESS"
    BY <2>2, SessionParts, EditedSheet DEF Accepts
  <2>4. pc[r] \notin Generating /\ UNCHANGED crashes
    BY <1>9 DEF Submit, Generating
  <2> HIDE DEF new
  <2>5. new.status # "SKIPPED" /\ "routing" \in Generating
    BY <2>3 DEF Generating
  <2>6. QED
    BY <1>3, <2>2, <2>4, <2>5, OwnedWrite DEF new
<1>10. CASE Persist(r) \/ Finish(r) \/ MarkFailed(r)
  <2> DEFINE s == local[r].sid
  <2>1. PICK new \in Session : Settles(r, new) /\ new.gen \in {"IDLE", "FAILED"}
    BY <1>10, SettlingStep
  <2>2. /\ s \in Ids /\ Become(r, "idle", NoLocal) /\ UNCHANGED crashes
        /\ \A t \in Ids \ {s} : ~Generates(r, t)
    BY <1>10, <2>1 DEF Settles, Done, Persist, Finish, MarkFailed, Settle, Generates
  <2>3. CASE Rewrites(s, new)
    BY <2>1, <2>2, <2>3, OwnedWrite DEF Marked
  <2>4. CASE ~Rewrites(s, new)
    <3>1. UNCHANGED sessions /\ sessions[s].status = "SKIPPED"
      BY <2>1, <2>4 DEF Settles, Thinks
    <3>2. \A t \in Ids : Marked(sessions[t]) => ~Generates(r, t)
      BY <2>2, <3>1 DEF Owned
    <3>3. QED
      BY <1>2, <2>2, <3>1, <3>2, OwnedThought
  <2>5. QED
    BY <2>3, <2>4
<1>11. CASE Skip(r)
  <2>1. pc[r] \notin Generating /\ UNCHANGED crashes /\ Become(r, "idle", NoLocal)
    BY <1>11 DEF Skip, Done, Generating
  <2>2. CASE Thinks(r)
    BY <1>2, <1>3, <2>1, <2>2, OwnedThought DEF Thinks
  <2>3. CASE ~Thinks(r)
    <3> DEFINE new == [sessions[Latest] EXCEPT !.status = "SKIPPED", !.gen = "IDLE"]
    <3>1. Latest \in Ids /\ Rewrites(Latest, new)
      BY <1>11, <2>3, SkipStep DEF Active
    <3>2. ~Marked(new)
      BY <1>1, <3>1 DEF Session, Marked
    <3> HIDE DEF new
    <3>3. QED
      BY <1>3, <2>1, <3>1, <3>2, OwnedWrite
  <2>4. QED
    BY <2>2, <2>3
<1>12. CASE Complete(r)
  <2>1. PICK s \in Ids, l \in Local :
          /\ Rewrites(s, [sessions[s] EXCEPT !.gen = "PROFILE_GENERATING"])
          /\ Become(r, "profiling", l)
    BY <1>12, CompleteStep
  <2> DEFINE new == [sessions[s] EXCEPT !.gen = "PROFILE_GENERATING"]
  <2>2. ~Marked(new)
    BY <1>1, <2>1 DEF Session, Marked
  <2>3. pc[r] \notin Generating /\ UNCHANGED crashes
    BY <1>12 DEF Complete, Generating
  <2> HIDE DEF new
  <2>4. QED
    BY <1>3, <2>1, <2>2, <2>3, OwnedWrite DEF new
<1>13. CASE StoreProfile(r)
  <2> DEFINE s == local[r].sid
  <2> DEFINE new == [sessions[s] EXCEPT !.status = "COMPLETED", !.gen = "IDLE",
                                        !.profile = local[r].sheet]
  <2>1. s \in Ids /\ Rewrites(s, new) /\ Become(r, "idle", NoLocal)
    BY <1>13, StoreStep DEF Done
  <2>2. ~Marked(new)
    BY <1>1, <2>1 DEF Session, Marked
  <2>3. pc[r] \notin Generating /\ UNCHANGED crashes
    BY <1>13 DEF StoreProfile, Generating
  <2> HIDE DEF new
  <2>4. QED
    BY <1>3, <2>1, <2>2, <2>3, OwnedWrite
<1>14. QED
  BY <1>4, <1>5, <1>6, <1>7, <1>8, <1>9, <1>10, <1>11, <1>12, <1>13 DEF Acts

\* No step disowns a mark.
LEMMA OwnedStep == Typed /\ Owned /\ [Next]_vars => Owned'
<1>1. ASSUME Owned, UNCHANGED vars PROVE Owned'
  BY <1>1 DEF vars, Owned, Generates, Ids
<1>2. QED
  BY <1>1, OwnedRequest, StepIsOfRequest

\* At first no session is marked.
LEMMA InitOwned == Init => Owned
<1> SUFFICES ASSUME Init PROVE Owned
  OBVIOUS
<1>1. \A s \in Ids : sessions[s] = LegacySession
  BY FirstSessions, LenProperties, EmptySeq DEF Init, Ids
<1>2. ~Marked(LegacySession)
  BY DEF Marked, LegacySession, NewSession, EmptySheet
<1>3. QED
  BY <1>1, <1>2 DEF Owned

\* Of the requests that have begun some waits for no other (skip and
\* adaptive_complete lock the same rows in opposite orders).
LEMMA SomeoneMoves ==
    ASSUME NEW r \in Requests, pc[r] # "idle"
    PROVE  \E q \in Requests : pc[q] # "idle" /\ ~Waits(q)
<1>1. ASSUME NEW q \in Requests, pc[q] = "skipping" PROVE ~Waits(q)
  BY <1>1 DEF Waits, InDeadlock, LockedUser
<1>2. CASE LockedUser
  BY <1>1, <1>2 DEF LockedUser
<1>3. CASE ~LockedUser
  <2>1. ASSUME NEW q \in Requests, pc[q] = "storing" PROVE ~Waits(q)
    BY <1>3, <2>1 DEF Waits
  <2>2. Waits(r) => \E q \in Requests : pc[q] = "storing"
    BY <1>3 DEF Waits, LockedSession, LockedUser
  <2>3. QED
    BY <2>1, <2>2
<1>4. QED
  BY <1>2, <1>3

\* Unless a process dies, a session that refuses answers because it is generating
\* has the request that will take the mark back, and not all requests wait for rows
\* that others hold (_submit_adaptive, skip, adaptive_complete).
THEOREM MarksAreOwned == Spec => []MarkIsOwned
<1>1. Owned => MarkIsOwned
  <2>1. ASSUME NEW r \in Requests, NEW s, Generates(r, s) PROVE pc[r] # "idle"
    BY <2>1 DEF Generates
  <2>2. QED
    BY <2>1, SomeoneMoves DEF Owned, MarkIsOwned, Marked
<1>2. QED
  BY <1>1, InitTyped, InitOwned, StepTyped, OwnedStep, PTL DEF Spec
=============================================================================
