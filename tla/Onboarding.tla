------------------------------ MODULE Onboarding ------------------------------
(***************************************************************************)
(* The adaptive onboarding of one user: start, answer, skip and complete,  *)
(* as concurrent requests on the same questionnaire.                       *)
(*                                                                         *)
(*   - every write happens under the row lock of its session (SELECT ...   *)
(*     FOR UPDATE) and ends in a commit; between two commits of a request  *)
(*     - while the provider thinks, while the profile is built - any other *)
(*     request may run;                                                    *)
(*   - an answer commits GENERATING, then asks the provider for the next   *)
(*     question and commits its verdict;                                   *)
(*   - a completion commits PROFILE_GENERATING, then builds the profile    *)
(*     from the rows it read and commits COMPLETED.                        *)
(*                                                                         *)
(* A request keeps the objects it loaded: an answer it replaced is still   *)
(* the old one in its eyes, and what it noted on the session without a     *)
(* flush is gone once the session is read again under its lock.            *)
(***************************************************************************)
EXTENDS AdaptiveProvider, Sequences

CONSTANTS
    Requests,            \* concurrent HTTP requests of the user
    Topic,               \* the canonical topic of each prompt
    Options,             \* the answers each prompt may get
    Clarifying,          \* prompts of kind "clarification"
    First,               \* the deterministic location question
    CoreTopics,          \* topics only an answer can cover
    MinQuestions, MaxQuestions, MaxClarifications,
    MaxSessions,         \* bound: adaptive sessions the user ever opens
    MaxCompletions,      \* bound: completions that reach the profile
    MaxCrashes           \* bound: requests that die between two commits

Topics    == {"location", "travel_group"} \cup CoreTopics \cup Inferable \cup {"other"}

\* Only the travel group's answer decides anything; the others may change.
Answers   == {"solo", "group"}

ASSUME OnboardingAssumption ==
    /\ First \in Prompts /\ Clarifying \subseteq Prompts
    /\ Options \in [Prompts -> SUBSET Answers]
    /\ Topic \in [Prompts -> Topics] /\ Topic[First] = "location"
    /\ MinQuestions \in Nat /\ MaxQuestions \in Nat /\ MaxClarifications \in Nat
    /\ MaxSessions \in Nat /\ MaxCompletions \in Nat /\ MaxCrashes \in Nat

VARIABLES
    sessions,     \* the user's onboarding_sessions, oldest first
    user,         \* onboarding_completed and onboarding_skipped_at of the user
    pc,           \* where each request is
    local,        \* what each request holds in memory
    completions, crashes

vars == <<sessions, user, pc, local, completions, crashes>>

NoAnswer  == "none"
Statuses  == {"IN_PROGRESS", "READY_TO_COMPLETE", "COMPLETED", "SKIPPED", "RESTART_REQUIRED"}
GenStates == {"IDLE", "GENERATING", "FAILED", "PROFILE_GENERATING"}
Steps     == {"idle", "creating", "routing", "asking", "finishing", "persisting",
              "failing", "skipping", "profiling", "built", "storing"}

\* The questions of a session in order of position, and their answers.
Sheet      == [qs: Seq(Prompts), ans: Seq(Answers \cup {NoAnswer})]
EmptySheet == [qs |-> <<>>, ans |-> <<>>]

Session == [mode: {"ADAPTIVE", "STATIC"}, status: Statuses, gen: GenStates,
            sheet: Sheet, signals: SUBSET Inferable, profile: Sheet]

NewSession == [mode |-> "ADAPTIVE", status |-> "IN_PROGRESS", gen |-> "IDLE",
               sheet |-> [qs |-> <<First>>, ans |-> <<NoAnswer>>],
               signals |-> {}, profile |-> EmptySheet]
LegacySession == [NewSession EXCEPT !.mode = "STATIC", !.sheet = EmptySheet]

\* sid: the session; sheet: the answers it has loaded and keeps seeing;
\* signals: what it noted on its copy of the session; stage: which of the
\* provider's replies it awaits; prompt: the question it chose; skipped: the
\* user it loaded; shares: does it hold the user's row for its preferences?
Local == [sid: Nat, sheet: Sheet, signals: SUBSET Inferable,
          stage: {"first", "corrective", "replacement"}, prompt: Prompts,
          skipped: BOOLEAN, shares: BOOLEAN]
NoLocal == [sid |-> 0, sheet |-> EmptySheet, signals |-> {}, stage |-> "first",
            prompt |-> First, skipped |-> FALSE, shares |-> FALSE]

Init ==
    /\ sessions \in {<<>>, <<LegacySession>>}
    /\ user = [completed |-> FALSE, skipped |-> FALSE]
    /\ pc = [r \in Requests |-> "idle"]
    /\ local = [r \in Requests |-> NoLocal]
    /\ completions = 0 /\ crashes = 0

-----------------------------------------------------------------------------
(* The completion gate                                                     *)

Answered(sheet) == {i \in 1 .. Len(sheet.qs) : sheet.ans[i] # NoAnswer}
AnswerCount(sheet) == Cardinality(Answered(sheet))
Covered(sheet)  == {Topic[sheet.qs[i]] : i \in Answered(sheet)}

\* A traveller in a group owes one detail about it; a solo traveller does not.
InGroup(sheet) ==
    \E i \in Answered(sheet) :
        Topic[sheet.qs[i]] = "travel_group" /\ sheet.ans[i] = "group"

Blockers(sheet, signals) ==
    (({"location", "travel_group"} \cup CoreTopics) \ Covered(sheet))
        \cup {t \in Inferable \ (Covered(sheet) \cup signals) :
                  t = "group_detail" => InGroup(sheet)}

Ready(sheet, signals) ==
    AnswerCount(sheet) >= MinQuestions /\ Blockers(sheet, signals) = {}

-----------------------------------------------------------------------------
(* Locks and what a request sees                                           *)

\* Only these steps hold a row lock across a wait for another one.
LockedSession(s) == \E r \in Requests : pc[r] = "storing" /\ local[r].sid = s
LockedUser       == \E r \in Requests : pc[r] = "skipping"
SharedUser       == \E r \in Requests : local[r].shares

Ids    == 1 .. Len(sessions)
Active == {s \in Ids : sessions[s].status \in {"IN_PROGRESS", "READY_TO_COMPLETE"}}
Latest == CHOOSE s \in Active : \A t \in Active : t <= s

\* The rows of its session as the request sees them: those committed, except
\* that an answer it has loaded before stays the object it had loaded.
Seen(r) ==
    LET held == local[r].sheet
        now  == sessions[local[r].sid].sheet
        Keeps(i) == /\ i <= Len(held.qs) /\ held.qs[i] = now.qs[i]
                    /\ held.ans[i] # NoAnswer /\ now.ans[i] # NoAnswer
    IN  [now EXCEPT !.ans = [i \in 1 .. Len(now.ans) |->
                                IF Keeps(i) THEN held.ans[i] ELSE now.ans[i]]]

Become(r, step, l) ==
    /\ pc' = [pc EXCEPT ![r] = step]
    /\ local' = [local EXCEPT ![r] = l]
\* What is left in memory for a step that is called with the session only.
Bare(l) == [NoLocal EXCEPT !.sid = l.sid, !.shares = l.shares]
Goto(r, step) == Become(r, step, local[r])
Done(r)       == Become(r, "idle", NoLocal)

-----------------------------------------------------------------------------
(* start                                                                   *)

\* The latest active session is resumed as it is; a legacy one is retired.
\* The bound on sessions counts those that are about to be created.
Start(r) ==
    /\ pc[r] = "idle"
    /\ Cardinality({s \in Ids : sessions[s].mode = "ADAPTIVE"})
         + Cardinality({q \in Requests : pc[q] = "creating"}) < MaxSessions
    /\ \/ /\ Active = {}
          /\ UNCHANGED sessions
       \/ /\ Active # {} /\ ~LockedSession(Latest)
          /\ sessions[Latest].mode = "STATIC"
          /\ sessions' = [sessions EXCEPT ![Latest].status = "RESTART_REQUIRED"]
    /\ Goto(r, "creating")
    /\ UNCHANGED <<user, completions, crashes>>

Create(r) ==
    /\ pc[r] = "creating" /\ ~LockedUser
    /\ sessions' = Append(sessions, NewSession)
    /\ Done(r)
    /\ UNCHANGED <<user, completions, crashes>>

-----------------------------------------------------------------------------
(* answers                                                                 *)

\* A changed answer deletes the questions asked after it, and the routing
\* state they had left.
MUTANT_EditedKeepsQuestions(s, i, a) ==
    [s EXCEPT !.sheet.ans = [SubSeq(@, 1, i) EXCEPT ![i] = a], !.gen = "GENERATING"]
MUTANT_EditedKeepsLater(s, i, a) == [s EXCEPT !.sheet.ans[i] = a, !.gen = "GENERATING"]
Edited(s, i, a) ==
    LET changed == s.sheet.ans[i] \notin {NoAnswer, a}
        kept    == IF changed THEN [qs  |-> SubSeq(s.sheet.qs, 1, i),
                                    ans |-> SubSeq(s.sheet.ans, 1, i)]
                              ELSE s.sheet
    IN  [s EXCEPT !.sheet = [kept EXCEPT !.ans[i] = a],
                  !.signals = IF changed THEN {} ELSE @,
                  !.gen = "GENERATING"]

\* The same answer again is only a read, unless the generation has failed.
MUTANT_AcceptsWhileGenerating(s, i, a) ==
    /\ s.mode = "ADAPTIVE" /\ s.status = "IN_PROGRESS"
    /\ i \in 1 .. Len(s.sheet.qs)
    /\ s.sheet.ans[i] = a => s.gen = "FAILED"
Accepts(s, i, a) ==
    /\ s.mode = "ADAPTIVE" /\ s.status = "IN_PROGRESS" /\ s.gen # "GENERATING"
    /\ i \in 1 .. Len(s.sheet.qs)
    /\ s.sheet.ans[i] = a => s.gen = "FAILED"

\* An answer is one the question offers.
ValidAnswer(p, a) == a \in Options[p]

\* Of the rows it read under the lock the request keeps the answer it replaces.
Held(sheet, i) ==
    [sheet EXCEPT !.ans = [j \in 1 .. Len(sheet.ans) |->
                              IF j = i THEN sheet.ans[i] ELSE NoAnswer]]

Submit(r) ==
    \E sid \in Ids : \E i \in 1 .. Len(sessions[sid].sheet.qs) :
    \E a \in Answers :
        LET s   == sessions[sid]
            new == Edited(s, i, a)
        IN  /\ pc[r] = "idle" /\ ~LockedSession(sid)
            /\ Accepts(s, i, a) /\ ValidAnswer(s.sheet.qs[i], a)
            /\ sessions' = [sessions EXCEPT ![sid] = new]
            /\ Become(r, "routing",
                      [NoLocal EXCEPT !.sid = sid, !.signals = new.signals,
                                      !.sheet = Held(s.sheet, i)])
            /\ UNCHANGED <<user, completions, crashes>>

\* After the commit, without a lock: is the questionnaire full, or complete?
Route(r) ==
    LET sheet == Seen(r)
        l     == [local[r] EXCEPT !.sheet = sheet]
    IN  /\ pc[r] = "routing"
        /\ \/ /\ Ready(sheet, l.signals)
              /\ Become(r, "finishing", Bare(l))
           \/ /\ ~Ready(sheet, l.signals)
              /\ AnswerCount(sheet) > MaxQuestions
              /\ Become(r, "failing", Bare(l))
           \/ /\ ~Ready(sheet, l.signals)
              /\ AnswerCount(sheet) <= MaxQuestions
              /\ Become(r, "asking", l)
        /\ UNCHANGED <<sessions, user, completions, crashes>>

\* What the provider is told, and the gate that is read again from it once the
\* provider has answered: the conversation as the request sees it.
Context(r, signals) ==
    [conversation |-> Seen(r), completion_gate |-> Ready(Seen(r), signals)]

\* Limits on what the provider may ask; the replacement of a repeated
\* question is not held to them.
OverLimit(l, p) ==
    \/ p = First
    \/ /\ l.stage # "replacement"
       /\ IF p \in Clarifying
          THEN Cardinality({i \in 1 .. Len(l.sheet.qs) : l.sheet.qs[i] \in Clarifying})
                 >= MaxClarifications
          ELSE AnswerCount(l.sheet) >= MaxQuestions

Repeats(l, p) ==
    \/ \E i \in 1 .. Len(l.sheet.qs) : l.sheet.qs[i] = p
    \/ Topic[p] # "other" /\ Topic[p] \in Covered(l.sheet)

\* The provider declares the questionnaire complete.
DecideComplete(r, noted) ==
    LET l == [local[r] EXCEPT !.signals = @ \cup noted]
    IN  /\ pc[r] = "asking"
        /\ \/ /\ Context(r, l.signals).completion_gate
              /\ Become(r, "finishing", Bare(l))
           \/ /\ ~Context(r, l.signals).completion_gate
              /\ l.stage = "first" /\ AnswerCount(l.sheet) >= MinQuestions
              /\ Become(r, "asking", [l EXCEPT !.stage = "corrective"])
           \/ /\ ~Context(r, l.signals).completion_gate
              /\ l.stage # "first" \/ AnswerCount(l.sheet) < MinQuestions
              /\ Become(r, "failing", Bare(l))
        /\ UNCHANGED <<sessions, user, completions, crashes>>

\* The provider asks p: what it noted may complete the gate all the same.
DecideQuestion(r, noted, p) ==
    LET l == [local[r] EXCEPT !.signals = @ \cup noted]
        finishes == l.stage # "corrective" /\ Context(r, l.signals).completion_gate
    IN  /\ pc[r] = "asking"
        /\ \/ /\ finishes
              /\ Become(r, "finishing", Bare(l))
           \/ /\ ~finishes
              /\ OverLimit(l, p) \/ (Repeats(l, p) /\ l.stage = "replacement")
              /\ Become(r, "failing", Bare(l))
           \/ /\ ~finishes /\ ~OverLimit(l, p)
              /\ Repeats(l, p) /\ l.stage # "replacement"
              /\ Become(r, "asking", [l EXCEPT !.stage = "replacement"])
           \/ /\ ~finishes /\ ~OverLimit(l, p) /\ ~Repeats(l, p)
              /\ Become(r, "persisting", [Bare(l) EXCEPT !.prompt = p])
        /\ UNCHANGED <<sessions, user, completions, crashes>>

\* No credentials, a rate limit, a timeout, an invalid reply.
ProviderFails(r) ==
    /\ pc[r] = "asking"
    /\ Become(r, "failing", Bare(local[r]))
    /\ UNCHANGED <<sessions, user, completions, crashes>>

\* The session is read again under its lock: the signals the request noted on
\* its copy are overwritten before they were ever flushed.
SavedSignals(r) == sessions[local[r].sid].signals

\* One step of a generation that writes the session, unless it was skipped.
MUTANT_SettleSkippedToo(r, new) ==
    /\ ~LockedSession(local[r].sid)
    /\ sessions' = [sessions EXCEPT ![local[r].sid] = [new EXCEPT !.signals = SavedSignals(r)]]
    /\ Done(r)
    /\ UNCHANGED <<user, completions, crashes>>
Settle(r, new) ==
    LET sid == local[r].sid
    IN  /\ ~LockedSession(sid)
        /\ sessions' = IF sessions[sid].status = "SKIPPED" THEN sessions
                       ELSE [sessions EXCEPT ![sid] = [new EXCEPT !.signals = SavedSignals(r)]]
        /\ Done(r)
        /\ UNCHANGED <<user, completions, crashes>>

\* The question list as it is under the lock decides whether p is new.
MUTANT_AskedUnchecked(sheet, p) ==
    [qs |-> Append(sheet.qs, p), ans |-> Append(sheet.ans, NoAnswer)]
Asked(sheet, p) ==
    IF \E i \in 1 .. Len(sheet.qs) : sheet.qs[i] = p THEN sheet
    ELSE [qs |-> Append(sheet.qs, p), ans |-> Append(sheet.ans, NoAnswer)]

Persist(r) ==
    /\ pc[r] = "persisting"
    /\ Settle(r, [sessions[local[r].sid] EXCEPT !.sheet = Asked(@, local[r].prompt),
                                                !.gen = "IDLE"])

Finish(r) ==
    /\ pc[r] = "finishing"
    /\ Settle(r, [sessions[local[r].sid] EXCEPT !.status = "READY_TO_COMPLETE",
                                                !.gen = "IDLE"])

MUTANT_MarkFailedNothing(r) ==
    /\ pc[r] = "failing"
    /\ Settle(r, sessions[local[r].sid])
MarkFailed(r) ==
    /\ pc[r] = "failing"
    /\ Settle(r, [sessions[local[r].sid] EXCEPT !.gen = "FAILED"])

-----------------------------------------------------------------------------
(* skip                                                                    *)

LockUser(r) ==
    /\ pc[r] = "idle" /\ ~LockedUser /\ ~SharedUser /\ ~user.completed
    /\ Goto(r, "skipping")
    /\ UNCHANGED <<sessions, user, completions, crashes>>

Skip(r) ==
    /\ pc[r] = "skipping"
    /\ Active # {} => ~LockedSession(Latest)
    /\ sessions' = IF Active = {} THEN sessions
                   ELSE [sessions EXCEPT ![Latest].status = "SKIPPED", ![Latest].gen = "IDLE"]
    /\ user' = [user EXCEPT !.skipped = TRUE]
    /\ Done(r)
    /\ UNCHANGED <<completions, crashes>>

-----------------------------------------------------------------------------
(* complete                                                                *)

MUTANT_CompletableUngated(s) ==
    /\ s.mode = "ADAPTIVE" /\ s.status \notin {"SKIPPED", "COMPLETED"}
    /\ s.gen # "PROFILE_GENERATING"
    /\ AnswerCount(s.sheet) >= MinQuestions \/ s.status = "READY_TO_COMPLETE"
Completable(s) ==
    /\ s.mode = "ADAPTIVE" /\ s.status \notin {"SKIPPED", "COMPLETED"}
    /\ s.gen # "PROFILE_GENERATING"
    /\ Ready(s.sheet, s.signals)

Complete(r) ==
    \E sid \in Ids :
        /\ pc[r] = "idle" /\ completions < MaxCompletions
        /\ ~LockedSession(sid) /\ Completable(sessions[sid])
        /\ sessions' = [sessions EXCEPT ![sid].gen = "PROFILE_GENERATING"]
        /\ Become(r, "profiling",
                  [NoLocal EXCEPT !.sid = sid, !.sheet = sessions[sid].sheet,
                      !.skipped = user.skipped])
        /\ completions' = completions + 1
        /\ UNCHANGED <<user, crashes>>

\* The preferences of the profile, upserted in the open transaction: a new one
\* references the user and so shares the user's row until the commit.
BuildProfile(r) ==
    \E inserts, ok \in BOOLEAN :
        /\ pc[r] = "profiling"
        /\ inserts => ~LockedUser
        /\ LET l == [local[r] EXCEPT !.shares = inserts]
           IN  IF ok THEN Become(r, "built", l) ELSE Become(r, "failing", Bare(l))
        /\ UNCHANGED <<sessions, user, completions, crashes>>

LockSession(r) ==
    /\ pc[r] = "built" /\ ~LockedSession(local[r].sid)
    /\ Goto(r, "storing")
    /\ UNCHANGED <<sessions, user, completions, crashes>>

\* The commit writes the session, whatever became of it, and of the user the
\* columns that differ from what the request had loaded.
StoreProfile(r) ==
    /\ pc[r] = "storing" /\ ~LockedUser
    /\ sessions' = [sessions EXCEPT ![local[r].sid].status = "COMPLETED",
                                    ![local[r].sid].gen = "IDLE",
                                    ![local[r].sid].profile = local[r].sheet]
    /\ user' = [completed |-> TRUE,
                skipped |-> IF local[r].skipped THEN FALSE ELSE user.skipped]
    /\ Done(r)
    /\ UNCHANGED <<completions, crashes>>

-----------------------------------------------------------------------------
(* Failures                                                                *)

\* A skip that waits for the session of a completion which waits for the
\* user: the database rolls one of the two back.
InDeadlock(r) ==
    /\ pc[r] \in {"skipping", "storing"} /\ LockedUser
    /\ Active # {} /\ LockedSession(Latest)
    /\ pc[r] = "storing" => local[r].sid = Latest
BreakDeadlock(r) ==
    /\ InDeadlock(r)
    /\ Done(r)
    /\ UNCHANGED <<sessions, user, completions, crashes>>

\* The process dies, or the handler raises what no except clause expects: the
\* open transaction rolls back, what was committed stays.
Crash(r) ==
    /\ pc[r] # "idle" /\ crashes < MaxCrashes
    /\ crashes' = crashes + 1
    /\ Done(r)
    /\ UNCHANGED <<sessions, user, completions>>

\* The steps that follow once a request has begun.
Provider(r) ==
    /\ pc[r] = "asking"
    /\ \E d \in Decisions :
         \/ d.complete /\ DecideComplete(r, d.signals)
         \/ ~d.complete /\ d # Failed /\ DecideQuestion(r, d.signals, d.prompt)
         \/ d = Failed /\ ProviderFails(r)
Proceed(r) ==
    \/ Create(r) \/ Route(r) \/ Provider(r)
    \/ Persist(r) \/ Finish(r) \/ MarkFailed(r)
    \/ Skip(r) \/ BuildProfile(r) \/ LockSession(r) \/ StoreProfile(r)
    \/ BreakDeadlock(r)

\* No request is under way.
Quiet == (\A r \in Requests : pc[r] = "idle") /\ UNCHANGED vars

Next ==
    \/ \E r \in Requests :
          Start(r) \/ Submit(r) \/ LockUser(r) \/ Complete(r) \/ Proceed(r) \/ Crash(r)
    \/ Quiet

Spec == Init /\ [][Next]_vars

-----------------------------------------------------------------------------
(* Properties                                                              *)

\* Type invariant: sessions, requests and what they hold stay in the domains
\* of the models, and every question has its place for an answer.
TypeOK ==
    /\ sessions \in Seq(Session)
    /\ \A s \in Ids : Len(sessions[s].sheet.qs) = Len(sessions[s].sheet.ans)
    /\ user \in [completed: BOOLEAN, skipped: BOOLEAN]
    /\ pc \in [Requests -> Steps]
    /\ local \in [Requests -> Local]
    /\ \A r \in Requests : local[r].sid \in 0 .. Len(sessions)
    /\ completions \in Nat /\ crashes \in Nat

\* A stored profile was built from answers that passed the completion gate
\* (adaptive_complete), although edits, skips and late replies run between the
\* check under the lock and the commit of the profile.
ProfilesGated ==
    \A s \in Ids :
        sessions[s].status = "COMPLETED" => Ready(sessions[s].profile, {})

\* A skipped session is final (skip): no answer, reply, failure or second skip
\* that was under way changes it any more; only a completion that had already
\* passed its checks may still overwrite it.
SkipIsFinal ==
    [][\A s \in Ids : sessions[s].status = "SKIPPED" =>
          \/ sessions'[s] = sessions[s]
          \/ /\ sessions'[s].status = "COMPLETED"
             /\ sessions'[s].sheet = sessions[s].sheet]_vars

\* One bounded question at a time (_submit_adaptive, _persist_next_question):
\* as long as no completion interferes, every question but the last has its
\* answer, and no session outgrows the limit by more than the question the
\* clarification exception allows.
OneOpenQuestion ==
    completions = 0 =>
        \A s \in Ids : LET sheet == sessions[s].sheet
                       IN  /\ 1 .. Len(sheet.qs) - 1 \subseteq Answered(sheet)
                           /\ Len(sheet.qs) <= MaxQuestions + 1

\* At most one request generates for a session, and the session says so until
\* it is skipped: the GENERATING mark is the only thing that keeps a second
\* answer out while no lock is held (services/onboarding.py:370).
Generates(r, s) ==
    /\ pc[r] \in {"routing", "asking", "finishing", "persisting", "failing"}
    /\ local[r].sid = s
OneGenerator ==
    completions = 0 =>
        \A s \in Ids : \A r \in Requests : Generates(r, s) =>
            /\ sessions[s].gen = "GENERATING" \/ sessions[s].status = "SKIPPED"
            /\ \A q \in Requests : Generates(q, s) => q = r

\* A session never asks the same question twice, even when two requests
\* generate for it from lists of questions they read before either wrote.
QuestionsDistinct ==
    \A s \in Ids : \A i, j \in 1 .. Len(sessions[s].sheet.qs) :
        sessions[s].sheet.qs[i] = sessions[s].sheet.qs[j] => i = j

\* The GENERATING mark makes a session refuse answers and nothing but the
\* generation that set it takes it back (_submit_adaptive, _finish_questionnaire,
\* _persist_next_question, _mark_generation_failed): unless a process died, a
\* marked session has the request that generates for it; and while it is marked,
\* not all requests wait for rows that others hold.
Waits(r) ==
    /\ ~InDeadlock(r)
    /\ \/ pc[r] \in {"creating", "storing"} /\ LockedUser
       \/ /\ pc[r] \in {"persisting", "finishing", "failing", "built"}
          /\ LockedSession(local[r].sid)
       \/ pc[r] = "skipping" /\ Active # {} /\ LockedSession(Latest)
MarkIsOwned ==
    \A s \in Ids : sessions[s].gen = "GENERATING" /\ crashes = 0 =>
        /\ \E r \in Requests : Generates(r, s)
        /\ \E r \in Requests : pc[r] # "idle" /\ ~Waits(r)

\* Documented, not what the code does (services/onboarding.py:367, "Completed
\* onboarding sessions are immutable").
CompletedImmutable ==
    [][\A s \in Ids : sessions[s].status = "COMPLETED"
          => sessions'[s].status = "COMPLETED"]_vars

\* Documented, not what the code does (services/onboarding.py:369, "Onboarding
\* is ready to complete"): a session that no longer accepts answers because it
\* is ready can be completed.
ReadyIsCompletable ==
    \A s \in Ids :
        sessions[s].status = "READY_TO_COMPLETE" /\ sessions[s].gen = "IDLE"
            => Completable(sessions[s])

\* Documented, not what the code does (README.md:50, "the complete prior
\* conversation"): the provider is asked with the answers that are saved.
ConversationIsCurrent ==
    \A r \in Requests :
        pc[r] = "asking" /\ completions = 0 /\ sessions[local[r].sid].status # "SKIPPED"
            => Context(r, {}).conversation = sessions[local[r].sid].sheet
=============================================================================
