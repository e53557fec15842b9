---------------------------- MODULE AdaptiveProvider ----------------------------
(***************************************************************************)
(* What asking the provider for the next question can come to: a decision  *)
(* that satisfies the contract, or a failure after the last retry.         *)
(*                                                                         *)
(* A reply is what a request returns; its texts count by whether they keep *)
(* to their fields, its signals by what they are about.                    *)
(***************************************************************************)
EXTENDS Integers, FiniteSets, FiniteSetsExt

CONSTANTS
    Prompts,      \* questions the provider may ask
    MaxRetries

ASSUME ProviderAssumption == MaxRetries \in Nat /\ "none" \notin Prompts

\* The topics the provider may infer without asking for them, and signals about
\* other keys or with a value or confidence out of its range.
Inferable == {"matching", "group_detail"}
Signals   == Inferable \cup {"unsupported", "malformed"}

\* Options count by their number, at the boundaries of what each type takes.
Absent == -1
Question == [prompt: Prompts, type: {"single_choice", "multi_choice", "scale", "text"},
             options: {Absent, 0, 1, 2, 5, 6, 8, 9}, unique: BOOLEAN,
             bounds: {"none", "partial", "ordered", "inverted"}]
NoQuestion == [prompt |-> "none"]

Reply == [complete: BOOLEAN, question: Question \cup {NoQuestion}, signals: SUBSET Signals,
          summary: {"short", "long"}, fits: BOOLEAN]

ControlsValid(q) ==
    \/ q.type = "single_choice" /\ q.options \in 2 .. 5 /\ q.unique
    \/ q.type = "multi_choice" /\ q.options \in 2 .. 8 /\ q.unique
    \/ q.type = "scale" /\ q.options = Absent /\ q.bounds = "ordered"
    \/ q.type = "text" /\ q.options = Absent /\ q.bounds = "none"

Valid(reply) ==
    /\ reply.fits /\ reply.summary = "short" /\ reply.signals \subseteq Inferable
    /\ reply.complete = (reply.question = NoQuestion)
    /\ reply.question # NoQuestion => ControlsValid(reply.question)

\* What is dropped or cut before the reply is validated.
Sanitized(reply)  == [reply EXCEPT !.signals = @ \ {"unsupported"}]
Normalized(reply) == [reply EXCEPT !.summary = "short"]

\* A request that fails, and a reply that is refused, count the same.
Failed == [complete |-> FALSE, signals |-> {}, prompt |-> "none"]
Decision(reply) ==
    [complete |-> reply.complete, signals |-> reply.signals, prompt |-> reply.question.prompt]
Verdict(reply) ==
    LET read == Normalized(Sanitized(reply))
    IN  IF Valid(read) THEN Decision(read) ELSE Failed

\* The first reply that is accepted, of one request and its retries.
Validated(verdicts) ==
    LET accepted == {n \in DOMAIN verdicts : verdicts[n] # Failed}
    IN  IF accepted = {} THEN Failed ELSE verdicts[Min(accepted)]

Decisions ==
    LET verdicts == {Failed} \cup {Verdict(reply) : reply \in Reply}
    IN  {Validated(attempts) : attempts \in [1 .. MaxRetries + 1 -> verdicts]}
=============================================================================
