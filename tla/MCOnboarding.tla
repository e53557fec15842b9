---------------------------- MODULE MCOnboarding ----------------------------
(***************************************************************************)
(* Model-checking instance of Onboarding: one prompt for each topic that   *)
(* has to be asked, and a clarification; the detail a group owes is left   *)
(* to what the provider infers.                                            *)
(***************************************************************************)
EXTENDS Onboarding, TLC

CONSTANTS place, group, matching, clarify

TopicOf(p) == CASE p = place    -> "location"
                [] p = group    -> "travel_group"
                [] p = matching -> "matching"
                [] p = clarify  -> "other"
OptionsOf(p) == IF p = group THEN Answers ELSE {"solo"}

MCPrompts    == {place, group, matching, clarify}
MCTopic      == [p \in MCPrompts |-> TopicOf(p)]
MCOptions    == [p \in MCPrompts |-> OptionsOf(p)]
MCClarifying == {clarify}

RequestSymmetry == Permutations(Requests)
=============================================================================
