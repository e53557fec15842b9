SPECIFICATION Spec
CONSTANTS
    place = place
    group = group
    matching = matching
    clarify = clarify
    Requests = {r1, r2}
    Prompts <- MCPrompts
    Topic <- MCTopic
    Options <- MCOptions
    Clarifying <- MCClarifying
    First = place
    MaxRetries = 1
    CoreTopics = {}
    MinQuestions = 2
    MaxQuestions = 3
    MaxClarifications = 1
    MaxSessions = 1
    MaxCompletions = 1
    MaxCrashes = 1
INVARIANTS
    ReadyIsCompletable
