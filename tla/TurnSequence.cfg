\* Turns that follow one another: cancelled, failed, out of budget, compacted.
CONSTANTS
    fetch = fetch
    bash = bash
    edit = edit
    Tools <- OnlyFetch
    FetchTools <- OnlyFetch
    PreserveRecent = 4
    MaxIterations = 3
    MaxCalls = 2
    MaxTokens = 3
    MaxFetches = 2
    AutoCompactAt = 2
    Policy <- OpenPolicy
    PromptAnswers <- NoPrompter
    PreHooks = FALSE
    PersistMayFail = FALSE
    MaxUses = 2
    MaxTurns = 3

SPECIFICATION Spec
CHECK_DEADLOCK FALSE

INVARIANTS
    RequestWellFormed
    TurnFetchCeiling
PROPERTIES
    OnlyCompletedTurnsCommit
