\* One REPL turn with hooks, three tools (one needs the user, one is denied), and a failing disk.
CONSTANTS
    fetch = fetch
    bash = bash
    edit = edit
    Tools <- AllThree
    FetchTools <- OnlyFetch
    PreserveRecent = 4
    MaxIterations = 2
    MaxCalls <- NotDeclared
    MaxTokens <- NotDeclared
    MaxFetches <- NotDeclared
    AutoCompactAt = 9
    Policy <- MixedPolicy
    PromptAnswers <- UserPrompter
    PreHooks = TRUE
    PersistMayFail = TRUE
    MaxUses = 2
    MaxTurns = 1

SPECIFICATION FairSpec
CHECK_DEADLOCK FALSE

INVARIANTS
    EveryToolUseAnswered
    ToolsRunInOrder
    NoSilentExecution
PROPERTIES
    AbortStopsTheTurn
    OnlyAuthorizedToolsRun
    EveryTurnEnds
