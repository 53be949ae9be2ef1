\* The terminal client reads a message with two tool calls.
CONSTANTS
    CallIndices <- TwoCalls
    Providers <- OpenAiOnly
    Consumers <- CliOnly
    MaxRetries = 0
    ShiftBits = 32
    MaxContent = 2
    MaxBlocks = 0
    MaxExtras = 0

SPECIFICATION Spec
CHECK_DEADLOCK FALSE

INVARIANTS
    ParallelCallsIntact
