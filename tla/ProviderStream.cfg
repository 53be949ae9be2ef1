\* Both protocols read by both clients, two tool calls, two content frames.
CONSTANTS
    CallIndices <- TwoCalls
    Providers <- BothProviders
    Consumers <- BothConsumers
    MaxRetries = 1
    ShiftBits = 32
    MaxContent = 2
    MaxBlocks = 2
    MaxExtras = 1

SPECIFICATION FairSpec
\* The call has returned.
CHECK_DEADLOCK FALSE

INVARIANTS
    FramesAsSent
    ToolCallsIntact
PROPERTIES
    RequestsAsPromised
    EveryCallReturns
