\* A pipe of one unit, input and output up to two.
SPECIFICATION FairSpec
CONSTANTS
    PipeSize = 1
    MaxPayload = 2
    MaxOutput = 2
INVARIANTS
    OutputComplete
    DeadlineReclaims
PROPERTIES
    DeadlinesHold
    InterruptsEndHooks
    EndingCommandsReturn
\* A command that has returned and whose processes are gone does nothing more.
CHECK_DEADLOCK FALSE
