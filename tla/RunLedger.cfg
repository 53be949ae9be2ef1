\* Two programs with a subagent each, one process, two runs. A REPL may do all that a
\* single prompt does, so it is the only kind of run.
CONSTANTS
    p1 = p1
    p2 = p2
    c1 = c1
    Nobody = Nobody
    Programs <- TwoPrograms
    Children <- OneChild
    MaxRuns = 2
    MaxThreads = 2
    Kinds = {"repl"}
    FullShared = FALSE

SPECIFICATION Spec
SYMMETRY Symmetry
\* Every program has ended.
CHECK_DEADLOCK FALSE

INVARIANTS
    StoppedIsGone
    LiveIsListed
    FinishedReadsFinished
    ClosedAfterRecord
