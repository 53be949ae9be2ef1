\* Two sessions, rotation from two messages on, death at every step.
CONSTANTS
    Nobody = Nobody
    Sessions = {s1, s2}
    RotateAt = 2
    MaxRotated = 1
    PreserveRecent = 1
    MaxMessages = 3
    MaxRuns = 3

SPECIFICATION Spec
CHECK_DEADLOCK FALSE
SYMMETRY Symmetry

INVARIANTS
    CompletedTurnsOnDisk
    NothingSavedIsLost
    GracefulExitIsClean
