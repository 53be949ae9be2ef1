\* Two reviews of two diffs within two seconds, and a program marking.
SPECIFICATION Spec
CONSTANTS
    r1 = r1
    r2 = r2
    m1 = m1
    f1 = f1
    f2 = f2
    Reviews = {r1, r2}
    Markers = {m1}
    Nobody = Nobody
    Diffs = {1, 2}
    Nothing = 0
    Findings = {f1, f2}
    MaxFindings = 2
    MaxSecond = 2
    MaxMarks = 2
SYMMETRY Symmetry
INVARIANTS
    ListedAreComplete
    ReportedAreListed
    CountsAddUp
\* The reviews are over and the marks are used up.
CHECK_DEADLOCK FALSE
