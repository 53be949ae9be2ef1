\* Two programs, a bundled plugin and two external ones.
SPECIFICATION Spec
CONSTANTS
    p1 = p1
    p2 = p2
    b = b
    x = x
    y = y
    Programs = {p1, p2}
    Plugins = {b, x, y}
    Bundled = {b}
    Nobody = Nobody
    MaxVersion = 2
    MaxCommands = 4
SYMMETRY Symmetry
INVARIANTS
    LastWordHolds
    PassRepairs
\* Every program is off and its starts and commands are used up.
CHECK_DEADLOCK FALSE
