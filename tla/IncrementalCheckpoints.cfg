SPECIFICATION Spec
CONSTANTS
    Files = {s1, s2}
    MaxCheckpoint = 3
    MaxIncarnation = 2
    LateCompletions = FALSE
SYMMETRY Symmetry
INVARIANTS
    ReuseIsSafe
CHECK_DEADLOCK FALSE
