CONSTANTS
    Generations = {g1, g2, g3, o1}
    Old = {o1}
SPECIFICATION LockSpec
INVARIANTS
    SingleWriter
    LocksKept
SYMMETRY LockSymmetry
CHECK_DEADLOCK FALSE
