CONSTANTS
    Workflows = {w1}
    Tasks = {t1}
    Slots = {s1, s2}
    Worktrees = {d1, d2}
    Leases = {l1, l2}
    Requests = {r1, r2}
    Digests = {c1}
    Mode = "compare"
    MaxTurns = 2
    MaxRepairs = 0
    AskedPhases = {"running"}
    AskedPurposes = {"implement", "review"}
    MaxContracts = 2
    MaxOpenings = 1
    MaxReceipts <- Competing
SYMMETRY Symmetry
SPECIFICATION Spec
INVARIANTS
    CandidateEarned
PROPERTIES
    CollectedStays
CHECK_DEADLOCK FALSE
