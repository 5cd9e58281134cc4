CONSTANTS
    Workflows = {w1}
    Tasks = {t1}
    Slots = {s1, s2}
    Worktrees = {d1}
    Leases = {l1, l2}
    Requests = {r1, r2}
    Digests = {c1}
    Mode = "cooperate"
    MaxTurns = 2
    MaxRepairs = 1
    AskedPhases = {"running", "integrating", "failed", "cancel_requested", "cancelled"}
    AskedPurposes = {"repair", "review"}
    MaxContracts = 1
    MaxOpenings = 1
    MaxReceipts <- OneOfEach
SYMMETRY Symmetry
SPECIFICATION Spec
INVARIANTS
    AcceptedIsEarned
PROPERTIES
    CancelledFrozen
CHECK_DEADLOCK FALSE
