CONSTANTS
    Workflows = {w1, w2}
    Tasks = {t1}
    Slots = {s1, s2}
    Worktrees = {d1, d2}
    Leases = {l1, l2}
    Requests = {r1, r2}
    Digests = {}
    Mode = "cooperate"
    MaxTurns = 1
    MaxRepairs = 1
    AskedPhases = {"running", "cancel_requested", "cancelled"}
    AskedPurposes = {"implement", "repair", "review"}
    MaxContracts = 2
    MaxOpenings = 3
    MaxReceipts <- NoReceipts
VIEW EndsAlike
SYMMETRY Symmetry
SPECIFICATION Spec
INVARIANTS
    OneHolder
    HolderIsNewest
    LeaseOutlivesAttempt
    OneTurnPerWorktree
    CancelledQuiet
    TurnsCharged
PROPERTIES
    RecoveredLeases
CHECK_DEADLOCK FALSE
