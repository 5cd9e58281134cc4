CONSTANTS
    N = 2
    MaxRuns = 2
    Left = {"prepared", "running", "cancel_requested"}
    MaxCalls <- CallBudget
    MaxStarts = 3
SPECIFICATION ServiceSpec
INVARIANT
    CancelHasOwner
CHECK_DEADLOCK FALSE
