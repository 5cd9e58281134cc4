CONSTANTS
    N = 2
    MaxRuns = 2
    Left = {"prepared", "running", "cancel_requested"}
    MaxCalls <- CallBudget
    MaxStarts = 3
SPECIFICATION FairServiceSpec
INVARIANTS
    OneCoordinator
    TurnsOwned
PROPERTIES
    StartupSettles
    CancelFinished
    StopEnds
CHECK_DEADLOCK FALSE
