CONSTANTS
    Requests = {r1, r2}
    Resources = {d1}
    Fingerprints = {f1}
    HarnessOf <- SameHarness
    PromptOf <- SamePrompt
    ConfigOf <- OwnConfig
    Timestamps = {1}
    Readings = {0, 1, 2}
    DecisionTtl = 1
    Decisions = {q1, q2}
    MaxRestarts = 2
SPECIFICATION DecisionSpec
SYMMETRY Symmetry
INVARIANTS
    OneReservation
    SuccessIsEarned
    CancelWins
    DecisionsBound
    RepeatRecognised
PROPERTIES
    ReleaseNeedsExit
    RecoverySettles
CHECK_DEADLOCK FALSE
