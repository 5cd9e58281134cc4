CONSTANTS
    Requests = {r1}
    Resources = {d1}
    Fingerprints = {f1}
    Timestamps = {1}
    MaxRestarts = 1
    Clients = {c1, c2}
    QueueCapacity = 1
    MaxRetries = 1
    Late = FALSE
    Findings = {TRUE, FALSE}
    Evidence = {"completed"}
SPECIFICATION ServiceSpec
SYMMETRY ServiceSymmetry
INVARIANTS
    ProcessSupervised
    CancelSignalled
    ShutdownSignalsAll
CHECK_DEADLOCK FALSE
