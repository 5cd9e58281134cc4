CONSTANTS
    Requests = {r1, r2}
    Resources = {d1}
    Fingerprints = {f1}
    Timestamps = {1}
    MaxRestarts = 2
    Clients = {c1}
    QueueCapacity = 2
    MaxRetries = 0
    Late = FALSE
    Findings = {TRUE}
    Evidence = {"completed"}
SPECIFICATION ServiceSpec
VIEW WithoutHistory
SYMMETRY ServiceSymmetry
PROPERTIES
    ImplementsLease
CHECK_DEADLOCK FALSE
