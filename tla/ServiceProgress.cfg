CONSTANTS
    Requests = {r1}
    Resources = {d1}
    Fingerprints = {f1}
    Timestamps = {1}
    MaxRestarts = 2
    Clients = {c1}
    QueueCapacity = 1
    MaxRetries = 1
    Late = TRUE
    Findings = {TRUE}
    Evidence = {"completed"}
SPECIFICATION FairServiceSpec
VIEW WithoutStrays
INVARIANTS
    FinishTaken
    RunningIsSupervised
PROPERTIES
    CallersReturn
    AttemptsSettle
CHECK_DEADLOCK FALSE
