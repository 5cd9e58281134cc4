CONSTANTS
    Requests = {r1, r2}
    Sizes = {1, 3}
    MaxRecords = 2
    MaxRetained = 1
    MaxRetainedBytes = 4
    PageBytes = 2
    PageFragments = 2
    Askers = {r1}
    Verdicts = {"completed"}
    MaxPages = 2
    MaxRestarts = 1
SPECIFICATION FairAskSpec
INVARIANTS
    RetentionExact
    ReaderFollows
    ReplyIsWhole
PROPERTIES
    AskEnds
CHECK_DEADLOCK FALSE
