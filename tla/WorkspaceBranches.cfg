SPECIFICATION FairSpec
CONSTANTS
    main = main
    topic = topic
    e1 = e1
    e2 = e2
    Branches <- TwoBranches
    DefaultBranch = main
    Edits <- OneEdit
    Offered <- BranchCalls
    MaxRevision = 2
    MaxCalls = 4
    MaxForeign = 1
    MaxCrashes = 1
    MaxRequests = 1
    QueueLimit = 2
CHECK_DEADLOCK FALSE
INVARIANTS
    SnapshotsReopen
    CommitMatchesWhatWasSeen
PROPERTIES
    DirtyBaseIsPinned
    CallsAreAnswered
