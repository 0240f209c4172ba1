SPECIFICATION Spec
CONSTANTS
    main = main
    topic = topic
    e1 = e1
    e2 = e2
    Branches <- OneBranch
    DefaultBranch = main
    Edits <- OneEdit
    Offered <- PublicationCalls
    MaxRevision = 1
    MaxCalls = 2
    MaxForeign = 0
    MaxCrashes = 1
    MaxRequests = 1
    QueueLimit = 1
CHECK_DEADLOCK FALSE
PROPERTY RecoveryProvesTheOutcome
