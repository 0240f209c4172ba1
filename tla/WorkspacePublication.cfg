SPECIFICATION Spec
CONSTANTS
    main = main
    topic = topic
    e1 = e1
    e2 = e2
    Branches <- OneBranch
    DefaultBranch = main
    Edits <- TwoEdits
    Offered <- PublicationCalls
    MaxRevision = 3
    MaxCalls = 4
    MaxForeign = 1
    MaxCrashes = 1
    MaxRequests = 2
    QueueLimit = 1
SYMMETRY EditSymmetry
CHECK_DEADLOCK FALSE
INVARIANTS
    RequestIsJournalled
    AckedEditsAreKept
PROPERTIES
    PublicationKeepsVisible
