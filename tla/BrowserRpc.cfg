SPECIFICATION Spec
CONSTANTS
    t1 = t1
    t2 = t2
    c1 = c1
    c2 = c2
    c3 = c3
    None = None
    Endpoints <- TwoTabs
    Calls <- ThreeCalls
    MaxEndpoints = 2
    MaxSessionIds = 2
    MaxPending = 1
    MaxActive = 1
    MaxRequestIds = 2
    MaxCounter = 2
SYMMETRY Symmetry
CONSTRAINT Scope
CHECK_DEADLOCK FALSE
INVARIANTS
    HandledOnce
    RefusalsAreFinal
    AnswersAreOwn
    NoCallIsStranded
PROPERTY CancelledNeverStarts
