SPECIFICATION Spec
CONSTANTS
    Requests = {r1, r2}
    Urls = {u1}
    Keys = {k1, k2}
    Bridges = {b1, b2}
    Sessions = {s1}
    None = None
    MaxPending = 1
    MaxActive = 1
    MaxSeen = 1
    MaxChanges = 1
INVARIANTS
    StartedOnce
    BridgesAreOwned
PROPERTIES
    ImplementsCall
    CancelledStaysCancelled
    RequestsSettle
CHECK_DEADLOCK FALSE
