SPECIFICATION Spec
CONSTANTS
    c1 = c1
    c2 = c2
    k1 = k1
    k2 = k2
    w1 = w1
    w2 = w2
    Attempt = Attempt
    None = None
    Callers <- TheCallers
    Keys <- TheKeys
    Waiters <- TheWaiters
    MaxOpened = 3
CHECK_DEADLOCK FALSE
INVARIANTS
    OneWorkspace
    CallersShareIt
    NoWaiterLeftBehind
PROPERTY CallsSettle
