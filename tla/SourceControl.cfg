SPECIFICATION Spec
CONSTANTS
    Branches = {main, topic}
    Paths = {p1}
    Callers = {c1, c2}
    Loops = {l1, l2}
    None = None
    MaxWrites = 1
INVARIANT StaleViewIsExplained
PROPERTIES
    ViewFollowsBranch
    CommandsEnd
CHECK_DEADLOCK FALSE
