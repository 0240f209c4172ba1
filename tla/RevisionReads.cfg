SPECIFICATION Spec
CONSTANTS
    c1 = c1
    c2 = c2
    r1 = r1
    r2 = r2
    None = None
    Callers <- TwoCallers
    Revisions <- TwoRevisions
    Files <- TwoFiles
    Directories <- Dirs
    Tree <- Trees
    Weight <- Weights
    Unsupported <- Links
    MaxBytes = 3
    MaxEntries = 3
    MaxDepth = 1
    MaxNodes = 3
    MaxReads = 2
INVARIANTS CacheIsExact ReadsAreExact
PROPERTY ReadsEnd
CHECK_DEADLOCK FALSE
