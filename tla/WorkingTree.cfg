SPECIFICATION TreeSpec
CONSTANTS
    c1 = c1
    c2 = c2
    Paths <- TwoDirectories
    Contents <- TwoContents
    BaseTrees <- ThreeTrees
    MaxSteps = 6
CHECK_DEADLOCK FALSE
INVARIANTS
    PublicationMatchesView
    ChangesAreComplete
    CleanTreeShowsBase
PROPERTIES
    PublicationKeepsFiles
    RevertRestoresBase
