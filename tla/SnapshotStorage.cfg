SPECIFICATION Spec
CONSTANTS
    w1 = w1
    w2 = w2
    s1 = s1
    s2 = s2
    s3 = s3
    b1 = b1
    b2 = b2
    b3 = b3
    None = None
    Windows <- OneWindow
    Snapshots <- ThreeSnapshots
    Blobs <- ThreeBlobs
    Content <- SharedContent
    MaxDamage = 1
CHECK_DEADLOCK FALSE
INVARIANTS
    PointersAreBacked
    Loadable
PROPERTIES
    ImplementsStore
