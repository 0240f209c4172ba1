SPECIFICATION MailboxSpec
CONSTANTS
    p1 = p1
    p2 = p2
    Nothing = Nothing
    t1 = t1
    t2 = t2
    Abandoned <- Second
    Woken = {TRUE}
    Tabs <- TwoTabs
    From <- OneSender
    Packets <- TwoPackets
    Chunks <- Small
    MaxKeys = 3
    MaxMessages = 2
    MaxStored = 1
    Retention = 0
    MaxTime = 1
    MaxFaults = 1
INVARIANT DeliveredAtMostOnce
PROPERTIES
    DeliveredUnlessFull
    ExpiredIsSwept
CHECK_DEADLOCK FALSE
