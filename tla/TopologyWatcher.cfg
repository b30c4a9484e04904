SPECIFICATION FairSpec
CONSTANTS
    s1 = s1
    b1 = b1
    b2 = b2
    k1 = k1
    k2 = k2
    None = None
    Source = {s1}
    Box = {b1, b2}
    Sink = {k1, k2}
    NameOf <- OwnName
    Edge <- Edges
    Op <- WatchedCalls
    Scenario <- Watched
    Capacity = 1
    MaxTuple = 2
CHECK_DEADLOCK FALSE
PROPERTY CallsReturn
