SPECIFICATION FairSpec
CONSTANTS
    r1 = r1
    r2 = r2
    a1 = a1
    a2 = a2
    rm = rm
    gr = gr
    di = di
    s1 = s1
    s2 = s2
    su = su
    Recv = {r1, r2}
    None = None
    Call = {a1, a2, rm, gr, di, s1, s2, su}
    Op <- OpOf
    Arg <- ArgOf
    Scenario <- StoppedOrEnding
    Parallelism = 2
    Capacity = 1
    MaxTuple = 2
CHECK_DEADLOCK FALSE
INVARIANTS QueuedIsKept
PROPERTIES NobodyHangs DisconnectEnds
