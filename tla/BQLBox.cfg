SPECIFICATION Spec
CONSTANTS
    Options <- AllOptions
    MaxTuples = 3
    MaxResults = 3
    QueueSize = 1
CHECK_DEADLOCK FALSE
INVARIANTS LimitIsKept SampledInOrder
PROPERTIES NothingAfterTerminate EventuallyGone
