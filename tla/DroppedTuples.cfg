SPECIFICATION Spec
CONSTANTS
    w1 = w1
    w2 = w2
    p1 = p1
    p2 = p2
    c1 = c1
    c2 = c2
    Scenarios <- Dropping
    QueueSize = 1
CHECK_DEADLOCK FALSE
INVARIANTS ReceiversUndisturbed
PROPERTIES ReportsAreTrue NobodyHangs
