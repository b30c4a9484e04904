SPECIFICATION Spec
CONSTANTS
    Callers = {c1, c2, c3}
    Tuples = 2
CHECK_DEADLOCK FALSE
INVARIANTS RewindStartsOver SourceFollowsNode
PROPERTIES NobodyHangs
