SPECIFICATION Spec
CONSTANTS
    Error = Error
    Query <- Statements
    Filter <- Condition
    Select <- Projection
    Hash <- Collide
CHECK_DEADLOCK FALSE
INVARIANTS KeptStateIsSound
PROPERTIES ImplementsQuery
