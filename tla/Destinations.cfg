SPECIFICATION FairSpec
CONSTANTS
    s1 = s1
    s2 = s2
    n1 = n1
    n2 = n2
    w1 = w1
    Name = {n1, n2}
    Sender = {s1, s2}
    NameOf <- OwnNames
    None = None
    Writer = {w1}
    MaxTuple <- TwoWrites
    Capacity = 1
    InputMayFail = TRUE
CHECK_DEADLOCK FALSE
INVARIANTS SendsAreSafe DisconnectIsExact AudienceServed InOrderOnce
PROPERTIES WritesReturn ClosedIsForgotten
