SPECIFICATION FairSpec
CONSTANT Client = {c1, c2, c3}
CHECK_DEADLOCK FALSE
INVARIANTS OneRunnerOneStopper WaitedStateReached
PROPERTIES  StopTerminates
