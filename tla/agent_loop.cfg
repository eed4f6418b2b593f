CONSTANTS
    MaxMessages = 2
    MaxCalls = 2
    MaxCallTurns = 1
    MaxRuns = 2
    MaxFailures = 1
SPECIFICATION FairSpec
INVARIANTS TypeOK InOrderOnce RequestIsComplete
PROPERTIES DroppedOnlyInFlight AbortSettles
CHECK_DEADLOCK FALSE
