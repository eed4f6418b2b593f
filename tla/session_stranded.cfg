CONSTANTS
    MaxActions = 2
    MaxInterrupts = 1
    MaxRuns = 0
    MaxBusy = 0
    MaxFailures = 0
SPECIFICATION FairSpec
PROPERTIES FollowUpDelivered
CHECK_DEADLOCK FALSE
