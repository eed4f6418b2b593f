CONSTANTS
    MaxActions = 2
    MaxInterrupts = 1
    MaxRuns = 1
    MaxBusy = 1
    MaxFailures = 1
SPECIFICATION FairSpec
INVARIANTS TypeOK DeliveredOnce NothingLeftHalfWay CheckpointHolds NavigationAlone
PROPERTIES Served
CHECK_DEADLOCK FALSE
