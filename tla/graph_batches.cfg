CONSTANTS
    a1 = a1  a2 = a2
    Args = {a1}
    MaxBatch = 2
    StepLimit = 6
    MaxTurns = 2
SPECIFICATION FairSpec
INVARIANTS TypeOK RunsOnce SummaryWasReviewed
PROPERTIES NoCallLeftOpen TurnEnds
CHECK_DEADLOCK FALSE
