SPECIFICATION FairSpec
CONSTANTS
    Models <- MCModels
    Burst = 2
    MaxTasks = 2
INVARIANTS InOrder LayerAfterInput OutputArmed
PROPERTIES ToldWhenDone TaskEnds
CHECK_DEADLOCK FALSE
