CONSTANTS
    N = 1
    Kind <- OneComment
    Workers = {w1}
    Recoverers = {r1}
    NoOutput = NoOutput
    MaxAttempts = 1
    MaxAborts = 1
    MaxAmbiguous = 1
SPECIFICATION FairSpec
PROPERTIES
    RunningStepIsResolved
CHECK_DEADLOCK FALSE
