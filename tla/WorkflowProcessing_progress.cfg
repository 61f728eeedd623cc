CONSTANTS
    N = 2
    Kind <- CommentThenNote
    Workers = {w1, w2}
    Recoverers = {r1}
    NoOutput = NoOutput
    MaxAttempts = 2
    MaxAborts = 1
    MaxAmbiguous = 1
SPECIFICATION FairSpec
PROPERTIES
    AttemptsEnd
    RunningEnds
CHECK_DEADLOCK FALSE
