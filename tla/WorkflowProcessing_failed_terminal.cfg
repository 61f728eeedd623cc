CONSTANTS
    N = 1
    Kind <- OneComment
    Workers = {w1}
    Recoverers = {r1}
    NoOutput = NoOutput
    MaxAttempts = 1
    MaxAborts = 0
    MaxAmbiguous = 1
SPECIFICATION Spec
PROPERTIES
    FailedStepIsTerminal
CHECK_DEADLOCK FALSE
