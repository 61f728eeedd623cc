CONSTANTS
    Executions = {e1, e2}
    Steps = 1
    Runs = {r1, r2}
    MaxLimit = 2
    MaxErrors = 1
SPECIFICATION FairSpec
INVARIANTS
    TypeOK
    ReportIsTrue
PROPERTIES
    RecoveryKeepsLifecycle
    StaleAreEnded
