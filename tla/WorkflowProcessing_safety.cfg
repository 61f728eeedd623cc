CONSTANTS
    N = 2
    Kind <- CommentThenMove
    Workers = {w1, w2}
    Recoverers = {r1, r2}
    NoOutput = NoOutput
    MaxAttempts = 3
    MaxAborts = 1
    MaxAmbiguous = 1
SPECIFICATION Spec
SYMMETRY ActorSymmetry
INVARIANTS
    TypeOK
    SingleOwner
    CompletedIsWhole
    StepsInOrder
    RepeatsAccounted
    OutputIsEvidence
    OutcomeIsTrue
    AuditTellsOneEnd
PROPERTIES
    FinishedStaysFinished
    RecoveryIsAtomic
    ImplementsLifecycle
CHECK_DEADLOCK FALSE
