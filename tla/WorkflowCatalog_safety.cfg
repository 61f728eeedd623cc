CONSTANTS
    Workflows = {w1, w2}
    First = w1
    NoId = NoId
    Orders = {1, 2}
    Requests = {r1, r2, r3}
    MaxOdd = 1
SPECIFICATION Spec
SYMMETRY CatalogSymmetry
CHECK_DEADLOCK FALSE
INVARIANTS
    TypeOK
    StepOrderIsUnique
    ExecutionIsASnapshot
    AnswerIsTrue
PROPERTIES
    CopyIsASnapshot
