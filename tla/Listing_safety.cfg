CONSTANTS
    Rows = {r1, r2, r3}
    Departments = {d1, d2}
    NoDept = NoDept
    DefaultLimit = 1
    MaxLimit = 2
    Limits = {0, 3}
    MaxStart = 2
    MaxChanges = 2
SPECIFICATION Spec
SYMMETRY ListingSymmetry
CHECK_DEADLOCK FALSE
INVARIANTS
    TypeOK
    ListIsInScope
    MissIsExplained
    RepeatsAreExplained
