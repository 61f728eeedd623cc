CONSTANTS
    Rejected = {400, 401, 403, 404, 405, 408, 422, 429}
    Broken = {500, 503}
    Attempts = 3
    PageSize = 2
    MaxPages = 3
    MaxComments = 6
    MaxMoves = 2
SPECIFICATION ServiceSpec
INVARIANTS
    ServiceTypeOK
    FateIsJustified
    SearchIsExplained
PROPERTIES
    MappedRejectionIsFinal
CHECK_DEADLOCK FALSE
