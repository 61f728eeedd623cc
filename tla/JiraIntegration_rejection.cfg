CONSTANTS
    Rejected = {400, 408, 422}
    Broken = {500}
    Attempts = 3
SPECIFICATION Spec
PROPERTIES
    RejectionIsFinal
CHECK_DEADLOCK FALSE
