CONSTANTS
    Limit = 3
    Code = {1}
    Requests = 1
    Workers = 2
    Attempts = 3
    Scenario <- BatchAndDecision
SPECIFICATION Spec
PROPERTIES
    UntouchedPlatesTravel
CHECK_DEADLOCK FALSE
