CONSTANTS
    Limit = 1
    Code = {1, 2}
    Requests = 2
    Workers = 1
    Attempts = 1
    Scenario <- BuildAndExport
SPECIFICATION Spec
PROPERTIES
    StampStaysUntilRebuilt
CHECK_DEADLOCK FALSE
