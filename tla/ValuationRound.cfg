CONSTANTS
    Limit = 2
    Code = {1, 2}
    Requests = 2
    Workers = 2
    Attempts = 2
    Scenario <- Scenarios
SPECIFICATION Spec
INVARIANTS
    PaidOncePerCommand
    NoCommandForgotten
    ExportedWasSigned
    DeclarationsStand
    StaleIsSaid
PROPERTIES
    LateWorkIsHarmless
CHECK_DEADLOCK FALSE
