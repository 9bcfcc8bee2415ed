CONSTANTS
    Readings = {"width", "gate"}
    Proposals = {"p", "q"}
    Labels = {"A", "B"}
    Requests = 2
    Scenario <- Scenarios
SPECIFICATION Spec
INVARIANTS
    WellFormed
    DrawnFromForce
    LinesAreDecided
    CalibrationFitsItsScene
PROPERTIES
    FrozenUntilRecalibrated
    RecordsTravel
CHECK_DEADLOCK FALSE
