CONSTANTS
    Readings = {"width", "gate"}
    Proposals = {"p", "q"}
    Labels = {"A", "B"}
    Requests = 1
    Scenario <- CorrectedOrDeclared
SPECIFICATION Spec
PROPERTY HistoryTravels
CHECK_DEADLOCK FALSE
