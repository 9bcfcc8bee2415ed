CONSTANTS
    Requests = 2
    Workers = 2
    MaxCommands = 2
    Scenario <- Scenarios
SPECIFICATION FairSpec
INVARIANTS
    RefNamesOneElement
    SupersededIsBlocked
    ExportedWasApproved
PROPERTIES
    TraceLandsOnItsBase
    OutcomeIsFinal
    EveryCommandSettles
CHECK_DEADLOCK FALSE
