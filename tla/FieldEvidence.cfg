\* Two instances of the API, two consumers; three calls a delivery, two attempts an arm.
CONSTANTS
    r1 = r1  r2 = r2  q1 = q1  q2 = q2  w1 = w1  w2 = w2
    Reading = {r1, r2}
    Request = {q1, q2}
    Worker = {w1, w2}
    Limit = 3
    Ceiling = 2
    Scenario <- Scenarios
SPECIFICATION FairSpec
INVARIANTS BudgetIsWhatWasSent ConfirmedIsRead
PROPERTY EveryAnalysisSettles
CHECK_DEADLOCK FALSE
