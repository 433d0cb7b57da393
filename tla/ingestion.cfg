SPECIFICATION Spec
CONSTANTS
    None = None
    d1 = d1
    d2 = d2
    here = here
    there = there
    Connection = {1, 2}
    Device = {d1, d2}
    Key = {1, 2}
    Report = {1, 2, 3}
    Window = 1
    Scenario <- Scenarios
INVARIANTS
    TypeOK
    OneReportPerCrash
    AckMeansStored
    OneAlertPerReport
PROPERTIES
    OperatorDecisionHolds
    EventuallyAnswered
CHECK_DEADLOCK FALSE
