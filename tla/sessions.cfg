SPECIFICATION Spec
CONSTANTS
    c1 = c1
    c2 = c2
    e1 = e1
    e2 = e2
    None = None
    Client = {c1, c2}
    Email = {e1, e2}
    MaxUsers = 2
    MaxTickets = 3
    MaxEpoch = 1
    MaxFailures = 2
    Scenario <- Scenarios
    First <- OneAdmin
INVARIANTS
    TypeOK
    SpentOnce
    OldSessionsOnlyByRace
    LockoutExact
    OneLiveLink
PROPERTIES
    LockHolds
CHECK_DEADLOCK FALSE
