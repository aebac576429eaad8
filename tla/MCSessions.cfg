SPECIFICATION FairSessionsSpec
CONSTANTS
    Users = {p}
    MaxCredits = 1
    Connections = {s, t}
    Mortal = {s}
    Nobody = nobody
    MaxLogins = 2
    MaxBacklog = 1
CHECK_DEADLOCK FALSE
INVARIANTS
    SessionsTypeOK
    OneWrite
    OnlyLateTasksLost
PROPERTIES
    StopReturns
    AffectedUsersHear
    DeadSessionsLeave
