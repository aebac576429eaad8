SPECIFICATION SessionsSpec
CONSTANTS
    Users = {p}
    MaxCredits = 1
    Connections = {s}
    Mortal = {}
    Nobody = nobody
    MaxLogins = 2
    MaxBacklog = 1
CHECK_DEADLOCK FALSE
INVARIANTS
    NoSessionRace
