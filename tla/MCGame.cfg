SPECIFICATION GameSpec
CONSTANTS
    Users = {p, q}
    NumCompanies = 1
    MaxCrashes = 1
    Scenarios = {windows}
    Category <- MCCategory
    TrueValue <- MCTrueValue
    HintCount <- MCHintCount
    Categories = {"", "markets"}
    AnyCategory = ""
    MaxRounds = 2
    HintPenalty = 1
    Epsilons = {0, 1}
    Prices = {0, 2}
    MaxSessions = 2
SYMMETRY UserSymmetry
INVARIANTS
    GameTypeOK
    StarterComplete
    OneActiveSession
    RoundsComplete
    LedgerExact
    NoOvertime
    NoFreeLunch
PROPERTIES
    EndedIsFinal
