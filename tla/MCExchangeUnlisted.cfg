SPECIFICATION ExchangeSpec
CONSTANTS
    Accounts = {a, b}
    StressIds = {}
    Users = {a, b}
    MaxPrice = 2
    MaxQty = 2
    MaxSeq = 3
    NoOrder = NoOrder
    InitialCash = 4
    InitialShares = 2
    Listed = APL
    Companies = {APL, XYZ}
    Capacity = 2
    QueueSize = 2
    SwitchTo = {}
    MayCrash = FALSE
    TornReads = FALSE
    MaxRequests = 3
    NoTask = NoTask
SYMMETRY AccountSymmetry
CHECK_DEADLOCK FALSE
INVARIANTS
    CashExact
