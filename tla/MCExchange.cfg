SPECIFICATION ExchangeSpec
CONSTANTS
    Accounts = {a, b}
    StressIds = {s}
    Users = {a, b, s}
    MaxPrice = 2
    MaxQty = 2
    MaxSeq = 3
    NoOrder = NoOrder
    InitialCash = 4
    InitialShares = 2
    Listed = APL
    Companies = {APL}
    Capacity = 3
    QueueSize = 2
    SwitchTo = {}
    MayCrash = FALSE
    TornReads = TRUE
    MaxRequests = 3
    NoTask = NoTask
SYMMETRY AccountSymmetry
CHECK_DEADLOCK FALSE
INVARIANTS
    ExchangeTypeOK
    CashExact
    SharesExact
    BookNotCrossed
