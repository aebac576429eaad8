SPECIFICATION FairExchangeSpec
CONSTANTS
    Accounts = {a, b}
    StressIds = {}
    Users = {a, b}
    MaxPrice = 2
    MaxQty = 1
    MaxSeq = 3
    NoOrder = NoOrder
    InitialCash = 2
    InitialShares = 1
    Listed = APL
    Companies = {APL, XYZ}
    Capacity = 2
    QueueSize = 1
    SwitchTo = {"LEGACY"}
    MayCrash = TRUE
    TornReads = FALSE
    MaxRequests = 3
    NoTask = NoTask
CHECK_DEADLOCK FALSE
INVARIANTS
    NeverOverpaid
PROPERTIES
    OnlyFaultsLose
    HeardFillsLogged
    RequestsGetIn
