SPECIFICATION FairSpec
CONSTANTS
    WordBits = 2
    Users = {u1, u2}
    NoUser = NoUser
    NoOrder = NoOrder
    MaxPrice = 5
    MaxOrders = 2
    MaxQty = 1
    QtyMod = 3
    MaxSeq = 3
    MaxFree = 2
INVARIANTS
    BitmapsExact
    SnapshotsExact
PROPERTIES
    ImplementsLimitBook
    MatchEnds
