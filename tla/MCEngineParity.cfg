SPECIFICATION ParitySpec
CONSTANTS
    WordBits = 2
    Users = {u1, u2}
    NoUser = NoUser
    NoOrder = NoOrder
    MaxPrice = 2
    MaxOrders = 3
    MaxQty = 2
    QtyMod = 4
    MaxSeq = 3
    MaxFree = 3
SYMMETRY UserSymmetry
INVARIANTS
    LegacyIndexExact
    ReportsAgree
    SnapshotsAgree
PROPERTIES
    LegacyImplementsLimitBook
