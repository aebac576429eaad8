SPECIFICATION Spec
CONSTANTS
    WordBits = 2
    Users = {u1, u2}
    NoUser = NoUser
    NoOrder = NoOrder
    MaxPrice = 1
    MaxOrders = 3
    MaxQty = 2
    QtyMod = 4
    MaxSeq = 4
    MaxFree = 4
SYMMETRY UserSymmetry
INVARIANTS
    TypeOK
    SlotsPartitioned
    LinksOK
    ArrivalOrder
    CountsExact
    TotalsExact
CHECK_DEADLOCK FALSE
