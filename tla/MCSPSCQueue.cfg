SPECIFICATION Spec
CONSTANTS
    Size = 4
    ItemMod = 5
    MovedFrom = MovedFrom
INVARIANTS
    NoSlotRace
    IndicesOrdered
PROPERTIES
    ImplementsFifo
    PushReturns
