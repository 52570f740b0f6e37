SPECIFICATION Spec
CONSTANTS
    None = None
    Uoms <- BoxUoms
    Items = {i1}
    UomCreations <- CreateEaWithBox
    UomUpdates <- NoUomUpdate
    StoreroomIds = {s1, s2}
    StoreroomFlags <- ReservationFlags
    Quantities = {1, 2}
    MaxOnHand = 3
    MaxLedger = 2
    ReservationIds = {r1, r2}
SYMMETRY Symmetry
CONSTRAINT Focus
INVARIANTS
    TypeOK
    StockInv
    ReservationAccounting
    ReservedBacksReservations
    LiveReservationClosable
    LedgerExplainsOnHand
PROPERTIES
    TransferConserves
    ImplementsAbstractStock
