CONSTANTS
    v1 = v1
    v2 = v2
    Orders = {1, 2}
    Variants = {v1, v2}
    Groups <- MCGroups
    MaxStock = 2
    MaxQtyPerSku = 2
    BatchSize = 1
    MaxCrashes = 0
SPECIFICATION Spec
INVARIANTS
    TypeOK
    ReservationExact
    StatusCoherent
    PromiseKept
    CancelledHoldsNoMoney
    PaymentMirrored
PROPERTIES
    StockLeavesWithPaidOrder
    FinalIsFinal
    DeleteSparesOpenOrders
    KeepsLedger
SYMMETRY Alike
