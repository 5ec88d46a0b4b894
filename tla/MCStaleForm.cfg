CONSTANTS
    v1 = v1
    v2 = v2
    s1 = s1
    s2 = s2
    Orders = {1}
    Variants = {v1, v2}
    Groups <- MCGroups
    MaxStock = 1
    MaxQtyPerSku = 1
    BatchSize = 1
    MaxCrashes = 0
    Staff = {s1}
    Overlap = TRUE
SPECIFICATION StepSpec
INVARIANTS
    ReservationExact
