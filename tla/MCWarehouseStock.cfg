CONSTANTS
    v1 = v1
    v2 = v2
    s1 = s1
    s2 = s2
    Orders = {1}
    Variants = {v1, v2}
    Groups <- MCGroups
    MaxStock = 2
    MaxQtyPerSku = 2
    BatchSize = 1
    MaxCrashes = 0
    Staff = {s1, s2}
    Overlap = FALSE
SPECIFICATION StepSpec
INVARIANTS
    StepTypeOK
PROPERTIES
    ImplementsOrderStock
