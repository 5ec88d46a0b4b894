CONSTANTS
    v1 = v1
    v2 = v2
    Orders = {1}
    Variants = {v1}
    Groups <- OneGroup
    MaxStock = 1
    MaxQtyPerSku = 1
    BatchSize = 1
    MaxCrashes = 0
SPECIFICATION Spec
INVARIANTS
    OpenUnpaidIsCancellable
