CONSTANTS
    v1 = v1
    v2 = v2
    Orders = {1, 2}
    Variants = {v1}
    Groups <- OneGroup
    MaxStock = 2
    MaxQtyPerSku = 1
    BatchSize = 1
    MaxCrashes = 1
SPECIFICATION FairSpec
PROPERTIES
    ExpiredEventuallyReleased
