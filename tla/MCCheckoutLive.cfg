CONSTANTS
    u = u
    g = g
    h = h
    b1 = b1
    b2 = b2
    b3 = b3
    b4 = b4
    r1 = r1
    r2 = r2
    r3 = r3
    t1 = t1
    t2 = t2
    i1 = i1
    i2 = i2
    None = None
    Requests = {r1, r2, r3}
    Customers = {g, h}
    Users = {}
    Browsers = {b3, b4}
    CustomerOf <- GuestOf
    Tokens = {t1, t2}
    Items = {i1}
    KeysOf <- GuestKeysOf
    Limit <- OneEach
SPECIFICATION FairSpec
PROPERTIES
    EverySubmitEnds
CHECK_DEADLOCK FALSE
