CONSTANTS
    u1 = u1
    b1 = b1
    b2 = b2
    v1 = v1
    CartUsers = {u1}
    CartBrowsers = {b1, b2}
    CartVariants = {v1}
    CartRequests = {1, 2, 3}
    CartQuantities = {1}
    e1 = e1
    AcctEmails = {e1}
    AcctIds = {1, 2}
    AcctRequests = {1, 2, 3, 4}
    j1 = j1
    j2 = j2
    p1 = p1
    GuestTokenMax = 2
    GuestJobs = {j1, j2}
    GuestRequests = {p1}
    GuestCrashMax = 1
    k1 = k1
    k2 = k2
    SupportTasks = {k1, k2}
    SupportRetries = 1
    SupportCrashMax = 1
    SupportEditMax = 2
    cupPng = cupPng
    cupJpg = cupJpg
    hatPng = hatPng
    i1 = i1
    i2 = i2
    f1 = f1
    f2 = f2
    ThumbImages = {cupPng, cupJpg, hatPng}
    ThumbStem <- MCStem
    ThumbJobs = {i1, i2}
    ThumbForms = {f1, f2}
    ThumbSuffixMax = 1
    o1 = o1
    o2 = o2
    c1 = c1
    c2 = c2
    BackOrders = {o1, o2}
    BackVariants = {1, 2}
    BackRuns = {c1, c2}
    BackLineMax = 2
    PayRows = {1, 2}
    PayRequests = {1, 2}
    PickOrders = {1, 2}
    PickRetentions <- MCRetentions
    PickBatch = 1
    PickDayParts = 2
    PickLastDay = 14
SPECIFICATION ServicesSpec
INVARIANTS
    ServicesTypeOK
    CartMergesNeverDeadlock
    AcctGuestOrdersNeedLink
    AcctLiveLinkWasMailed
    GuestMailedLinkWorks
    GuestOneLinkPerNotice
    SupportOutcomeTold
    ThumbShowsItsImage
    PickSweepIsExact
PROPERTIES
    CartGrowthIsCovered
    CartNoAddLost
    CartLoginsAddNothing
    AcctOnlyStaleEditsGoBack
    GuestRotationShutsOut
    BackfillMakesExact
    PayCancelledStays
CHECK_DEADLOCK FALSE
