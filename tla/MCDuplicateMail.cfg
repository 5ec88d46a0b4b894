CONSTANTS
    n1 = n1
    n2 = n2
    j1 = j1
    j2 = j2
    j3 = j3
    None = None
    Notices = {n1, n2}
    Addressed = {n1}
    Jobs = {j1, j2, j3}
    MaxRetries = 1
    MaxLost = 0
    MaxCrashes = 0
SPECIFICATION MCSpec
PROPERTIES
    RetryDuplicatesNothing
CHECK_DEADLOCK FALSE
