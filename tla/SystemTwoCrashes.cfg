\* The deployed single worker dies twice during one scan.
SPECIFICATION FairSpec
CONSTANTS
    s1 = s1
    s2 = s2
    w1 = w1
    w2 = w2
    c1 = c1
    c2 = c2
    None = None
    Ids = {s1}
    Report <- OneReport
    Workers = {w1}
    Findings = {c1, c2}
    MaxStalled = 1
    MaxCrashes = 2
    LocksMayExpire = FALSE
    AddMayFail = {}
    LosesWrites = {}
PROPERTIES
    NotStuckScanning
\* The pipeline is quiet once every scan has ended.
CHECK_DEADLOCK FALSE
