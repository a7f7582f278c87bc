\* The deployed single worker dies once during one scan.
SPECIFICATION Spec
CONSTANTS
    s1 = s1
    s2 = s2
    w1 = w1
    w2 = w2
    c1 = c1
    c2 = c2
    None = None
    Ids = {s1}
    Report <- OneReport
    Workers = {w1}
    Findings = {c1, c2}
    MaxStalled = 1
    MaxCrashes = 1
    LocksMayExpire = FALSE
    AddMayFail = {}
    LosesWrites = {}
INVARIANTS
    FinishedIsReport
\* The pipeline is quiet once every scan has ended.
CHECK_DEADLOCK FALSE
