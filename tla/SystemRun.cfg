\* Two scans, two workers, one crash, lapsing locks and lost writes.
SPECIFICATION FairSpec
CONSTANTS
    s1 = s1
    s2 = s2
    w1 = w1
    w2 = w2
    c1 = c1
    c2 = c2
    None = None
    Ids = {s1, s2}
    Report <- MCReport
    Workers = {w1, w2}
    Findings = {c1, c2}
    MaxStalled = 1
    MaxCrashes = 1
    LocksMayExpire = TRUE
    AddMayFail = {s2}
    LosesWrites = {s1}
INVARIANTS
    TypeOK
    FinishedCoversReport
    ExactUnlessRedelivered
    JobAndRecordAgree
PROPERTIES
    AcceptedScanEnds
\* The pipeline is quiet once every scan has ended.
CHECK_DEADLOCK FALSE
