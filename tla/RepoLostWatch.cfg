\* A late worker reconnects between HGET and EXEC.
SPECIFICATION Spec
CONSTANTS
    s1 = s1
    s2 = s2
    w1 = w1
    w2 = w2
    r1 = r1
    f1 = f1
    f2 = f2
    e1 = e1
    NoReason = NoReason
    Sentinel = Sentinel
    Ids = {s1}
    Writers = {w1, w2}
    Readers = {}
    Findings = {f1}
    Reasons = {e1}
    MaxAttempts = 3
    Expiring = {}
    Flaky = {w2}
    MaxFindings = 1
PROPERTIES
    FirstTerminalWins
