\* Two workers contend on connections that drop; every call returns or throws.
SPECIFICATION FairSpec
CONSTANTS
    s1 = s1
    s2 = s2
    w1 = w1
    w2 = w2
    r1 = r1
    f1 = f1
    f2 = f2
    e1 = e1
    NoReason = NoReason
    Sentinel = Sentinel
    Ids = {s1}
    Writers = {w1, w2}
    Readers = {}
    Findings = {f1}
    Reasons = {e1}
    MaxAttempts = 2
    Expiring = {s1}
    Flaky = {w1, w2}
    MaxFindings = 1
PROPERTIES
    CallSettles
