\* Two workers and a poller on one record whose retention may lapse.
SPECIFICATION Spec
CONSTANTS
    s1 = s1
    s2 = s2
    w1 = w1
    w2 = w2
    r1 = r1
    f1 = f1
    f2 = f2
    e1 = e1
    NoReason = NoReason
    Sentinel = Sentinel
    Ids = {s1}
    Writers = {w1, w2}
    Readers = {r1}
    Findings = {f1, f2}
    Reasons = {e1}
    MaxAttempts = 2
    Expiring = {s1}
    Flaky = {}
    MaxFindings = 2
SYMMETRY Symmetry
INVARIANTS
    TypeOK
    GuardFresh
    ReplyComplete
PROPERTIES
    FirstTerminalWins
    NeverResurrected
    ReplyNeverRegresses
    ImplementsRecord
