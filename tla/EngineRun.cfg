\* One run with every failure, a late worker and a lapsing record.
SPECIFICATION FairSpec
CONSTANTS
    c1 = c1
    c2 = c2
    Minor = Minor
    Invalid = Invalid
    Findings = {c1, c2}
    Reports <- MCReports
    Rivals = TRUE
INVARIANTS
    TypeOK
    FindingsInOrder
    FinishedIsComplete
    FailedForItsCause
    ReturnedIsClosed
    ArtifactsGone
PROPERTIES
    OriginalErrorWins
    RunReturns
\* A run that returned is over.
CHECK_DEADLOCK FALSE
