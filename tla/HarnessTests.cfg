\* All tests, each with every trouble.
SPECIFICATION FairSpec
CONSTANTS
    Running <- Tests
    Troubles <- MCTroubles
INVARIANTS
    TypeOK
    PassedForCause
    TroubleCaught
    FailedForCause
    NothingLeft
PROPERTIES
    EveryTestEnds
\* A test that is over is over.
CHECK_DEADLOCK FALSE
