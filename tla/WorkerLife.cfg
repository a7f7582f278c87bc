\* One worker from every environment to its exit.
SPECIFICATION Spec
CONSTANTS
    Environments <- MCEnvironments
INVARIANTS
    TypeOK
    ScansAreReal
    HookBeatsKill
    DrainedIsClean
    QuitWaitsForRun
\* A process that was refused or has ended takes no more steps.
CHECK_DEADLOCK FALSE
