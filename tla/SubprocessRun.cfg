SPECIFICATION HelpersEndSpec
CONSTANTS
    h1 = h1
    h2 = h2
    Helpers = {h1, h2}
INVARIANTS
    TypeOK
    OutcomeIsTrue
    SettledIsOver
PROPERTIES
    Settles
\* A run is over once it settled and its helpers are gone.
CHECK_DEADLOCK FALSE
