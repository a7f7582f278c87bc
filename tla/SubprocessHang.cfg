SPECIFICATION FairSpec
CONSTANTS
    h1 = h1
    h2 = h2
    Helpers = {h1, h2}
PROPERTIES
    Settles
CHECK_DEADLOCK FALSE
