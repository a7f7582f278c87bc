\* A web client and a REST client on two scans; one request may fail.
SPECIFICATION FairSpec
CONSTANTS
    f1 = f1
    None = None
    Ids = {1, 2}
    Urls <- MCUrls
    DEFAULT_REPO_URL <- MCDefaultUrl
    Findings = {f1}
    MaxFindings = 1
    Slots = {1, 2}
    MaxErrors = 1
INVARIANTS
    TypeOK
    NameIsScanned
    ShownIsTrue
PROPERTIES
    EndIsShown
