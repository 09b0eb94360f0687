SPECIFICATION FairSpec
CONSTANTS
    p1 = p1
    Presses = {p1}
    JoinMayTimeOut = TRUE
INVARIANTS
    TypeOK TeardownReleases ConnectedMeansSession
PROPERTIES
    ImplementsContract CallsEnd
CHECK_DEADLOCK FALSE
