SPECIFICATION FairSpec
CONSTANTS
    p1 = p1
    Presses = {p1}
    JoinMayTimeOut = TRUE
INVARIANTS
    TypeOK LockDiscipline DisconnectWorks ConnectedMeansSession
PROPERTIES
    ImplementsContract
    CallsEnd KeepaliveEndsAndTells
