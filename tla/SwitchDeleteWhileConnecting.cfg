SPECIFICATION Spec
CONSTANTS
    p1 = p1
    Presses = {p1}
    JoinMayTimeOut = TRUE
INVARIANTS
    ReleasesAllResources
