SPECIFICATION FairSpec
CONSTANTS
    r1 = r1
    r2 = r2
    r3 = r3
    Requests = {r1, r2, r3}
    MaxControllers = 2
    Workers = 2
INVARIANTS
    TypeOK IdsNameOneController NoOrphan SettledInfo RemovedRefusesFrames
PROPERTIES
    UsesBackendsRight
    RequestsAreAnswered
CHECK_DEADLOCK FALSE
