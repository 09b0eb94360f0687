CONSTANTS
    b1 = b1
    b2 = b2
    Backends = {b1, b2}
    MaxEvents = 1

SPECIFICATION Spec

INVARIANTS
    TypeOK
    MadeOnce
    ListenersAreReachable

PROPERTY RegistrationEnds
