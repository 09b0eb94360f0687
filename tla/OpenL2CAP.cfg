SPECIFICATION Spec
CONSTANTS
    Backends = {b1, b2}
    Consoles = {c1, c2}
    MaxPairings = 2
    Others = {phone}
INVARIANTS
    TypeOK
    SocketsReleased
    RefusedBondsGone
PROPERTIES
    OpenEnds
