CONSTANTS
    c1 = c1
    c2 = c2
    Controllers = {c1, c2}

SPECIFICATION Spec

INVARIANT ConnectedStaysPlugged
