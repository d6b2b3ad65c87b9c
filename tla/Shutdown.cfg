SPECIFICATION Spec
CONSTANTS
    Puts = {p1, p2}
    Clients = {c1, c2}
INVARIANTS
    NoPutCutOff
    NoClientCutOff
PROPERTIES
    SignalEnds
CHECK_DEADLOCK FALSE
