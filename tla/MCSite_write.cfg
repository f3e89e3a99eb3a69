\* The line between a satellite and its parent fails.
CONSTANTS
    A = A
    B = B
    S = S
    Nodes = {A, B, S}
    External = External
    None = None
    Slots = {k1, k2}
    Scenarios <- MCSatellite
SPECIFICATION Spec
INVARIANTS
    NoAbort
CHECK_DEADLOCK FALSE
