\* A satellite and its parent, two twins, and all three together.
CONSTANTS
    A = A
    B = B
    S = S
    Nodes = {A, B, S}
    External = External
    None = None
    Slots = {k1, k2}
    Scenarios <- MCScenarios
SPECIFICATION Spec
INVARIANTS
    TypeOK
    NoTwinEcho
    RosterIsWatched
PROPERTIES
    LinesRecover
    SatellitesRelease
CHECK_DEADLOCK FALSE
