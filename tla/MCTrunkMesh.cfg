\* Five meshes of three reflectors: talks that meet and talks in turn, listeners
\* who come and go, lost and removed links.
CONSTANTS
    A = A
    B = B
    C = C
    None = None
    Nodes = {A, B, C}
    TGs <- MCTGs
    Scenarios <- MCScenarios
SPECIFICATION Spec
INVARIANTS
    TypeOK
    OneTalkerPerNode
    NoEcho
    ListenersFollow
PROPERTIES
    InterestArrives
CHECK_DEADLOCK FALSE
