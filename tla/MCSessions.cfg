\* Sessions that cross, end and come back.
CONSTANTS
    A = A
    B = B
    C1 = C1
    C2 = C2
    Nodes = {A, B}
    Slots = {1, 2, 3}
    Sources = {p1, p2, p3}
    None = None
    Half = 2
    Scenarios <- MCScenarios
SPECIFICATION Spec
INVARIANTS
    TypeOK
    OneSessionPerCallsign
    NodeListsAgree
PROPERTIES
    TakenInOrder
    HandshakesEnd
    NodesComeBack
CHECK_DEADLOCK FALSE
