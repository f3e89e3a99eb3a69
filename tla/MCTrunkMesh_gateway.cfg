\* A - B - C: the link between the talker's reflector and the gateway is lost.
CONSTANTS
    A = A
    B = B
    C = C
    None = None
    Nodes = {A, B, C}
    TGs <- MCTGs
    Scenarios <- MCGateway
SPECIFICATION Spec
INVARIANTS
    TalkersAreReal
CHECK_DEADLOCK FALSE
