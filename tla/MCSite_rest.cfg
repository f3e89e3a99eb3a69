\* Two twins whose connections come up and fail.
CONSTANTS
    A = A
    B = B
    S = S
    Nodes = {A, B, S}
    External = External
    None = None
    Slots = {k1, k2}
    Scenarios <- MCTwins
SPECIFICATION Spec
INVARIANTS
    NothingLeftHeld
CHECK_DEADLOCK FALSE
