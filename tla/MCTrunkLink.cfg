CONSTANTS
    A = A
    B = B
    a1 = a1
    b1 = b1
    None = None
    None0 = None0
    NodeA = A
    NodeB = B
    TGs = {1}
    Callsigns <- MCCallsigns
    Nonces <- MCNonces
    Slots = {1, 2}
    MaxQueue = 1
    MaxFailures = 2
SPECIFICATION Spec
INVARIANTS TalkerRecordsAgree NoncesAgree
PROPERTIES FloorSpec LinkRecovers
CHECK_DEADLOCK FALSE
