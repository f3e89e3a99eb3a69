CONSTANTS
    A = A
    B = B
    a1 = a1
    b1 = b1
    b2 = b2
    None = None
    NodeA = A
    NodeB = B
    TGs = {1}
    Callsigns <- MCCallsigns
    Priority <- MCPriority
    Selectors = {B}
    MaxQueue = 3
SPECIFICATION Spec
INVARIANTS TypeOK OneTalkerPerNode TalkerRecordsAgree LoserFollowsWinner AgreementAtRest VoiceIsAnnounced
PROPERTIES FloorSpec ConflictEnds
