\* Any reload with Redis: the operator's, an announcement or a reconnect.
CONSTANTS
    F1 = F1
    R1 = R1
    R2 = R2
    FileSections = {F1}
    RedisSections = {R1, R2}
    LocalPrefixes <- MCLocalPrefixes
    Remote <- MCRemote
    Routables <- MCRoutables
    TGs <- MCTGs
    UsesRedis = TRUE
    Numbers <- MCNumbers
    MaxEntries = 0
    RunsWith = {}
    MaxEvents = 3
    MaxLosses <- SomeLosses
SPECIFICATION Spec
INVARIANTS
    NoLostTG
CHECK_DEADLOCK FALSE
