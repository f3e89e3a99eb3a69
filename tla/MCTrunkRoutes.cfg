\* One file trunk with routable prefixes and a default route, and two Redis peers
\* one of which owns a range of the other. The subscription and the write connection
\* are lost once, the queries fail twice. Lists of up to three
\* aliases are read at start-up.
CONSTANTS
    F1 = F1
    R1 = R1
    R2 = R2
    FileSections = {F1}
    RedisSections = {R1, R2}
    LocalPrefixes <- MCLocalPrefixes
    Remote <- MCRemote
    Routables <- MCRoutables
    TGs <- MCTGs
    UsesRedis = TRUE
    Numbers <- MCNumbers
    MaxEntries = 3
    RunsWith = {}
    MaxEvents = 3
    MaxLosses <- SomeLosses
SPECIFICATION Spec
INVARIANTS
    TypeOK
    OneNextHop
    NoGhostPrefix
    StoredPeersAreLinked
    AliasesAreOwned
    DialledIsPublished
CHECK_DEADLOCK FALSE
