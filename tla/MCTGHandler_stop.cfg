CONSTANTS
    c1 = c1
    c2 = c2
    p1 = p1
    p2 = p2
    r1 = r1
    r2 = r2
    None = None
    Clients = {c1, c2}
    TGs = {1, 2}
    Peers = {p1}
    RemoteCallsigns = {r1}
    MayUse <- MCMayUse
    MAX_ACTIVE_TGS = 1
    MAX_TRUNK_TALKERS = 1
    TALKER_AUDIO_TIMEOUT = 1
    SQL_TIMEOUT = 2
    SQL_TIMEOUT_BLOCKTIME = 2
    PtyBlocktimes = {0, 1}
SPECIFICATION Spec
INVARIANT StopIsAnnounced
