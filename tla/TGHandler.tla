------------------------------ MODULE TGHandler ------------------------------
(***************************************************************************)
(* Talk group bookkeeping inside one reflector: which client has selected  *)
(* which talk group (TG), which local client or remote (trunk, twin,       *)
(* satellite) talker holds a TG, and the timers that take the floor away   *)
(* from a client that is silent or talks for too long.                     *)
(*                                                                         *)
(* The reflector is a single-threaded event loop, so one action is one     *)
(* callback: a TCP message or UDP datagram of a client, a timer, an        *)
(* operator command, or the call a peer link makes into the TGHandler.     *)
(*   src/svxlink/reflector/TGHandler.cpp, ReflectorClient.cpp,             *)
(*   Reflector.cpp                                                         *)
(***************************************************************************)
EXTENDS Integers, FiniteSets

CONSTANTS
    Clients,                \* local client nodes
    TGs,                    \* talk group numbers in use
    Peers,                  \* ids of the peer links that report remote talkers
    RemoteCallsigns,        \* callsigns of remote talkers
    None,                   \* the null pointer, the empty callsign
    MayUse,                 \* MayUse[c]: the TGs whose ALLOW pattern c matches
    MAX_ACTIVE_TGS,
    MAX_TRUNK_TALKERS,
    TALKER_AUDIO_TIMEOUT,   \* seconds of silence after which a talker loses the TG
    SQL_TIMEOUT,            \* seconds a talker may hold a TG, 0 = no limit
    SQL_TIMEOUT_BLOCKTIME,  \* seconds of silence that end a block
    PtyBlocktimes           \* bound: the seconds an operator blocks a client for

NoTG == 0

ASSUME TGsAssumption == TGs \subseteq Nat \ {NoTG}
ASSUME ClientsAssumption == IsFiniteSet(Clients)
ASSUME NoneAssumption == None \notin Clients \cup Peers \cup RemoteCallsigns
ASSUME MayUseAssumption == MayUse \in [Clients -> SUBSET TGs]
ASSUME LimitsAssumption ==
    /\ MAX_ACTIVE_TGS \in Nat
    /\ MAX_TRUNK_TALKERS \in Nat
    /\ TALKER_AUDIO_TIMEOUT \in Nat
    /\ SQL_TIMEOUT \in Nat
    /\ SQL_TIMEOUT_BLOCKTIME \in Nat \ {0}
    /\ PtyBlocktimes \subseteq Nat

VARIABLES
    connected,      \* clients with an authenticated connection
    clientTg,       \* m_client_map: the TG a client is a member of
    currentTg,      \* ReflectorClient::m_current_tg
    talker,         \* TGInfo::talker
    sqlTimeoutCnt,  \* TGInfo::sql_timeout_cnt
    silence,        \* whole seconds since TGInfo::last_talker_timestamp
    blocktime,      \* ReflectorClient::m_blocktime
    remaining,      \* ReflectorClient::m_remaining_blocktime
    trunkTalker,    \* m_trunk_talkers
    trunkPeer,      \* m_trunk_talker_peer_ids
    onAir,          \* talkers announced as started and not yet as stopped
    heldFor,        \* history: ticks of the TGHandler's timer the talker has
                    \* held the TG for, counted up to SQL_TIMEOUT
    quiet           \* history: heartbeats since c was blocked or last sent audio

selection == <<connected, clientTg, currentTg>>
floor == <<talker, sqlTimeoutCnt, silence, onAir, heldFor>>
blocks == <<blocktime, remaining, quiet>>
remote == <<trunkTalker, trunkPeer>>
vars == <<selection, floor, blocks, remote>>

TypeOK ==
    /\ connected \in SUBSET Clients
    /\ clientTg \in [Clients -> TGs \cup {NoTG}]
    /\ currentTg \in [Clients -> TGs \cup {NoTG}]
    /\ talker \in [TGs -> Clients \cup {None}]
    /\ sqlTimeoutCnt \in [TGs -> 0..SQL_TIMEOUT]
    /\ silence \in [TGs -> 0..(TALKER_AUDIO_TIMEOUT + 1)]
    /\ blocktime \in [Clients -> Nat]
    /\ remaining \in [Clients -> Nat]
    /\ quiet \in [Clients -> Nat]
    /\ trunkTalker \in [TGs -> RemoteCallsigns \cup {None}]
    /\ trunkPeer \in [TGs -> Peers \cup {None}]
    /\ onAir \in [TGs -> SUBSET Clients]
    /\ heldFor \in [TGs -> 0..SQL_TIMEOUT]

Init ==
    /\ connected = {}
    /\ clientTg = [c \in Clients |-> NoTG]
    /\ currentTg = [c \in Clients |-> NoTG]
    /\ talker = [tg \in TGs |-> None]
    /\ sqlTimeoutCnt = [tg \in TGs |-> 0]
    /\ silence = [tg \in TGs |-> 0]
    /\ blocktime = [c \in Clients |-> 0]
    /\ remaining = [c \in Clients |-> 0]
    /\ quiet = [c \in Clients |-> 0]
    /\ trunkTalker = [tg \in TGs |-> None]
    /\ trunkPeer = [tg \in TGs |-> None]
    /\ onAir = [tg \in TGs |-> {}]
    /\ heldFor = [tg \in TGs |-> 0]

-----------------------------------------------------------------------------
(* The TGHandler methods the handlers are built from.                      *)

\* m_id_map holds a TGInfo for exactly the TGs somebody is a member of, here
\* without client c, which leaves its TG before it enters another one.
ActiveTGsWithout(c) == {clientTg[d] : d \in Clients \ {c}} \ {NoTG}

\* Mutant: the ALLOW pattern is checked only when the TG is created.
MayEnterExistingTG(c, tg) ==
    \/ tg \in ActiveTGsWithout(c) \cup {NoTG}
    \/ /\ tg \in MayUse[c]
       /\ Cardinality(ActiveTGsWithout(c)) < MAX_ACTIVE_TGS

\* TGHandler::switchTo once c has left its old TG: the ALLOW pattern, then the
\* limit, which only a TG that nobody uses yet can hit.
MaySwitchTo(c, tg) ==
    \/ tg = NoTG
    \/ /\ tg \in MayUse[c]
       /\ \/ tg \in ActiveTGsWithout(c)
          \/ Cardinality(ActiveTGsWithout(c)) < MAX_ACTIVE_TGS

\* Mutant: a count that still runs is not started afresh.
SetTalkerCountsOn(tg, new) ==
    /\ talker' = [talker EXCEPT ![tg] = new]
    /\ sqlTimeoutCnt' =
         [sqlTimeoutCnt EXCEPT ![tg] = IF new = None THEN 0
                                       ELSE IF @ > 0 THEN @ ELSE SQL_TIMEOUT]
    /\ silence' = [silence EXCEPT ![tg] = 0]
    /\ onAir' = [onAir EXCEPT ![tg] =
                   (@ \ {talker[tg]}) \cup ({new} \ {None})]
    /\ heldFor' = [heldFor EXCEPT ![tg] = 0]

\* TGHandler::setTalkerForTG with a talker other than the present one. The
\* talkerUpdated signal tells the clients who stopped and who started.
SetTalkerForTG(tg, new) ==
    /\ talker' = [talker EXCEPT ![tg] = new]
    /\ sqlTimeoutCnt' =
         [sqlTimeoutCnt EXCEPT ![tg] = IF new = None THEN 0 ELSE SQL_TIMEOUT]
    /\ silence' = [silence EXCEPT ![tg] = 0]
    /\ onAir' = [onAir EXCEPT ![tg] =
                   (@ \ {talker[tg]}) \cup ({new} \ {None})]
    /\ heldFor' = [heldFor EXCEPT ![tg] = 0]

\* Mutant: the talker pointer stays behind.
RemoveMemberOnly(c, tg) ==
    /\ sqlTimeoutCnt' = [sqlTimeoutCnt EXCEPT ![tg] =
                           IF tg \in ActiveTGsWithout(c) THEN @ ELSE 0]
    /\ UNCHANGED <<talker, silence, onAir, heldFor>>

\* TGHandler::removeClientP: the talker of the TG is forgotten without a
\* signal, its squelch timeout counter stays behind, and the TGInfo goes with
\* its last member.
RemoveClientP(c, tg) ==
    /\ talker' = [talker EXCEPT ![tg] = IF @ = c THEN None ELSE @]
    /\ silence' = [silence EXCEPT ![tg] = IF talker[tg] = c THEN 0 ELSE @]
    /\ sqlTimeoutCnt' = [sqlTimeoutCnt EXCEPT ![tg] =
                           IF tg \in ActiveTGsWithout(c) THEN @ ELSE 0]
    /\ heldFor' = [heldFor EXCEPT ![tg] = IF talker[tg] = c THEN 0 ELSE @]
    /\ UNCHANGED onAir

-----------------------------------------------------------------------------
(* Clients.                                                                *)

\* ReflectorClient::connectionAuthenticated: a fresh client object.
Authenticate(c) ==
    /\ c \notin connected
    /\ connected' = connected \cup {c}
    /\ UNCHANGED <<clientTg, currentTg, floor, blocks, remote>>

\* ReflectorClient::handleSelectTG and setTg: a refused selection leaves the
\* client without a TG.
SelectTG(c, tg) ==
    LET granted == IF MaySwitchTo(c, tg) THEN tg ELSE NoTG
    IN  /\ c \in connected
        /\ tg # currentTg[c]
        /\ clientTg' = [clientTg EXCEPT ![c] = granted]
        /\ currentTg' = [currentTg EXCEPT ![c] = granted]
        /\ IF clientTg[c] = NoTG
             THEN UNCHANGED floor
             ELSE RemoveClientP(c, clientTg[c])
        /\ UNCHANGED <<connected, blocks, remote>>

\* Reflector::clientDisconnected and TGHandler::removeClient: a talker that
\* disconnects is stopped with a signal before its membership ends.
Disconnect(c) ==
    /\ c \in connected
    /\ connected' = connected \ {c}
    /\ clientTg' = [clientTg EXCEPT ![c] = NoTG]
    /\ currentTg' = [currentTg EXCEPT ![c] = NoTG]
    /\ IF clientTg[c] = NoTG
         THEN UNCHANGED floor
         ELSE IF talker[clientTg[c]] = c
                THEN SetTalkerForTG(clientTg[c], None)
                ELSE RemoveClientP(c, clientTg[c])
    /\ blocktime' = [blocktime EXCEPT ![c] = 0]
    /\ remaining' = [remaining EXCEPT ![c] = 0]
    /\ quiet' = [quiet EXCEPT ![c] = 0]
    /\ UNCHANGED remote

\* Mutant: the datagram is dropped, the blocking time runs on.
AudioDropped(c) ==
    /\ c \in connected
    /\ blocktime[c] > 0
    /\ quiet' = [quiet EXCEPT ![c] = 0]
    /\ UNCHANGED <<selection, floor, blocktime, remaining, remote>>

\* An audio datagram of a blocked client only restarts its blocking time
\* (ReflectorClient::udpMsgReceived).
AudioBlocked(c) ==
    /\ c \in connected
    /\ blocktime[c] > 0
    /\ remaining' = [remaining EXCEPT ![c] = blocktime[c]]
    /\ quiet' = [quiet EXCEPT ![c] = 0]
    /\ UNCHANGED <<selection, floor, blocktime, remote>>

\* The first audio datagram on a free TG makes the sender its talker.
AudioTakesTG(c) ==
    LET tg == clientTg[c]
    IN  /\ c \in connected
        /\ blocktime[c] = 0
        /\ tg # NoTG
        /\ talker[tg] = None
        /\ trunkTalker[tg] = None
        /\ SetTalkerForTG(tg, c)
        /\ UNCHANGED <<selection, blocks, remote>>

\* Mutant: every datagram of the talker sets it again, squelch timer included.
AudioSetsTalkerAgain(c) ==
    LET tg == clientTg[c]
    IN  /\ c \in connected
        /\ blocktime[c] = 0
        /\ tg # NoTG
        /\ talker[tg] = c
        /\ SetTalkerForTG(tg, c)
        /\ UNCHANGED <<selection, blocks, remote>>

\* Further audio of the talker refreshes its timestamp. The trunk talker is
\* not looked at again.
AudioContinues(c) ==
    LET tg == clientTg[c]
    IN  /\ c \in connected
        /\ blocktime[c] = 0
        /\ tg # NoTG
        /\ talker[tg] = c
        /\ silence' = [silence EXCEPT ![tg] = 0]
        /\ UNCHANGED <<selection, talker, sqlTimeoutCnt, onAir, heldFor, blocks, remote>>

\* MsgUdpFlushSamples of the talker ends its transmission.
Flush(c) ==
    LET tg == clientTg[c]
    IN  /\ c \in connected
        /\ tg # NoTG
        /\ talker[tg] = c
        /\ SetTalkerForTG(tg, None)
        /\ UNCHANGED <<selection, blocks, remote>>

\* Mutant: the second in which the block ends is counted too.
HeartbeatCountsOn(c) ==
    /\ c \in connected
    /\ blocktime[c] > 0
    /\ blocktime' = [blocktime EXCEPT ![c] = IF remaining[c] = 0 THEN 0 ELSE @]
    /\ remaining' = [remaining EXCEPT ![c] = @ - 1]
    /\ quiet' = [quiet EXCEPT ![c] = IF remaining[c] = 0 THEN 0 ELSE @ + 1]
    /\ UNCHANGED <<selection, floor, remote>>

\* ReflectorClient::handleHeartbeat, once a second: the blocking time.
Heartbeat(c) ==
    /\ c \in connected
    /\ blocktime[c] > 0
    /\ blocktime' = [blocktime EXCEPT ![c] = IF remaining[c] = 0 THEN 0 ELSE @]
    /\ remaining' = [remaining EXCEPT ![c] = IF @ = 0 THEN 0 ELSE @ - 1]
    /\ quiet' = [quiet EXCEPT ![c] = IF remaining[c] = 0 THEN 0 ELSE @ + 1]
    /\ UNCHANGED <<selection, floor, remote>>

\* The PTY command NODE BLOCK <callsign> <seconds>; 0 unblocks.
PtyBlock(c, n) ==
    /\ c \in connected
    /\ blocktime' = [blocktime EXCEPT ![c] = n]
    /\ remaining' = [remaining EXCEPT ![c] = n]
    /\ quiet' = [quiet EXCEPT ![c] = 0]
    /\ UNCHANGED <<selection, floor, remote>>

-----------------------------------------------------------------------------
(* Timers.                                                                 *)

Silent(tg) == talker[tg] # None /\ silence[tg] > TALKER_AUDIO_TIMEOUT

\* checkTimers looks at the audio timeout first. It stops the talker, which
\* leaves TGInfo::talker null and sql_timeout_cnt zero.
TalkerAfterAudioTimeout(tg) == IF Silent(tg) THEN None ELSE talker[tg]
CountAfterAudioTimeout(tg) == IF Silent(tg) THEN 0 ELSE sqlTimeoutCnt[tg]

\* The squelch timeout, which then blocks TGInfo::talker without looking at it
\* again: the talker was not null before the audio timeout.
TalkedTooLong(tg) == talker[tg] # None /\ CountAfterAudioTimeout(tg) = 1

\* Seconds of silence are counted no further than the timeout tells them apart.
Later(s) == IF s > TALKER_AUDIO_TIMEOUT THEN s ELSE s + 1

\* TGHandler::checkTimers, once a second over every TG.
CheckTimers ==
    LET cutOff == {TalkerAfterAudioTimeout(tg) : tg \in {g \in TGs : TalkedTooLong(g)}}
        stopped == {tg \in TGs : Silent(tg) \/ TalkedTooLong(tg)}
    IN  /\ \E tg \in TGs : talker[tg] # None
        /\ talker' = [tg \in TGs |-> IF tg \in stopped THEN None ELSE talker[tg]]
        /\ sqlTimeoutCnt' =
             [tg \in TGs |-> IF tg \in stopped THEN 0
                             ELSE IF talker[tg] # None /\ sqlTimeoutCnt[tg] > 0
                               THEN sqlTimeoutCnt[tg] - 1
                               ELSE sqlTimeoutCnt[tg]]
        /\ silence' =
             [tg \in TGs |-> IF talker[tg] = None \/ tg \in stopped
                               THEN 0 ELSE Later(silence[tg])]
        /\ onAir' = [tg \in TGs |-> IF tg \in stopped
                                      THEN onAir[tg] \ {talker[tg]}
                                      ELSE onAir[tg]]
        /\ heldFor' = [tg \in TGs |-> IF talker[tg] = None \/ tg \in stopped THEN 0
                                   ELSE IF heldFor[tg] < SQL_TIMEOUT
                                     THEN heldFor[tg] + 1 ELSE heldFor[tg]]
        /\ blocktime' = [c \in Clients |-> IF c \in cutOff
                                             THEN SQL_TIMEOUT_BLOCKTIME
                                             ELSE blocktime[c]]
        /\ remaining' = [c \in Clients |-> IF c \in cutOff
                                             THEN SQL_TIMEOUT_BLOCKTIME
                                             ELSE remaining[c]]
        /\ quiet' = [c \in Clients |-> IF c \in cutOff THEN 0 ELSE quiet[c]]
        /\ UNCHANGED <<selection, remote>>

-----------------------------------------------------------------------------
(* Calls of the peer links: TrunkLink, TwinLink, SatelliteLink and         *)
(* SatelliteClient. Which of them calls what, and when, is the subject of  *)
(* the modules of the links; here every call may come at any time.         *)

\* TrunkLink yields to a remote claim: setTalkerForTG(tg, nullptr).
YieldTG(tg) ==
    /\ talker[tg] # None
    /\ SetTalkerForTG(tg, None)
    /\ UNCHANGED <<selection, blocks, remote>>

\* setTrunkTalkerForTGViaPeer with a callsign. The peer id is stored first,
\* whatever comes next: the call is then ignored if the callsign holds the TG
\* already or the table is full.
SetTrunkTalkerForTGViaPeer(tg, callsign, peer) ==
    LET full == /\ trunkTalker[tg] = None
                /\ Cardinality({g \in TGs : trunkTalker[g] # None})
                     >= MAX_TRUNK_TALKERS
    IN  /\ trunkPeer' = [trunkPeer EXCEPT ![tg] = peer]
        /\ IF callsign = trunkTalker[tg] \/ full
             THEN UNCHANGED trunkTalker
             ELSE trunkTalker' = [trunkTalker EXCEPT ![tg] = callsign]
        /\ UNCHANGED <<selection, floor, blocks>>

\* clearTrunkTalkerForTG: whoever holds the TG loses it.
ClearTrunkTalkerForTG(tg) ==
    /\ trunkTalker' = [trunkTalker EXCEPT ![tg] = None]
    /\ trunkPeer' = [trunkPeer EXCEPT ![tg] = None]
    /\ UNCHANGED <<selection, floor, blocks>>

\* clearAllTrunkTalkers: the satellite client lost its parent. A peer id
\* without a talker is not among the keys and stays behind.
ClearAllTrunkTalkers ==
    LET held == {tg \in TGs : trunkTalker[tg] # None}
    IN  /\ held # {}
        /\ trunkTalker' = [tg \in TGs |-> None]
        /\ trunkPeer' = [tg \in TGs |-> IF tg \in held THEN None ELSE trunkPeer[tg]]
        /\ UNCHANGED <<selection, floor, blocks>>

-----------------------------------------------------------------------------
ClientStep ==
    \E c \in Clients :
        \/ Authenticate(c)
        \/ \E tg \in TGs \cup {NoTG} : SelectTG(c, tg)
        \/ Disconnect(c)
        \/ AudioBlocked(c)
        \/ AudioTakesTG(c)
        \/ AudioContinues(c)
        \/ Flush(c)
        \/ Heartbeat(c)
        \/ \E n \in PtyBlocktimes : PtyBlock(c, n)

LinkStep ==
    \/ \E tg \in TGs :
         \/ YieldTG(tg)
         \/ \E cs \in RemoteCallsigns, p \in Peers :
              SetTrunkTalkerForTGViaPeer(tg, cs, p)
         \/ ClearTrunkTalkerForTG(tg)
    \/ ClearAllTrunkTalkers

Next == ClientStep \/ LinkStep \/ CheckTimers

\* The one-second timer of the TGHandler is periodic and is never disabled.
Spec == Init /\ [][Next]_vars /\ WF_vars(CheckTimers)

-----------------------------------------------------------------------------
(* Properties.                                                             *)

\* The talker a TG points at is a connected client that is still a member of
\* that TG: neither a TG change nor a disconnect, which destroys the client
\* object, leaves a pointer to it behind, and nobody talks on two TGs.
TalkerIsMember ==
    \A tg \in TGs : talker[tg] # None =>
        talker[tg] \in connected /\ clientTg[talker[tg]] = tg

\* The two records of a client's TG, the TGHandler's map and the client's own
\* m_current_tg, agree after every selection, refusal and disconnect.
SelectionAgrees ==
    \A c \in Clients : currentTg[c] = clientTg[c]

\* Refusing a selection never lets a client into a TG it may not use, and the
\* number of TGs with members never exceeds MAX_ACTIVE_TGS.
MembershipAllowed ==
    /\ \A c \in Clients : clientTg[c] # NoTG => clientTg[c] \in MayUse[c]
    /\ Cardinality({clientTg[c] : c \in Clients} \ {NoTG}) <= MAX_ACTIVE_TGS

MembershipsAgree == SelectionAgrees /\ MembershipAllowed

\* Whoever the squelch timeout cuts off and blocks has held that TG for the
\* whole SQL_TIMEOUT: the count that removeClientP leaves behind when a talker
\* selects another TG is never held against the client that talks next, and
\* there is still a talker to block when the audio timeout came first.
CutOffIsDue ==
    \A tg \in TGs :
        TalkedTooLong(tg) => /\ TalkerAfterAudioTimeout(tg) # None
                             /\ heldFor[tg] = SQL_TIMEOUT - 1

\* A block that runs out by itself has been preceded by that many heartbeats
\* without any audio from the client: talking on never ends a block.
BlockEndsAfterSilence ==
    [][\A c \in Clients : Heartbeat(c) /\ blocktime'[c] = 0
                            => quiet[c] >= blocktime[c]]_vars

\* With a squelch timeout configured no client holds a TG for ever, however
\* long it keeps its transmitter keyed.
NobodyHoldsForever ==
    SQL_TIMEOUT > 0 =>
        \A tg \in TGs, c \in Clients : talker[tg] = c ~> talker[tg] # c

\* docs/MQTT.md on the talker start and stop topics: "Published when a locally
\* connected client starts or stops talking on a talk group". MsgTalkerStart and
\* MsgTalkerStop come from the same signal. If it is so for every stop, whoever
\* is announced as talking is the talker.
StopIsAnnounced ==
    \A tg \in TGs : onAir[tg] \subseteq {talker[tg]}
=============================================================================
