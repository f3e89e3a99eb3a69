----------------------------- MODULE TrunkTalker -----------------------------
(***************************************************************************)
(* What the two ends of a trunk keep about a talk group, and what each     *)
(* TrunkLink handler does to it and sends to the peer. How the messages    *)
(* travel is left to the modules that extend this one: TrunkArbitration    *)
(* has one established connection, TrunkLink the two connections that      *)
(* come and go.                                                            *)
(*                                                                         *)
(* The TGs are those that pass the filters of both ends (owned, cluster or *)
(* mapped TGs, none of them blacklisted), so that no gate but the ones     *)
(* below decides whether a message is sent or accepted.                    *)
(*   src/svxlink/reflector/TrunkLink.cpp, Reflector.cpp, TGHandler.cpp     *)
(***************************************************************************)
EXTENDS Integers, Sequences, FiniteSets

CONSTANTS
    NodeA, NodeB,   \* the two reflectors
    TGs,            \* talk groups the trunk carries
    Callsigns,      \* Callsigns[n]: the clients of reflector n
    None            \* the null pointer, the empty callsign

Nodes == {NodeA, NodeB}
Peer(n) == IF n = NodeA THEN NodeB ELSE NodeA
AllCallsigns == Callsigns[NodeA] \cup Callsigns[NodeB]

ASSUME NodesAssumption == NodeA # NodeB
ASSUME CallsignsAssumption ==
    /\ DOMAIN Callsigns = Nodes
    /\ None \notin AllCallsigns

\* TGHandler keeps this many remote talkers and refuses more without telling the
\* link, which has marked the TG by then. With more TGs than that,
\* AudioGateMatchesTalker would fail.
MAX_TRUNK_TALKERS == 10000
ASSUME TalkersAssumption ==
    IsFiniteSet(TGs) /\ Cardinality(TGs) <= MAX_TRUNK_TALKERS

VARIABLES
    talker,         \* talker[n][tg]: the local talker in n's TGHandler
    trunkTalker,    \* trunkTalker[n][tg]: the remote talker in n's TGHandler
    peerActive,     \* m_peer_active_tgs
    yielded         \* m_yielded_tgs

talkState == <<talker, trunkTalker, peerActive, yielded>>

TalkTypeOK ==
    /\ talker \in [Nodes -> [TGs -> AllCallsigns \cup {None}]]
    /\ trunkTalker \in [Nodes -> [TGs -> AllCallsigns \cup {None}]]
    /\ peerActive \in [Nodes -> SUBSET TGs]
    /\ yielded \in [Nodes -> SUBSET TGs]

TalkInit ==
    /\ talker = [n \in Nodes |-> [tg \in TGs |-> None]]
    /\ trunkTalker = [n \in Nodes |-> [tg \in TGs |-> None]]
    /\ peerActive = [n \in Nodes |-> {}]
    /\ yielded = [n \in Nodes |-> {}]

\* The peer messages about talkers. Audio frames are told apart by the one who
\* speaks in them.
TalkMsgs ==
    [type : {"TalkerStart", "Audio"}, tg : TGs, callsign : AllCallsigns]
        \cup [type : {"TalkerStop", "Flush"}, tg : TGs, callsign : {None}]

TalkerStart(tg, c) == [type |-> "TalkerStart", tg |-> tg, callsign |-> c]
TalkerStop(tg) == [type |-> "TalkerStop", tg |-> tg, callsign |-> None]
Audio(tg, c) == [type |-> "Audio", tg |-> tg, callsign |-> c]
Flush(tg) == [type |-> "Flush", tg |-> tg, callsign |-> None]

-----------------------------------------------------------------------------
(* TrunkLink::onLocal...: what n tells the peer.                           *)

\* onLocalTalkerStop: a stop that comes from yielding to the peer is kept back.
StopMsgs(n, tg) == IF tg \in yielded[n] THEN <<>> ELSE <<TalkerStop(tg)>>

\* onLocalAudio: no audio while the TG is yielded.
AudioMsgs(n, tg, c) == IF tg \in yielded[n] THEN <<>> ELSE <<Audio(tg, c)>>

-----------------------------------------------------------------------------
(* Local clients. Each action has its effect here and the messages it      *)
(* causes, in the order they are sent, in an operator ...Sends.            *)

\* Mutant: a remote talker does not keep a client from taking the TG.
KeyHeldTG(n, tg, c) ==
    /\ talker[n][tg] = None
    /\ talker' = [talker EXCEPT ![n][tg] = c]
    /\ UNCHANGED <<trunkTalker, peerActive, yielded>>

\* The first audio datagram of client c on a TG that neither a local nor a
\* remote talker holds.
Key(n, tg, c) ==
    /\ talker[n][tg] = None
    /\ trunkTalker[n][tg] = None
    /\ talker' = [talker EXCEPT ![n][tg] = c]
    /\ UNCHANGED <<trunkTalker, peerActive, yielded>>

KeySends(n, tg, c) == <<TalkerStart(tg, c)>> \o AudioMsgs(n, tg, c)

\* Mutant: audio is sent on whether or not its sender is the talker.
TalkWithoutTG(n, tg) == UNCHANGED talkState

\* Further audio of the talker.
Talk(n, tg) ==
    /\ talker[n][tg] # None
    /\ UNCHANGED talkState

TalkSends(n, tg) == AudioMsgs(n, tg, talker[n][tg])

\* The talker releases its transmitter (MsgUdpFlushSamples). The flush is sent
\* on whether or not the TG is yielded.
Unkey(n, tg) ==
    /\ talker[n][tg] # None
    /\ talker' = [talker EXCEPT ![n][tg] = None]
    /\ UNCHANGED <<trunkTalker, peerActive, yielded>>

UnkeySends(n, tg) == StopMsgs(n, tg) \o <<Flush(tg)>>

\* The talker loses the TG otherwise: audio or squelch timeout, disconnect.
\* The effect is that of Unkey, but no flush follows.
DropSends(n, tg) == StopMsgs(n, tg)

-----------------------------------------------------------------------------
(* TrunkLink::handleMsgPeer...: what n does with a message of the peer.    *)

\* With a local talker the end that wins ignores the peer's claim. Whether n
\* wins is decided by the nonces the two ends have drawn and sent each other.
IgnoreStart(n, m, wins) ==
    /\ talker[n][m.tg] # None
    /\ wins
    /\ UNCHANGED talkState

\* Mutant: the local talker is not cleared.
AcceptStartKeepsTalker(n, m, wins) ==
    /\ talker[n][m.tg] # None => ~wins
    /\ peerActive' = [peerActive EXCEPT ![n] = @ \cup {m.tg}]
    /\ trunkTalker' = [trunkTalker EXCEPT ![n][m.tg] = m.callsign]
    /\ UNCHANGED <<talker, yielded>>

\* Mutant: the nonces are not compared.
AcceptEveryStart(n, m, wins) ==
    /\ yielded' = [yielded EXCEPT ![n] =
                     IF talker[n][m.tg] # None THEN @ \cup {m.tg} ELSE @]
    /\ talker' = [talker EXCEPT ![n][m.tg] = None]
    /\ peerActive' = [peerActive EXCEPT ![n] = @ \cup {m.tg}]
    /\ trunkTalker' = [trunkTalker EXCEPT ![n][m.tg] = m.callsign]

\* Mutant: the remote talker that holds the TG is not replaced.
AcceptFirstStart(n, m, wins) ==
    LET yields == talker[n][m.tg] # None
    IN  /\ yields => ~wins
        /\ yielded' = [yielded EXCEPT ![n] = IF yields THEN @ \cup {m.tg} ELSE @]
        /\ talker' = [talker EXCEPT ![n][m.tg] = None]
        /\ peerActive' = [peerActive EXCEPT ![n] = @ \cup {m.tg}]
        /\ trunkTalker' = [trunkTalker EXCEPT ![n][m.tg] =
                             IF @ = None THEN m.callsign ELSE @]

\* The claim is accepted, if need be by yielding: the TG is marked before the
\* local talker is cleared, so onLocalTalkerStop keeps the stop back.
AcceptStart(n, m, wins) ==
    LET yields == talker[n][m.tg] # None
    IN  /\ yields => ~wins
        /\ yielded' = [yielded EXCEPT ![n] = IF yields THEN @ \cup {m.tg} ELSE @]
        /\ talker' = [talker EXCEPT ![n][m.tg] = None]
        /\ peerActive' = [peerActive EXCEPT ![n] = @ \cup {m.tg}]
        /\ trunkTalker' = [trunkTalker EXCEPT ![n][m.tg] = m.callsign]

\* Mutant: the TG stays yielded.
HandleStopKeepsYield(n, m) ==
    /\ peerActive' = [peerActive EXCEPT ![n] = @ \ {m.tg}]
    /\ trunkTalker' = [trunkTalker EXCEPT ![n][m.tg] = None]
    /\ UNCHANGED <<talker, yielded>>

\* Mutant: a stop from a peer to which the TG was yielded is not taken.
HandleStopUnlessYielded(n, m) ==
    /\ yielded' = [yielded EXCEPT ![n] = @ \ {m.tg}]
    /\ IF m.tg \in yielded[n]
         THEN UNCHANGED <<peerActive, trunkTalker>>
         ELSE /\ peerActive' = [peerActive EXCEPT ![n] = @ \ {m.tg}]
              /\ trunkTalker' = [trunkTalker EXCEPT ![n][m.tg] = None]
    /\ UNCHANGED talker

\* The stop clears whatever remote talker holds the TG.
HandleStop(n, m) ==
    /\ yielded' = [yielded EXCEPT ![n] = @ \ {m.tg}]
    /\ peerActive' = [peerActive EXCEPT ![n] = @ \ {m.tg}]
    /\ trunkTalker' = [trunkTalker EXCEPT ![n][m.tg] = None]
    /\ UNCHANGED talker

\* Mutant: all audio of the peer is played.
PlaysAll(n, m) == m.type = "Audio"

\* Audio reaches the clients of n only if the peer has claimed the TG.
Plays(n, m) == m.type = "Audio" /\ m.tg \in peerActive[n]

Handle(n, m, wins) ==
    \/ m.type = "TalkerStart" /\ (IgnoreStart(n, m, wins) \/ AcceptStart(n, m, wins))
    \/ m.type = "TalkerStop" /\ HandleStop(n, m)
    \/ m.type \in {"Audio", "Flush"} /\ UNCHANGED talkState

-----------------------------------------------------------------------------
(* Properties that hold however the messages travel.                       *)

\* README.md: "One talker at a time per TG". A reflector never has a local
\* and a remote talker on the same TG, so its clients never hear two voices
\* and a remote conversation is safe from local interruption.
OneTalkerPerNode ==
    \A n \in Nodes, tg \in TGs :
        talker[n][tg] = None \/ trunkTalker[n][tg] = None

\* The peer's audio is let through on exactly the TGs whose remote talker is
\* announced to the local clients.
AudioGateMatchesTalker ==
    \A n \in Nodes, tg \in TGs :
        tg \in peerActive[n] <=> trunkTalker[n][tg] # None

\* A TG stays yielded only while the remote talker it was yielded to holds it:
\* a local talker's audio is never held back.
YieldedMeansHeld ==
    \A n \in Nodes, tg \in TGs :
        tg \in yielded[n] => trunkTalker[n][tg] # None

\* What a reflector keeps of a remote talker agrees in all three records of it.
TalkerRecordsAgree == AudioGateMatchesTalker /\ YieldedMeansHeld

\* The floor of each TG, with a local talker first: one that ignored a remote
\* talker would show as a client that took the floor from the peer.
FloorOf(n, tg) ==
    IF talker[n][tg] # None THEN [by |-> "client", talker |-> talker[n][tg]]
    ELSE IF trunkTalker[n][tg] # None
      THEN [by |-> "peer", talker |-> trunkTalker[n][tg]]
      ELSE [by |-> "nobody"]

floors == [n \in Nodes |-> [tg \in TGs |-> FloorOf(n, tg)]]
=============================================================================
