-------------------------- MODULE TrunkTalkerProofs --------------------------
(***************************************************************************)
(* Lemmas about the handlers of TrunkTalker, for every message they may    *)
(* meet and so for every way the messages travel. TrunkArbitrationProofs   *)
(* and TrunkLinkProofs use them.                                           *)
(***************************************************************************)
EXTENDS TrunkTalker, SequenceTheorems, TLAPS

LEMMA PeerType == \A n \in Nodes : Peer(n) \in Nodes /\ Peer(n) # n
  BY NodesAssumption DEF Nodes, Peer

LEMMA CallsignType == \A n \in Nodes : Callsigns[n] \subseteq AllCallsigns
  BY DEF Nodes, AllCallsigns

\* What the client actions send are talk messages.
LEMMA MessageTypes ==
    ASSUME NEW n \in Nodes, NEW tg \in TGs, NEW c \in AllCallsigns
    PROVE  /\ KeySends(n, tg, c) \in Seq(TalkMsgs)
           /\ AudioMsgs(n, tg, c) \in Seq(TalkMsgs)
           /\ StopMsgs(n, tg) \in Seq(TalkMsgs)
           /\ UnkeySends(n, tg) \in Seq(TalkMsgs)
  <1>1. /\ TalkerStart(tg, c) \in TalkMsgs
        /\ Audio(tg, c) \in TalkMsgs
        /\ TalkerStop(tg) \in TalkMsgs
        /\ Flush(tg) \in TalkMsgs
    BY DEF TalkerStart, Audio, TalkerStop, Flush, TalkMsgs
  <1>2. AudioMsgs(n, tg, c) \in Seq(TalkMsgs) /\ StopMsgs(n, tg) \in Seq(TalkMsgs)
    BY <1>1 DEF AudioMsgs, StopMsgs
  <1>3. /\ <<TalkerStart(tg, c)>> \in Seq(TalkMsgs)
        /\ <<Flush(tg)>> \in Seq(TalkMsgs)
    BY <1>1
  <1> QED BY <1>2, <1>3, ConcatProperties DEF KeySends, UnkeySends

-----------------------------------------------------------------------------
(* The effect of the actions on what the nodes keep. Every step either      *)
(* leaves it alone, lets one local talker begin or end, or handles one      *)
(* message; what these do is proved once, for any message.                  *)

TalkInv ==
    /\ TalkTypeOK
    /\ OneTalkerPerNode
    /\ AudioGateMatchesTalker
    /\ YieldedMeansHeld

LEMMA TalkInvInit == TalkInit => TalkInv
  BY DEF TalkInit, TalkInv, TalkTypeOK, OneTalkerPerNode,
         AudioGateMatchesTalker, YieldedMeansHeld

LEMMA KeyKeeps ==
    ASSUME TalkInv, NEW n \in Nodes, NEW tg \in TGs, NEW c \in AllCallsigns,
           Key(n, tg, c)
    PROVE  TalkInv'
  <1> USE DEF TalkInv
  <1>1. TalkTypeOK'
    BY DEF Key, TalkTypeOK
  <1>2. OneTalkerPerNode'
    BY DEF Key, TalkTypeOK, OneTalkerPerNode
  <1>3. AudioGateMatchesTalker' /\ YieldedMeansHeld'
    BY DEF Key, AudioGateMatchesTalker, YieldedMeansHeld
  <1> QED BY <1>1, <1>2, <1>3

LEMMA UnkeyKeeps ==
    ASSUME TalkInv, NEW n \in Nodes, NEW tg \in TGs, Unkey(n, tg)
    PROVE  TalkInv'
  <1> USE DEF TalkInv
  <1>1. TalkTypeOK'
    BY DEF Unkey, TalkTypeOK
  <1>2. OneTalkerPerNode'
    BY DEF Unkey, TalkTypeOK, OneTalkerPerNode
  <1>3. AudioGateMatchesTalker' /\ YieldedMeansHeld'
    BY DEF Unkey, AudioGateMatchesTalker, YieldedMeansHeld
  <1> QED BY <1>1, <1>2, <1>3

LEMMA AcceptStartKeeps ==
    ASSUME TalkInv, NEW n \in Nodes, NEW m \in TalkMsgs,
           NEW wins, m.type = "TalkerStart", AcceptStart(n, m, wins)
    PROVE  TalkInv'
  <1> USE DEF TalkInv
  <1>1. m.tg \in TGs /\ m.callsign \in AllCallsigns /\ m.callsign # None
    BY CallsignsAssumption DEF TalkMsgs
  <1> DEFINE Yields == talker[n][m.tg] # None
  <1>2. /\ yielded' = [yielded EXCEPT ![n] =
                         IF Yields THEN yielded[n] \cup {m.tg} ELSE yielded[n]]
        /\ talker' = [talker EXCEPT ![n][m.tg] = None]
        /\ peerActive' = [peerActive EXCEPT ![n] = peerActive[n] \cup {m.tg}]
        /\ trunkTalker' = [trunkTalker EXCEPT ![n][m.tg] = m.callsign]
    BY DEF AcceptStart
  <1> HIDE DEF Yields
  <1>3. TalkTypeOK'
    BY <1>1, <1>2 DEF TalkTypeOK
  <1>4. OneTalkerPerNode'
    BY <1>1, <1>2 DEF TalkTypeOK, OneTalkerPerNode
  <1>5. AudioGateMatchesTalker'
    BY <1>1, <1>2 DEF TalkTypeOK, AudioGateMatchesTalker
  <1>6. YieldedMeansHeld'
    BY <1>1, <1>2 DEF TalkTypeOK, YieldedMeansHeld
  <1> QED BY <1>3, <1>4, <1>5, <1>6

LEMMA HandleStopKeeps ==
    ASSUME TalkInv, NEW n \in Nodes, NEW m \in TalkMsgs, HandleStop(n, m)
    PROVE  TalkInv'
  <1> USE DEF TalkInv
  <1>1. m.tg \in TGs
    BY DEF TalkMsgs
  <1>2. TalkTypeOK'
    BY <1>1 DEF TalkTypeOK, HandleStop
  <1>3. OneTalkerPerNode'
    BY <1>1 DEF TalkTypeOK, OneTalkerPerNode, HandleStop
  <1>4. AudioGateMatchesTalker'
    BY <1>1 DEF TalkTypeOK, AudioGateMatchesTalker, HandleStop
  <1>5. YieldedMeansHeld'
    BY <1>1 DEF TalkTypeOK, YieldedMeansHeld, HandleStop
  <1> QED BY <1>2, <1>3, <1>4, <1>5

LEMMA UnchangedKeeps == TalkInv /\ UNCHANGED talkState => TalkInv'
  BY DEF TalkInv, talkState, TalkTypeOK, OneTalkerPerNode,
         AudioGateMatchesTalker, YieldedMeansHeld

LEMMA HandleKeeps ==
    ASSUME TalkInv, NEW n \in Nodes, NEW m \in TalkMsgs, NEW wins,
           Handle(n, m, wins)
    PROVE  TalkInv'
  <1>1. CASE m.type = "TalkerStart" /\ IgnoreStart(n, m, wins)
    BY <1>1, UnchangedKeeps DEF IgnoreStart
  <1>2. CASE m.type = "TalkerStart" /\ AcceptStart(n, m, wins)
    BY <1>2, AcceptStartKeeps
  <1>3. CASE m.type = "TalkerStop" /\ HandleStop(n, m)
    BY <1>3, HandleStopKeeps
  <1>4. CASE m.type \in {"Audio", "Flush"} /\ UNCHANGED talkState
    BY <1>4, UnchangedKeeps
  <1> QED BY <1>1, <1>2, <1>3, <1>4 DEF Handle
-----------------------------------------------------------------------------
(* The floor of the talk groups. A step that changes the talkers of one     *)
(* node only, each TG of it in one of these ways, moves the floor as        *)
(* TGFloor says; wins tells whether that node wins conflicts.               *)

SameTalkers(k, tg) ==
    talker'[k][tg] = talker[k][tg] /\ trunkTalker'[k][tg] = trunkTalker[k][tg]

IsFree(n, tg) == talker[n][tg] = None /\ trunkTalker[n][tg] = None

Passes(n, tg, wins) ==
    \/ SameTalkers(n, tg)
    \/ IsFree(n, tg)'
    \/ IsFree(n, tg) /\ trunkTalker'[n][tg] = None
    \/ /\ talker'[n][tg] = None
       /\ talker[n][tg] # None => ~wins

FloorStep(n, wins) ==
    /\ \A k \in Nodes \ {n}, tg \in TGs : SameTalkers(k, tg)
    /\ \A tg \in TGs : Passes(n, tg, wins)

\* What TGFloor lets a floor be and be followed by.
FloorValues ==
    {[by |-> "nobody"]}
        \cup {[by |-> "client", talker |-> c] : c \in AllCallsigns}
        \cup {[by |-> "peer", talker |-> c] : c \in AllCallsigns}

Follows(f, g, wins) ==
    \/ g = f
    \/ g = [by |-> "nobody"]
    \/ g.by = "client" /\ f = [by |-> "nobody"]
    \/ g.by = "peer" /\ (f.by = "client" => ~wins)

LEMMA FloorInit ==
    TalkInit => floors = [n \in Nodes |-> [tg \in TGs |-> [by |-> "nobody"]]]
  BY DEF TalkInit, FloorOf, floors

LEMMA FloorMoves ==
    ASSUME TalkInv, TalkInv', NEW n \in Nodes, NEW wins, FloorStep(n, wins)
    PROVE  \E f \in [TGs -> FloorValues] :
               /\ \A tg \in TGs : Follows(floors[n][tg], f[tg], wins)
               /\ floors' = [floors EXCEPT ![n] = f]
  <1>1. /\ \A k \in Nodes \ {n}, tg \in TGs : SameTalkers(k, tg)
        /\ \A tg \in TGs : Passes(n, tg, wins)
    BY DEF FloorStep
  <1> DEFINE f == [tg \in TGs |-> FloorOf(n, tg)']
  <1>2. f \in [TGs -> FloorValues]
    <2> SUFFICES ASSUME NEW tg \in TGs PROVE FloorOf(n, tg)' \in FloorValues
      OBVIOUS
    <2>1. /\ talker'[n][tg] \in AllCallsigns \cup {None}
          /\ trunkTalker'[n][tg] \in AllCallsigns \cup {None}
      BY DEF TalkInv, TalkTypeOK
    <2> QED BY <2>1 DEF FloorOf, FloorValues
  <1>3. ASSUME NEW tg \in TGs
        PROVE  Follows(FloorOf(n, tg), FloorOf(n, tg)', wins)
    <2>1. Passes(n, tg, wins)
      BY <1>1
    <2>2. talker[n][tg] = None \/ trunkTalker[n][tg] = None
      BY DEF TalkInv, OneTalkerPerNode
    <2>3. CASE SameTalkers(n, tg)
      BY <2>3 DEF SameTalkers, FloorOf, Follows
    <2>4. CASE IsFree(n, tg)'
      BY <2>4 DEF IsFree, FloorOf, Follows
    <2>5. CASE IsFree(n, tg) /\ trunkTalker'[n][tg] = None
      BY <2>5 DEF IsFree, FloorOf, Follows
    <2>6. CASE talker'[n][tg] = None /\ (talker[n][tg] # None => ~wins)
      BY <2>6 DEF FloorOf, Follows
    <2> QED BY <2>1, <2>3, <2>4, <2>5, <2>6 DEF Passes
  <1>4. floors' = [floors EXCEPT ![n] = f]
    <2>1. \A k \in Nodes \ {n}, tg \in TGs : FloorOf(k, tg)' = FloorOf(k, tg)
      BY <1>1 DEF SameTalkers, FloorOf
    <2> QED BY <2>1 DEF floors
  <1>5. \A tg \in TGs : floors[n][tg] = FloorOf(n, tg) /\ f[tg] = FloorOf(n, tg)'
    BY DEF floors
  <1> HIDE DEF f
  <1>6. \A tg \in TGs : Follows(floors[n][tg], f[tg], wins)
    BY <1>3, <1>5
  <1> QED BY <1>2, <1>4, <1>6

\* Each step of a node passes the floor in one of these ways.
LEMMA KeyPasses ==
    ASSUME TalkInv, NEW n \in Nodes, NEW tg \in TGs, NEW c, NEW wins, Key(n, tg, c)
    PROVE  FloorStep(n, wins)
  BY DEF Key, TalkInv, TalkTypeOK, FloorStep, SameTalkers, Passes, IsFree

LEMMA UnkeyPasses ==
    ASSUME TalkInv, NEW n \in Nodes, NEW tg \in TGs, NEW wins, Unkey(n, tg)
    PROVE  FloorStep(n, wins)
  BY DEF Unkey, TalkInv, TalkTypeOK, OneTalkerPerNode, FloorStep, SameTalkers,
         Passes, IsFree

LEMMA UnchangedPasses ==
    ASSUME UNCHANGED <<talker, trunkTalker>>, NEW n \in Nodes, NEW wins
    PROVE  FloorStep(n, wins)
  BY DEF FloorStep, SameTalkers, Passes

LEMMA HandlePasses ==
    ASSUME TalkInv, NEW n \in Nodes, NEW m \in TalkMsgs, NEW wins,
           Handle(n, m, wins)
    PROVE  FloorStep(n, wins)
  <1>1. m.tg \in TGs
    BY DEF TalkMsgs
  <1>2. CASE AcceptStart(n, m, wins)
    <2>1. /\ talker[n][m.tg] # None => ~wins
          /\ talker' = [talker EXCEPT ![n][m.tg] = None]
          /\ trunkTalker' = [trunkTalker EXCEPT ![n][m.tg] = m.callsign]
      BY <1>2 DEF AcceptStart
    <2> QED BY <1>1, <2>1 DEF TalkInv, TalkTypeOK, FloorStep, SameTalkers, Passes
  <1>3. CASE HandleStop(n, m)
    <2>1. /\ UNCHANGED talker
          /\ trunkTalker' = [trunkTalker EXCEPT ![n][m.tg] = None]
      BY <1>3 DEF HandleStop
    <2> QED BY <1>1, <2>1
            DEF TalkInv, TalkTypeOK, OneTalkerPerNode, FloorStep, SameTalkers,
                Passes, IsFree
  <1>4. CASE UNCHANGED talkState
    BY <1>4, UnchangedPasses DEF talkState
  <1> QED BY <1>2, <1>3, <1>4 DEF Handle, IgnoreStart
=============================================================================
