--------------------------- MODULE TrunkLinkProofs ---------------------------
(***************************************************************************)
(* Proofs about TrunkLink: what OneTalkerPerNode, AudioGateMatchesTalker   *)
(* and YieldedMeansHeld say of the nodes survives every failure, restart   *)
(* and reordering of the two connections, for any number of them; on an    *)
(* established trunk the two ends know each other's nonce.                 *)
(***************************************************************************)
EXTENDS TrunkLink, TrunkTalkerProofs

Inv == TypeOK /\ TalkInv

\* What is kept about the connections, the part of TypeOK that TalkInv does not
\* cover.
ConnTypeOK ==
    /\ ob \in [Nodes -> Slots \cup {None0}]
    /\ obHello \in [Nodes -> BOOLEAN]
    /\ ib \in [Nodes -> Slots \cup {None0}]
    /\ pending \in [Nodes -> SUBSET Slots]
    /\ broken \in [Nodes -> SUBSET Slots]
    /\ nonce \in [Nodes -> Nat]
    /\ peerNonce \in [Nodes -> Nat]
    /\ failures \in 0..MaxFailures

WireTypeOK ==
    /\ toAcc \in [Nodes -> [Slots -> Seq(TrunkMsgs)]]
    /\ toInit \in [Nodes -> [Slots -> Seq(TrunkMsgs)]]

LEMMA InvParts == Inv <=> TalkInv /\ ConnTypeOK /\ WireTypeOK
  BY DEF Inv, TypeOK, TalkInv, ConnTypeOK, WireTypeOK

LEMMA InvInit == Init => Inv
  <1>1. Init => TalkInv
    BY TalkInvInit DEF Init
  <1>2. Init => ConnTypeOK
    <2> SUFFICES ASSUME Init PROVE ConnTypeOK
      OBVIOUS
    <2>1. nonce \in [Nodes -> Nat] /\ peerNonce \in [Nodes -> Nat]
      BY NoncesAssumption DEF Init
    <2> QED BY <2>1, BoundsAssumption DEF Init, ConnTypeOK
  <1>3. Init => WireTypeOK
    BY DEF Init, WireTypeOK
  <1> QED BY <1>1, <1>2, <1>3, InvParts

-----------------------------------------------------------------------------
(* Sequences of messages.                                                  *)

LEMMA TalkMsgsTravel == ASSUME NEW q \in Seq(TalkMsgs) PROVE q \in Seq(TrunkMsgs)
  BY DEF TrunkMsgs

LEMMA HelloTravels ==
    ASSUME NEW x \in Nat
    PROVE  Hello(x) \in TrunkMsgs /\ <<Hello(x)>> \in Seq(TrunkMsgs)
  BY DEF TrunkMsgs

\* The nonce of a hello is one; other messages have none.
LEMMA HelloNonce ==
    ASSUME NEW m \in TrunkMsgs, m.type = "Hello"
    PROVE  m.nonce \in Nat
  BY DEF TrunkMsgs, TalkMsgs, Hello

LEMMA TailType ==
    ASSUME NEW q \in Seq(TrunkMsgs), q # <<>>
    PROVE  Head(q) \in TrunkMsgs /\ Tail(q) \in Seq(TrunkMsgs)
  BY HeadTailProperties

\* Replacing one connection's queue keeps the type.
LEMMA AccQueueType ==
    ASSUME WireTypeOK, NEW n \in Nodes, NEW k \in Slots, NEW q \in Seq(TrunkMsgs),
           toAcc' = [toAcc EXCEPT ![n][k] = q]
    PROVE  toAcc' \in [Nodes -> [Slots -> Seq(TrunkMsgs)]]
  BY DEF WireTypeOK

LEMMA InitQueueType ==
    ASSUME WireTypeOK, NEW n \in Nodes, NEW k \in Slots, NEW q \in Seq(TrunkMsgs),
           toInit' = [toInit EXCEPT ![n][k] = q]
    PROVE  toInit' \in [Nodes -> [Slots -> Seq(TrunkMsgs)]]
  BY DEF WireTypeOK

LEMMA EmptyType == <<>> \in Seq(TrunkMsgs)
  OBVIOUS

LEMMA SendToAccType ==
    ASSUME WireTypeOK, NEW n \in Nodes, NEW k \in Slots,
           NEW msgs \in Seq(TrunkMsgs), SendToAcc(n, k, msgs)
    PROVE  toAcc' \in [Nodes -> [Slots -> Seq(TrunkMsgs)]]
  <1> DEFINE q == toAcc[n][k] \o msgs
  <1>1. q \in Seq(TrunkMsgs)
    BY ConcatProperties DEF WireTypeOK
  <1>2. UNCHANGED toAcc \/ toAcc' = [toAcc EXCEPT ![n][k] = q]
    BY DEF SendToAcc
  <1> HIDE DEF q
  <1> QED BY <1>1, <1>2, AccQueueType DEF WireTypeOK

LEMMA SendToInitType ==
    ASSUME WireTypeOK, NEW n \in Nodes, NEW k \in Slots,
           NEW msgs \in Seq(TrunkMsgs), SendToInit(n, k, msgs)
    PROVE  toInit' \in [Nodes -> [Slots -> Seq(TrunkMsgs)]]
  <1> DEFINE q == toInit[n][k] \o msgs
  <1>1. q \in Seq(TrunkMsgs)
    BY ConcatProperties DEF WireTypeOK
  <1>2. UNCHANGED toInit \/ toInit' = [toInit EXCEPT ![n][k] = q]
    BY DEF SendToInit
  <1> HIDE DEF q
  <1> QED BY <1>1, <1>2, InitQueueType DEF WireTypeOK

LEMMA SendMsgType ==
    ASSUME WireTypeOK, ConnTypeOK, NEW n \in Nodes, NEW msgs \in Seq(TalkMsgs),
           SendMsg(n, msgs)
    PROVE  WireTypeOK'
  <1>1. msgs \in Seq(TrunkMsgs)
    BY TalkMsgsTravel
  <1>2. CASE IsOutboundReady(n)
    <2>1. ob[n] \in Slots /\ SendToAcc(n, ob[n], msgs) /\ UNCHANGED toInit
      BY <1>2 DEF SendMsg, IsOutboundReady, ConnTypeOK
    <2> QED BY <1>1, <2>1, SendToAccType DEF WireTypeOK
  <1>3. CASE ~IsOutboundReady(n) /\ IsInboundReady(n)
    <2>1. ib[n] \in Slots /\ SendToInit(Peer(n), ib[n], msgs) /\ UNCHANGED toAcc
      BY <1>3 DEF SendMsg, IsInboundReady, ConnTypeOK
    <2> QED BY <1>1, <2>1, SendToInitType, PeerType DEF WireTypeOK
  <1>4. CASE ~IsOutboundReady(n) /\ ~IsInboundReady(n)
    BY <1>4 DEF SendMsg, WireTypeOK
  <1> QED BY <1>2, <1>3, <1>4

\* Handle takes talk messages only.
LEMMA HandleTrunkMsg ==
    ASSUME TalkInv, NEW n \in Nodes, NEW m \in TrunkMsgs, NEW wins,
           Handle(n, m, wins)
    PROVE  TalkInv'
  <1>1. m \in TalkMsgs
    BY DEF Handle, TrunkMsgs, Hello
  <1> QED BY <1>1, HandleKeeps

-----------------------------------------------------------------------------
(* One lemma per group of actions.                                         *)

LEMMA ClientStepKeeps ==
    ASSUME TalkInv, ConnTypeOK, WireTypeOK, NEW n \in Nodes, ClientStep(n)
    PROVE  Inv'
  <1>1. ASSUME NEW tg \in TGs, NEW c \in Callsigns[n], ClientKeys(n, tg, c)
        PROVE  Inv'
    <2>1. c \in AllCallsigns
      BY CallsignType
    <2>2. <<TalkerStart(tg, c)>> \in Seq(TalkMsgs)
      BY <2>1 DEF TalkerStart, TalkMsgs
    <2>3. WireTypeOK'
      BY <1>1, <2>2, SendMsgType DEF ClientKeys
    <2>4. TalkInv' /\ ConnTypeOK'
      BY <1>1, <2>1, KeyKeeps DEF ClientKeys, conns, nonces, ConnTypeOK
    <2> QED BY <2>3, <2>4, InvParts, PTL
  <1>2. ASSUME NEW tg \in TGs, ClientStops(n, tg) PROVE Inv'
    <2>1. talker[n][tg] \in AllCallsigns
      BY <1>2 DEF ClientStops, Unkey, TalkInv, TalkTypeOK
    <2>2. StopMsgs(n, tg) \in Seq(TalkMsgs)
      BY <2>1, MessageTypes
    <2>3. WireTypeOK'
      BY <1>2, <2>2, SendMsgType DEF ClientStops
    <2>4. TalkInv' /\ ConnTypeOK'
      BY <1>2, UnkeyKeeps DEF ClientStops, conns, nonces, ConnTypeOK
    <2> QED BY <2>3, <2>4, InvParts, PTL
  <1> QED BY <1>1, <1>2 DEF ClientStep

LEMMA ReceiveKeeps ==
    ASSUME TalkInv, ConnTypeOK, WireTypeOK, NEW n \in Nodes,
           ReceiveOutbound(n) \/ ReceiveInbound(n)
    PROVE  Inv'
  <1>1. CASE ReceiveOutbound(n)
    <2> DEFINE k == ob[n]
               m == Head(toInit[n][k])
               rest == Tail(toInit[n][k])
    <2>1. k \in Slots /\ toInit[n][k] \in Seq(TrunkMsgs) /\ toInit[n][k] # <<>>
      BY <1>1 DEF ReceiveOutbound, ConnTypeOK, WireTypeOK
    <2>2. m \in TrunkMsgs /\ rest \in Seq(TrunkMsgs)
      BY <2>1, TailType
    <2>3. /\ UNCHANGED talkState \/ Handle(n, m, Wins(n))
          /\ \/ m.type = "Hello" /\ peerNonce' = [peerNonce EXCEPT ![n] = m.nonce]
             \/ UNCHANGED peerNonce
          /\ obHello' = [obHello EXCEPT ![n] = @ \/ m.type = "Hello"]
          /\ toInit' = [toInit EXCEPT ![n][k] = rest]
          /\ UNCHANGED <<ob, ib, pending, toAcc, broken, nonce, failures>>
      BY <1>1 DEF ReceiveOutbound, LearnNonce
    <2> HIDE DEF k, m, rest
    <2>4. TalkInv'
      BY <2>2, <2>3, HandleTrunkMsg, UnchangedKeeps
    <2>5. ConnTypeOK'
      BY <2>2, <2>3, HelloNonce DEF ConnTypeOK
    <2>6. WireTypeOK'
      BY <2>1, <2>2, <2>3, InitQueueType DEF WireTypeOK
    <2> QED BY <2>4, <2>5, <2>6, InvParts, PTL
  <1>2. CASE ReceiveInbound(n)
    <2> DEFINE p == Peer(n)
               k == ib[n]
               rest == Tail(toAcc[p][k])
    <2>1. /\ p \in Nodes /\ k \in Slots
          /\ toAcc[p][k] \in Seq(TrunkMsgs) /\ toAcc[p][k] # <<>>
      BY <1>2, PeerType DEF ReceiveInbound, ConnTypeOK, WireTypeOK
    <2>2. Head(toAcc[p][k]) \in TrunkMsgs /\ rest \in Seq(TrunkMsgs)
      BY <2>1, TailType
    <2>3. TalkInv'
      BY <1>2, <2>2, HandleTrunkMsg DEF ReceiveInbound
    <2>4. ConnTypeOK'
      BY <1>2 DEF ReceiveInbound, conns, nonces, ConnTypeOK
    <2>5. toAcc' = [toAcc EXCEPT ![p][k] = rest] /\ UNCHANGED toInit
      BY <1>2 DEF ReceiveInbound
    <2> HIDE DEF p, k, rest
    <2>6. WireTypeOK'
      BY <2>1, <2>2, <2>5, AccQueueType DEF WireTypeOK
    <2> QED BY <2>3, <2>4, <2>6, InvParts, PTL
  <1> QED BY <1>1, <1>2

LEMMA OutboundKeeps ==
    ASSUME TalkInv, ConnTypeOK, WireTypeOK, NEW n \in Nodes,
           \/ \E k \in Slots : Connect(n, k)
           \/ OnDisconnected(n)
           \/ OutboundTimeout(n)
    PROVE  Inv'
  <1>1. ASSUME NEW k \in Slots, Connect(n, k) PROVE Inv'
    <2>1. TalkInv'
      BY <1>1, UnchangedKeeps DEF Connect
    <2>2. ConnTypeOK'
      BY <1>1, PeerType DEF Connect, nonces, ConnTypeOK
    <2>3. WireTypeOK'
      BY <1>1, HelloTravels, EmptyType, AccQueueType, InitQueueType
         DEF Connect, WireTypeOK, ConnTypeOK
    <2> QED BY <2>1, <2>2, <2>3, InvParts, PTL
  <1>2. ASSUME OnDisconnected(n) \/ OutboundTimeout(n) PROVE Inv'
    <2> DEFINE k == ob[n]
    <2>1. k \in Slots
      BY <1>2 DEF OnDisconnected, OutboundTimeout, ConnTypeOK
    <2>2. TalkInv'
      BY <1>2, UnchangedKeeps DEF OnDisconnected, OutboundTimeout
    <2>3. ConnTypeOK'
      BY <1>2 DEF OnDisconnected, OutboundTimeout, nonces, ConnTypeOK
    <2>4. toInit' = [toInit EXCEPT ![n][k] = <<>>] /\ UNCHANGED toAcc
      BY <1>2 DEF OnDisconnected, OutboundTimeout
    <2> HIDE DEF k
    <2>5. WireTypeOK'
      BY <2>1, <2>4, EmptyType, InitQueueType DEF WireTypeOK
    <2> QED BY <2>2, <2>3, <2>5, InvParts, PTL
  <1> QED BY <1>1, <1>2

LEMMA AcceptKeeps ==
    ASSUME TalkInv, ConnTypeOK, WireTypeOK, NEW n \in Nodes, NEW k \in Slots,
           AcceptInboundConnection(n, k)
    PROVE  Inv'
  <1> DEFINE p == Peer(n)
             rest == Tail(toAcc[p][k])
  <1>1. p \in Nodes /\ toAcc[p][k] \in Seq(TrunkMsgs) /\ toAcc[p][k] # <<>>
    BY PeerType DEF AcceptInboundConnection, WireTypeOK
  <1>2. rest \in Seq(TrunkMsgs)
    BY <1>1, TailType
  <1>m. Head(toAcc[p][k]) \in TrunkMsgs /\ Head(toAcc[p][k]).type = "Hello"
    BY <1>1, TailType DEF AcceptInboundConnection
  <1>3. ConnTypeOK'
    <2>1. peerNonce' \in [Nodes -> Nat]
      BY <1>m, HelloNonce DEF AcceptInboundConnection, LearnNonce, ConnTypeOK
    <2> QED BY <2>1 DEF AcceptInboundConnection, ConnTypeOK
  <1>4. CASE ib[n] # None0
    <2>1. UNCHANGED talkState /\ toAcc' = [toAcc EXCEPT ![p][k] = <<>>]
          /\ UNCHANGED toInit
      BY <1>4 DEF AcceptInboundConnection, talkState
    <2> HIDE DEF p, rest
    <2>2. WireTypeOK'
      BY <1>1, <2>1, EmptyType, AccQueueType DEF WireTypeOK
    <2>3. TalkInv'
      BY <2>1, UnchangedKeeps
    <2> QED BY <1>3, <2>2, <2>3, InvParts, PTL
  <1>5. CASE ib[n] = None0
    <2>1. /\ yielded' = [yielded EXCEPT ![n] = {}]
          /\ UNCHANGED <<talker, trunkTalker, peerActive>>
          /\ toAcc' = [toAcc EXCEPT ![p][k] = rest]
          /\ SendToInit(p, k, <<Hello(nonce[n])>>)
          /\ nonce[n] \in Nat
      BY <1>5 DEF AcceptInboundConnection, ConnTypeOK
    <2> HIDE DEF p, rest
    <2>2. WireTypeOK'
      BY <1>1, <1>2, <2>1, HelloTravels, AccQueueType, SendToInitType DEF WireTypeOK
    <2>3. TalkInv'
      BY <2>1 DEF TalkInv, TalkTypeOK, OneTalkerPerNode, AudioGateMatchesTalker,
                  YieldedMeansHeld
    <2> QED BY <1>3, <2>2, <2>3, InvParts, PTL
  <1> QED BY <1>4, <1>5

\* A connection's end that is seen by the node that accepted it.
LEMMA InboundLossKeeps ==
    ASSUME TalkInv, ConnTypeOK, WireTypeOK, NEW n \in Nodes,
           \/ \E k \in Slots : PendingLost(n, k)
           \/ OnInboundDisconnected(n)
    PROVE  Inv'
  <1> DEFINE p == Peer(n)
  <1>1. p \in Nodes
    BY PeerType
  <1>2. ASSUME NEW k \in Slots, PendingLost(n, k) PROVE Inv'
    <2>1. toAcc' = [toAcc EXCEPT ![p][k] = <<>>] /\ UNCHANGED <<talkState, toInit>>
      BY <1>2 DEF PendingLost
    <2>2. ConnTypeOK'
      BY <1>2 DEF PendingLost, nonces, ConnTypeOK
    <2> HIDE DEF p
    <2>3. WireTypeOK' /\ TalkInv'
      BY <1>1, <2>1, EmptyType, AccQueueType, UnchangedKeeps DEF WireTypeOK
    <2> QED BY <2>2, <2>3, InvParts, PTL
  <1>3. ASSUME OnInboundDisconnected(n) PROVE Inv'
    <2> DEFINE k == ib[n]
    <2>1. k \in Slots
      BY <1>3 DEF OnInboundDisconnected, ConnTypeOK
    <2>2. /\ toAcc' = [toAcc EXCEPT ![p][k] = <<>>] /\ UNCHANGED toInit
          /\ ClearPeerTalkerState(n)
      BY <1>3 DEF OnInboundDisconnected
    <2>3. ConnTypeOK'
      BY <1>3 DEF OnInboundDisconnected, nonces, ConnTypeOK
    <2> HIDE DEF p, k
    <2>4. WireTypeOK'
      BY <1>1, <2>1, <2>2, EmptyType, AccQueueType DEF WireTypeOK
    <2>5. TalkInv'
      <3>1. TalkTypeOK'
        BY <2>2 DEF ClearPeerTalkerState, TalkInv, TalkTypeOK
      <3>2. OneTalkerPerNode'
        BY <2>2 DEF ClearPeerTalkerState, TalkInv, TalkTypeOK, OneTalkerPerNode
      <3>3. AudioGateMatchesTalker' /\ YieldedMeansHeld'
        BY <2>2 DEF ClearPeerTalkerState, TalkInv, TalkTypeOK,
                    AudioGateMatchesTalker, YieldedMeansHeld
      <3> QED BY <3>1, <3>2, <3>3 DEF TalkInv
    <2> QED BY <2>3, <2>4, <2>5, InvParts, PTL
  <1> QED BY <1>2, <1>3

LEMMA FailureKeeps ==
    ASSUME TalkInv, ConnTypeOK, WireTypeOK, NEW n \in Nodes, Failure(n)
    PROVE  Inv'
  <1>1. ASSUME NEW k \in Slots, ConnectionFails(n, k) PROVE Inv'
    <2>1. TalkInv'
      BY <1>1, UnchangedKeeps DEF ConnectionFails
    <2>2. ConnTypeOK'
      BY <1>1, BoundsAssumption DEF ConnectionFails, conns, nonces, ConnTypeOK
    <2>3. WireTypeOK'
      BY <1>1, EmptyType, AccQueueType, InitQueueType DEF ConnectionFails, WireTypeOK
    <2> QED BY <2>1, <2>2, <2>3, InvParts, PTL
  <1>2. ASSUME Restart(n) PROVE Inv'
    <2>1. TalkInv'
      <3>1. TalkTypeOK'
        BY <1>2 DEF Restart, TalkInv, TalkTypeOK
      <3>2. OneTalkerPerNode' /\ AudioGateMatchesTalker' /\ YieldedMeansHeld'
        BY <1>2 DEF Restart, TalkInv, TalkTypeOK, OneTalkerPerNode,
                    AudioGateMatchesTalker, YieldedMeansHeld
      <3> QED BY <3>1, <3>2 DEF TalkInv
    <2>2. ConnTypeOK'
      BY <1>2, BoundsAssumption, NoncesAssumption DEF Restart, ConnTypeOK
    <2>3. WireTypeOK'
      BY <1>2, EmptyType, PeerType DEF Restart, WireTypeOK
    <2> QED BY <2>1, <2>2, <2>3, InvParts, PTL
  <1> QED BY <1>1, <1>2 DEF Failure

LEMMA InvNext == Inv /\ [Next]_vars => Inv'
  <1> SUFFICES ASSUME Inv, [Next]_vars PROVE Inv'
    OBVIOUS
  <1>1. TalkInv /\ ConnTypeOK /\ WireTypeOK
    BY InvParts
  <1>2. ASSUME UNCHANGED vars PROVE Inv'
    <2>1. TalkInv'
      BY <1>1, <1>2, UnchangedKeeps DEF vars
    <2>2. ConnTypeOK' /\ WireTypeOK'
      BY <1>1, <1>2 DEF vars, conns, wires, nonces, ConnTypeOK, WireTypeOK
    <2> QED BY <2>1, <2>2, InvParts, PTL
  <1>3. ASSUME NEW n \in Nodes, LinkStep(n) PROVE Inv'
    BY <1>1, <1>3, OutboundKeeps, ReceiveKeeps, AcceptKeeps, InboundLossKeeps
       DEF LinkStep
  <1> QED BY <1>1, <1>2, <1>3, ClientStepKeeps, FailureKeeps DEF Next

LEMMA InvHolds == Spec => []Inv
  BY InvInit, InvNext, PTL DEF Spec

\* Every variable keeps its type: a connection a node uses is one of its slots.
THEOREM TypeCorrect == Spec => []TypeOK
  BY InvHolds, PTL DEF Inv

\* A reflector never has a local and a remote talker on a talk group, however
\* its connections fail.
THEOREM OneTalker == Spec => []OneTalkerPerNode
  BY InvHolds, PTL DEF Inv, TalkInv

\* The peer's audio is played exactly where its talker is announced, and a TG is
\* yielded only to a remote talker that holds it, also when the link is lost with
\* talkers on it or between a claim and its stop.
THEOREM RecordsAgree == Spec => []TalkerRecordsAgree
  BY InvHolds, PTL DEF Inv, TalkInv, TalkerRecordsAgree

-----------------------------------------------------------------------------
(* What each end knows of the other's nonce. Hellos of a process that is gone *)
(* may still be read, and the nonce they carry taken; what is shown is that   *)
(* they do not come by the connections both ends use now.                     *)

\* Every hello in the queue q carries the nonce x.
Says(q, x) == \A i \in 1..Len(q) : q[i].type = "Hello" => q[i].nonce = x

LEMMA SaysParts ==
    ASSUME NEW q \in Seq(TrunkMsgs), NEW x, Says(q, x)
    PROVE  /\ q # <<>> /\ Head(q).type = "Hello" => Head(q).nonce = x
           /\ q # <<>> => Says(Tail(q), x)
           /\ \A msgs \in Seq(TalkMsgs) : Says(q \o msgs, x)
  <1>1. q # <<>> /\ Head(q).type = "Hello" => Head(q).nonce = x
    BY DEF Says
  <1>2. ASSUME q # <<>> PROVE Says(Tail(q), x)
    BY <1>2 DEF Says
  <1>3. ASSUME NEW msgs \in Seq(TalkMsgs) PROVE Says(q \o msgs, x)
    <2> SUFFICES ASSUME NEW i \in 1..Len(q \o msgs), (q \o msgs)[i].type = "Hello"
                 PROVE  (q \o msgs)[i].nonce = x
      BY DEF Says
    <2>1. CASE i <= Len(q)
      <3>1. i \in 1..Len(q) /\ (q \o msgs)[i] = q[i]
        BY <2>1
      <3> QED BY <3>1 DEF Says
    <2>2. CASE i > Len(q)
      <3>1. i - Len(q) \in 1..Len(msgs) /\ (q \o msgs)[i] = msgs[i - Len(q)]
        BY <2>2
      <3>2. msgs[i - Len(q)] \in TalkMsgs
        BY <3>1
      <3> QED BY <3>1, <3>2 DEF TalkMsgs
    <2> QED BY <2>1, <2>2
  <1> QED BY <1>1, <1>2, <1>3

LEMMA SaysHello ==
    ASSUME NEW x
    PROVE  /\ Says(<<>>, x) /\ Says(<<Hello(x)>>, x)
           /\ Says(<<>> \o <<Hello(x)>>, x)
  BY DEF Says, Hello

\* n's connection k, if n has it open, and its peer has accepted it.
Opened(n, k) == k # None0 /\ ob[n] = k
Accepted(n, k) == Opened(n, k) /\ ib[Peer(n)] = k

\* The hellos on n's connection carry n's nonce, the answers the peer's; there
\* is no answer before it is accepted. When both connections are accepted and
\* n has read the answer, n has the peer's nonce.
HelloSent(n) == \A k \in Slots : Opened(n, k) => Says(toAcc[n][k], nonce[n])
ReplySent(n) == \A k \in Slots : Accepted(n, k) => Says(toInit[n][k], nonce[Peer(n)])
Unanswered(n) ==
    \A k \in Slots : Opened(n, k) /\ k \in pending[Peer(n)]
                       => toInit[n][k] = <<>> /\ ~obHello[n]
Apart(n) == ib[n] \notin pending[n]
Knows(n) ==
    \A k \in Slots, j \in Slots :
        Accepted(n, k) /\ Accepted(Peer(n), j) /\ obHello[n]
            => peerNonce[n] = nonce[Peer(n)]

NonceInv ==
    \A n \in Nodes :
        HelloSent(n) /\ ReplySent(n) /\ Unanswered(n) /\ Apart(n) /\ Knows(n)

LEMMA PeerPeer == \A n \in Nodes : Peer(Peer(n)) = n /\ \A k \in Nodes : k = n \/ k = Peer(n)
  BY NodesAssumption DEF Nodes, Peer

LEMMA NonceInit == Init => NonceInv
  BY SlotsAssumption, PeerType
     DEF Init, NonceInv, HelloSent, ReplySent, Unanswered, Apart, Knows, Opened,
         Accepted

LEMMA ConnectLearns ==
    ASSUME ConnTypeOK, WireTypeOK, NonceInv, NEW a \in Nodes, NEW k \in Slots,
           Connect(a, k)
    PROVE  NonceInv'
  <1> DEFINE b == Peer(a)
  <1>1. /\ b = Peer(a) /\ b \in Nodes /\ b # a /\ Peer(b) = a
        /\ \A n \in Nodes : n = a \/ n = b
    BY PeerType, PeerPeer
  <1>2. /\ ob[a] = None0 /\ k \notin pending[b] /\ ib[b] # k
        /\ ob' = [ob EXCEPT ![a] = k]
        /\ obHello' = [obHello EXCEPT ![a] = FALSE]
        /\ UNCHANGED <<ib, nonce, peerNonce>>
        /\ toAcc' = [toAcc EXCEPT ![a][k] = <<Hello(nonce[a])>>]
        /\ toInit' = [toInit EXCEPT ![a][k] = <<>>]
        /\ pending' = [pending EXCEPT ![b] = IF Cardinality(pending[b]) >= 2
                                               THEN pending[b] ELSE pending[b] \cup {k}]
    BY DEF Connect, AcceptorOpen, nonces
  <1> HIDE DEF b
  <1>3. pending'[a] = pending[a] /\ pending'[b] \subseteq pending[b] \cup {k}
    BY <1>1, <1>2 DEF ConnTypeOK
  <1>4. HelloSent(a)' /\ HelloSent(b)'
    BY <1>1, <1>2, SaysHello
       DEF NonceInv, HelloSent, Opened, ConnTypeOK, WireTypeOK
  <1>5. ReplySent(a)' /\ ReplySent(b)'
    BY <1>1, <1>2
       DEF NonceInv, ReplySent, Opened, Accepted, ConnTypeOK, WireTypeOK
  <1>6. Unanswered(a)' /\ Unanswered(b)'
    BY <1>1, <1>2, <1>3
       DEF NonceInv, Unanswered, Opened, ConnTypeOK, WireTypeOK
  <1>7. Apart(a)' /\ Apart(b)'
    BY <1>1, <1>2, <1>3 DEF NonceInv, Apart
  <1>8. Knows(a)' /\ Knows(b)'
    BY <1>1, <1>2 DEF NonceInv, Knows, Opened, Accepted, ConnTypeOK
  <1> QED BY <1>1, <1>4, <1>5, <1>6, <1>7, <1>8 DEF NonceInv

\* A connection that ends at one side or is broken has nothing left to say.
LEMMA LossLearns ==
    ASSUME ConnTypeOK, WireTypeOK, NonceInv, NEW a \in Nodes,
           \/ OnDisconnected(a) \/ OutboundTimeout(a) \/ OnInboundDisconnected(a)
           \/ \E k \in Slots : PendingLost(a, k) \/ ConnectionFails(a, k)
    PROVE  NonceInv'
  <1> DEFINE b == Peer(a)
  <1>1. /\ b = Peer(a) /\ b \in Nodes /\ b # a /\ Peer(b) = a
        /\ \A n \in Nodes : n = a \/ n = b
    BY PeerType, PeerPeer
  <1>2. /\ UNCHANGED <<nonce, peerNonce>>
        /\ \A n \in Nodes : ob'[n] \in {ob[n], None0} /\ ib'[n] \in {ib[n], None0}
        /\ \A n \in Nodes : pending'[n] \subseteq pending[n]
        /\ \A n \in Nodes : ob'[n] # None0 => obHello'[n] = obHello[n]
        /\ \A n \in Nodes, k \in Slots : toAcc'[n][k] \in {toAcc[n][k], <<>>}
        /\ \A n \in Nodes, k \in Slots : toInit'[n][k] \in {toInit[n][k], <<>>}
    <2>1. CASE OnDisconnected(a) \/ OutboundTimeout(a)
      <3>1. /\ UNCHANGED <<nonce, peerNonce, ib, pending, toAcc>>
            /\ ob' = [ob EXCEPT ![a] = None0] /\ ob[a] \in Slots
            /\ toInit' = [toInit EXCEPT ![a][ob[a]] = <<>>]
            /\ UNCHANGED obHello \/ obHello' = [obHello EXCEPT ![a] = FALSE]
        BY <2>1 DEF OnDisconnected, OutboundTimeout, ConnTypeOK, nonces
      <3>2. \A n \in Nodes, k \in Slots : toInit'[n][k] \in {toInit[n][k], <<>>}
        BY <3>1 DEF WireTypeOK
      <3> QED BY <3>1, <3>2 DEF ConnTypeOK
    <2>2. CASE OnInboundDisconnected(a)
      BY <2>2, <1>1 DEF OnInboundDisconnected, ConnTypeOK, WireTypeOK, nonces
    <2>3. ASSUME NEW i \in Slots, PendingLost(a, i)
          PROVE  /\ UNCHANGED <<nonce, peerNonce, ob, ib, obHello, toInit>>
                 /\ \A n \in Nodes : pending'[n] \subseteq pending[n]
                 /\ \A n \in Nodes, k \in Slots : toAcc'[n][k] \in {toAcc[n][k], <<>>}
      BY <2>3, <1>1 DEF PendingLost, ConnTypeOK, WireTypeOK, nonces
    <2>4. ASSUME NEW i \in Slots, ConnectionFails(a, i)
          PROVE  /\ UNCHANGED <<nonce, peerNonce, ob, ib, obHello, pending>>
                 /\ \A n \in Nodes, k \in Slots : toAcc'[n][k] \in {toAcc[n][k], <<>>}
                 /\ \A n \in Nodes, k \in Slots : toInit'[n][k] \in {toInit[n][k], <<>>}
      BY <2>4 DEF ConnectionFails, WireTypeOK, nonces, conns
    <2> QED BY <2>1, <2>2, <2>3, <2>4
  <1> HIDE DEF b
  <1>3. ASSUME NEW n \in Nodes
        PROVE  HelloSent(n)' /\ ReplySent(n)' /\ Unanswered(n)' /\ Apart(n)' /\ Knows(n)'
    <2>1. Peer(n) \in Nodes /\ Peer(n) # n
      BY PeerType
    <2>2. HelloSent(n)'
      BY <1>2, SaysHello DEF NonceInv, HelloSent, Opened
    <2>3. ReplySent(n)'
      BY <1>2, <2>1, SaysHello DEF NonceInv, ReplySent, Opened, Accepted
    <2>4. Unanswered(n)'
      BY <1>2, <2>1 DEF NonceInv, Unanswered, Opened
    <2>5. Apart(n)'
      BY <1>2, SlotsAssumption DEF NonceInv, Apart, ConnTypeOK
    <2>6. Knows(n)'
      BY <1>2, <2>1, PeerPeer DEF NonceInv, Knows, Opened, Accepted
    <2> QED BY <2>2, <2>3, <2>4, <2>5, <2>6
  <1> QED BY <1>3 DEF NonceInv

\* A new process has no connection, and its peer's connections have not been
\* accepted by it.
LEMMA RestartLearns ==
    ASSUME ConnTypeOK, WireTypeOK, NonceInv, NEW a \in Nodes, Restart(a)
    PROVE  NonceInv'
  <1> DEFINE b == Peer(a)
  <1>1. /\ b = Peer(a) /\ b \in Nodes /\ b # a /\ Peer(b) = a
        /\ \A n \in Nodes : n = a \/ n = b
    BY PeerType, PeerPeer
  <1>2. /\ ob'[a] = None0 /\ ib'[a] = None0 /\ pending'[a] = {}
        /\ ob'[b] = ob[b] /\ ib'[b] = ib[b] /\ pending'[b] = pending[b]
        /\ obHello'[b] = obHello[b]
        /\ nonce'[b] = nonce[b]
        /\ \A k \in Slots : toAcc'[b][k] = <<>> /\ toInit'[b][k] = toInit[b][k]
    BY <1>1 DEF Restart, ConnTypeOK, WireTypeOK
  <1> HIDE DEF b
  <1>3. HelloSent(a)' /\ HelloSent(b)'
    BY <1>1, <1>2, SaysHello DEF NonceInv, HelloSent, Opened
  <1>4. ReplySent(a)' /\ ReplySent(b)'
    BY <1>1, <1>2, SlotsAssumption DEF NonceInv, ReplySent, Opened, Accepted
  <1>5. Unanswered(a)' /\ Unanswered(b)'
    BY <1>1, <1>2 DEF NonceInv, Unanswered, Opened
  <1>6. Apart(a)' /\ Apart(b)'
    BY <1>1, <1>2 DEF NonceInv, Apart
  <1>7. Knows(a)' /\ Knows(b)'
    BY <1>1, <1>2, SlotsAssumption DEF NonceInv, Knows, Opened, Accepted
  <1> QED BY <1>1, <1>3, <1>4, <1>5, <1>6, <1>7 DEF NonceInv

\* Messages about talkers are no hellos, and none is sent on a connection before
\* it is accepted.
LEMMA SendLearns ==
    ASSUME ConnTypeOK, WireTypeOK, NonceInv, NEW a \in Nodes,
           NEW msgs \in Seq(TalkMsgs), SendMsg(a, msgs), UNCHANGED <<conns, nonces>>
    PROVE  NonceInv'
  <1> DEFINE b == Peer(a)
  <1>1. /\ b = Peer(a) /\ b \in Nodes /\ b # a /\ Peer(b) = a
        /\ \A n \in Nodes : n = a \/ n = b
    BY PeerType, PeerPeer
  <1>2. UNCHANGED <<ob, ib, pending, obHello, nonce, peerNonce>>
    BY DEF conns, nonces
  <1> HIDE DEF b
  <1>3. /\ \A n \in Nodes, k \in Slots :
              toAcc'[n][k] \in {toAcc[n][k], toAcc[n][k] \o msgs}
        /\ \A n \in Nodes, k \in Slots :
              \/ toInit'[n][k] = toInit[n][k]
              \/ /\ n = b /\ k = ib[a]
                 /\ toInit'[n][k] = toInit[n][k] \o msgs
    <2>1. CASE IsOutboundReady(a)
      <3>1. /\ ob[a] \in Slots /\ UNCHANGED toInit
            /\ \/ UNCHANGED toAcc
               \/ toAcc' = [toAcc EXCEPT ![a][ob[a]] = toAcc[a][ob[a]] \o msgs]
        BY <2>1 DEF SendMsg, IsOutboundReady, SendToAcc, ConnTypeOK
      <3>2. CASE UNCHANGED toAcc
        BY <3>1, <3>2
      <3>3. CASE toAcc' = [toAcc EXCEPT ![a][ob[a]] = toAcc[a][ob[a]] \o msgs]
        <4> DEFINE longer == toAcc[a][ob[a]] \o msgs
        <4>1. toAcc' = [toAcc EXCEPT ![a][ob[a]] = longer]
          BY <3>3
        <4>2. longer = toAcc[a][ob[a]] \o msgs
          OBVIOUS
        <4> HIDE DEF longer
        <4> QED BY <3>1, <4>1, <4>2 DEF WireTypeOK
      <3> QED BY <3>1, <3>2, <3>3
    <2>2. CASE ~IsOutboundReady(a) /\ IsInboundReady(a)
      <3>1. /\ ib[a] \in Slots /\ UNCHANGED toAcc
            /\ \/ UNCHANGED toInit
               \/ toInit' = [toInit EXCEPT ![b][ib[a]] = toInit[b][ib[a]] \o msgs]
        BY <2>2, <1>1 DEF SendMsg, IsInboundReady, SendToInit, ConnTypeOK
      <3>2. CASE UNCHANGED toInit
        BY <3>1, <3>2
      <3>3. CASE toInit' = [toInit EXCEPT ![b][ib[a]] = toInit[b][ib[a]] \o msgs]
        <4>1. /\ toInit'[b][ib[a]] = toInit[b][ib[a]] \o msgs
              /\ \A n \in Nodes, k \in Slots :
                    n # b \/ k # ib[a] => toInit'[n][k] = toInit[n][k]
          BY <3>1, <3>3, <1>1 DEF WireTypeOK
        <4> QED BY <3>1, <4>1
      <3> QED BY <3>1, <3>2, <3>3
    <2>3. CASE ~IsOutboundReady(a) /\ ~IsInboundReady(a)
      BY <2>3 DEF SendMsg
    <2> QED BY <2>1, <2>2, <2>3
  <1>4. ASSUME NEW n \in Nodes
        PROVE  HelloSent(n)' /\ ReplySent(n)' /\ Unanswered(n)' /\ Apart(n)' /\ Knows(n)'
    <2>1. Peer(n) \in Nodes /\ Peer(n) # n
      BY PeerType
    <2>q. \A k \in Slots : toAcc[n][k] \in Seq(TrunkMsgs) /\ toInit[n][k] \in Seq(TrunkMsgs)
      BY DEF WireTypeOK
    <2>a. ASSUME NEW k \in Slots, Says(toAcc[n][k], nonce[n])
          PROVE  Says(toAcc'[n][k], nonce[n])
      <3>1. Says(toAcc[n][k] \o msgs, nonce[n])
        BY <2>q, <2>a, SaysParts
      <3>2. toAcc'[n][k] = toAcc[n][k] \/ toAcc'[n][k] = toAcc[n][k] \o msgs
        BY <1>3
      <3> QED BY <2>a, <3>1, <3>2
    <2>i. ASSUME NEW k \in Slots, Says(toInit[n][k], nonce[Peer(n)])
          PROVE  Says(toInit'[n][k], nonce[Peer(n)])
      <3>1. Says(toInit[n][k] \o msgs, nonce[Peer(n)])
        BY <2>q, <2>i, SaysParts
      <3>2. toInit'[n][k] = toInit[n][k] \/ toInit'[n][k] = toInit[n][k] \o msgs
        BY <1>3
      <3> QED BY <2>i, <3>1, <3>2
    <2>2. HelloSent(n)'
      BY <1>2, <2>a DEF NonceInv, HelloSent, Opened
    <2>3. ReplySent(n)'
      BY <1>2, <2>1, <2>i DEF NonceInv, ReplySent, Opened, Accepted
    <2>4. Unanswered(n)'
      BY <1>1, <1>2, <1>3, <2>1 DEF NonceInv, Unanswered, Opened, Apart
    <2>5. Apart(n)' /\ Knows(n)'
      BY <1>2 DEF NonceInv, Apart, Knows, Opened, Accepted
    <2> QED BY <2>2, <2>3, <2>4, <2>5
  <1> QED BY <1>4 DEF NonceInv

\* Reading on the inbound connection takes no nonce.
LEMMA ReadInboundLearns ==
    ASSUME ConnTypeOK, WireTypeOK, NonceInv, NEW a \in Nodes, ReceiveInbound(a)
    PROVE  NonceInv'
  <1>1. Peer(a) \in Nodes /\ ib[a] \in Slots
    BY PeerType DEF ReceiveInbound, ConnTypeOK
  <1>2. /\ UNCHANGED <<ob, ib, pending, obHello, nonce, peerNonce, toInit>>
        /\ toAcc[Peer(a)][ib[a]] # <<>>
        /\ toAcc' = [toAcc EXCEPT ![Peer(a)][ib[a]] = Tail(toAcc[Peer(a)][ib[a]])]
    BY DEF ReceiveInbound, conns, nonces
  <1>3. \A n \in Nodes, k \in Slots :
           \/ toAcc'[n][k] = toAcc[n][k]
           \/ toAcc[n][k] # <<>> /\ toAcc'[n][k] = Tail(toAcc[n][k])
    BY <1>1, <1>2 DEF WireTypeOK
  <1>4. ASSUME NEW n \in Nodes PROVE HelloSent(n)'
    <2>1. ASSUME NEW k \in Slots, Says(toAcc[n][k], nonce[n])
          PROVE  Says(toAcc'[n][k], nonce[n])
      <3>1. toAcc[n][k] \in Seq(TrunkMsgs)
        BY DEF WireTypeOK
      <3> QED BY <1>3, <2>1, <3>1, SaysParts
    <2> QED BY <1>2, <2>1 DEF NonceInv, HelloSent, Opened
  <1>5. \A n \in Nodes : ReplySent(n)' /\ Unanswered(n)' /\ Apart(n)' /\ Knows(n)'
    BY <1>2 DEF NonceInv, ReplySent, Unanswered, Apart, Knows, Opened, Accepted
  <1> QED BY <1>4, <1>5 DEF NonceInv

\* The answer read on an accepted connection is that of the present peer.
LEMMA ReadOutboundLearns ==
    ASSUME ConnTypeOK, WireTypeOK, NonceInv, NEW a \in Nodes, ReceiveOutbound(a)
    PROVE  NonceInv'
  <1> DEFINE b == Peer(a)
             j == ob[a]
             q == toInit[a][j]
  <1>1. /\ b = Peer(a) /\ b \in Nodes /\ b # a /\ Peer(b) = a
        /\ \A n \in Nodes : n = a \/ n = b
    BY PeerType, PeerPeer
  <1>2. /\ j \in Slots /\ q \in Seq(TrunkMsgs) /\ q # <<>>
        /\ toInit' = [toInit EXCEPT ![a][j] = Tail(q)]
        /\ UNCHANGED <<ob, ib, pending, nonce, toAcc>>
        /\ \/ /\ Head(q).type = "Hello"
              /\ peerNonce' = [peerNonce EXCEPT ![a] = Head(q).nonce]
           \/ /\ Head(q).type # "Hello" /\ UNCHANGED <<obHello, peerNonce>>
        /\ obHello'[b] = obHello[b]
    BY <1>1 DEF ReceiveOutbound, LearnNonce, ConnTypeOK, WireTypeOK
  <1>3. /\ toInit'[a][j] = Tail(q)
        /\ \A n \in Nodes, k \in Slots :
              n # a \/ k # j => toInit'[n][k] = toInit[n][k]
    BY <1>2 DEF WireTypeOK
  <1>4. Opened(a, j) /\ \A k \in Slots : Opened(a, k) => k = j
    BY <1>2, SlotsAssumption DEF Opened
  <1> HIDE DEF b, j
  <1>5. HelloSent(a)' /\ HelloSent(b)'
    BY <1>1, <1>2 DEF NonceInv, HelloSent, Opened
  <1>6. ReplySent(a)' /\ ReplySent(b)'
    BY <1>1, <1>2, <1>3, <1>4, SaysParts DEF NonceInv, ReplySent, Opened, Accepted
  <1>7. Unanswered(a)' /\ Unanswered(b)'
    BY <1>1, <1>2, <1>3, <1>4 DEF NonceInv, Unanswered, Opened
  <1>8. Apart(a)' /\ Apart(b)'
    BY <1>1, <1>2 DEF NonceInv, Apart
  <1>9. Knows(b)'
    <2>1. peerNonce'[b] = peerNonce[b]
      BY <1>1, <1>2 DEF ConnTypeOK
    <2> QED BY <1>1, <1>2, <2>1 DEF NonceInv, Knows, Opened, Accepted
  <1>10. Knows(a)'
    <2>1. CASE Head(q).type # "Hello"
      BY <2>1, <1>1, <1>2 DEF NonceInv, Knows, Opened, Accepted
    <2>2. CASE Head(q).type = "Hello"
      <3>1. peerNonce'[a] = Head(q).nonce
        BY <2>2, <1>2 DEF ConnTypeOK
      <3>2. Accepted(a, j) => Head(q).nonce = nonce[b]
        BY <2>2, <1>1, <1>2, <1>3, SaysParts DEF NonceInv, ReplySent, b
      <3> QED BY <1>1, <1>2, <1>4, <3>1, <3>2 DEF Knows, Opened, Accepted, b
    <2> QED BY <2>1, <2>2
  <1> QED BY <1>1, <1>5, <1>6, <1>7, <1>8, <1>9, <1>10 DEF NonceInv

\* A hello that is accepted and still belongs to the peer's connection carries
\* its nonce; the answer is the first message that goes back.
LEMMA AcceptLearns ==
    ASSUME ConnTypeOK, WireTypeOK, NonceInv, NEW a \in Nodes, NEW k \in Slots,
           AcceptInboundConnection(a, k)
    PROVE  NonceInv'
  <1> DEFINE b == Peer(a)
             q == toAcc[b][k]
  <1>1. /\ b = Peer(a) /\ b \in Nodes /\ b # a /\ Peer(b) = a
        /\ \A n \in Nodes : n = a \/ n = b
    BY PeerType, PeerPeer
  <1>2. /\ k \in pending[a] /\ q # <<>> /\ Head(q).type = "Hello"
        /\ q \in Seq(TrunkMsgs)
        /\ pending' = [pending EXCEPT ![a] = pending[a] \ {k}]
        /\ UNCHANGED <<ob, obHello, nonce>>
    BY <1>1 DEF AcceptInboundConnection, WireTypeOK
  <1>p. pending'[a] = pending[a] \ {k} /\ pending'[b] = pending[b]
    BY <1>1, <1>2 DEF ConnTypeOK
  <1>3. CASE ib[a] # None0
    <2>1. UNCHANGED <<ib, peerNonce, toInit>> /\ toAcc' = [toAcc EXCEPT ![b][k] = <<>>]
      BY <1>3 DEF AcceptInboundConnection
    <2> HIDE DEF b
    <2>2. \A n \in Nodes, i \in Slots : toAcc'[n][i] \in {toAcc[n][i], <<>>}
      BY <1>1, <2>1 DEF WireTypeOK
    <2>3. HelloSent(a)' /\ HelloSent(b)'
      BY <1>1, <1>2, <2>2, SaysHello DEF NonceInv, HelloSent, Opened
    <2>4. ReplySent(a)' /\ ReplySent(b)'
      BY <1>1, <1>2, <2>1 DEF NonceInv, ReplySent, Opened, Accepted
    <2>5. Unanswered(a)' /\ Unanswered(b)'
      BY <1>1, <1>2, <1>p, <2>1 DEF NonceInv, Unanswered, Opened
    <2>6. Apart(a)' /\ Apart(b)'
      BY <1>1, <1>p, <2>1 DEF NonceInv, Apart
    <2>7. Knows(a)' /\ Knows(b)'
      BY <1>1, <1>2, <2>1 DEF NonceInv, Knows, Opened, Accepted
    <2> QED BY <1>1, <2>3, <2>4, <2>5, <2>6, <2>7 DEF NonceInv
  <1>4. CASE ib[a] = None0
    <2>1. /\ ib' = [ib EXCEPT ![a] = k]
          /\ peerNonce' = [peerNonce EXCEPT ![a] = Head(q).nonce]
          /\ toAcc' = [toAcc EXCEPT ![b][k] = Tail(q)]
          /\ SendToInit(b, k, <<Hello(nonce[a])>>)
      BY <1>4 DEF AcceptInboundConnection, LearnNonce
    <2> HIDE DEF b
    <2>2. /\ ib'[a] = k /\ ib'[b] = ib[b]
          /\ peerNonce'[a] = Head(q).nonce /\ peerNonce'[b] = peerNonce[b]
      BY <1>1, <2>1 DEF ConnTypeOK
    <2>3. /\ toAcc'[b][k] = Tail(q)
          /\ \A n \in Nodes, i \in Slots :
                n # b \/ i # k => toAcc'[n][i] = toAcc[n][i]
      BY <1>1, <2>1 DEF WireTypeOK
    <2>4. /\ toInit'[b][k] \in {toInit[b][k], toInit[b][k] \o <<Hello(nonce[a])>>}
          /\ \A n \in Nodes, i \in Slots :
                n # b \/ i # k => toInit'[n][i] = toInit[n][i]
      BY <1>1, <2>1 DEF SendToInit, WireTypeOK
    <2>5. Opened(b, k) => toInit[b][k] = <<>> /\ ~obHello[b]
      BY <1>1, <1>2 DEF NonceInv, Unanswered
    <2>6. HelloSent(a)' /\ HelloSent(b)'
      BY <1>1, <1>2, <2>3, SaysParts DEF NonceInv, HelloSent, Opened
    <2>7. ReplySent(a)' /\ ReplySent(b)'
      <3>1. ReplySent(a)'
        BY <1>1, <1>2, <2>2, <2>4 DEF NonceInv, ReplySent, Opened, Accepted
      <3>2. Opened(b, k) => Says(toInit'[b][k], nonce[a])
        BY <2>4, <2>5, SaysHello
      <3>3. \A i \in Slots : Opened(b, i)' /\ ib'[a] = i => i = k /\ Opened(b, k)
        BY <1>2, <2>2 DEF Opened
      <3>4. ReplySent(b)'
        BY <1>1, <1>2, <3>2, <3>3 DEF ReplySent, Accepted
      <3> QED BY <3>1, <3>4
    <2>8. Unanswered(a)' /\ Unanswered(b)'
      BY <1>1, <1>2, <1>p, <2>4 DEF NonceInv, Unanswered, Opened
    <2>9. Apart(a)' /\ Apart(b)'
      BY <1>1, <1>p, <2>2 DEF NonceInv, Apart
    <2>10. Opened(b, k) => Head(q).nonce = nonce[b]
      BY <1>1, <1>2, SaysParts DEF NonceInv, HelloSent
    <2>11. Knows(a)' /\ Knows(b)'
      BY <1>1, <1>2, <2>2, <2>5, <2>10 DEF NonceInv, Knows, Opened, Accepted
    <2> QED BY <1>1, <2>6, <2>7, <2>8, <2>9, <2>11 DEF NonceInv
  <1> QED BY <1>3, <1>4

LEMMA NonceNext == Inv /\ NonceInv /\ [Next]_vars => NonceInv'
  <1> SUFFICES ASSUME Inv, NonceInv, [Next]_vars PROVE NonceInv'
    OBVIOUS
  <1>1. TalkInv /\ ConnTypeOK /\ WireTypeOK
    BY InvParts
  <1>2. ASSUME UNCHANGED vars PROVE NonceInv'
    BY <1>2 DEF vars, conns, wires, nonces, NonceInv, HelloSent, ReplySent,
                Unanswered, Apart, Knows, Opened, Accepted
  <1>3. ASSUME NEW n \in Nodes, ClientStep(n) PROVE NonceInv'
    <2>1. ASSUME NEW tg \in TGs, NEW c \in Callsigns[n], ClientKeys(n, tg, c)
          PROVE  NonceInv'
      <3>1. <<TalkerStart(tg, c)>> \in Seq(TalkMsgs)
        BY CallsignType DEF TalkerStart, TalkMsgs
      <3> QED BY <1>1, <2>1, <3>1, SendLearns DEF ClientKeys
    <2>2. ASSUME NEW tg \in TGs, ClientStops(n, tg) PROVE NonceInv'
      <3>1. talker[n][tg] \in AllCallsigns
        BY <1>1, <2>2 DEF ClientStops, Unkey, TalkInv, TalkTypeOK
      <3>2. StopMsgs(n, tg) \in Seq(TalkMsgs)
        BY <3>1, MessageTypes
      <3> QED BY <1>1, <2>2, <3>2, SendLearns DEF ClientStops
    <2> QED BY <1>3, <2>1, <2>2 DEF ClientStep
  <1>4. ASSUME NEW n \in Nodes, LinkStep(n) PROVE NonceInv'
    BY <1>1, <1>4, ConnectLearns, LossLearns, ReadOutboundLearns, AcceptLearns,
       ReadInboundLearns DEF LinkStep
  <1>5. ASSUME NEW n \in Nodes, Failure(n) PROVE NonceInv'
    BY <1>1, <1>5, LossLearns, RestartLearns DEF Failure
  <1> QED BY <1>2, <1>3, <1>4, <1>5 DEF Next

\* On an established trunk each end holds the other's present nonce, however
\* often the two were restarted and whatever of the old processes was read since.
THEOREM NoncesKnown == Spec => []NoncesAgree
  <1>1. Inv /\ NonceInv => NoncesAgree
    <2> SUFFICES ASSUME ConnTypeOK, NonceInv, Established, NEW n \in Nodes
                 PROVE  peerNonce[n] = nonce[Peer(n)]
      BY InvParts DEF NoncesAgree
    <2>1. Peer(n) \in Nodes /\ Peer(Peer(n)) = n
      BY PeerType, PeerPeer
    <2>2. /\ ob[n] \in Slots /\ Accepted(n, ob[n]) /\ obHello[n]
          /\ ob[Peer(n)] \in Slots /\ Accepted(Peer(n), ob[Peer(n)])
      BY <2>1 DEF Established, IsOutboundReady, Accepted, Opened, ConnTypeOK
    <2> QED BY <2>2 DEF NonceInv, Knows
  <1> QED BY <1>1, NonceInit, NonceNext, InvHolds, PTL DEF Spec

-----------------------------------------------------------------------------
(* The two-connection trunk implements TGFloor.                             *)

\* Those who give way when claims cross, the yielding of FloorSpec.
Losers == {n \in Nodes : ~Wins(n)}

\* Handle takes talk messages only.
LEMMA HandleTrunkMsgPasses ==
    ASSUME TalkInv, NEW n \in Nodes, NEW m \in TrunkMsgs, NEW wins,
           Handle(n, m, wins)
    PROVE  FloorStep(n, wins)
  <1>1. m \in TalkMsgs
    BY DEF Handle, TrunkMsgs, Hello
  <1> QED BY <1>1, HandlePasses

\* What is read moves the floor by the nonces known before, and a hello leaves
\* the floor alone.
LEMMA ReceivePasses ==
    ASSUME TalkInv, ConnTypeOK, WireTypeOK, NEW n \in Nodes,
           ReceiveOutbound(n) \/ ReceiveInbound(n)
    PROVE  \/ FloorStep(n, Wins(n)) /\ UNCHANGED nonces
           \/ /\ UNCHANGED <<talker, trunkTalker, nonce>>
              /\ \A k \in Nodes \ {n} : peerNonce'[k] = peerNonce[k]
  <1>1. CASE ReceiveOutbound(n)
    <2> DEFINE m == Head(toInit[n][ob[n]])
    <2>1. toInit[n][ob[n]] \in Seq(TrunkMsgs) /\ toInit[n][ob[n]] # <<>>
      BY <1>1 DEF ReceiveOutbound, ConnTypeOK, WireTypeOK
    <2>2. m \in TrunkMsgs
      BY <2>1, TailType
    <2>3. /\ \/ m.type = "Hello" /\ UNCHANGED talkState
             \/ m.type # "Hello" /\ UNCHANGED talkState
             \/ m.type # "Hello" /\ Handle(n, m, Wins(n))
          /\ m.type = "Hello" => peerNonce' = [peerNonce EXCEPT ![n] = m.nonce]
          /\ m.type # "Hello" => UNCHANGED peerNonce
          /\ UNCHANGED nonce
      BY <1>1 DEF ReceiveOutbound, LearnNonce
    <2> HIDE DEF m
    <2>4. CASE m.type = "Hello"
      BY <2>3, <2>4 DEF talkState, ConnTypeOK
    <2>5. CASE m.type # "Hello"
      BY <2>2, <2>3, <2>5, HandleTrunkMsgPasses, UnchangedPasses
         DEF talkState, nonces
    <2> QED BY <2>4, <2>5
  <1>2. CASE ReceiveInbound(n)
    <2>1. /\ toAcc[Peer(n)][ib[n]] \in Seq(TrunkMsgs)
          /\ toAcc[Peer(n)][ib[n]] # <<>>
      BY <1>2, PeerType DEF ReceiveInbound, ConnTypeOK, WireTypeOK
    <2>2. Head(toAcc[Peer(n)][ib[n]]) \in TrunkMsgs
      BY <2>1, TailType
    <2> QED BY <1>2, <2>2, HandleTrunkMsgPasses DEF ReceiveInbound
  <1> QED BY <1>1, <1>2

\* A lost connection frees TGs of the peer.
LEMMA LossPasses ==
    ASSUME TalkInv, NEW n \in Nodes, OnInboundDisconnected(n)
    PROVE  FloorStep(n, Wins(n))
  <1>1. ASSUME NEW k \in Nodes \ {n}, NEW tg \in TGs PROVE SameTalkers(k, tg)
    BY DEF OnInboundDisconnected, ClearPeerTalkerState, SameTalkers,
           TalkInv, TalkTypeOK
  <1>2. ASSUME NEW tg \in TGs PROVE Passes(n, tg, Wins(n))
    <2>1. /\ talker' = talker
          /\ trunkTalker'[n][tg] =
               IF tg \in peerActive[n] THEN None ELSE trunkTalker[n][tg]
      BY DEF OnInboundDisconnected, ClearPeerTalkerState, TalkInv, TalkTypeOK
    <2>2. talker[n][tg] = None \/ trunkTalker[n][tg] = None
      BY DEF TalkInv, OneTalkerPerNode
    <2> QED BY <2>1, <2>2 DEF Passes, SameTalkers, IsFree
  <1> QED BY <1>1, <1>2 DEF FloorStep

\* Of a step that moves the floor of one node by the nonces it goes on with.
LEMMA StepMoves ==
    ASSUME Inv, Inv', NEW n \in Nodes, FloorStep(n, Wins(n)), UNCHANGED nonces
    PROVE  Floor!Move(n)
  <1>1. PICK f \in [TGs -> FloorValues] :
            /\ \A tg \in TGs : Follows(floors[n][tg], f[tg], Wins(n))
            /\ floors' = [floors EXCEPT ![n] = f]
    BY FloorMoves DEF Inv
  <1>2. Losers' = Losers
    BY DEF Losers, Wins, nonces
  <1> QED BY <1>1, <1>2
          DEF Floor!Move, Floor!MayFollow, Follows, FloorValues, Floor!Floors,
              Floor!Free, Floor!Client, Floor!Remote, Losers

\* Of a step that teaches one node a nonce or gives it a new one of its own.
LEMMA LosersSettle ==
    ASSUME ConnTypeOK, NEW n \in Nodes,
           \A k \in Nodes \ {n} : nonce'[k] = nonce[k] /\ peerNonce'[k] = peerNonce[k]
    PROVE  Losers' \in {Losers \cup {n}, Losers \ {n}}
  <1>1. \A k \in Nodes \ {n} : k \in Losers' <=> k \in Losers
    BY DEF Losers, Wins
  <1>2. Losers' \subseteq Nodes /\ Losers \subseteq Nodes
    BY DEF Losers
  <1>3. CASE n \in Losers'
    <2>1. Losers' = Losers \cup {n}
      BY <1>1, <1>2, <1>3
    <2> QED BY <2>1
  <1>4. CASE n \notin Losers'
    <2>1. Losers' = Losers \ {n}
      BY <1>1, <1>2, <1>4
    <2> QED BY <2>1
  <1> QED BY <1>3, <1>4

LEMMA StepSettles ==
    ASSUME ConnTypeOK, NEW n \in Nodes, UNCHANGED <<talker, trunkTalker, nonce>>,
           \A k \in Nodes \ {n} : peerNonce'[k] = peerNonce[k]
    PROVE  Floor!Settle(n)
  <1>1. Losers' \in {Losers \cup {n}, Losers \ {n}}
    BY LosersSettle
  <1>2. UNCHANGED floors
    BY DEF floors, FloorOf
  <1> QED BY <1>1, <1>2 DEF Floor!Settle, Losers

LEMMA RestartFrees ==
    ASSUME TalkInv, ConnTypeOK, NEW n \in Nodes, Restart(n)
    PROVE  Floor!Restart(n)
  <1>1. Losers' \in {Losers \cup {n}, Losers \ {n}}
    <2>1. \A k \in Nodes \ {n} : nonce'[k] = nonce[k] /\ peerNonce'[k] = peerNonce[k]
      BY DEF Restart, ConnTypeOK
    <2> QED BY <2>1, LosersSettle
  <1>2. floors' = [floors EXCEPT ![n] = [tg \in TGs |-> Floor!Free]]
    <2>1. ASSUME NEW tg \in TGs PROVE FloorOf(n, tg)' = Floor!Free
      BY DEF Restart, FloorOf, Floor!Free, TalkInv, TalkTypeOK
    <2>2. ASSUME NEW k \in Nodes \ {n}, NEW tg \in TGs
          PROVE  FloorOf(k, tg)' = FloorOf(k, tg)
      BY DEF Restart, FloorOf, TalkInv, TalkTypeOK
    <2> QED BY <2>1, <2>2 DEF floors
  <1> QED BY <1>1, <1>2 DEF Floor!Restart, Losers

LEMMA FloorNext ==
    ASSUME Inv, Inv', Next
    PROVE  Floor!Next \/ UNCHANGED <<floors, Losers>>
  <1>1. TalkInv /\ ConnTypeOK /\ WireTypeOK
    BY InvParts
  <1>2. ASSUME UNCHANGED <<talker, trunkTalker, nonce, peerNonce>>
        PROVE  UNCHANGED <<floors, Losers>>
    BY <1>2 DEF floors, FloorOf, Losers, Wins
  <1>3. ASSUME NEW n \in Nodes, LinkStep(n)
        PROVE  Floor!Next \/ UNCHANGED <<floors, Losers>>
    <2>1. CASE ReceiveOutbound(n) \/ ReceiveInbound(n)
      BY <1>1, <2>1, ReceivePasses, StepMoves, StepSettles DEF Floor!Next
    <2>2. CASE OnInboundDisconnected(n)
      <3>1. UNCHANGED nonces
        BY <2>2 DEF OnInboundDisconnected
      <3> QED BY <1>1, <2>2, <3>1, LossPasses, StepMoves DEF Floor!Next
    <2>3. ASSUME NEW k \in Slots, AcceptInboundConnection(n, k)
          PROVE  Floor!Next
      <3>1. /\ UNCHANGED <<talker, trunkTalker, nonce>>
            /\ \A i \in Nodes \ {n} : peerNonce'[i] = peerNonce[i]
        BY <1>1, <2>3 DEF AcceptInboundConnection, LearnNonce, ConnTypeOK
      <3> QED BY <1>1, <3>1, StepSettles DEF Floor!Next
    <2>4. CASE \/ \E k \in Slots : Connect(n, k) \/ PendingLost(n, k)
               \/ OnDisconnected(n) \/ OutboundTimeout(n)
      BY <1>2, <2>4 DEF Connect, PendingLost, OnDisconnected, OutboundTimeout,
                        talkState, nonces
    <2> QED BY <1>3, <2>1, <2>2, <2>3, <2>4 DEF LinkStep
  <1>4. ASSUME NEW n \in Nodes, ClientStep(n) PROVE Floor!Next
    <2>1. FloorStep(n, Wins(n)) /\ UNCHANGED nonces
      BY <1>1, <1>4, KeyPasses, UnkeyPasses DEF ClientStep, ClientKeys, ClientStops
    <2> QED BY <2>1, StepMoves DEF Floor!Next
  <1>5. ASSUME NEW n \in Nodes, Failure(n)
        PROVE  Floor!Next \/ UNCHANGED <<floors, Losers>>
    <2>1. CASE Restart(n)
      BY <1>1, <2>1, RestartFrees DEF Floor!Next
    <2>2. CASE \E k \in Slots : ConnectionFails(n, k)
      BY <1>2, <2>2 DEF ConnectionFails, talkState, nonces
    <2> QED BY <1>5, <2>1, <2>2 DEF Failure
  <1> QED BY <1>3, <1>4, <1>5 DEF Next

\* Whatever becomes of the connections, each reflector hands the floor on by the
\* rules: a client takes a free floor only, and loses it to the peer only where
\* the nonces of that moment say so. Nonces are drawn anew and learnt again, so
\* who gives way may change, but only by a step that moves no floor or by the
\* restart that frees them all.
THEOREM ImplementsFloor == Spec => FloorSpec
  <1>1. Init => Floor!Init
    <2>1. Init => floors = [n \in Nodes |-> [tg \in TGs |-> Floor!Free]]
      BY FloorInit DEF Init, Floor!Free
    <2> QED BY <2>1 DEF Floor!Init
  <1>2. ASSUME Inv, Inv', [Next]_vars
        PROVE  Floor!Next \/ UNCHANGED <<floors, Losers>>
    <2>1. CASE UNCHANGED vars
      BY <2>1 DEF vars, talkState, nonces, floors, FloorOf, Losers, Wins
    <2> QED BY <1>2, <2>1, FloorNext
  <1>3. Inv /\ Inv' /\ [Next]_vars
          => Floor!Next \/ UNCHANGED <<floors, {n \in Nodes : ~Wins(n)}>>
    BY <1>2 DEF Losers
  <1> QED BY <1>1, <1>3, InvHolds, PTL DEF Spec, FloorSpec, Floor!Spec, floors
=============================================================================
