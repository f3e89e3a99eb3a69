------------------------------ MODULE TrunkLink ------------------------------
(***************************************************************************)
(* A trunk between two reflectors with its two TCP connections. Each end   *)
(* opens one (its outbound connection) and accepts the other's (its        *)
(* inbound connection), sends on the outbound one when it is ready and     *)
(* else on the inbound one. Connections fail silently, reflectors restart, *)
(* and the two ends find out at different times.                           *)
(*                                                                         *)
(* Audio and flush frames change no state kept here and are left out.      *)
(*   src/svxlink/reflector/TrunkLink.cpp (a link that is not PAIRED),      *)
(*   Reflector.cpp (the trunk server)                                      *)
(***************************************************************************)
EXTENDS TrunkTalker

CONSTANTS
    Slots,          \* the TCP connections one reflector may have opened and
                    \* that are not closed at both ends yet
    None0,          \* no connection
    MaxQueue,       \* bound: messages on a connection when a client adds more
    Nonces,         \* Nonces[n]: the values reflector n may draw as its nonce
    MaxFailures     \* bound: silent connection failures and restarts

ASSUME SlotsAssumption == IsFiniteSet(Slots) /\ None0 \notin Slots
ASSUME NoncesAssumption ==
    /\ DOMAIN Nonces = Nodes
    /\ \A n \in Nodes : Nonces[n] \subseteq Nat
ASSUME BoundsAssumption == MaxQueue \in Nat /\ MaxFailures \in Nat

VARIABLES
    ob,         \* m_con: the slot of n's open outbound connection
    obHello,    \* m_ob_hello_received
    ib,         \* m_inbound_con: a slot of the peer
    pending,    \* m_trunk_pending_cons: slots of the peer
    toAcc,      \* toAcc[n][k]: unread messages from n, which opened k
    toInit,     \* toInit[n][k]: unread messages to n, which opened k
    broken,     \* broken[n]: connections opened by n that carry nothing more
    nonce,      \* m_priority, drawn once for the lifetime of the TrunkLink
    peerNonce,  \* m_peer_priority, from the latest hello; 0 before the first
    failures    \* history, for MaxFailures

conns == <<ob, obHello, ib, pending>>
wires == <<toAcc, toInit, broken>>
nonces == <<nonce, peerNonce>>
vars == <<talkState, conns, wires, nonces, failures>>

Hello(x) == [type |-> "Hello", nonce |-> x]
TrunkMsgs == TalkMsgs \cup {Hello(x) : x \in Nat}

TypeOK ==
    /\ TalkTypeOK
    /\ ob \in [Nodes -> Slots \cup {None0}]
    /\ obHello \in [Nodes -> BOOLEAN]
    /\ ib \in [Nodes -> Slots \cup {None0}]
    /\ pending \in [Nodes -> SUBSET Slots]
    /\ toAcc \in [Nodes -> [Slots -> Seq(TrunkMsgs)]]
    /\ toInit \in [Nodes -> [Slots -> Seq(TrunkMsgs)]]
    /\ broken \in [Nodes -> SUBSET Slots]
    /\ nonce \in [Nodes -> Nat]
    /\ peerNonce \in [Nodes -> Nat]
    /\ failures \in 0..MaxFailures

Init ==
    /\ TalkInit
    /\ ob = [n \in Nodes |-> None0]
    /\ obHello = [n \in Nodes |-> FALSE]
    /\ ib = [n \in Nodes |-> None0]
    /\ pending = [n \in Nodes |-> {}]
    /\ toAcc = [n \in Nodes |-> [k \in Slots |-> <<>>]]
    /\ toInit = [n \in Nodes |-> [k \in Slots |-> <<>>]]
    /\ broken = [n \in Nodes |-> {}]
    /\ nonce \in {f \in [Nodes -> UNION {Nonces[n] : n \in Nodes}] :
                    \A n \in Nodes : f[n] \in Nonces[n]}
    /\ peerNonce = [n \in Nodes |-> 0]
    /\ failures = 0

-----------------------------------------------------------------------------
(* Readiness and sending.                                                  *)

IsOutboundReady(n) == ob[n] # None0 /\ obHello[n]
IsInboundReady(n) == ib[n] # None0
IsActive(n) == IsOutboundReady(n) \/ IsInboundReady(n)

\* Has the end that accepted connection k of n still got its socket open?
AcceptorOpen(n, k) == k \in pending[Peer(n)] \/ ib[Peer(n)] = k

\* What is written to a connection arrives unless it is broken or the other
\* end has closed its socket.
SendToAcc(n, k, msgs) ==
    toAcc' = IF k \in broken[n] \/ ~AcceptorOpen(n, k) THEN toAcc
             ELSE [toAcc EXCEPT ![n][k] = @ \o msgs]

SendToInit(n, k, msgs) ==
    toInit' = IF k \in broken[n] \/ ob[n] # k THEN toInit
              ELSE [toInit EXCEPT ![n][k] = @ \o msgs]

\* TrunkLink::sendMsg for messages about talkers, behind the isActive check of
\* the onLocal... methods.
SendMsg(n, msgs) ==
    IF IsOutboundReady(n)
      THEN SendToAcc(n, ob[n], msgs) /\ UNCHANGED toInit
      ELSE IF IsInboundReady(n)
             THEN SendToInit(Peer(n), ib[n], msgs) /\ UNCHANGED toAcc
             ELSE UNCHANGED <<toAcc, toInit>>

-----------------------------------------------------------------------------
(* Local clients.                                                          *)

QueuesShort(n) ==
    /\ ob[n] # None0 => Len(toAcc[n][ob[n]]) < MaxQueue
    /\ ib[n] # None0 => Len(toInit[Peer(n)][ib[n]]) < MaxQueue

ClientKeys(n, tg, c) ==
    /\ QueuesShort(n)
    /\ Key(n, tg, c)
    /\ SendMsg(n, <<TalkerStart(tg, c)>>)
    /\ UNCHANGED <<conns, broken, nonces, failures>>

\* The end of a talk, for whichever reason.
ClientStops(n, tg) ==
    /\ Unkey(n, tg)
    /\ SendMsg(n, StopMsgs(n, tg))
    /\ UNCHANGED <<conns, broken, nonces, failures>>

-----------------------------------------------------------------------------
(* The outbound connection.                                                *)

\* Slots are names only, so that it does not matter which free one is taken.
NewSlot(n) == CHOOSE k \in Slots : ~AcceptorOpen(n, k)

\* The peer's operating system accepts, TrunkLink::onConnected sends the hello
\* and Reflector::trunkClientConnected adds the connection to the pending ones,
\* of which one address may have two.
Connect(n, k) ==
    /\ ob[n] = None0
    /\ ~AcceptorOpen(n, k)
    /\ k = NewSlot(n)
    /\ ob' = [ob EXCEPT ![n] = k]
    /\ obHello' = [obHello EXCEPT ![n] = FALSE]
    /\ pending' = [pending EXCEPT ![Peer(n)] =
                     IF Cardinality(@) >= 2 THEN @ ELSE @ \cup {k}]
    /\ toAcc' = [toAcc EXCEPT ![n][k] = <<Hello(nonce[n])>>]
    /\ toInit' = [toInit EXCEPT ![n][k] = <<>>]
    /\ broken' = [broken EXCEPT ![n] = @ \ {k}]
    /\ UNCHANGED <<talkState, ib, nonces, failures>>

\* TrunkLink::onDisconnected, once the peer has closed the connection. What it
\* sent before may be read first or be lost. Nothing is done about the TGs the
\* peer was talking on.
OnDisconnected(n) ==
    LET k == ob[n]
    IN  /\ k # None0
        /\ ~AcceptorOpen(n, k)
        /\ ob' = [ob EXCEPT ![n] = None0]
        /\ obHello' = [obHello EXCEPT ![n] = FALSE]
        /\ toInit' = [toInit EXCEPT ![n][k] = <<>>]
        /\ UNCHANGED <<talkState, ib, pending, toAcc, broken, nonces, failures>>

\* TrunkLink::heartbeatTick: nothing has come for 15 seconds. The connection is
\* closed and opened again without onDisconnected.
OutboundTimeout(n) ==
    LET k == ob[n]
    IN  /\ k \in broken[n]
        /\ ob' = [ob EXCEPT ![n] = None0]
        /\ toInit' = [toInit EXCEPT ![n][k] = <<>>]
        /\ UNCHANGED <<talkState, obHello, ib, pending, toAcc, broken, nonces,
                       failures>>

\* The tie-break of handleMsgPeerTalkerStart: the lower nonce wins; equal values
\* let both ends win. Until the first hello the peer's counts as 0.
Wins(n) == nonce[n] <= peerNonce[n]

\* Mutant: the peer's nonce is kept from the first hello for good.
KeepFirstNonce(n, m) ==
    peerNonce' = [peerNonce EXCEPT ![n] = IF @ = 0 THEN m.nonce ELSE @]

\* The nonce is taken from every hello, on whichever connection it comes.
LearnNonce(n, m) == peerNonce' = [peerNonce EXCEPT ![n] = m.nonce]

\* TrunkLink::onFrameReceived for the outbound connection: the hello is the
\* peer's answer, anything else counts only after it.
ReceiveOutbound(n) ==
    LET k == ob[n]
        m == Head(toInit[n][k])
    IN  /\ k # None0
        /\ toInit[n][k] # <<>>
        /\ IF m.type = "Hello" \/ ~obHello[n]
             THEN UNCHANGED talkState
             ELSE Handle(n, m, Wins(n))
        /\ IF m.type = "Hello" THEN LearnNonce(n, m) ELSE UNCHANGED peerNonce
        /\ obHello' = [obHello EXCEPT ![n] = @ \/ m.type = "Hello"]
        /\ toInit' = [toInit EXCEPT ![n][k] = Tail(@)]
        /\ UNCHANGED <<ob, ib, pending, toAcc, broken, nonce, failures>>

-----------------------------------------------------------------------------
(* The inbound connection.                                                 *)

\* Reflector::trunkPendingFrameReceived with a valid hello, which is the first
\* frame of every connection, followed by TrunkLink::acceptInboundConnection: a
\* second inbound connection is refused.
AcceptInboundConnection(n, k) ==
    LET p == Peer(n)
    IN  /\ k \in pending[n]
        /\ toAcc[p][k] # <<>>
        /\ Head(toAcc[p][k]).type = "Hello"
        /\ pending' = [pending EXCEPT ![n] = @ \ {k}]
        /\ IF ib[n] # None0
             THEN /\ toAcc' = [toAcc EXCEPT ![p][k] = <<>>]
                  /\ UNCHANGED <<ib, yielded, peerNonce, toInit>>
             ELSE /\ ib' = [ib EXCEPT ![n] = k]
                  /\ yielded' = [yielded EXCEPT ![n] = {}]
                  /\ LearnNonce(n, Head(toAcc[p][k]))
                  /\ toAcc' = [toAcc EXCEPT ![p][k] = Tail(@)]
                  /\ SendToInit(p, k, <<Hello(nonce[n])>>)
        /\ UNCHANGED <<talker, trunkTalker, peerActive, ob, obHello, broken,
                       nonce, failures>>

\* A pending connection ends before its hello was read: it is closed by the
\* peer, or the hello does not come within 10 seconds.
PendingLost(n, k) ==
    LET p == Peer(n)
    IN  /\ k \in pending[n]
        /\ k \in broken[p] \/ ob[p] # k
        /\ pending' = [pending EXCEPT ![n] = @ \ {k}]
        /\ toAcc' = [toAcc EXCEPT ![p][k] = <<>>]
        /\ UNCHANGED <<talkState, ob, obHello, ib, toInit, broken, nonces, failures>>

\* Mutant: the yielded TGs are not forgotten.
ClearButYielded(n) ==
    /\ trunkTalker' = [trunkTalker EXCEPT ![n] =
                         [tg \in TGs |-> IF tg \in peerActive[n]
                                           THEN None ELSE @[tg]]]
    /\ peerActive' = [peerActive EXCEPT ![n] = {}]
    /\ UNCHANGED <<talker, yielded>>

\* TrunkLink::clearPeerTalkerState
ClearPeerTalkerState(n) ==
    /\ trunkTalker' = [trunkTalker EXCEPT ![n] =
                         [tg \in TGs |-> IF tg \in peerActive[n]
                                           THEN None ELSE @[tg]]]
    /\ peerActive' = [peerActive EXCEPT ![n] = {}]
    /\ yielded' = [yielded EXCEPT ![n] = {}]
    /\ UNCHANGED talker

\* Mutant: only a connection closed by the peer is given up, not a silent one.
OnInboundClosed(n) ==
    LET p == Peer(n)
        k == ib[n]
    IN  /\ k # None0
        /\ k \notin broken[p] /\ ob[p] # k
        /\ ib' = [ib EXCEPT ![n] = None0]
        /\ ClearPeerTalkerState(n)
        /\ toAcc' = [toAcc EXCEPT ![p][k] = <<>>]
        /\ UNCHANGED <<ob, obHello, pending, toInit, broken, nonces, failures>>

\* TrunkLink::onInboundDisconnected, when the peer has closed the connection or
\* nothing has come for 15 seconds.
OnInboundDisconnected(n) ==
    LET p == Peer(n)
        k == ib[n]
    IN  /\ k # None0
        /\ k \in broken[p] \/ ob[p] # k
        /\ ib' = [ib EXCEPT ![n] = None0]
        /\ ClearPeerTalkerState(n)
        /\ toAcc' = [toAcc EXCEPT ![p][k] = <<>>]
        /\ UNCHANGED <<ob, obHello, pending, toInit, broken, nonces, failures>>

\* onFrameReceived for the inbound connection, whose hello has been read.
ReceiveInbound(n) ==
    LET p == Peer(n)
        k == ib[n]
    IN  /\ k # None0
        /\ toAcc[p][k] # <<>>
        /\ Handle(n, Head(toAcc[p][k]), Wins(n))
        /\ toAcc' = [toAcc EXCEPT ![p][k] = Tail(@)]
        /\ UNCHANGED <<conns, toInit, broken, nonces, failures>>

-----------------------------------------------------------------------------
(* The environment.                                                        *)

\* The network drops a connection without either end being told.
ConnectionFails(n, k) ==
    /\ failures < MaxFailures
    /\ k \notin broken[n]
    /\ ob[n] = k \/ AcceptorOpen(n, k)
    /\ broken' = [broken EXCEPT ![n] = @ \cup {k}]
    /\ toAcc' = [toAcc EXCEPT ![n][k] = <<>>]
    /\ toInit' = [toInit EXCEPT ![n][k] = <<>>]
    /\ failures' = failures + 1
    /\ UNCHANGED <<talkState, conns, nonces>>

\* Reflector n ends and is started again: its memory and its sockets are
\* gone, what it sent before may still be read. The new TrunkLink draws a nonce of
\* its own and knows none of the peer's.
Restart(n) ==
    /\ failures < MaxFailures
    /\ failures' = failures + 1
    /\ talker' = [talker EXCEPT ![n] = [tg \in TGs |-> None]]
    /\ trunkTalker' = [trunkTalker EXCEPT ![n] = [tg \in TGs |-> None]]
    /\ peerActive' = [peerActive EXCEPT ![n] = {}]
    /\ yielded' = [yielded EXCEPT ![n] = {}]
    /\ ob' = [ob EXCEPT ![n] = None0]
    /\ obHello' = [obHello EXCEPT ![n] = FALSE]
    /\ ib' = [ib EXCEPT ![n] = None0]
    /\ pending' = [pending EXCEPT ![n] = {}]
    /\ toInit' = [toInit EXCEPT ![n] = [k \in Slots |-> <<>>]]
    /\ toAcc' = [toAcc EXCEPT ![Peer(n)] = [k \in Slots |-> <<>>]]
    /\ nonce' \in {[nonce EXCEPT ![n] = x] : x \in Nonces[n]}
    /\ peerNonce' = [peerNonce EXCEPT ![n] = 0]
    /\ UNCHANGED broken

LinkStep(n) ==
    \/ \E k \in Slots : Connect(n, k)
    \/ OnDisconnected(n)
    \/ OutboundTimeout(n)
    \/ ReceiveOutbound(n)
    \/ \E k \in Slots : AcceptInboundConnection(n, k) \/ PendingLost(n, k)
    \/ OnInboundDisconnected(n)
    \/ ReceiveInbound(n)

ClientStep(n) ==
    \E tg \in TGs :
        \/ \E c \in Callsigns[n] : ClientKeys(n, tg, c)
        \/ ClientStops(n, tg)

Failure(n) == (\E k \in Slots : ConnectionFails(n, k)) \/ Restart(n)

Next == \E n \in Nodes : LinkStep(n) \/ ClientStep(n) \/ Failure(n)

\* TcpPrioClient connects again until it succeeds, heartbeat and hello timers
\* run out, sockets report what has arrived.
Fairness ==
    \A n \in Nodes :
        /\ WF_vars(\E k \in Slots : Connect(n, k))
        /\ WF_vars(OnDisconnected(n))
        /\ WF_vars(OutboundTimeout(n))
        /\ WF_vars(ReceiveOutbound(n))
        /\ \A k \in Slots : /\ WF_vars(AcceptInboundConnection(n, k))
                            /\ WF_vars(PendingLost(n, k))
        /\ WF_vars(OnInboundDisconnected(n))
        /\ WF_vars(ReceiveInbound(n))

Spec == Init /\ [][Next]_vars /\ Fairness

-----------------------------------------------------------------------------
(* Properties. OneTalkerPerNode and TalkerRecordsAgree of TrunkTalker hold  *)
(* here as well, whatever the connections do.                              *)

\* Both connections come up again, whatever state of them each end was left
\* with. A stale inbound connection in particular, on account of which new ones
\* are refused, is given up some time.
LinkRecovers ==
    <>[](\A n \in Nodes : IsOutboundReady(n) /\ IsInboundReady(n))

\* Both ends have accepted the other's present connection and read the answer.
Established ==
    \A n \in Nodes : /\ IsOutboundReady(n)
                     /\ ib[Peer(n)] = ob[n]

\* On an established trunk each end decides conflicts by the nonce the other one
\* has now, so that of two different nonces exactly one yields. Hellos of a peer
\* process that is gone, read from its old connections after those of the new
\* one, do not outlast these connections.
NoncesAgree ==
    Established => \A n \in Nodes : peerNonce[n] = nonce[Peer(n)]

Floor == INSTANCE TGFloor WITH
    Talkers <- AllCallsigns,
    floor <- floors,
    yielding <- {n \in Nodes : ~Wins(n)}

\* docs/PEER_PROTOCOL.md on talker arbitration, through failures and restarts: a
\* remote conversation is never interrupted by a local client, and a client loses
\* the TG to the peer only where the nonces the two ends hold at that moment say
\* so, which only a hello or a restart changes.
FloorSpec == Floor!Spec
=============================================================================
