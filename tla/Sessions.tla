------------------------------ MODULE Sessions ------------------------------
(***************************************************************************)
(* Client sessions of one reflector: nodes connect, authenticate under a   *)
(* callsign, are told who else is there, register the source of their UDP  *)
(* datagrams and send them. Connections die silently, datagrams are lost,  *)
(* late or repeated, a NAT gives a node another source, nodes restart      *)
(* while their old session is still open or stop in the handshake.         *)
(*                                                                         *)
(* Messages on TCP are handled as they are sent: the handshake is a dialog. *)
(* All nodes sit behind one address, so a source is a port. What a session *)
(* does with a TG is in TGHandler; certificates are right.                 *)
(*   src/svxlink/reflector/ReflectorClient.cpp, Reflector.cpp              *)
(***************************************************************************)
EXTENDS Naturals, FiniteSets

CONSTANTS
    Nodes,      \* devices that connect
    Slots,      \* client ids in use at one time
    Sources,    \* UDP ports of the nodes as the reflector sees them
    None,       \* no session, no source, no callsign
    Half,       \* half of the sequence numbers of protocol version 2 (2^15)
    Scenarios   \* the nodes to look at and what happens to them

(***************************************************************************)
(* A scenario is a record of                                               *)
(*   nodes         the nodes                                               *)
(*   callsign      callsign[n]                                             *)
(*   version       version[n] of the protocol: "v2" or "v3"                *)
(*   stalls        nodes that stop in the handshake, but for heartbeats    *)
(*   maxSent       bound: datagrams with data per session                  *)
(*   maxFlight     bound: datagrams on their way                           *)
(*   faults        which failures of the network and of nodes there are    *)
(*   maxFailures   bound: how many                                         *)
(***************************************************************************)
ASSUME HalfAssumption == Half \in Nat \ {0}
ASSUME NoneAssumption == None \notin Nodes \cup Slots \cup Sources
\* Each node has a port of its own to begin with.
ASSUME SourcesAssumption ==
    \E f \in [Nodes -> Sources] : \A m, n \in Nodes : f[m] = f[n] => m = n
ASSUME ScenariosAssumption ==
    \A x \in Scenarios :
        /\ x.nodes \subseteq Nodes
        /\ \A n \in x.nodes : x.callsign[n] # None /\ x.version[n] \in {"v2", "v3"}
        /\ x.maxFlight \in Nat /\ x.maxFailures \in Nat

VARIABLES
    sc,         \* the scenario
    state,      \* m_con_state of each session; "none": there is no such object
    owner,      \* the node that opened it
    callsign,   \* m_callsign, set with the login
    told,       \* callsigns its node has been told of
    heartbeat,  \* sessions whose m_heartbeat_timer runs
    discTimer,  \* sessions whose m_disc_timer runs
    keyed,      \* sessions with a UDP cipher key (version 3)
    udpPort,    \* m_remote_udp_port
    src,        \* m_client_src (version 3)
    srcMap,     \* client_src_map
    next,       \* m_next_udp_rx_seq
    due,        \* number of the next datagram if all arrive, not reduced
    cut,        \* sessions whose connection carries nothing more
    con,        \* con[n]: the session of node n, as n sees it
    source,     \* source[n]: the port n's datagrams come from
    certified,  \* nodes that have a client certificate
    heard,      \* nodes that have heard the reflector over UDP
    sent,       \* sent[n]: datagrams n has numbered in its session
    flight,     \* datagrams on their way
    failures    \* so far

objects == <<state, owner, callsign, told, heartbeat, discTimer>>
udps == <<keyed, udpPort, src, srcMap, next, due>>
nodes == <<con, source, certified, heard, sent>>
vars == <<sc, objects, udps, cut, nodes, flight, failures>>

Handshake == {"proto", "encryption", "ssl", "csr", "auth"}
Datagrams == [session : Slots, from : Sources, n : Nat]

TypeOK ==
    /\ sc \in Scenarios
    /\ state \in [Slots -> Handshake \cup {"none", "connected", "expectDisconnect"}]
    /\ owner \in [Slots -> Nodes \cup {None}]
    /\ \A s \in Slots : callsign[s] \in {None} \cup {sc.callsign[n] : n \in sc.nodes}
    /\ \A s \in Slots : told[s] \subseteq {sc.callsign[n] : n \in sc.nodes}
    /\ heartbeat \in SUBSET Slots
    /\ discTimer \in SUBSET {s \in Slots : state[s] = "expectDisconnect"}
    /\ keyed \in SUBSET Slots /\ cut \in SUBSET Slots
    /\ udpPort \in [Slots -> Sources \cup {None}]
    /\ src \in [Slots -> Sources \cup {None}]
    /\ srcMap \in [Sources -> Slots \cup {None}]
    /\ next \in [Slots -> Nat] /\ due \in [Slots -> Nat]
    /\ con \in [Nodes -> Slots \cup {None}]
    /\ source \in [Nodes -> Sources]
    /\ certified \in SUBSET Nodes /\ heard \in SUBSET Nodes
    /\ sent \in [Nodes -> Nat]
    /\ flight \subseteq Datagrams /\ Cardinality(flight) <= sc.maxFlight
    /\ failures \in 0..sc.maxFailures

Init ==
    /\ sc \in Scenarios
    /\ state = [s \in Slots |-> "none"]
    /\ owner = [s \in Slots |-> None]
    /\ callsign = [s \in Slots |-> None]
    /\ told = [s \in Slots |-> {}]
    /\ heartbeat = {} /\ discTimer = {} /\ keyed = {} /\ cut = {}
    /\ udpPort = [s \in Slots |-> None]
    /\ src = [s \in Slots |-> None]
    /\ srcMap = [p \in Sources |-> None]
    /\ next = [s \in Slots |-> 0] /\ due = [s \in Slots |-> 0]
    /\ con = [n \in Nodes |-> None]
    /\ source = CHOOSE f \in [Nodes -> Sources] : \A m, n \in Nodes : f[m] = f[n] => m = n
    /\ certified = {} /\ heard = {}
    /\ sent = [n \in Nodes |-> 0]
    /\ flight = {} /\ failures = 0

Version(s) == sc.version[owner[s]]
Exists(s) == state[s] # "none"
Fails(fault) ==
    /\ fault \in sc.faults /\ failures < sc.maxFailures
    /\ failures' = failures + 1

Connected == {s \in Slots : state[s] = "connected"}

\* Reflector::nodeList: whoever is logged in, also one to be disconnected.
NodeList == {callsign[s] : s \in {t \in Slots : Exists(t)}} \ {None}

-----------------------------------------------------------------------------
(* The end of a session.                                                   *)

\* Mutant: who leaves while it is expected to is not announced.
TellOthersConnectedOnly(s) ==
    told' = [t \in Slots |->
        IF t = s THEN {}
        ELSE IF t \in Connected /\ state[s] = "connected" THEN told[t] \ {callsign[s]}
        ELSE told[t]]

\* Reflector::clientDisconnected, MsgNodeLeft
TellOthers(s) ==
    told' = [t \in Slots |->
        IF t = s THEN {}
        ELSE IF t \in Connected THEN told[t] \ {callsign[s]} ELSE told[t]]

\* ReflectorClient::disconnect, Reflector::clientDisconnected, ~ReflectorClient:
\* the entry of m_client_src is erased, whoever it is for. Its node has seen it
\* by the time it connects again. Late datagrams for it find no client.
Remove(s) ==
    /\ state' = [state EXCEPT ![s] = "none"]
    /\ owner' = [owner EXCEPT ![s] = None]
    /\ callsign' = [callsign EXCEPT ![s] = None]
    /\ TellOthers(s)
    /\ heartbeat' = heartbeat \ {s} /\ discTimer' = discTimer \ {s}
    /\ keyed' = keyed \ {s} /\ cut' = cut \ {s}
    /\ udpPort' = [udpPort EXCEPT ![s] = None]
    /\ src' = [src EXCEPT ![s] = None]
    /\ srcMap' = [p \in Sources |-> IF p = src[s] THEN None ELSE srcMap[p]]
    /\ next' = [next EXCEPT ![s] = 0] /\ due' = [due EXCEPT ![s] = 0]
    /\ con' = [n \in Nodes |-> IF con[n] = s THEN None ELSE con[n]]
    /\ flight' = {d \in flight : d.session # s}

\* Mutant: the session goes on as before until the timer has run out.
SendErrorLater(s) ==
    /\ heartbeat' = heartbeat \ {s}
    /\ discTimer' = discTimer \cup {s}
    /\ udpPort' = [udpPort EXCEPT ![s] = None]
    /\ UNCHANGED state

\* Mutant: the node is left to close the connection.
SendErrorWithoutTimer(s) ==
    /\ state' = [state EXCEPT ![s] = "expectDisconnect"]
    /\ heartbeat' = heartbeat \ {s}
    /\ udpPort' = [udpPort EXCEPT ![s] = None]
    /\ UNCHANGED discTimer

\* ReflectorClient::sendError
SendError(s) ==
    /\ state' = [state EXCEPT ![s] = "expectDisconnect"]
    /\ heartbeat' = heartbeat \ {s}
    /\ discTimer' = discTimer \cup {s}
    /\ udpPort' = [udpPort EXCEPT ![s] = None]

-----------------------------------------------------------------------------
(* The handshake. A node that stalls does none of it after the connection. *)

\* Reflector::clientConnected and the constructor. Which free id it gets does not
\* matter.
Connect(n) ==
    LET s == CHOOSE t \in Slots : ~Exists(t)
    IN  /\ con[n] = None
        /\ \E t \in Slots : ~Exists(t)
        /\ state' = [state EXCEPT ![s] = "proto"]
        /\ owner' = [owner EXCEPT ![s] = n]
        /\ heartbeat' = heartbeat \cup {s}
        /\ con' = [con EXCEPT ![n] = s]
        /\ sent' = [sent EXCEPT ![n] = 0]
        /\ heard' = heard \ {n}
        /\ UNCHANGED <<sc, callsign, told, discTimer, udps, cut, source, certified,
                       flight, failures>>

\* The session takes the next message of its node.
Hears(s) == Exists(s) /\ s \notin cut /\ con[owner[s]] = s

To(s, next_state) ==
    /\ state' = [state EXCEPT ![s] = next_state]
    /\ UNCHANGED <<sc, owner, callsign, told, heartbeat, discTimer, udps, cut,
                   nodes, flight, failures>>

ProtoVer(s) ==
    /\ Hears(s) /\ state[s] = "proto"
    /\ To(s, IF Version(s) = "v3" THEN "encryption" ELSE "auth")

StartEncryption(s) ==
    /\ Hears(s) /\ state[s] = "encryption"
    /\ To(s, "ssl")

\* Mutant: a session that is about to end does not count.
AuthenticatedUnlessConnected(s) ==
    LET c == sc.callsign[owner[s]]
    IN  /\ \/ /\ \A t \in Connected : callsign[t] # c
              /\ state' = [state EXCEPT ![s] = "connected"]
              /\ callsign' = [callsign EXCEPT ![s] = c]
              /\ told' = [t \in Slots |->
                    IF t = s THEN NodeList \cup {c}
                    ELSE IF t \in Connected THEN told[t] \cup {c} ELSE told[t]]
              /\ UNCHANGED <<heartbeat, discTimer, udpPort>>
           \/ /\ \E t \in Connected : callsign[t] = c
              /\ SendError(s)
              /\ UNCHANGED <<callsign, told>>
        /\ UNCHANGED <<sc, owner, keyed, src, srcMap, next, due, cut, nodes,
                       flight, failures>>

\* ReflectorClient::connectionAuthenticated: MsgServerInfo with the node list to
\* this one, MsgNodeJoined to the others, or "Access denied".
Authenticated(s) ==
    LET c == sc.callsign[owner[s]]
    IN  /\ \/ /\ c \notin NodeList
              /\ state' = [state EXCEPT ![s] = "connected"]
              /\ callsign' = [callsign EXCEPT ![s] = c]
              /\ told' = [t \in Slots |->
                    IF t = s THEN NodeList \cup {c}
                    ELSE IF t \in Connected THEN told[t] \cup {c} ELSE told[t]]
              /\ UNCHANGED <<heartbeat, discTimer, udpPort>>
           \/ /\ c \in NodeList
              /\ SendError(s)
              /\ UNCHANGED <<callsign, told>>
        /\ UNCHANGED <<sc, owner, keyed, src, srcMap, next, due, cut, nodes,
                       flight, failures>>

SslReady(s) ==
    /\ Hears(s) /\ state[s] = "ssl"
    /\ IF owner[s] \in certified THEN Authenticated(s) ELSE To(s, "csr")

\* ReflectorClient::handleMsgClientCsr: the certificate is there, and the node is
\* to come back with it, or the operator has not signed it yet.
ClientCsr(s) ==
    /\ Hears(s) /\ state[s] = "csr"
    /\ \/ To(s, "auth")
       \/ /\ state' = [state EXCEPT ![s] = "expectDisconnect"]
          /\ certified' = certified \cup {owner[s]}
          /\ UNCHANGED <<sc, owner, callsign, told, heartbeat, discTimer, udps, cut,
                         con, source, heard, sent, flight, failures>>

AuthResponse(s) ==
    /\ Hears(s) /\ state[s] = "auth"
    /\ Authenticated(s)

\* ReflectorClient::renewClientCertificate
RenewClientCertificate(s) ==
    /\ state[s] = "connected" /\ owner[s] \in certified
    /\ Fails("renewal")
    /\ state' = [state EXCEPT ![s] = "expectDisconnect"]
    /\ UNCHANGED <<sc, owner, callsign, told, heartbeat, discTimer, udps, cut,
                   nodes, flight>>

\* MsgNodeInfo of version 3, answered by MsgStartUdpEncryption.
NodeInfo(s) ==
    /\ Hears(s) /\ state[s] = "connected"
    /\ Version(s) = "v3" /\ s \notin keyed
    /\ keyed' = keyed \cup {s}
    /\ UNCHANGED <<sc, objects, udpPort, src, srcMap, next, due, cut, nodes,
                   flight, failures>>

HandshakeStep(s) ==
    \/ ProtoVer(s) \/ StartEncryption(s) \/ SslReady(s) \/ ClientCsr(s)
    \/ AuthResponse(s) \/ NodeInfo(s)

\* A message that is out of place or cannot be read: sendError, or disconnect.
ProtocolError(s) ==
    /\ Hears(s) /\ state[s] # "expectDisconnect"
    /\ Fails("error")
    /\ \/ /\ SendError(s)
          /\ UNCHANGED <<sc, owner, callsign, told, keyed, src, srcMap, next, due,
                         cut, nodes, flight>>
       \/ /\ Remove(s)
          /\ UNCHANGED <<sc, source, certified, heard, sent>>

-----------------------------------------------------------------------------
(* UDP. Data is numbered from 0 in version 2 and from 1 in version 3, where *)
(* 0 is the registration, repeated until the reflector is heard.           *)

\* Bound: no datagram is overtaken by half of the numbers or more, and no more
\* than that are lost in a row. The code counts on it: the 120 seconds after
\* which a silent session ends are shorter.
InWindow(s, k) ==
    Version(s) = "v2" =>
        /\ k < due[s] + Half
        /\ \A d \in flight : d.session = s => k < d.n + Half

Sends(n, k) ==
    LET s == con[n]
    IN  /\ callsign[s] # None
        /\ Cardinality(flight) < sc.maxFlight
        /\ flight' = flight \cup {[session |-> s, from |-> source[n], n |-> k]}
        /\ UNCHANGED <<sc, objects, udps, cut, con, source, certified, heard, failures>>

SendRegistration(n) ==
    /\ con[n] # None /\ con[n] \in keyed
    /\ n \notin heard
    /\ Sends(n, 0)
    /\ UNCHANGED sent

SendData(n) ==
    LET v3 == sc.version[n] = "v3"
        k == IF v3 THEN sent[n] + 1 ELSE sent[n]
    IN  /\ con[n] # None
        /\ v3 => n \in heard
        /\ sent[n] < sc.maxSent
        /\ InWindow(con[n], k)
        /\ Sends(n, k)
        /\ sent' = [sent EXCEPT ![n] = @ + 1]

\* ReflectorClient::setRemoteUdpSource
SetRemoteUdpSource(s, p) ==
    /\ udpPort' = [udpPort EXCEPT ![s] = p]
    /\ src' = [src EXCEPT ![s] = IF Version(s) = "v3" THEN p ELSE @]
    /\ srcMap' = [srcMap EXCEPT ![p] = IF Version(s) = "v3" THEN s ELSE @]

\* Mutant: numbers are compared as they are.
InSequencePlain(s, k, expected) ==
    IF Version(s) = "v3" THEN k >= expected
    ELSE (k % (2 * Half)) >= (expected % (2 * Half))

\* The sequence check of Reflector::udpDatagramReceived: 16 bits wide, differences
\* above 0x7fff are behind.
InSequence(s, k, expected) ==
    IF Version(s) = "v3" THEN k >= expected
    ELSE (k + 2 * Half - (expected % (2 * Half))) % (2 * Half) < Half

\* Reflector::udpCipherDataReceived and udpDatagramReceived up to the switch. The
\* client is found by its id or, for data of version 3, by the source; what is
\* enciphered for another session is lost.
Receive(d) ==
    LET s == d.session
        v3 == Version(s) = "v3"
        registration == v3 /\ d.n = 0
        expected == IF registration THEN 0 ELSE next[s]
        port == IF udpPort[s] = None THEN d.from ELSE udpPort[s]
        found == (v3 /\ ~registration) => srcMap[d.from] = s
        accepted == found /\ d.from = port /\ InSequence(s, d.n, expected)
    IN  /\ IF found /\ udpPort[s] = None
             THEN SetRemoteUdpSource(s, d.from)
             ELSE UNCHANGED <<udpPort, src, srcMap>>
        /\ next' = [next EXCEPT ![s] =
              IF ~accepted THEN expected
              ELSE IF v3 THEN d.n + 1 ELSE (d.n % (2 * Half)) + 1]
        /\ due' = [due EXCEPT ![s] = IF accepted THEN d.n + 1 ELSE @]
        /\ UNCHANGED <<sc, objects, keyed, cut, nodes>>

Arrives(d) ==
    /\ flight' = flight \ {d}
    /\ Receive(d)
    /\ UNCHANGED failures

\* MsgUdpHeartbeat from the reflector, at registration and every 15 seconds.
UdpHeartbeat(n) ==
    /\ con[n] # None /\ n \notin heard
    /\ con[n] \in heartbeat
    /\ udpPort[con[n]] = source[n]
    /\ heard' = heard \cup {n}
    /\ UNCHANGED <<sc, objects, udps, cut, con, source, certified, sent, flight, failures>>

-----------------------------------------------------------------------------
(* Timers of the reflector.                                                *)

\* ReflectorClient::handleHeartbeat. Nothing has come on TCP for 15 seconds, or
\* what comes is ignored.
TcpTimeout(s) ==
    /\ Exists(s) /\ s \in heartbeat
    /\ ~Hears(s) \/ state[s] = "expectDisconnect"
    /\ SendError(s)
    /\ UNCHANGED <<sc, owner, callsign, told, keyed, src, srcMap, next, due, cut,
                   nodes, flight, failures>>

\* Mutant: the UDP counter starts with the registration.
UdpIsDeadOnceRegistered(s) ==
    LET n == owner[s]
    IN  /\ udpPort[s] # None
        /\ con[n] # s \/ udpPort[s] # source[n]

\* Nothing that the node sends over UDP, if it does, will be taken.
UdpIsDead(s) ==
    LET n == owner[s]
    IN  \/ con[n] # s
        \/ state[s] \in Handshake /\ n \in sc.stalls
        \/ udpPort[s] \notin {None, source[n]}
        \/ Version(s) = "v3" /\ n \in heard /\ srcMap[source[n]] # s

\* The same for UDP, after 120 seconds.
UdpTimeout(s) ==
    /\ Exists(s) /\ s \in heartbeat
    /\ UdpIsDead(s)
    /\ SendError(s)
    /\ UNCHANGED <<sc, owner, callsign, told, keyed, src, srcMap, next, due, cut,
                   nodes, flight, failures>>

\* ReflectorClient::onDiscTimeout, after ten seconds.
DiscTimeout(s) ==
    /\ s \in discTimer
    /\ Remove(s)
    /\ UNCHANGED <<sc, source, certified, heard, sent, failures>>

-----------------------------------------------------------------------------
(* Nodes and the network.                                                  *)

\* The node closes the connection, on an error message or for a new certificate.
NodeCloses(s) ==
    /\ state[s] = "expectDisconnect" /\ Hears(s)
    /\ Remove(s)
    /\ UNCHANGED <<sc, source, certified, heard, sent, failures>>

\* The node has found that its connection is dead.
NodeGivesUp(n) ==
    /\ con[n] \in cut
    /\ con' = [con EXCEPT ![n] = None]
    /\ UNCHANGED <<sc, objects, udps, cut, source, certified, heard, sent, flight, failures>>

NodeRestarts(n) ==
    /\ con[n] # None
    /\ Fails("restart")
    /\ Remove(con[n])
    /\ UNCHANGED <<sc, source, certified, heard, sent>>

ConnectionDies(s) ==
    /\ Exists(s) /\ s \notin cut
    /\ Fails("silence")
    /\ cut' = cut \cup {s}
    /\ UNCHANGED <<sc, objects, udps, nodes, flight>>

\* A NAT gives the node another port. Bound: not while it is registering.
Rebind(n, p) ==
    /\ \A m \in sc.nodes : source[m] # p
    /\ con[n] = None \/ con[n] \notin keyed \/ n \in heard
    /\ Fails("rebind")
    /\ source' = [source EXCEPT ![n] = p]
    /\ UNCHANGED <<sc, objects, udps, cut, con, certified, heard, sent, flight>>

Lost(d) ==
    /\ Fails("loss")
    /\ flight' = flight \ {d}
    /\ UNCHANGED <<sc, objects, udps, cut, nodes>>

Repeated(d) ==
    /\ Fails("loss")
    /\ Receive(d)
    /\ UNCHANGED flight

NodeStep(n) ==
    \/ Connect(n) \/ SendRegistration(n) \/ SendData(n) \/ UdpHeartbeat(n)
    \/ NodeGivesUp(n) \/ NodeRestarts(n) \/ \E p \in Sources : Rebind(n, p)

SessionStep(s) ==
    \/ owner[s] \notin sc.stalls /\ HandshakeStep(s)
    \/ RenewClientCertificate(s) \/ ProtocolError(s)
    \/ TcpTimeout(s) \/ UdpTimeout(s) \/ DiscTimeout(s)
    \/ NodeCloses(s) \/ ConnectionDies(s)

Next ==
    \/ \E n \in sc.nodes : NodeStep(n)
    \/ \E s \in Slots : SessionStep(s)
    \/ \E d \in flight : Arrives(d) \/ Lost(d) \/ Repeated(d)

\* Nodes go on connecting and registering, those that do not stall answer, timers
\* run out and datagrams arrive.
Fairness ==
    /\ \A n \in Nodes :
          /\ WF_vars(n \in sc.nodes /\ Connect(n))
          /\ WF_vars(SendRegistration(n)) /\ WF_vars(UdpHeartbeat(n))
          /\ WF_vars(NodeGivesUp(n))
    /\ \A s \in Slots :
          /\ WF_vars(owner[s] \notin sc.stalls /\ HandshakeStep(s))
          /\ WF_vars(TcpTimeout(s)) /\ WF_vars(UdpTimeout(s)) /\ WF_vars(DiscTimeout(s))
          /\ WF_vars(\E d \in flight : d.session = s /\ Arrives(d))

Spec == Init /\ [][Next]_vars /\ Fairness

-----------------------------------------------------------------------------
(* Properties.                                                             *)

\* ReflectorClient.cpp, connectionAuthenticated: the assertion that the callsign
\* is not in client_callsign_map, however logins under one callsign cross.
OneSessionPerCallsign ==
    \A s, t \in Slots : s # t => callsign[s] = None \/ callsign[s] # callsign[t]

\* MsgServerInfo, MsgNodeJoined and MsgNodeLeft: every node logged in has been
\* told exactly of those that are, however sessions end.
NodeListsAgree == \A s \in Connected : told[s] = NodeList

\* Reflector::udpDatagramReceived, "Frame out of sequence (ignore)": no datagram
\* is taken after a later one, but for a repeated registration, which starts
\* again.
TakenInOrder ==
    [][\A s \in Slots : \/ due'[s] >= due[s] \/ state'[s] = "none"
                        \/ due'[s] = 1 /\ s \in keyed]_vars

\* ReflectorClient.cpp, onFrameReceived: "unauthenticated clients must not stay
\* alive". A session logs in or ends.
HandshakesEnd ==
    \A s \in Slots :
        state[s] \in Handshake \cup {"expectDisconnect"} ~> state[s] \in {"none", "connected"}

\* A node is logged in and its datagrams are taken.
Served(n) ==
    LET s == con[n]
    IN  /\ s \in Connected \ cut
        /\ sc.version[n] = "v3" => n \in heard /\ srcMap[source[n]] = s

\* After the last failure someone is served for good under every callsign, whatever
\* the old session and a source taken over from another node have left.
NodesComeBack ==
    <>[](\A n \in sc.nodes \ sc.stalls :
            \E m \in sc.nodes : sc.callsign[m] = sc.callsign[n] /\ Served(m))
=============================================================================
