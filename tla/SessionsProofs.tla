---------------------------- MODULE SessionsProofs ----------------------------
(***************************************************************************)
(* Proofs about Sessions: whatever order logins, errors, restarts and      *)
(* timeouts come in, a callsign has one session at most, and whoever is    *)
(* logged in has been told exactly of those that are. The two are proved   *)
(* together: that a node which leaves takes its callsign out of the list   *)
(* depends on no other session having it. Then the types of all of the      *)
(* state, and that no datagram is taken after a later one.                  *)
(***************************************************************************)
EXTENDS Sessions, FiniteSetTheorems, TLAPS

States == Handshake \cup {"none", "connected", "expectDisconnect"}

SessionsTyped ==
    /\ sc \in Scenarios
    /\ state \in [Slots -> States]
    /\ owner \in [Slots -> Nodes \cup {None}]
    /\ callsign = [s \in Slots |-> callsign[s]]
    /\ told = [s \in Slots |-> told[s]]
    /\ con \in [Nodes -> Slots \cup {None}]

\* Every session is that of a node of the scenario.
SessionsAreOwned == \A s \in Slots : Exists(s) => owner[s] \in sc.nodes

\* A session gets its callsign when it is logged in, not before.
LoginNames ==
    \A s \in Slots : state[s] \in Handshake \cup {"none"} => callsign[s] = None

IInv ==
    /\ SessionsTyped
    /\ SessionsAreOwned
    /\ LoginNames
    /\ OneSessionPerCallsign
    /\ NodeListsAgree

LEMMA InvInit == Init => IInv
  <1> SUFFICES ASSUME Init PROVE IInv
    OBVIOUS
  <1>1. SessionsTyped
    BY DEF Init, SessionsTyped, States
  <1>2. SessionsAreOwned /\ LoginNames /\ OneSessionPerCallsign
    BY DEF Init, SessionsAreOwned, Exists, LoginNames, OneSessionPerCallsign
  <1>3. NodeListsAgree
    BY DEF Init, NodeListsAgree, Connected
  <1> QED BY <1>1, <1>2, <1>3 DEF IInv

-----------------------------------------------------------------------------
(* The effect of a step on the sessions is one of four: nothing, a change   *)
(* of state before or after the login, a login, and the end of a session.   *)

names == <<sc, owner, callsign, told>>

LEMMA NothingKeeps ==
    ASSUME IInv, UNCHANGED <<names, state>>, con' \in [Nodes -> Slots \cup {None}]
    PROVE  IInv'
  BY DEF IInv, names, SessionsTyped, SessionsAreOwned, Exists, LoginNames,
         OneSessionPerCallsign, NodeListsAgree, Connected, NodeList

\* A session that goes on is nearer to its login or is about to end.
LEMMA StateKeeps ==
    ASSUME IInv, NEW s \in Slots, NEW x \in Handshake \cup {"expectDisconnect"},
           state[s] # "none", x \in Handshake => state[s] \in Handshake,
           state' = [state EXCEPT ![s] = x], UNCHANGED <<names, con>>
    PROVE  IInv'
  <1>1. x \in States /\ x # "none" /\ x # "connected"
    BY DEF States, Handshake
  <1>2. SessionsTyped'
    BY <1>1 DEF IInv, SessionsTyped, names
  <1>3. SessionsAreOwned' /\ LoginNames' /\ OneSessionPerCallsign'
    BY <1>1 DEF IInv, SessionsTyped, names, SessionsAreOwned, Exists, LoginNames,
                OneSessionPerCallsign
  <1>4. Connected' \subseteq Connected
    BY <1>1 DEF IInv, SessionsTyped, Connected
  <1>5. NodeList' = NodeList
    BY <1>1 DEF IInv, SessionsTyped, names, NodeList, Exists
  <1>6. NodeListsAgree'
    BY <1>4, <1>5 DEF IInv, names, NodeListsAgree, Connected
  <1> QED BY <1>2, <1>3, <1>6 DEF IInv

LEMMA ErrorKeeps ==
    ASSUME IInv, NEW s \in Slots, Exists(s), SendError(s), UNCHANGED <<names, con>>
    PROVE  IInv'
  <1>1. "expectDisconnect" \notin Handshake
    BY DEF Handshake
  <1> QED BY <1>1, StateKeeps DEF SendError, Exists

\* A session opens.
LEMMA ConnectKeeps ==
    ASSUME IInv, NEW n \in sc.nodes, Connect(n)
    PROVE  IInv'
  <1> DEFINE s == CHOOSE t \in Slots : ~Exists(t)
  <1>1. /\ s \in Slots /\ ~Exists(s)
        /\ state' = [state EXCEPT ![s] = "proto"]
        /\ owner' = [owner EXCEPT ![s] = n]
        /\ con' = [con EXCEPT ![n] = s]
        /\ UNCHANGED <<sc, callsign, told>>
    BY DEF Connect
  <1> HIDE DEF s
  <1>2. n \in Nodes
    BY ScenariosAssumption DEF IInv, SessionsTyped
  <1>3. SessionsTyped'
    BY <1>1, <1>2 DEF IInv, SessionsTyped, States, Handshake
  <1>4. SessionsAreOwned' /\ LoginNames' /\ OneSessionPerCallsign'
    BY <1>1 DEF IInv, SessionsTyped, SessionsAreOwned, Exists, LoginNames,
                OneSessionPerCallsign
  <1>5. Connected' = Connected
    BY <1>1 DEF IInv, SessionsTyped, Connected, Exists
  <1>6. callsign[s] = None
    BY <1>1 DEF IInv, LoginNames, Exists
  <1>7. NodeList' = NodeList
    BY <1>1, <1>6 DEF IInv, SessionsTyped, NodeList, Exists
  <1>8. NodeListsAgree'
    BY <1>1, <1>5, <1>7 DEF IInv, NodeListsAgree
  <1> QED BY <1>3, <1>4, <1>8 DEF IInv

\* A login, or a refusal because the callsign is there already.
LEMMA LoginKeeps ==
    ASSUME IInv, NEW s \in Slots, state[s] \in {"ssl", "auth"}, Authenticated(s)
    PROVE  IInv'
  <1> DEFINE c == sc.callsign[owner[s]]
  <1>1. Exists(s) /\ callsign[s] = None
    BY DEF Exists, IInv, LoginNames, Handshake
  <1>2. c # None
    BY <1>1, ScenariosAssumption DEF IInv, SessionsTyped, SessionsAreOwned
  <1>3. CASE c \in NodeList
    BY <1>1, <1>3, ErrorKeeps DEF Authenticated, nodes, names
  <1>4. CASE c \notin NodeList
    <2>1. /\ state' = [state EXCEPT ![s] = "connected"]
          /\ callsign' = [callsign EXCEPT ![s] = c]
          /\ told' = [t \in Slots |->
                IF t = s THEN NodeList \cup {c}
                ELSE IF t \in Connected THEN told[t] \cup {c} ELSE told[t]]
          /\ UNCHANGED <<sc, owner, con>>
      BY <1>4 DEF Authenticated, nodes
    <2> HIDE DEF c
    <2>2. SessionsTyped'
      BY <2>1 DEF IInv, SessionsTyped, States
    <2>3. SessionsAreOwned' /\ LoginNames'
      BY <1>1, <2>1 DEF IInv, SessionsTyped, SessionsAreOwned, Exists, LoginNames,
                        Handshake
    <2>4. ASSUME NEW t \in Slots \ {s} PROVE callsign[t] # c
      <3>1. CASE Exists(t)
        BY <1>2, <1>4, <3>1 DEF NodeList
      <3>2. CASE ~Exists(t)
        BY <1>2, <3>2 DEF IInv, LoginNames, Exists
      <3> QED BY <3>1, <3>2
    <2>5. OneSessionPerCallsign'
      BY <2>1, <2>4 DEF IInv, SessionsTyped, OneSessionPerCallsign
    <2>6. Connected' = Connected \cup {s}
      BY <2>1 DEF IInv, SessionsTyped, Connected
    <2>7. NodeList' = NodeList \cup {c}
      <3>1. \A t \in Slots : Exists(t)' <=> Exists(t)
        BY <1>1, <2>1 DEF IInv, SessionsTyped, Exists
      <3>2. \A t \in Slots : callsign'[t] = IF t = s THEN c ELSE callsign[t]
        BY <2>1 DEF IInv, SessionsTyped
      <3> QED BY <1>1, <1>2, <3>1, <3>2 DEF NodeList
    <2>8. NodeListsAgree'
      BY <2>1, <2>6, <2>7 DEF IInv, NodeListsAgree, Connected
    <2> QED BY <2>2, <2>3, <2>5, <2>8 DEF IInv
  <1> QED BY <1>3, <1>4

\* The end of a session.
LEMMA RemoveKeeps ==
    ASSUME IInv, NEW s \in Slots, Remove(s), UNCHANGED sc
    PROVE  IInv'
  <1>1. /\ state' = [state EXCEPT ![s] = "none"]
        /\ owner' = [owner EXCEPT ![s] = None]
        /\ callsign' = [callsign EXCEPT ![s] = None]
        /\ told' = [t \in Slots |->
              IF t = s THEN {}
              ELSE IF t \in Connected THEN told[t] \ {callsign[s]} ELSE told[t]]
        /\ con' = [n \in Nodes |-> IF con[n] = s THEN None ELSE con[n]]
    BY DEF Remove, TellOthers
  <1>2. SessionsTyped'
    BY <1>1 DEF IInv, SessionsTyped, States
  <1>3. SessionsAreOwned' /\ LoginNames' /\ OneSessionPerCallsign'
    BY <1>1 DEF IInv, SessionsTyped, SessionsAreOwned, Exists, LoginNames, Handshake,
                OneSessionPerCallsign
  <1>4. Connected' = Connected \ {s}
    BY <1>1 DEF IInv, SessionsTyped, Connected
  <1>5. NodeList' = NodeList \ {callsign[s]}
    <2>1. \A t \in Slots \ {s} : (Exists(t)' <=> Exists(t)) /\ callsign'[t] = callsign[t]
      BY <1>1 DEF IInv, SessionsTyped, Exists
    <2>2. ~Exists(s)' /\ callsign'[s] = None
      BY <1>1 DEF IInv, SessionsTyped, Exists
    <2>3. \A t \in Slots \ {s} : callsign[t] # None => callsign[t] # callsign[s]
      BY DEF IInv, OneSessionPerCallsign
    <2> QED BY <2>1, <2>2, <2>3 DEF NodeList
  <1>6. NodeListsAgree'
    BY <1>1, <1>4, <1>5 DEF IInv, NodeListsAgree, Connected
  <1> QED BY <1>2, <1>3, <1>6 DEF IInv

-----------------------------------------------------------------------------
(* The steps.                                                              *)

LEMMA HandshakeKeeps ==
    ASSUME IInv, NEW s \in Slots, HandshakeStep(s)
    PROVE  IInv'
  <1> USE DEF Handshake, names, nodes
  <1>1. CASE ProtoVer(s)
    BY <1>1, StateKeeps DEF ProtoVer, To
  <1>2. CASE StartEncryption(s)
    BY <1>2, StateKeeps DEF StartEncryption, To
  <1>3. CASE SslReady(s)
    BY <1>3, StateKeeps, LoginKeeps DEF SslReady, To
  <1>4. CASE ClientCsr(s)
    BY <1>4, StateKeeps DEF ClientCsr, To
  <1>5. CASE AuthResponse(s)
    BY <1>5, LoginKeeps DEF AuthResponse
  <1>6. CASE NodeInfo(s)
    BY <1>6, NothingKeeps DEF NodeInfo, objects, IInv, SessionsTyped
  <1> QED BY <1>1, <1>2, <1>3, <1>4, <1>5, <1>6 DEF HandshakeStep

LEMMA SessionKeeps ==
    ASSUME IInv, NEW s \in Slots, SessionStep(s)
    PROVE  IInv'
  <1> USE DEF names, nodes
  <1>1. CASE HandshakeStep(s)
    BY <1>1, HandshakeKeeps
  <1>2. CASE RenewClientCertificate(s)
    BY <1>2, StateKeeps DEF RenewClientCertificate, Handshake
  <1>3. CASE ProtocolError(s)
    BY <1>3, ErrorKeeps, RemoveKeeps DEF ProtocolError, Hears
  <1>4. CASE TcpTimeout(s) \/ UdpTimeout(s)
    BY <1>4, ErrorKeeps DEF TcpTimeout, UdpTimeout
  <1>5. CASE DiscTimeout(s) \/ NodeCloses(s)
    BY <1>5, RemoveKeeps DEF DiscTimeout, NodeCloses
  <1>6. CASE ConnectionDies(s)
    BY <1>6, NothingKeeps DEF ConnectionDies, objects, IInv, SessionsTyped
  <1> QED BY <1>1, <1>2, <1>3, <1>4, <1>5, <1>6 DEF SessionStep

LEMMA NodeKeeps ==
    ASSUME IInv, NEW n \in sc.nodes, NodeStep(n)
    PROVE  IInv'
  <1>1. CASE Connect(n)
    BY <1>1, ConnectKeeps
  <1>2. CASE NodeRestarts(n)
    <2>1. con[n] \in Slots
      BY <1>2, ScenariosAssumption DEF NodeRestarts, IInv, SessionsTyped
    <2> QED BY <1>2, <2>1, RemoveKeeps DEF NodeRestarts
  <1>3. CASE NodeGivesUp(n)
    BY <1>3, NothingKeeps DEF NodeGivesUp, objects, names, IInv, SessionsTyped
  <1>4. CASE \/ SendRegistration(n) \/ SendData(n) \/ UdpHeartbeat(n)
             \/ \E p \in Sources : Rebind(n, p)
    <2>1. UNCHANGED <<names, state, con>>
      BY <1>4 DEF SendRegistration, SendData, Sends, UdpHeartbeat, Rebind, objects, names
    <2> QED BY <2>1, NothingKeeps DEF IInv, SessionsTyped
  <1> QED BY <1>1, <1>2, <1>3, <1>4 DEF NodeStep

LEMMA DatagramKeeps ==
    ASSUME IInv, NEW d \in flight, Arrives(d) \/ Lost(d) \/ Repeated(d)
    PROVE  IInv'
  <1>1. UNCHANGED <<names, state, con>>
    BY DEF Arrives, Lost, Repeated, Receive, objects, nodes, names
  <1> QED BY <1>1, NothingKeeps DEF IInv, SessionsTyped

LEMMA InvNext == IInv /\ [Next]_vars => IInv'
  <1> SUFFICES ASSUME IInv, [Next]_vars PROVE IInv'
    OBVIOUS
  <1>1. CASE Next
    BY <1>1, NodeKeeps, SessionKeeps, DatagramKeeps DEF Next
  <1>2. CASE UNCHANGED vars
    BY <1>2, NothingKeeps DEF vars, objects, nodes, names, IInv, SessionsTyped
  <1> QED BY <1>1, <1>2

LEMMA InvHolds == Spec => []IInv
  BY InvInit, InvNext, PTL DEF Spec

\* The assertion of connectionAuthenticated: no callsign is in client_callsign_map
\* twice, for any number of nodes and sessions.
THEOREM OneSession == Spec => []OneSessionPerCallsign
  BY InvHolds, PTL DEF IInv

\* Every node logged in has been told exactly of the nodes that are.
THEOREM ListsAgree == Spec => []NodeListsAgree
  BY InvHolds, PTL DEF IInv

-----------------------------------------------------------------------------
(* The types of what IInv leaves out. That a node's connection is its own   *)
(* session is needed for the numbers it sends under.                        *)

Names == {sc.callsign[n] : n \in sc.nodes}

ObjectsTyped ==
    /\ \A s \in Slots : callsign[s] \in {None} \cup Names
    /\ \A s \in Slots : told[s] \subseteq Names
    /\ heartbeat \in SUBSET Slots
    /\ discTimer \in SUBSET {s \in Slots : state[s] = "expectDisconnect"}

UdpTyped ==
    /\ keyed \in SUBSET Slots
    /\ udpPort \in [Slots -> Sources \cup {None}]
    /\ src \in [Slots -> Sources \cup {None}]
    /\ srcMap \in [Sources -> Slots \cup {None}]
    /\ next \in [Slots -> Nat] /\ due \in [Slots -> Nat]
    /\ flight \subseteq Datagrams
    /\ IsFiniteSet(flight) /\ Cardinality(flight) <= sc.maxFlight

NodesTyped ==
    /\ cut \in SUBSET Slots
    /\ source \in [Nodes -> Sources]
    /\ certified \in SUBSET Nodes /\ heard \in SUBSET Nodes
    /\ sent \in [Nodes -> Nat]
    /\ failures \in 0..sc.maxFailures

\* A node has the session it has opened.
ConsAreOwned == \A n \in Nodes : con[n] # None => Exists(con[n]) /\ owner[con[n]] = n

TypeInv == IInv /\ ObjectsTyped /\ UdpTyped /\ NodesTyped /\ ConsAreOwned

LEMMA TypeInvInit == Init => TypeInv
  <1> SUFFICES ASSUME Init PROVE TypeInv
    OBVIOUS
  <1>1. IInv
    BY InvInit
  <1>2. sc \in Scenarios /\ sc.maxFlight \in Nat /\ sc.maxFailures \in Nat
    BY ScenariosAssumption DEF Init
  <1>3. source \in [Nodes -> Sources]
    BY SourcesAssumption DEF Init
  <1>4. ObjectsTyped
    BY DEF Init, ObjectsTyped
  <1>5. UdpTyped
    BY <1>2, FS_EmptySet DEF Init, UdpTyped
  <1>6. NodesTyped /\ ConsAreOwned
    BY <1>2, <1>3 DEF Init, NodesTyped, ConsAreOwned
  <1> QED BY <1>1, <1>4, <1>5, <1>6 DEF TypeInv

LEMMA TypeInvTypes == TypeInv => TypeOK
  BY DEF TypeInv, IInv, SessionsTyped, States, ObjectsTyped, UdpTyped, NodesTyped,
         TypeOK, Names

LEMMA SmallerFlight ==
    ASSUME UdpTyped, sc.maxFlight \in Nat, NEW F, F \subseteq flight
    PROVE  IsFiniteSet(F) /\ Cardinality(F) <= sc.maxFlight
  <1>1. IsFiniteSet(F) /\ Cardinality(F) <= Cardinality(flight)
    BY FS_Subset DEF UdpTyped
  <1>2. Cardinality(F) \in Nat /\ Cardinality(flight) \in Nat
    BY <1>1, FS_CardinalityType DEF UdpTyped
  <1> QED BY <1>1, <1>2 DEF UdpTyped

\* Whom a node is told of is logged in.
LEMMA NodeListTyped == ObjectsTyped => NodeList \subseteq Names
  BY DEF ObjectsTyped, NodeList

LEMMA FailsTyped ==
    ASSUME TypeInv, NEW f, Fails(f), UNCHANGED sc
    PROVE  failures' \in 0..sc'.maxFailures
  BY ScenariosAssumption DEF TypeInv, IInv, SessionsTyped, NodesTyped, Fails

LEMMA OwnerTyped ==
    ASSUME TypeInv, NEW s \in Slots, Exists(s)
    PROVE  owner[s] \in sc.nodes /\ owner[s] \in Nodes /\ sc.callsign[owner[s]] \in Names
  BY ScenariosAssumption DEF TypeInv, IInv, SessionsTyped, SessionsAreOwned, Names

-----------------------------------------------------------------------------
(* The types survive a refusal, the end of a session, a step of the         *)
(* handshake, a login and a connection, as IInv does.                       *)

LEMMA ErrorTyped ==
    ASSUME TypeInv, NEW s \in Slots, Exists(s), SendError(s), UNCHANGED <<names, con>>,
           UNCHANGED <<keyed, src, srcMap, next, due, flight, cut, nodes>>,
           failures' \in 0..sc'.maxFailures
    PROVE  TypeInv'
  <1>1. IInv'
    BY ErrorKeeps DEF TypeInv
  <1>2. ObjectsTyped'
    BY DEF TypeInv, IInv, SessionsTyped, ObjectsTyped, SendError, names, Names
  <1>3. UdpTyped'
    BY DEF TypeInv, UdpTyped, SendError, names
  <1>4. NodesTyped'
    BY DEF TypeInv, NodesTyped, nodes, names
  <1>5. ConsAreOwned'
    BY DEF TypeInv, IInv, SessionsTyped, ConsAreOwned, SendError, names, Exists
  <1> QED BY <1>1, <1>2, <1>3, <1>4, <1>5 DEF TypeInv

LEMMA RemoveTyped ==
    ASSUME TypeInv, NEW s \in Slots, Exists(s), Remove(s),
           UNCHANGED <<sc, source, certified, heard, sent>>,
           failures' \in 0..sc'.maxFailures
    PROVE  TypeInv'
  <1>1. IInv'
    BY RemoveKeeps DEF TypeInv
  <1>2. ObjectsTyped'
    BY DEF TypeInv, IInv, SessionsTyped, ObjectsTyped, Remove, TellOthers, Names
  <1>3. UdpTyped'
    <2>1. flight' \subseteq flight
      BY DEF Remove
    <2>2. IsFiniteSet(flight') /\ Cardinality(flight') <= sc.maxFlight
      BY <2>1, SmallerFlight, ScenariosAssumption DEF TypeInv, IInv, SessionsTyped
    <2> QED BY <2>1, <2>2 DEF TypeInv, UdpTyped, Remove
  <1>4. NodesTyped'
    BY DEF TypeInv, NodesTyped, Remove
  <1>5. ConsAreOwned'
    BY DEF TypeInv, IInv, SessionsTyped, ConsAreOwned, Remove, Exists
  <1> QED BY <1>1, <1>2, <1>3, <1>4, <1>5 DEF TypeInv

\* A session takes a step of the handshake.
LEMMA StateTyped ==
    ASSUME TypeInv, NEW s \in Slots, state[s] \notin {"none", "expectDisconnect"},
           NEW x \in Handshake \cup {"expectDisconnect"},
           x \in Handshake => state[s] \in Handshake,
           state' = [state EXCEPT ![s] = x], certified' \in SUBSET Nodes,
           UNCHANGED <<names, con, heartbeat, discTimer, udps, flight, cut>>,
           UNCHANGED <<source, heard, sent>>,
           failures' \in 0..sc'.maxFailures
    PROVE  TypeInv'
  <1>1. IInv'
    BY StateKeeps DEF TypeInv
  <1>2. ObjectsTyped'
    BY DEF TypeInv, IInv, SessionsTyped, ObjectsTyped, names, Names
  <1>3. UdpTyped'
    BY DEF TypeInv, UdpTyped, names, udps
  <1>4. NodesTyped'
    BY DEF TypeInv, NodesTyped, names
  <1>5. ConsAreOwned'
    <2>1. x # "none"
      BY DEF Handshake
    <2> QED BY <2>1 DEF TypeInv, IInv, SessionsTyped, ConsAreOwned, names, Exists
  <1> QED BY <1>1, <1>2, <1>3, <1>4, <1>5 DEF TypeInv

LEMMA LoginTyped ==
    ASSUME TypeInv, NEW s \in Slots, state[s] \in {"ssl", "auth"}, Authenticated(s)
    PROVE  TypeInv'
  <1>1. Exists(s) /\ sc.callsign[owner[s]] \in Names
    BY OwnerTyped DEF Exists
  <1>2. failures' \in 0..sc'.maxFailures
    BY DEF TypeInv, NodesTyped, Authenticated
  <1>3. CASE SendError(s) /\ UNCHANGED <<callsign, told>>
    BY <1>1, <1>2, <1>3, ErrorTyped DEF Authenticated, names, nodes
  <1>4. CASE /\ sc.callsign[owner[s]] \notin NodeList
             /\ state' = [state EXCEPT ![s] = "connected"]
             /\ callsign' = [callsign EXCEPT ![s] = sc.callsign[owner[s]]]
             /\ told' = [t \in Slots |->
                    IF t = s THEN NodeList \cup {sc.callsign[owner[s]]}
                    ELSE IF t \in Connected THEN told[t] \cup {sc.callsign[owner[s]]}
                    ELSE told[t]]
             /\ UNCHANGED <<heartbeat, discTimer, udpPort>>
    <2>1. IInv'
      BY LoginKeeps DEF TypeInv
    <2>2. ObjectsTyped'
      <3>1. NodeList \subseteq Names /\ Names' = Names
        BY NodeListTyped DEF TypeInv, Authenticated, Names
      <3> QED BY <1>1, <1>4, <3>1 DEF TypeInv, IInv, SessionsTyped, ObjectsTyped
    <2>3. UdpTyped'
      BY <1>4 DEF TypeInv, UdpTyped, Authenticated
    <2>4. NodesTyped'
      BY DEF TypeInv, NodesTyped, Authenticated, nodes
    <2>5. ConsAreOwned'
      BY <1>4 DEF TypeInv, IInv, SessionsTyped, ConsAreOwned, Authenticated, Exists, nodes
    <2> QED BY <2>1, <2>2, <2>3, <2>4, <2>5 DEF TypeInv
  <1> QED BY <1>3, <1>4 DEF Authenticated

LEMMA ConnectTyped ==
    ASSUME TypeInv, NEW n \in sc.nodes, Connect(n)
    PROVE  TypeInv'
  <1> DEFINE s == CHOOSE t \in Slots : ~Exists(t)
  <1>1. /\ s \in Slots /\ ~Exists(s)
        /\ state' = [state EXCEPT ![s] = "proto"]
        /\ owner' = [owner EXCEPT ![s] = n]
        /\ heartbeat' = heartbeat \cup {s}
        /\ con' = [con EXCEPT ![n] = s]
    BY DEF Connect
  <1> HIDE DEF s
  <1>2. n \in Nodes
    BY ScenariosAssumption DEF TypeInv, IInv, SessionsTyped
  <1>3. ObjectsTyped'
    BY <1>1 DEF Connect, TypeInv, IInv, SessionsTyped, ObjectsTyped, Exists, Names
  <1>4. UdpTyped' /\ NodesTyped'
    BY <1>2 DEF Connect, TypeInv, UdpTyped, NodesTyped, udps
  <1>5. ConsAreOwned'
    BY <1>1, <1>2 DEF TypeInv, IInv, SessionsTyped, ConsAreOwned, Exists
  <1> QED BY <1>3, <1>4, <1>5, ConnectKeeps DEF TypeInv

\* What does not touch the sessions themselves.
LEMMA ObjectsStay ==
    ASSUME TypeInv, UNCHANGED <<sc, objects>>, con' \in [Nodes -> Slots \cup {None}],
           \A n \in Nodes : con'[n] \in {con[n], None}
    PROVE  IInv' /\ ObjectsTyped' /\ ConsAreOwned'
  <1>1. IInv'
    BY NothingKeeps DEF TypeInv, objects, names
  <1>2. ObjectsTyped' /\ ConsAreOwned'
    BY DEF TypeInv, ObjectsTyped, ConsAreOwned, objects, Names, Exists
  <1> QED BY <1>1, <1>2

LEMMA HandshakeTypes ==
    ASSUME TypeInv, NEW s \in Slots, HandshakeStep(s)
    PROVE  TypeInv'
  <1>0. failures' \in 0..sc'.maxFailures
    BY DEF TypeInv, NodesTyped, HandshakeStep, ProtoVer, StartEncryption, SslReady,
           ClientCsr,
           AuthResponse, NodeInfo, To, Authenticated
  <1>1. CASE ProtoVer(s) \/ StartEncryption(s)
    BY <1>0, <1>1, StateTyped
       DEF ProtoVer, StartEncryption, To, names, nodes, Handshake, TypeInv, NodesTyped
  <1>2. CASE SslReady(s) /\ owner[s] \in certified
    BY <1>2, LoginTyped DEF SslReady
  <1>3. CASE SslReady(s) /\ owner[s] \notin certified
    BY <1>0, <1>3, StateTyped DEF SslReady, To, names, nodes, Handshake, TypeInv, NodesTyped
  <1>4. CASE ClientCsr(s)
    <2>1. state[s] = "csr" /\ Exists(s)
      BY <1>4 DEF ClientCsr, Hears
    <2>2. certified' \in SUBSET Nodes
      BY <1>4, <2>1, OwnerTyped DEF ClientCsr, To, nodes, TypeInv, NodesTyped
    <2>3. CASE To(s, "auth")
      BY <1>0, <2>1, <2>2, <2>3, StateTyped DEF To, names, nodes, Handshake
    <2>4. CASE ~To(s, "auth")
      BY <1>0, <1>4, <2>1, <2>2, <2>4, StateTyped DEF ClientCsr, names, Handshake
    <2> QED BY <2>3, <2>4
  <1>5. CASE AuthResponse(s)
    BY <1>5, LoginTyped DEF AuthResponse
  <1>6. CASE NodeInfo(s)
    BY <1>6, ObjectsStay
       DEF NodeInfo, TypeInv, UdpTyped, NodesTyped, nodes, IInv, SessionsTyped
  <1> QED BY <1>1, <1>2, <1>3, <1>4, <1>5, <1>6 DEF HandshakeStep

LEMMA SessionTypes ==
    ASSUME TypeInv, NEW s \in Slots, SessionStep(s)
    PROVE  TypeInv'
  <1>1. CASE HandshakeStep(s)
    BY <1>1, HandshakeTypes
  <1>2. CASE RenewClientCertificate(s)
    <2>1. failures' \in 0..sc'.maxFailures
      BY <1>2, FailsTyped DEF RenewClientCertificate
    <2> QED BY <1>2, <2>1, StateTyped
               DEF RenewClientCertificate, names, nodes, Handshake, TypeInv, NodesTyped
  <1>3. CASE ProtocolError(s)
    <2>1. failures' \in 0..sc'.maxFailures
      BY <1>3, FailsTyped DEF ProtocolError
    <2> QED BY <1>3, <2>1, ErrorTyped, RemoveTyped DEF ProtocolError, Hears, names, nodes
  <1>4. CASE TcpTimeout(s) \/ UdpTimeout(s)
    BY <1>4, ErrorTyped DEF TcpTimeout, UdpTimeout, names, nodes, TypeInv, NodesTyped
  <1>5. CASE DiscTimeout(s) \/ NodeCloses(s)
    <2>1. Exists(s)
      BY <1>5 DEF DiscTimeout, NodeCloses, Hears, TypeInv, ObjectsTyped, Exists
    <2> QED BY <1>5, <2>1, RemoveTyped DEF DiscTimeout, NodeCloses, TypeInv, NodesTyped
  <1>6. CASE ConnectionDies(s)
    <2>1. failures' \in 0..sc'.maxFailures
      BY <1>6, FailsTyped DEF ConnectionDies
    <2> QED BY <1>6, <2>1, ObjectsStay
               DEF ConnectionDies, TypeInv, UdpTyped, udps, nodes, NodesTyped, IInv,
                   SessionsTyped
  <1> QED BY <1>1, <1>2, <1>3, <1>4, <1>5, <1>6 DEF SessionStep

LEMMA SendsTyped ==
    ASSUME TypeInv, NEW n \in sc.nodes, con[n] # None, NEW k \in Nat, Sends(n, k)
    PROVE  UdpTyped'
  <1> DEFINE d == [session |-> con[n], from |-> source[n], n |-> k]
  <1>1. n \in Nodes /\ sc.maxFlight \in Nat
    BY ScenariosAssumption DEF TypeInv, IInv, SessionsTyped
  <1>2. d \in Datagrams
    BY <1>1 DEF Datagrams, TypeInv, IInv, SessionsTyped, NodesTyped
  <1>3. flight' = flight \cup {d} /\ Cardinality(flight) < sc.maxFlight
    BY DEF Sends
  <1> HIDE DEF d
  <1>4. IsFiniteSet(flight') /\ Cardinality(flight') <= sc.maxFlight
    <2>1. Cardinality(flight) \in Nat
      BY FS_CardinalityType DEF TypeInv, UdpTyped
    <2>2. /\ IsFiniteSet(flight')
          /\ Cardinality(flight') \in {Cardinality(flight), Cardinality(flight) + 1}
      BY <1>3, FS_AddElement DEF TypeInv, UdpTyped
    <2> QED BY <1>1, <1>3, <2>1, <2>2
  <1> QED BY <1>2, <1>3, <1>4 DEF TypeInv, UdpTyped, Sends, udps

LEMMA NodeTypes ==
    ASSUME TypeInv, NEW n \in sc.nodes, NodeStep(n)
    PROVE  TypeInv'
  <1>1. n \in Nodes
    BY ScenariosAssumption DEF TypeInv, IInv, SessionsTyped
  <1>2. CASE Connect(n)
    BY <1>2, ConnectTyped
  <1>3. CASE NodeRestarts(n)
    <2>1. con[n] \in Slots /\ Exists(con[n])
      BY <1>1, <1>3 DEF NodeRestarts, TypeInv, IInv, SessionsTyped, ConsAreOwned
    <2>2. failures' \in 0..sc'.maxFailures
      BY <1>3, FailsTyped DEF NodeRestarts
    <2> QED BY <1>3, <2>1, <2>2, RemoveTyped DEF NodeRestarts
  <1>4. CASE NodeGivesUp(n)
    BY <1>4, ObjectsStay
       DEF NodeGivesUp, TypeInv, IInv, SessionsTyped, UdpTyped, udps, NodesTyped
  <1>5. CASE SendRegistration(n)
    BY <1>5, ObjectsStay, SendsTyped
       DEF SendRegistration, Sends, TypeInv, IInv, SessionsTyped, NodesTyped
  <1>6. CASE SendData(n)
    <2>1. sent[n] \in Nat
      BY <1>1 DEF TypeInv, NodesTyped
    <2>2. UdpTyped'
      BY <1>6, <2>1, SendsTyped DEF SendData
    <2>3. NodesTyped'
      <3>1. /\ sent' = [sent EXCEPT ![n] = sent[n] + 1]
            /\ UNCHANGED <<sc, cut, source, certified, heard, failures>>
        BY <1>6 DEF SendData, Sends
      <3>2. sent' \in [Nodes -> Nat]
        <4>1. sent[n] + 1 \in Nat
          BY <2>1
        <4>2. sent \in [Nodes -> Nat]
          BY DEF TypeInv, NodesTyped
        <4> QED BY <3>1, <4>1, <4>2, Zenon
      <3> QED BY <3>1, <3>2 DEF TypeInv, NodesTyped
    <2> QED BY <1>6, <2>2, <2>3, ObjectsStay
               DEF SendData, Sends, TypeInv, IInv, SessionsTyped
  <1>7. CASE UdpHeartbeat(n)
    BY <1>1, <1>7, ObjectsStay
       DEF UdpHeartbeat, TypeInv, IInv, SessionsTyped, UdpTyped, udps, NodesTyped
  <1>8. ASSUME NEW p \in Sources, Rebind(n, p) PROVE TypeInv'
    <2>1. failures' \in 0..sc'.maxFailures
      BY <1>8, FailsTyped DEF Rebind
    <2> QED BY <1>1, <1>8, <2>1, ObjectsStay
               DEF Rebind, TypeInv, IInv, SessionsTyped, UdpTyped, udps, NodesTyped
  <1> QED BY <1>2, <1>3, <1>4, <1>5, <1>6, <1>7, <1>8 DEF NodeStep

LEMMA ReceiveTyped ==
    ASSUME TypeInv, NEW d \in flight, Receive(d), flight' \subseteq flight,
           failures' \in 0..sc'.maxFailures
    PROVE  TypeInv'
  <1>1. d.session \in Slots /\ d.from \in Sources /\ d.n \in Nat
    BY DEF TypeInv, UdpTyped, Datagrams
  <1>2. next' \in [Slots -> Nat] /\ due' \in [Slots -> Nat]
    BY <1>1, HalfAssumption DEF TypeInv, UdpTyped, Receive
  <1>3. /\ udpPort' \in [Slots -> Sources \cup {None}]
        /\ src' \in [Slots -> Sources \cup {None}]
        /\ srcMap' \in [Sources -> Slots \cup {None}]
    BY <1>1 DEF TypeInv, UdpTyped, Receive, SetRemoteUdpSource
  <1>4. IsFiniteSet(flight') /\ Cardinality(flight') <= sc.maxFlight
    BY SmallerFlight, ScenariosAssumption DEF TypeInv, IInv, SessionsTyped
  <1>5. UdpTyped'
    BY <1>2, <1>3, <1>4 DEF TypeInv, UdpTyped, Receive
  <1> QED BY <1>5, ObjectsStay DEF Receive, nodes, TypeInv, NodesTyped, IInv, SessionsTyped

LEMMA DatagramTypes ==
    ASSUME TypeInv, NEW d \in flight, Arrives(d) \/ Lost(d) \/ Repeated(d)
    PROVE  TypeInv'
  <1>1. CASE Arrives(d)
    BY <1>1, ReceiveTyped DEF Arrives, Receive, TypeInv, NodesTyped
  <1>2. CASE Repeated(d)
    BY <1>2, ReceiveTyped, FailsTyped DEF Repeated, Receive
  <1>3. CASE Lost(d)
    <2>1. IsFiniteSet(flight') /\ Cardinality(flight') <= sc.maxFlight
      BY <1>3, SmallerFlight, ScenariosAssumption DEF Lost, TypeInv, IInv, SessionsTyped
    <2>2. UdpTyped'
      BY <1>3, <2>1 DEF Lost, TypeInv, UdpTyped, udps
    <2>3. failures' \in 0..sc'.maxFailures
      BY <1>3, FailsTyped DEF Lost
    <2> QED BY <1>3, <2>2, <2>3, ObjectsStay
               DEF Lost, nodes, TypeInv, NodesTyped, IInv, SessionsTyped
  <1> QED BY <1>1, <1>2, <1>3

LEMMA TypeInvNext == TypeInv /\ [Next]_vars => TypeInv'
  <1> SUFFICES ASSUME TypeInv, [Next]_vars PROVE TypeInv'
    OBVIOUS
  <1>1. CASE Next
    BY <1>1, NodeTypes, SessionTypes, DatagramTypes DEF Next
  <1>2. CASE UNCHANGED vars
    BY <1>2, ObjectsStay
       DEF vars, TypeInv, IInv, SessionsTyped, udps, nodes, UdpTyped, NodesTyped
  <1> QED BY <1>1, <1>2


-----------------------------------------------------------------------------
(* The numbers of the datagrams. Version 2: what is in flight is less than  *)
(* half of the numbers away from the one that is due, so that 16 bits tell  *)
(* which side it is on. Version 3: all registrations of a session are from  *)
(* one port, the one that m_client_src has, so none is refused once one has *)
(* been taken, and the number expected is not put back behind what is due.  *)

\* No session, nothing of it left.
Clean(s) ==
    ~Exists(s) =>
        /\ next[s] = 0 /\ due[s] = 0
        /\ udpPort[s] = None /\ src[s] = None /\ s \notin keyed
        /\ \A d \in flight : d.session # s

NumbersAreClose(s) ==
    Exists(s) /\ Version(s) = "v2" =>
        /\ s \notin keyed
        /\ next[s] % (2 * Half) = due[s] % (2 * Half)
        /\ \A d \in flight :
              d.session = s => d.n < due[s] + Half /\ due[s] <= d.n + Half
        /\ \A d, e \in flight :
              d.session = s /\ e.session = s => d.n < e.n + Half
        /\ con[owner[s]] = s =>
              /\ due[s] <= sent[owner[s]]
              /\ \A d \in flight : d.session = s => d.n < sent[owner[s]]

RegistersOnce(s) ==
    Exists(s) /\ Version(s) = "v3" =>
        /\ next[s] = due[s]
        /\ udpPort[s] \in {None, src[s]}
        /\ \A d \in flight :
              d.session = s /\ d.n = 0 => src[s] \in {None, d.from}
        /\ \A d, e \in flight :
              d.session = s /\ e.session = s /\ d.n = 0 /\ e.n = 0 => d.from = e.from
        /\ s \notin keyed => src[s] = None /\ \A d \in flight : d.session # s
        /\ con[owner[s]] = s /\ owner[s] \in heard => s \in keyed
        /\ con[owner[s]] = s /\ owner[s] \notin heard =>
              /\ src[s] \in {None, source[owner[s]]}
              /\ \A d \in flight : d.session = s /\ d.n = 0 => d.from = source[owner[s]]

\* Who has a source has registered from it.
SourcesAreMapped == \A p \in Sources : srcMap[p] # None => src[srcMap[p]] = p

UdpInv ==
    /\ SourcesAreMapped
    /\ \A s \in Slots : Clean(s) /\ NumbersAreClose(s) /\ RegistersOnce(s)

-----------------------------------------------------------------------------
(* Arithmetic of the sequence check.                                        *)

LEMMA Division ==
    ASSUME NEW a \in Nat, NEW m \in Nat \ {0}
    PROVE  /\ a = m * (a \div m) + (a % m)
           /\ a % m \in 0..(m - 1)
           /\ a \div m \in Nat
  OBVIOUS

LEMMA SameRemainder ==
    ASSUME NEW m \in Nat \ {0}, NEW c \in Nat, NEW d \in Nat,
           NEW q \in 0..(m - 1), NEW r \in 0..(m - 1), m * c + r = m * d + q
    PROVE  r = q
  <1>1. CASE c >= d + 1
    <2>1. m * c >= m * d + m
       BY <1>1
    <2> QED BY <2>1
  <1>2. CASE d >= c + 1
    <2>1. m * d >= m * c + m
       BY <1>2
    <2> QED BY <2>1
  <1> QED BY <1>1, <1>2

LEMMA Remainder ==
    ASSUME NEW m \in Nat \ {0}, NEW c \in Nat, NEW r \in 0..(m - 1)
    PROVE  (m * c + r) % m = r
  <1> DEFINE a == m * c + r
  <1>1. a \in Nat
    OBVIOUS
  <1>2. a = m * (a \div m) + (a % m) /\ a % m \in 0..(m - 1) /\ a \div m \in Nat
    BY <1>1, Division
  <1> HIDE DEF a
  <1>3. m * (a \div m) + (a % m) = m * c + r
    BY <1>2 DEF a
  <1>4. a % m = r
    BY <1>2, <1>3, SameRemainder
  <1> QED BY <1>4 DEF a

LEMMA SameNext ==
    ASSUME NEW m \in Nat \ {0}, NEW k \in Nat
    PROVE  ((k % m) + 1) % m = (k + 1) % m
  <1>1. k = m * (k \div m) + (k % m) /\ k % m \in 0..(m - 1) /\ k \div m \in Nat
    BY Division
  <1> DEFINE c == k \div m  r == k % m
  <1> HIDE DEF c, r
  <1>2. k = m * c + r /\ r \in 0..(m - 1) /\ c \in Nat
    BY <1>1 DEF c, r
  <1>3. CASE r + 1 < m
    <2>1. (r + 1) % m = r + 1
      BY <1>2, <1>3
    <2>2. (m * c + (r + 1)) % m = r + 1
      BY <1>2, <1>3, Remainder
    <2>3. k + 1 = m * c + (r + 1)
      BY <1>2
    <2>4. (r + 1) % m = (k + 1) % m
      BY <2>1, <2>2, <2>3
    <2> QED BY <2>4 DEF r
  <1>4. CASE r + 1 = m
    <2>1. k + 1 = m * (c + 1) + 0
      BY <1>2, <1>4
    <2>2. (m * (c + 1) + 0) % m = 0
      BY <1>2, Remainder
    <2>3. m = m * 1 + 0
      OBVIOUS
    <2>4. (m * 1 + 0) % m = 0
      BY Remainder
    <2>5. (r + 1) % m = (k + 1) % m
      BY <1>4, <2>1, <2>2, <2>3, <2>4
    <2> QED BY <2>5 DEF r
  <1> QED BY <1>2, <1>3, <1>4

\* A datagram of the window that passes the check is not behind.
LEMMA NotBehind ==
    ASSUME NEW h \in Nat \ {0}, NEW k \in Nat, NEW q \in Nat, NEW x \in Nat,
           x % (2 * h) = q % (2 * h), q <= k + h,
           (k + 2 * h - (x % (2 * h))) % (2 * h) < h
    PROVE  q <= k
  <1> SUFFICES ASSUME k < q PROVE FALSE
    OBVIOUS
  <1> DEFINE m == 2 * h
             c == q \div m
             r == q % m
             j == q - k
  <1>1. m \in Nat \ {0} /\ m = 2 * h
    OBVIOUS
  <1> HIDE DEF m
  <1>2. q = m * c + r /\ r \in 0..(m - 1) /\ c \in Nat
    BY <1>1, Division
  <1>3. j \in 1..h /\ k = q - j
    OBVIOUS
  <1> HIDE DEF c, r, j
  <1>4. k + m - r = m * c + (m - j)
    BY <1>1, <1>2, <1>3
  <1>5. m - j \in 0..(m - 1) /\ ~(m - j < h)
    BY <1>1, <1>3
  <1>6. (m * c + (m - j)) % m = m - j
    BY <1>1, <1>2, <1>5, Remainder
  <1>7. (k + m - r) % m < h
    BY DEF m, r
  <1> QED BY <1>4, <1>5, <1>6, <1>7

-----------------------------------------------------------------------------
(* The steps.                                                               *)

Inv == TypeInv /\ UdpInv

LEMMA UdpInvInit == Init => UdpInv
  BY NoneAssumption
     DEF Init, UdpInv, SourcesAreMapped, Clean, NumbersAreClose, RegistersOnce, Exists

LEMMA VersionTyped ==
    ASSUME TypeInv, NEW s \in Slots, Exists(s)
    PROVE  Version(s) \in {"v2", "v3"}
  BY OwnerTyped, ScenariosAssumption DEF Version, TypeInv, IInv, SessionsTyped

\* What leaves sessions where they are, adds no datagram and takes none.
LEMMA QuietKeeps ==
    ASSUME Inv, TypeInv',
           UNCHANGED <<sc, owner, keyed, src, srcMap, next, due, source, heard, sent>>,
           \A s \in Slots : Exists(s)' <=> Exists(s),
           \A s \in Slots : udpPort'[s] \in {None, udpPort[s]},
           \A n \in Nodes : con'[n] \in {None, con[n]},
           flight' \subseteq flight
    PROVE  UdpInv'
  <1>1. SourcesAreMapped'
    BY DEF Inv, UdpInv, SourcesAreMapped
  <1>2. ASSUME NEW s \in Slots
        PROVE  (Clean(s) /\ NumbersAreClose(s) /\ RegistersOnce(s))'
    <2>1. Clean(s) /\ NumbersAreClose(s) /\ RegistersOnce(s)
      BY DEF Inv, UdpInv
    <2>2. Exists(s) => con'[owner[s]] \in {None, con[owner[s]]}
      BY OwnerTyped DEF Inv
    <2>3. s # None
      BY NoneAssumption
    <2>4. Clean(s)'
      BY <2>1 DEF Clean
    <2>5. NumbersAreClose(s)'
      BY <2>1, <2>2, <2>3 DEF NumbersAreClose, Version
    <2>6. RegistersOnce(s)'
      BY <2>1, <2>2, <2>3 DEF RegistersOnce, Version
    <2> QED BY <2>4, <2>5, <2>6
  <1> QED BY <1>1, <1>2 DEF UdpInv

LEMMA ConnectKeepsUdp ==
    ASSUME Inv, TypeInv', NEW n \in sc.nodes, Connect(n)
    PROVE  UdpInv'
  <1>1. PICK s \in Slots :
           /\ ~Exists(s)
           /\ con[n] = None
           /\ state' = [state EXCEPT ![s] = "proto"]
           /\ owner' = [owner EXCEPT ![s] = n]
           /\ con' = [con EXCEPT ![n] = s]
           /\ sent' = [sent EXCEPT ![n] = 0]
           /\ heard' = heard \ {n}
           /\ UNCHANGED <<sc, udps, source, flight>>
    BY DEF Connect
  <1>2. n \in Nodes
    BY ScenariosAssumption DEF Inv, TypeInv, IInv, SessionsTyped
  <1>3. SourcesAreMapped'
    BY <1>1 DEF Inv, UdpInv, SourcesAreMapped, udps
  <1>4. ASSUME NEW t \in Slots \ {s}
        PROVE  (Clean(t) /\ NumbersAreClose(t) /\ RegistersOnce(t))'
    <2>1. Clean(t) /\ NumbersAreClose(t) /\ RegistersOnce(t)
      BY DEF Inv, UdpInv
    <2>2. owner'[t] = owner[t] /\ (Exists(t)' <=> Exists(t)) /\ (Version(t)' = Version(t))
      BY <1>1 DEF Inv, TypeInv, IInv, SessionsTyped, Exists, Version
    <2>3. Clean(t)'
      BY <1>1, <2>1, <2>2 DEF Clean, udps
    <2>4. Exists(t) /\ con'[owner[t]] = t =>
             con[owner[t]] = t /\ owner[t] # n /\ owner[t] \in Nodes
      BY <1>1, <1>2, OwnerTyped DEF Inv, TypeInv, IInv, SessionsTyped
    <2>5. Exists(t) /\ con'[owner[t]] = t =>
             /\ sent'[owner[t]] = sent[owner[t]]
             /\ owner[t] \in heard' <=> owner[t] \in heard
      BY <1>1, <2>4 DEF Inv, TypeInv, NodesTyped
    <2>6. NumbersAreClose(t)'
      BY <1>1, <2>1, <2>2, <2>4, <2>5 DEF NumbersAreClose, udps
    <2>7. RegistersOnce(t)'
      BY <1>1, <2>1, <2>2, <2>4, <2>5 DEF RegistersOnce, udps
    <2> QED BY <2>3, <2>6, <2>7
  <1>5. (Clean(s) /\ NumbersAreClose(s) /\ RegistersOnce(s))'
    <2>1. /\ next[s] = 0 /\ due[s] = 0
          /\ udpPort[s] = None /\ src[s] = None /\ s \notin keyed
          /\ \A d \in flight : d.session # s
      BY <1>1 DEF Inv, UdpInv, Clean
    <2>2. owner'[s] = n /\ sent'[n] = 0 /\ n \notin heard' /\ Exists(s)'
      <3>1. owner'[s] = n /\ state'[s] = "proto"
        BY <1>1 DEF Inv, TypeInv, IInv, SessionsTyped
      <3>2. sent'[n] = 0
        BY <1>1, <1>2 DEF Inv, TypeInv, NodesTyped
      <3> QED BY <1>1, <3>1, <3>2 DEF Exists
    <2>3. Clean(s)'
      BY <2>2 DEF Clean
    <2>4. NumbersAreClose(s)'
      BY <1>1, <2>1, <2>2 DEF NumbersAreClose, udps
    <2>5. RegistersOnce(s)'
      BY <1>1, <2>1, <2>2 DEF RegistersOnce, udps
    <2> QED BY <2>3, <2>4, <2>5
  <1> QED BY <1>3, <1>4, <1>5 DEF UdpInv

LEMMA RemoveKeepsUdp ==
    ASSUME Inv, TypeInv', NEW s \in Slots, Exists(s), Remove(s),
           UNCHANGED <<sc, source, heard, sent>>
    PROVE  UdpInv'
  <1>1. SourcesAreMapped'
    <2>1. ASSUME NEW p \in Sources, srcMap'[p] # None
          PROVE  src'[srcMap'[p]] = p
      <3>1. p # src[s] /\ srcMap'[p] = srcMap[p] /\ srcMap[p] # None
        BY <2>1 DEF Remove
      <3>2. src[srcMap[p]] = p
        BY <3>1 DEF Inv, UdpInv, SourcesAreMapped
      <3> QED BY <3>1, <3>2 DEF Remove, Inv, TypeInv, UdpTyped
    <2> QED BY <2>1 DEF SourcesAreMapped
  <1>2. ASSUME NEW t \in Slots \ {s}
        PROVE  (Clean(t) /\ NumbersAreClose(t) /\ RegistersOnce(t))'
    <2>1. Clean(t) /\ NumbersAreClose(t) /\ RegistersOnce(t)
      BY DEF Inv, UdpInv
    <2>2. owner'[t] = owner[t] /\ (Exists(t)' <=> Exists(t)) /\ (Version(t)' = Version(t))
      BY DEF Inv, TypeInv, IInv, SessionsTyped, Exists, Version, Remove
    <2>3. /\ next'[t] = next[t] /\ due'[t] = due[t] /\ udpPort'[t] = udpPort[t]
          /\ src'[t] = src[t] /\ (t \in keyed' <=> t \in keyed)
          /\ flight' \subseteq flight
      BY DEF Inv, TypeInv, UdpTyped, Remove
    <2>4. Exists(t) /\ con'[owner[t]] = t => con[owner[t]] = t
      BY OwnerTyped, NoneAssumption DEF Inv, TypeInv, IInv, SessionsTyped, Remove
    <2>5. Clean(t)'
      BY <2>1, <2>2, <2>3 DEF Clean
    <2>6. NumbersAreClose(t)'
      BY <2>1, <2>2, <2>3, <2>4 DEF NumbersAreClose
    <2>7. RegistersOnce(t)'
      BY <2>1, <2>2, <2>3, <2>4 DEF RegistersOnce
    <2> QED BY <2>5, <2>6, <2>7
  <1>3. (Clean(s) /\ NumbersAreClose(s) /\ RegistersOnce(s))'
    <2>1. ~Exists(s)'
      BY DEF Remove, Exists, Inv, TypeInv, IInv, SessionsTyped
    <2>2. Clean(s)'
      BY DEF Clean, Remove, Inv, TypeInv, UdpTyped
    <2> QED BY <2>1, <2>2 DEF NumbersAreClose, RegistersOnce
  <1> QED BY <1>1, <1>2, <1>3 DEF UdpInv

LEMMA NodeInfoKeepsUdp ==
    ASSUME Inv, TypeInv', NEW s \in Slots, NodeInfo(s)
    PROVE  UdpInv'
  BY DEF NodeInfo, Hears, objects, nodes, Inv, UdpInv, SourcesAreMapped, Clean,
         NumbersAreClose,
         RegistersOnce, Exists, Version

LEMMA RegistrationKeepsUdp ==
    ASSUME Inv, TypeInv', NEW n \in sc.nodes, SendRegistration(n)
    PROVE  UdpInv'
  <1>0. n \in Nodes
    BY ScenariosAssumption DEF Inv, TypeInv, IInv, SessionsTyped
  <1>1. PICK s \in Slots : s = con[n] /\ Exists(s) /\ owner[s] = n
    BY <1>0 DEF SendRegistration, Inv, TypeInv, IInv, SessionsTyped, ConsAreOwned
  <1>2. PICK new :
           /\ new = [session |-> s, from |-> source[n], n |-> 0]
           /\ s \in keyed /\ n \notin heard
           /\ flight' = flight \cup {new}
           /\ UNCHANGED <<sc, objects, udps, con, source, heard, sent>>
    BY <1>1 DEF SendRegistration, Sends
  <1>3. new.session = s /\ new.from = source[n] /\ new.n = 0
    BY <1>2
  <1>4. Version(s) = "v3"
    BY <1>1, <1>2, VersionTyped DEF Inv, UdpInv, NumbersAreClose
  <1>5. SourcesAreMapped'
    BY <1>2 DEF Inv, UdpInv, SourcesAreMapped, udps
  <1>6. ASSUME NEW t \in Slots
        PROVE  (Clean(t) /\ NumbersAreClose(t) /\ RegistersOnce(t))'
    <2>1. Clean(t) /\ NumbersAreClose(t) /\ RegistersOnce(t)
      BY DEF Inv, UdpInv
    <2>2. Clean(t)'
      BY <1>1, <1>2, <1>3, <2>1 DEF Clean, udps, objects, Exists
    <2>3. NumbersAreClose(t)'
      BY <1>1, <1>2, <1>3, <1>4, <2>1 DEF NumbersAreClose, udps, objects, Exists, Version
    <2>4. RegistersOnce(t)'
      BY <1>1, <1>2, <1>3, <2>1 DEF RegistersOnce, udps, objects, Exists, Version
    <2> QED BY <2>2, <2>3, <2>4
  <1> QED BY <1>5, <1>6 DEF UdpInv

LEMMA DataKeepsUdp ==
    ASSUME Inv, TypeInv', NEW n \in sc.nodes, SendData(n)
    PROVE  UdpInv'
  <1>0. n \in Nodes
    BY ScenariosAssumption DEF Inv, TypeInv, IInv, SessionsTyped
  <1>1. PICK s \in Slots : s = con[n] /\ Exists(s) /\ owner[s] = n
    BY <1>0 DEF SendData, Inv, TypeInv, IInv, SessionsTyped, ConsAreOwned
  <1>2. sc.version[n] = Version(s) /\ Version(s) \in {"v2", "v3"}
    BY <1>1, VersionTyped DEF Inv, Version
  <1>k. PICK k \in Nat : k = (IF Version(s) = "v3" THEN sent[n] + 1 ELSE sent[n])
    BY <1>0 DEF Inv, TypeInv, NodesTyped
  <1>new. PICK new : new = [session |-> s, from |-> source[n], n |-> k]
    OBVIOUS
  <1>3. /\ Version(s) = "v3" => n \in heard
        /\ InWindow(s, k)
        /\ flight' = flight \cup {new}
        /\ sent' = [sent EXCEPT ![n] = sent[n] + 1]
        /\ UNCHANGED <<sc, objects, udps, con, source, heard>>
    BY <1>1, <1>2, <1>k, <1>new DEF SendData, Sends
  <1>4. new.session = s /\ new.n = k
    BY <1>new
  <1>5. SourcesAreMapped'
    BY <1>3 DEF Inv, UdpInv, SourcesAreMapped, udps
  <1>6. /\ sent[n] \in Nat /\ sent'[n] = sent[n] + 1
        /\ \A m \in Nodes \ {n} : sent'[m] = sent[m]
    BY <1>0, <1>3 DEF Inv, TypeInv, NodesTyped
  <1>7. due[s] \in Nat /\ Half \in Nat \ {0} /\ \A d \in flight : d.n \in Nat
    BY HalfAssumption DEF Inv, TypeInv, UdpTyped, Datagrams
  <1>8. ASSUME NEW t \in Slots \ {s}
        PROVE  (Clean(t) /\ NumbersAreClose(t) /\ RegistersOnce(t))'
    <2>1. Clean(t) /\ NumbersAreClose(t) /\ RegistersOnce(t)
      BY DEF Inv, UdpInv
    <2>2. \A d \in flight' : d.session = t => d \in flight
      BY <1>3, <1>4
    <2>3. flight \subseteq flight'
      BY <1>3
    <2>4. Exists(t) /\ con[owner[t]] = t => sent'[owner[t]] = sent[owner[t]]
      BY <1>1, <1>6, OwnerTyped DEF Inv
    <2>5. Clean(t)'
      BY <1>3, <2>1, <2>2 DEF Clean, udps, objects, Exists
    <2>6. NumbersAreClose(t)'
      BY <1>3, <2>1, <2>2, <2>4 DEF NumbersAreClose, udps, objects, Exists, Version
    <2>7. RegistersOnce(t)'
      BY <1>3, <2>1, <2>2 DEF RegistersOnce, udps, objects, Exists, Version
    <2> QED BY <2>5, <2>6, <2>7
  <1>9. (Clean(s) /\ NumbersAreClose(s) /\ RegistersOnce(s))'
    <2>1. Clean(s) /\ NumbersAreClose(s) /\ RegistersOnce(s)
      BY DEF Inv, UdpInv
    <2>2. Clean(s)'
      BY <1>1, <1>3 DEF Clean, objects, Exists
    <2>3. NumbersAreClose(s)'
      <3>1. SUFFICES ASSUME Version(s) = "v2" PROVE NumbersAreClose(s)'
        BY <1>3 DEF NumbersAreClose, Version, objects
      <3>2. /\ k = sent[n] /\ k < due[s] + Half /\ due[s] <= k
            /\ \A d \in flight : d.session = s => k < d.n + Half /\ d.n < k
        BY <1>1, <1>k, <1>3, <2>1, <3>1 DEF NumbersAreClose, InWindow
      <3>3. /\ \A d \in flight' :
                  d.session = s => /\ d.n < due[s] + Half /\ due[s] <= d.n + Half
                                   /\ d.n < sent'[n]
            /\ \A d, e \in flight' :
                  d.session = s /\ e.session = s => d.n < e.n + Half
        BY <1>1, <1>3, <1>4, <1>6, <1>7, <2>1, <3>1, <3>2 DEF NumbersAreClose
      <3>4. due[s] <= sent'[n]
        BY <1>6, <1>7, <3>2
      <3> QED BY <1>1, <1>3, <2>1, <3>1, <3>3, <3>4
              DEF NumbersAreClose, Version, Exists, udps, objects
    <2>4. RegistersOnce(s)'
      <3>1. SUFFICES ASSUME Version(s) = "v3" PROVE RegistersOnce(s)'
        BY <1>3 DEF RegistersOnce, Version, objects
      <3>2. new.n # 0
        BY <1>k, <1>4, <1>6, <3>1
      <3>3. s \in keyed /\ n \in heard
        BY <1>1, <1>3, <2>1, <3>1 DEF RegistersOnce
      <3> QED BY <1>1, <1>3, <2>1, <3>1, <3>2, <3>3
              DEF RegistersOnce, Version, Exists, udps, objects
    <2> QED BY <2>2, <2>3, <2>4
  <1> QED BY <1>5, <1>8, <1>9 DEF UdpInv

LEMMA HeartbeatKeepsUdp ==
    ASSUME Inv, TypeInv', NEW n \in sc.nodes, UdpHeartbeat(n)
    PROVE  UdpInv'
  <1>1. n \in Nodes /\ con[n] \in Slots /\ source[n] # None
    BY ScenariosAssumption, NoneAssumption
       DEF UdpHeartbeat, Inv, TypeInv, IInv, SessionsTyped, NodesTyped
  <1>2. /\ heard' = heard \cup {n} /\ udpPort[con[n]] = source[n]
        /\ UNCHANGED <<sc, objects, udps, con, source, sent, flight>>
    BY DEF UdpHeartbeat
  <1>3. SourcesAreMapped'
    BY <1>2 DEF Inv, UdpInv, SourcesAreMapped, udps
  <1>4. ASSUME NEW t \in Slots
        PROVE  (Clean(t) /\ NumbersAreClose(t) /\ RegistersOnce(t))'
    <2>1. Clean(t) /\ NumbersAreClose(t) /\ RegistersOnce(t)
      BY DEF Inv, UdpInv
    <2>2. Clean(t)' /\ NumbersAreClose(t)'
      BY <1>2, <2>1 DEF Clean, NumbersAreClose, udps, objects, Exists, Version
    <2>3. RegistersOnce(t)'
      BY <1>1, <1>2, <2>1 DEF RegistersOnce, udps, objects, Exists, Version
    <2> QED BY <2>2, <2>3
  <1> QED BY <1>3, <1>4 DEF UdpInv

LEMMA RebindKeepsUdp ==
    ASSUME Inv, TypeInv', NEW n \in sc.nodes, NEW p \in Sources, Rebind(n, p)
    PROVE  UdpInv'
  <1>1. n \in Nodes
    BY ScenariosAssumption DEF Inv, TypeInv, IInv, SessionsTyped
  <1>2. /\ source' = [source EXCEPT ![n] = p]
        /\ con[n] = None \/ con[n] \notin keyed \/ n \in heard
        /\ UNCHANGED <<sc, objects, udps, con, heard, sent, flight>>
    BY DEF Rebind
  <1>3. SourcesAreMapped'
    BY <1>2 DEF Inv, UdpInv, SourcesAreMapped, udps
  <1>5. /\ keyed' = keyed /\ udpPort' = udpPort /\ src' = src /\ next' = next /\ due' = due
        /\ con' = con /\ heard' = heard /\ flight' = flight
    BY <1>2 DEF udps
  <1>4. ASSUME NEW t \in Slots
        PROVE  (Clean(t) /\ NumbersAreClose(t) /\ RegistersOnce(t))'
    <2>1. Clean(t) /\ NumbersAreClose(t) /\ RegistersOnce(t)
      BY DEF Inv, UdpInv
    <2>2. Clean(t)' /\ NumbersAreClose(t)'
      BY <1>2, <2>1 DEF Clean, NumbersAreClose, udps, objects, Exists, Version
    <2>3. \A m \in Nodes \ {n} : source'[m] = source[m]
      BY <1>2 DEF Inv, TypeInv, NodesTyped
    <2>4. Exists(t) => owner[t] \in Nodes
      BY OwnerTyped DEF Inv
    <2>7. /\ owner'[t] = owner[t] /\ Version(t)' = Version(t)
          /\ Exists(t)' <=> Exists(t)
      BY <1>2 DEF objects, Version, Exists
    <2>5. CASE owner[t] # n
      <3>1. Exists(t) => source'[owner[t]] = source[owner[t]]
        BY <2>3, <2>4, <2>5
      <3> QED BY <1>5, <2>1, <2>2, <2>7, <3>1 DEF RegistersOnce
    <2>6. CASE owner[t] = n
      <3>1. con[n] = t => t \notin keyed \/ n \in heard
        BY <1>2, NoneAssumption
      <3> QED BY <1>5, <2>1, <2>2, <2>6, <2>7, <3>1 DEF RegistersOnce
    <2> QED BY <2>5, <2>6
  <1> QED BY <1>3, <1>4 DEF UdpInv

\* What a datagram of another session changes for this one.
LEMMA OthersKeepUdp ==
    ASSUME Inv, NEW s \in Slots, NEW t \in Slots \ {s},
           next'[t] = next[t], due'[t] = due[t], udpPort'[t] = udpPort[t], src'[t] = src[t],
           flight' \subseteq flight,
           UNCHANGED <<sc, objects, keyed, nodes>>
    PROVE  (Clean(t) /\ NumbersAreClose(t) /\ RegistersOnce(t))'
  <1>1. Clean(t) /\ NumbersAreClose(t) /\ RegistersOnce(t)
    BY DEF Inv, UdpInv
  <1>2. /\ owner' = owner /\ state' = state /\ keyed' = keyed /\ con' = con
        /\ source' = source /\ heard' = heard /\ sent' = sent /\ sc' = sc
    BY DEF objects, nodes
  <1>3. Clean(t)'
    BY <1>1, <1>2 DEF Clean, Exists
  <1>4. NumbersAreClose(t)'
    BY <1>1, <1>2 DEF NumbersAreClose, Exists, Version
  <1>5. RegistersOnce(t)'
    BY <1>1, <1>2 DEF RegistersOnce, Exists, Version
  <1> QED BY <1>3, <1>4, <1>5

LEMMA ReceiveKeepsV2 ==
    ASSUME Inv, TypeInv', NEW d \in flight, Receive(d), flight' \subseteq flight,
           Version(d.session) = "v2"
    PROVE  /\ UdpInv'
           /\ due[d.session] <= due'[d.session]
           /\ \A t \in Slots \ {d.session} : due'[t] = due[t]
  <1>1. PICK s \in Slots : s = d.session
    BY DEF Inv, TypeInv, UdpTyped, Datagrams
  <1>2. /\ next[s] \in Nat /\ due[s] \in Nat /\ Half \in Nat \ {0}
        /\ \A e \in flight : e.n \in Nat
    BY HalfAssumption DEF Inv, TypeInv, UdpTyped, Datagrams
  <1>3. Exists(s)
    BY <1>1 DEF Inv, UdpInv, Clean
  <1>4. Clean(s) /\ NumbersAreClose(s) /\ RegistersOnce(s) /\ SourcesAreMapped
    BY DEF Inv, UdpInv
  <1>5. /\ UNCHANGED <<sc, objects, keyed, nodes>>
        /\ srcMap' = srcMap /\ src' = src
        /\ \A t \in Slots \ {s} :
              next'[t] = next[t] /\ due'[t] = due[t] /\ udpPort'[t] = udpPort[t]
    <2>1. /\ UNCHANGED <<sc, objects, keyed, nodes>>
          /\ \A t \in Slots \ {s} : next'[t] = next[t] /\ due'[t] = due[t]
      BY <1>1 DEF Receive, Inv, TypeInv, UdpTyped
    <2>2. srcMap' = srcMap /\ src' = src /\ \A t \in Slots \ {s} : udpPort'[t] = udpPort[t]
      BY <1>1 DEF Receive, SetRemoteUdpSource, Inv, TypeInv, UdpTyped
    <2> QED BY <2>1, <2>2
  <1>6. \/ next'[s] = next[s] /\ due'[s] = due[s]
        \/ /\ InSequence(s, d.n, next[s])
           /\ next'[s] = (d.n % (2 * Half)) + 1 /\ due'[s] = d.n + 1
    BY <1>1 DEF Receive, Inv, TypeInv, UdpTyped
  <1>7. InSequence(s, d.n, next[s]) => due[s] <= d.n
    <2>1. SUFFICES ASSUME InSequence(s, d.n, next[s]) PROVE due[s] <= d.n
      OBVIOUS
    <2>2. (d.n + 2 * Half - (next[s] % (2 * Half))) % (2 * Half) < Half
      BY <1>1, <2>1 DEF InSequence
    <2>3. next[s] % (2 * Half) = due[s] % (2 * Half) /\ due[s] <= d.n + Half
      BY <1>1, <1>3, <1>4 DEF NumbersAreClose
    <2> QED BY <1>2, <2>2, <2>3, NotBehind
  <1>8. due[s] <= due'[s]
    BY <1>2, <1>6, <1>7
  <1>9. NumbersAreClose(s)'
    <2>1. /\ owner' = owner /\ state' = state /\ keyed' = keyed /\ con' = con
          /\ sent' = sent /\ sc' = sc
      BY <1>5 DEF objects, nodes
    <2>2. CASE next'[s] = next[s] /\ due'[s] = due[s]
      BY <1>4, <2>1, <2>2 DEF NumbersAreClose, Exists, Version
    <2>3. CASE /\ next'[s] = (d.n % (2 * Half)) + 1 /\ due'[s] = d.n + 1
      <3>1. next'[s] % (2 * Half) = due'[s] % (2 * Half)
        <4>1. 2 * Half \in Nat \ {0} /\ d.n \in Nat
          BY <1>2
        <4>2. ((d.n % (2 * Half)) + 1) % (2 * Half) = (d.n + 1) % (2 * Half)
          BY <4>1, SameNext
        <4> QED BY <2>3, <4>2
      <3>2. \A e \in flight : e.session = s => e.n < due'[s] + Half /\ due'[s] <= e.n + Half
        BY <1>1, <1>2, <1>3, <1>4, <2>3 DEF NumbersAreClose
      <3>3. con[owner[s]] = s => sent[owner[s]] \in Nat
        BY <1>3, OwnerTyped DEF Inv, TypeInv, NodesTyped
      <3>4. con[owner[s]] = s => due'[s] <= sent[owner[s]]
        BY <1>1, <1>2, <1>3, <1>4, <2>3, <3>3 DEF NumbersAreClose
      <3> QED BY <1>1, <1>3, <1>4, <2>1, <3>1, <3>2, <3>4
                 DEF NumbersAreClose, Exists, Version
    <2> QED BY <1>6, <2>2, <2>3
  <1>10. Clean(s)' /\ RegistersOnce(s)'
    BY <1>1, <1>3, <1>5 DEF Clean, RegistersOnce, objects, Exists, Version
  <1>11. SourcesAreMapped'
    BY <1>4, <1>5 DEF SourcesAreMapped
  <1>12. \A t \in Slots \ {s} : (Clean(t) /\ NumbersAreClose(t) /\ RegistersOnce(t))'
    BY <1>5, OthersKeepUdp
  <1>13. UdpInv'
    BY <1>9, <1>10, <1>11, <1>12 DEF UdpInv
  <1> QED BY <1>1, <1>5, <1>8, <1>13

LEMMA ReceiveKeepsV3 ==
    ASSUME Inv, TypeInv', NEW d \in flight, Receive(d), flight' \subseteq flight,
           Version(d.session) = "v3"
    PROVE  /\ UdpInv'
           /\ \/ due[d.session] <= due'[d.session]
              \/ due'[d.session] = 1 /\ d.session \in keyed
           /\ \A t \in Slots \ {d.session} : due'[t] = due[t]
  <1>1. PICK s \in Slots : s = d.session
    BY DEF Inv, TypeInv, UdpTyped, Datagrams
  <1>2. /\ next[s] \in Nat /\ due[s] \in Nat /\ d.n \in Nat /\ d.from \in Sources
        /\ d.from # None
    BY NoneAssumption DEF Inv, TypeInv, UdpTyped, Datagrams
  <1>3. Exists(s)
    BY <1>1 DEF Inv, UdpInv, Clean
  <1>4. Clean(s) /\ NumbersAreClose(s) /\ RegistersOnce(s) /\ SourcesAreMapped
    BY DEF Inv, UdpInv
  <1>5. s \in keyed
    BY <1>1, <1>3, <1>4 DEF RegistersOnce
  <1>6. /\ UNCHANGED <<sc, objects, keyed, nodes>>
        /\ \A t \in Slots \ {s} :
              /\ next'[t] = next[t] /\ due'[t] = due[t]
              /\ udpPort'[t] = udpPort[t] /\ src'[t] = src[t]
    <2>1. /\ UNCHANGED <<sc, objects, keyed, nodes>>
          /\ \A t \in Slots \ {s} : next'[t] = next[t] /\ due'[t] = due[t]
      BY <1>1 DEF Receive, Inv, TypeInv, UdpTyped
    <2>2. \A t \in Slots \ {s} : udpPort'[t] = udpPort[t] /\ src'[t] = src[t]
      BY <1>1 DEF Receive, SetRemoteUdpSource, Inv, TypeInv, UdpTyped
    <2> QED BY <2>1, <2>2
  <1>7. \/ /\ udpPort' = udpPort /\ src' = src /\ srcMap' = srcMap
           /\ ~(d.n = 0 /\ udpPort[s] = None)
        \/ /\ udpPort[s] = None
           /\ d.n = 0 \/ srcMap[d.from] = s
           /\ udpPort'[s] = d.from /\ src'[s] = d.from
           /\ srcMap' = [srcMap EXCEPT ![d.from] = s]
    BY <1>1 DEF Receive, SetRemoteUdpSource, Inv, TypeInv, UdpTyped
  <1>8. \* The source is the one the session has registered from, if it has.
        d.n = 0 \/ srcMap[d.from] = s => src[s] \in {None, d.from}
    BY <1>1, <1>2, <1>3, <1>4, NoneAssumption DEF RegistersOnce, SourcesAreMapped
  <1>9. d.n = 0 => udpPort[s] \in {None, d.from}
    BY <1>1, <1>3, <1>4, <1>8 DEF RegistersOnce
  <1>10. \/ next'[s] = next[s] /\ due'[s] = due[s]
         \/ next'[s] = d.n + 1 /\ due'[s] = d.n + 1 /\ (d.n = 0 \/ d.n >= next[s])
    BY <1>1, <1>2, <1>9 DEF Receive, InSequence, Inv, TypeInv, UdpTyped
  <1>11. next[s] = due[s]
    BY <1>1, <1>3, <1>4 DEF RegistersOnce
  <1>12. next'[s] = due'[s] /\ (due[s] <= due'[s] \/ due'[s] = 1)
    BY <1>2, <1>10, <1>11
  <1>13. SourcesAreMapped'
    <2>1. ASSUME NEW p \in Sources, srcMap'[p] # None PROVE src'[srcMap'[p]] = p
      <3>1. CASE srcMap' = srcMap /\ src' = src
        BY <1>4, <2>1, <3>1 DEF SourcesAreMapped
      <3>2. CASE /\ d.n = 0 \/ srcMap[d.from] = s
                 /\ src'[s] = d.from
                 /\ srcMap' = [srcMap EXCEPT ![d.from] = s]
        <4>1. CASE p = d.from
          BY <1>2, <3>2, <4>1 DEF Inv, TypeInv, UdpTyped
        <4>2. CASE p # d.from
          <5>1. srcMap'[p] = srcMap[p] /\ srcMap[p] \in Slots
            BY <1>2, <2>1, <3>2, <4>2 DEF Inv, TypeInv, UdpTyped
          <5>2. src[srcMap[p]] = p
            BY <1>4, <2>1, <5>1 DEF SourcesAreMapped
          <5>3. srcMap[p] # s
            BY <1>8, <3>2, <4>2, <5>2, NoneAssumption
          <5> QED BY <1>6, <5>1, <5>2, <5>3
        <4> QED BY <4>1, <4>2
      <3> QED BY <1>7, <3>1, <3>2
    <2> QED BY <2>1 DEF SourcesAreMapped
  <1>14. RegistersOnce(s)'
    <2>1. /\ owner' = owner /\ state' = state /\ keyed' = keyed /\ con' = con
          /\ source' = source /\ heard' = heard /\ sc' = sc
      BY <1>6 DEF objects, nodes
    <2>2. CASE src' = src /\ udpPort' = udpPort
      BY <1>3, <1>4, <1>12, <2>1, <2>2 DEF RegistersOnce, Exists, Version
    <2>3. CASE /\ d.n = 0 \/ srcMap[d.from] = s
               /\ udpPort'[s] = d.from /\ src'[s] = d.from
      <3>1. d.n # 0 => src[s] = d.from
        BY <1>2, <1>4, <2>3, NoneAssumption DEF SourcesAreMapped
      <3>2. \A e \in flight : e.session = s /\ e.n = 0 => e.from = d.from
        BY <1>1, <1>2, <1>3, <1>4, <3>1 DEF RegistersOnce
      <3>3. con[owner[s]] = s /\ owner[s] \notin heard => d.from = source[owner[s]]
        BY <1>1, <1>2, <1>3, <1>4, <3>1 DEF RegistersOnce
      <3> QED BY <1>1, <1>3, <1>4, <1>5, <1>12, <2>1, <2>3, <3>2, <3>3
              DEF RegistersOnce, Exists, Version
    <2> QED BY <1>7, <2>2, <2>3
  <1>15. Clean(s)' /\ NumbersAreClose(s)'
    BY <1>1, <1>3, <1>6 DEF Clean, NumbersAreClose, objects, Exists, Version
  <1>16. \A t \in Slots \ {s} : (Clean(t) /\ NumbersAreClose(t) /\ RegistersOnce(t))'
    BY <1>6, OthersKeepUdp
  <1>17. UdpInv'
    BY <1>13, <1>14, <1>15, <1>16 DEF UdpInv
  <1> QED BY <1>1, <1>5, <1>6, <1>12, <1>17

\* What a step may do to the number that is due.
DueInOrder ==
    \A s \in Slots : \/ due'[s] >= due[s] \/ state'[s] = "none"
                     \/ due'[s] = 1 /\ s \in keyed

LEMMA SameDue ==
    ASSUME Inv, UNCHANGED due
    PROVE  DueInOrder
  BY DEF Inv, TypeInv, UdpTyped, DueInOrder

LEMMA RemoveDue ==
    ASSUME Inv, NEW s \in Slots, Remove(s)
    PROVE  DueInOrder
  BY DEF Inv, TypeInv, IInv, SessionsTyped, UdpTyped, Remove, DueInOrder

LEMMA ReceiveKeepsUdp ==
    ASSUME Inv, TypeInv', NEW d \in flight, Receive(d), flight' \subseteq flight
    PROVE  UdpInv' /\ DueInOrder
  <1>1. d.session \in Slots
    BY DEF Inv, TypeInv, UdpTyped, Datagrams
  <1>2. Version(d.session) \in {"v2", "v3"}
    BY <1>1, VersionTyped DEF Inv, UdpInv, Clean
  <1>3. /\ due \in [Slots -> Nat] /\ due' \in [Slots -> Nat]
    BY DEF Inv, TypeInv, UdpTyped
  <1>4. CASE Version(d.session) = "v2"
    BY <1>1, <1>3, <1>4, ReceiveKeepsV2 DEF DueInOrder
  <1>5. CASE Version(d.session) = "v3"
    BY <1>1, <1>3, <1>5, ReceiveKeepsV3 DEF DueInOrder
  <1> QED BY <1>2, <1>4, <1>5

\* The steps of a session but its end and its keys.
LEMMA ErrorKeepsUdp ==
    ASSUME Inv, TypeInv', NEW s \in Slots, Exists(s), SendError(s),
           UNCHANGED <<sc, owner, keyed, src, srcMap, next, due, nodes, flight>>
    PROVE  UdpInv' /\ DueInOrder
  <1>1. \A t \in Slots : Exists(t)' <=> Exists(t)
    BY DEF SendError, Exists, Inv, TypeInv, IInv, SessionsTyped
  <1>2. \A t \in Slots : udpPort'[t] \in {None, udpPort[t]}
    BY DEF SendError, Inv, TypeInv, UdpTyped
  <1>3. DueInOrder
    BY SameDue
  <1> QED BY <1>1, <1>2, <1>3, QuietKeeps DEF nodes

LEMMA StateKeepsUdp ==
    ASSUME Inv, TypeInv', NEW s \in Slots, Exists(s), NEW x, x # "none",
           state' = [state EXCEPT ![s] = x],
           UNCHANGED <<sc, owner, keyed, udpPort, src, srcMap, next, due, con, source>>,
           UNCHANGED <<heard, sent, flight>>
    PROVE  UdpInv' /\ DueInOrder
  <1>1. \A t \in Slots : Exists(t)' <=> Exists(t)
    BY DEF Exists, Inv, TypeInv, IInv, SessionsTyped
  <1>2. DueInOrder
    BY SameDue
  <1> QED BY <1>1, <1>2, QuietKeeps

LEMMA LoginKeepsUdp ==
    ASSUME Inv, TypeInv', NEW s \in Slots, Exists(s), Authenticated(s)
    PROVE  UdpInv' /\ DueInOrder
  <1>1. CASE SendError(s)
    BY <1>1, ErrorKeepsUdp DEF Authenticated
  <1>2. CASE state' = [state EXCEPT ![s] = "connected"] /\ UNCHANGED udpPort
    BY <1>2, StateKeepsUdp DEF Authenticated, nodes
  <1> QED BY <1>1, <1>2 DEF Authenticated

LEMMA HandshakeKeepsUdp ==
    ASSUME Inv, TypeInv', NEW s \in Slots, HandshakeStep(s)
    PROVE  UdpInv' /\ DueInOrder
  <1>1. Exists(s)
    BY DEF HandshakeStep, ProtoVer, StartEncryption, SslReady, ClientCsr, AuthResponse,
           NodeInfo, Hears
  <1>2. ASSUME NEW x, x # "none", To(s, x) PROVE UdpInv' /\ DueInOrder
    BY <1>1, <1>2, StateKeepsUdp DEF To, udps, nodes
  <1>3. CASE ProtoVer(s) \/ StartEncryption(s)
    BY <1>2, <1>3 DEF ProtoVer, StartEncryption
  <1>4. CASE SslReady(s) \/ AuthResponse(s)
    BY <1>1, <1>2, <1>4, LoginKeepsUdp DEF SslReady, AuthResponse
  <1>5. CASE ClientCsr(s)
    <2>1. CASE To(s, "auth")
      BY <1>2, <2>1
    <2>2. CASE ~To(s, "auth")
      BY <1>1, <1>5, <2>2, StateKeepsUdp DEF ClientCsr, udps
    <2> QED BY <2>1, <2>2
  <1>6. CASE NodeInfo(s)
    BY <1>6, NodeInfoKeepsUdp, SameDue DEF NodeInfo
  <1> QED BY <1>3, <1>4, <1>5, <1>6 DEF HandshakeStep

LEMMA SessionKeepsUdp ==
    ASSUME Inv, TypeInv', NEW s \in Slots, SessionStep(s)
    PROVE  UdpInv' /\ DueInOrder
  <1>1. CASE HandshakeStep(s)
    BY <1>1, HandshakeKeepsUdp
  <1>2. CASE RenewClientCertificate(s)
    BY <1>2, StateKeepsUdp DEF RenewClientCertificate, Exists, udps, nodes
  <1>3. CASE ProtocolError(s)
    BY <1>3, ErrorKeepsUdp, RemoveKeepsUdp, RemoveDue DEF ProtocolError, Hears
  <1>4. CASE TcpTimeout(s) \/ UdpTimeout(s)
    BY <1>4, ErrorKeepsUdp DEF TcpTimeout, UdpTimeout
  <1>5. CASE DiscTimeout(s) \/ NodeCloses(s)
    <2>1. Exists(s)
      BY <1>5 DEF DiscTimeout, NodeCloses, Hears, Inv, TypeInv, ObjectsTyped, Exists
    <2> QED BY <1>5, <2>1, RemoveKeepsUdp, RemoveDue DEF DiscTimeout, NodeCloses
  <1>6. CASE ConnectionDies(s)
    BY <1>6, QuietKeeps, SameDue DEF ConnectionDies, objects, udps, nodes, Exists
  <1> QED BY <1>1, <1>2, <1>3, <1>4, <1>5, <1>6 DEF SessionStep

LEMMA NodeKeepsUdp ==
    ASSUME Inv, TypeInv', NEW n \in sc.nodes, NodeStep(n)
    PROVE  UdpInv' /\ DueInOrder
  <1>1. CASE Connect(n)
    BY <1>1, ConnectKeepsUdp, SameDue DEF Connect, udps
  <1>2. CASE SendRegistration(n)
    BY <1>2, RegistrationKeepsUdp, SameDue DEF SendRegistration, Sends, udps
  <1>3. CASE SendData(n)
    <2>1. UNCHANGED due
      BY <1>3 DEF SendData, Sends, udps
    <2> QED BY <1>3, <2>1, DataKeepsUdp, SameDue
  <1>4. CASE UdpHeartbeat(n)
    BY <1>4, HeartbeatKeepsUdp, SameDue DEF UdpHeartbeat, udps
  <1>5. CASE NodeGivesUp(n)
    <2>1. \A m \in Nodes : con'[m] \in {None, con[m]}
      BY <1>5 DEF NodeGivesUp, Inv, TypeInv, IInv, SessionsTyped
    <2> QED BY <1>5, <2>1, QuietKeeps, SameDue DEF NodeGivesUp, objects, udps, Exists
  <1>6. CASE NodeRestarts(n)
    <2>1. con[n] \in Slots /\ Exists(con[n])
      BY <1>6, ScenariosAssumption
         DEF NodeRestarts, Inv, TypeInv, IInv, SessionsTyped, ConsAreOwned
    <2> QED BY <1>6, <2>1, RemoveKeepsUdp, RemoveDue DEF NodeRestarts
  <1>7. ASSUME NEW p \in Sources, Rebind(n, p) PROVE UdpInv' /\ DueInOrder
    BY <1>7, RebindKeepsUdp, SameDue DEF Rebind, udps
  <1> QED BY <1>1, <1>2, <1>3, <1>4, <1>5, <1>6, <1>7 DEF NodeStep

LEMMA InvStep == Inv /\ [Next]_vars => Inv' /\ (DueInOrder \/ UNCHANGED vars)
  <1> SUFFICES ASSUME Inv, [Next]_vars PROVE Inv' /\ (DueInOrder \/ UNCHANGED vars)
    OBVIOUS
  <1>1. TypeInv'
    BY TypeInvNext DEF Inv
  <1>2. CASE UNCHANGED vars
    BY <1>1, <1>2, QuietKeeps DEF vars, objects, udps, nodes, Exists, Inv
  <1>3. ASSUME NEW d \in flight, Arrives(d) \/ Lost(d) \/ Repeated(d)
        PROVE  UdpInv' /\ DueInOrder
    <2>1. CASE Arrives(d) \/ Repeated(d)
      BY <1>1, <2>1, ReceiveKeepsUdp DEF Arrives, Repeated
    <2>2. CASE Lost(d)
      BY <1>1, <2>2, QuietKeeps, SameDue DEF Lost, objects, udps, nodes, Exists
    <2> QED BY <1>3, <2>1, <2>2
  <1>4. CASE Next
    BY <1>1, <1>3, <1>4, NodeKeepsUdp, SessionKeepsUdp DEF Next, Inv
  <1> QED BY <1>2, <1>4

LEMMA InvAlways == Spec => []Inv
  <1>1. Init => Inv
    BY TypeInvInit, UdpInvInit DEF Inv
  <1>2. Inv /\ [Next]_vars => Inv'
    BY InvStep
  <1> QED BY <1>1, <1>2, PTL DEF Spec

\* TypeOK, for any number of nodes, sessions and datagrams: what is on its way is
\* finite and within its bound, and a timer of ten seconds runs only in a session
\* that is expected to end.
THEOREM TypeCorrect == Spec => []TypeOK
  <1>1. Inv => TypeOK
    BY TypeInvTypes DEF Inv
  <1> QED BY <1>1, InvAlways, PTL

\* Reflector::udpDatagramReceived takes no datagram after a later one, whatever is
\* lost, late or repeated, for numbers of any width in version 2 and for any port
\* a NAT hands out in version 3.
THEOREM DatagramsInOrder == Spec => TakenInOrder
  <1>1. Inv /\ [Next]_vars =>
          [\A s \in Slots : \/ due'[s] >= due[s] \/ state'[s] = "none"
                            \/ due'[s] = 1 /\ s \in keyed]_vars
    BY InvStep DEF DueInOrder
  <1> QED BY <1>1, InvAlways, PTL DEF Spec, TakenInOrder
=============================================================================
