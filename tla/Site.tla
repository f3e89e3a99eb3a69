-------------------------------- MODULE Site --------------------------------
(***************************************************************************)
(* The reflectors of one site: two twins that stand in for each other and  *)
(* satellites that lean on a parent. A satellite opens one connection to   *)
(* its parent. Twins open one to each other, send on the outbound one when *)
(* it is ready and else on the inbound one. What comes over either becomes *)
(* a remote talker of the TGHandler, without any arbitration.              *)
(*                                                                         *)
(* Connections fail silently, reflectors end, abort and are started again. *)
(* There is one TG; audio, filters and the MQTT and Redis copies of what   *)
(* happens are left out, and the secrets are right.                        *)
(*   src/svxlink/reflector/TwinLink.cpp, SatelliteLink.cpp,                *)
(*   SatelliteClient.cpp, Reflector.cpp (the twin and satellite servers,   *)
(*   fan-out), TGHandler.cpp, src/async/core/AsyncTcpPrioClientBase.cpp    *)
(***************************************************************************)
EXTENDS Naturals, Sequences

CONSTANTS
    Nodes,      \* reflectors, each the callsign of its clients as well
    External,   \* a talker that a trunk of a twin reports
    None,       \* no talker, no peer id, no connection
    Slots,      \* connections of a line that are open at either end
    Scenarios   \* the sites to look at and what happens there

(***************************************************************************)
(* A scenario is a record of                                               *)
(*   lines         lines [kind, from, to]: who opens a connection to whom  *)
(*   trunk         the reflectors with a trunk on which External talks     *)
(*   maxTalks      bound: talks                                            *)
(*   maxFailures   bound: silent connection failures, ended processes      *)
(*   maxQueue      bound: messages on a line when a client adds more       *)
(*   patient       bound: do clients key only when all has been read?      *)
(***************************************************************************)
Kinds == {"satellite", "twin"}
Line(kind, from, to) == [kind |-> kind, from |-> from, to |-> to]

\* A reflector is a satellite of one parent and nothing else (SATELLITE_OF), or
\* has at most one twin.
ASSUME LinesAssumption ==
    \A s \in Scenarios :
        /\ s.lines \subseteq {l \in [kind : Kinds, from : Nodes, to : Nodes] : l.from # l.to}
        /\ \A l, m \in s.lines :
              /\ l.from = m.from => l = m
              /\ l.kind = "satellite" => m.to # l.from
        /\ \A l \in s.lines : l.kind = "twin" => Line("twin", l.to, l.from) \in s.lines
ASSUME BoundsAssumption ==
    \A s \in Scenarios : s.maxTalks \in Nat /\ s.maxFailures \in Nat

VARIABLES
    sc,         \* the scenario
    status,     \* status[n] of the process: "up", "down" or "aborted"
    sock,       \* sock[l]: the slot of the client's open connection
    parked,     \* lines whose TcpPrioClient is in StateDisconnected
    hello,      \* hello[l]: the client has read the hello of the server
    server,     \* server[l][k]: "closed", "pending" (no hello yet) or "ready"
    timer,      \* timer[n]: n's heartbeat timer runs (TwinLink, SatelliteClient)
    toServer, toClient,     \* [l][k]: messages written and not yet read
    cut,        \* cut[l]: the slots that carry nothing more
    talker,     \* talker[n]: a client of n is talking
    remote,     \* remote[n]: the remote talker in n's TGHandler
    peerId,     \* peerId[n]: who reported it
    satActive,  \* satActive[l]: slots whose SatelliteLink has the TG in
                \* m_sat_active_tgs
    roster,     \* roster[n]: m_partner_nodes of n's TwinLink is not empty
    external,   \* external[n]: External is talking on n's trunk
    talks, failures         \* so far

Lines == sc.lines
LinesOf(kind) == {l \in Lines : l.kind = kind}
Members == {l.from : l \in Lines} \cup {l.to : l \in Lines}
Twins == {l.from : l \in LinesOf("twin")}
Out(n) == CHOOSE l \in Lines : l.from = n
In(n) == CHOOSE l \in LinesOf("twin") : l.to = n

procs == <<sc, status, failures>>
conns == <<sock, parked, hello, server, timer, cut>>
wires == <<toServer, toClient>>
tgs == <<talker, remote, peerId, satActive, external, talks>>
vars == <<procs, conns, wires, tgs, roster>>

Messages ==
    [type : {"Hello", "TalkerStop", "ExtTalkerStop", "NodeList"}]
        \cup [type : {"TalkerStart", "ExtTalkerStart"}, callsign : Nodes \cup {External}]

Hello == [type |-> "Hello"]
TalkerStart(c) == [type |-> "TalkerStart", callsign |-> c]
TalkerStop == [type |-> "TalkerStop"]
ExtTalkerStart(c) == [type |-> "ExtTalkerStart", callsign |-> c]
ExtTalkerStop == [type |-> "ExtTalkerStop"]
NodeList == [type |-> "NodeList"]

TypeOK ==
    /\ sc \in Scenarios
    /\ status \in [Nodes -> {"up", "down", "aborted"}]
    /\ sock \in [Lines -> Slots \cup {None}]
    /\ parked \subseteq Lines
    /\ hello \in [Lines -> BOOLEAN]
    /\ server \in [Lines -> [Slots -> {"closed", "pending", "ready"}]]
    /\ timer \in [Nodes -> BOOLEAN]
    /\ toServer \in [Lines -> [Slots -> Seq(Messages)]]
    /\ toClient \in [Lines -> [Slots -> Seq(Messages)]]
    /\ cut \in [Lines -> SUBSET Slots]
    /\ talker \in [Nodes -> BOOLEAN]
    /\ remote \in [Nodes -> Nodes \cup {External, None}]
    /\ peerId \in [Nodes -> {"satellite", "parent", "twin", "trunk", None}]
    /\ satActive \in [Lines -> SUBSET Slots]
    /\ roster \in [Nodes -> BOOLEAN]
    /\ external \in [Nodes -> BOOLEAN]
    /\ talks \in 0..sc.maxTalks /\ failures \in 0..sc.maxFailures

Init ==
    /\ sc \in Scenarios
    /\ status = [n \in Nodes |-> "up"]
    /\ sock = [l \in Lines |-> None]
    /\ parked = {}
    /\ hello = [l \in Lines |-> FALSE]
    /\ server = [l \in Lines |-> [k \in Slots |-> "closed"]]
    /\ timer = [n \in Nodes |-> FALSE]
    /\ toServer = [l \in Lines |-> [k \in Slots |-> <<>>]]
    /\ toClient = [l \in Lines |-> [k \in Slots |-> <<>>]]
    /\ cut = [l \in Lines |-> {}]
    /\ talker = [n \in Nodes |-> FALSE]
    /\ remote = [n \in Nodes |-> None]
    /\ peerId = [n \in Nodes |-> None]
    /\ satActive = [l \in Lines |-> {}]
    /\ roster = [n \in Nodes |-> FALSE]
    /\ external = [n \in Nodes |-> FALSE]
    /\ talks = 0 /\ failures = 0

-----------------------------------------------------------------------------
(* Readiness and sending.                                                  *)

OutboundReady(l) == sock[l] # None /\ hello[l]
Inbound(l) == {k \in Slots : server[l][k] = "ready"}

\* TwinLink::isActive
IsActive(n) == OutboundReady(Out(n)) \/ Inbound(In(n)) # {}

Carries(l, k) == k \notin cut[l] /\ sock[l] = k /\ server[l][k] # "closed"

\* Everything one handler of n writes: twin to its twin or, from a satellite,
\* to its parent (TwinLink::sendMsg, SatelliteClient::onLocal...), and sats to
\* each of its satellites (SatelliteLink::onParent...). up and down are the
\* queues without the message it has read.
Tell(n, twin, sats, up, down) ==
    LET ByClient(l, k) == l.from = n /\ OutboundReady(l) /\ sock[l] = k
        ByServer(l, k) ==
            IF l.to # n \/ server[l][k] # "ready" THEN <<>>
            ELSE IF l.kind = "satellite" THEN sats
            ELSE IF OutboundReady(Out(n)) THEN <<>> ELSE twin
    IN  /\ toServer' = [l \in Lines |-> [k \in Slots |->
              IF Carries(l, k) /\ ByClient(l, k) THEN up[l][k] \o twin ELSE up[l][k]]]
        /\ toClient' = [l \in Lines |-> [k \in Slots |->
              IF Carries(l, k) THEN down[l][k] \o ByServer(l, k) ELSE down[l][k]]]

\* Mutant: the callsign and the peer id are swapped.
SetRemoteSwapped(n, c, id) ==
    /\ remote' = [remote EXCEPT ![n] = IF c = None THEN None ELSE id]
    /\ peerId' = [peerId EXCEPT ![n] = c]

\* TGHandler::setTrunkTalkerForTGViaPeer and clearTrunkTalkerForTG: who reported
\* the talker is noted even if the talker is not new. That the other TGs leave a
\* place among the MAX_TRUNK_TALKERS remote talkers is assumed.
SetRemote(n, c, id) ==
    /\ remote' = [remote EXCEPT ![n] = c]
    /\ peerId' = [peerId EXCEPT ![n] = IF c = None THEN None ELSE id]

\* Reflector::onTrunkTalkerUpdated, for a change only: what satellites are told.
SatelliteNews(n, c) ==
    IF c = remote[n] THEN <<>>
    ELSE IF c = None THEN <<TalkerStop>> ELSE <<TalkerStart(c)>>

-----------------------------------------------------------------------------
(* Local clients, and the trunk of a twin.                                 *)

QueuesShort(n) ==
    \A l \in Lines, k \in Slots : n \in {l.from, l.to} =>
        Len(toServer[l][k]) < sc.maxQueue /\ Len(toClient[l][k]) < sc.maxQueue

\* Every line is ready and all that was sent has been read.
AtRest ==
    \A l \in Lines :
        /\ OutboundReady(l)
        /\ \A k \in Slots : /\ server[l][k] = IF k = sock[l] THEN "ready" ELSE "closed"
                            /\ toServer[l][k] = <<>> /\ toClient[l][k] = <<>>
                            /\ k \notin cut[l]

\* The first audio of a client on the free TG; Reflector::onTalkerUpdated.
Key(n) ==
    /\ status[n] = "up"
    /\ talks < sc.maxTalks
    /\ QueuesShort(n)
    /\ sc.patient => AtRest
    /\ ~talker[n] /\ remote[n] = None
    /\ talker' = [talker EXCEPT ![n] = TRUE]
    /\ talks' = talks + 1
    /\ Tell(n, <<TalkerStart(n)>>, <<TalkerStart(n)>>, toServer, toClient)
    /\ UNCHANGED <<procs, conns, remote, peerId, satActive, external, roster>>

\* The talker flushes, leaves or is timed out.
Unkey(n) ==
    /\ talker[n]
    /\ talker' = [talker EXCEPT ![n] = FALSE]
    /\ Tell(n, <<TalkerStop>>, <<TalkerStop>>, toServer, toClient)
    /\ UNCHANGED <<procs, conns, remote, peerId, satActive, external, talks, roster>>

\* The end of TrunkLink::handleMsgPeerTalkerStart for a TG without local talker.
TrunkTalkerStart(n) ==
    /\ status[n] = "up"
    /\ n \in sc.trunk
    /\ talks < sc.maxTalks
    /\ QueuesShort(n)
    /\ ~external[n] /\ ~talker[n]
    /\ external' = [external EXCEPT ![n] = TRUE]
    /\ talks' = talks + 1
    /\ SetRemote(n, External, "trunk")
    /\ Tell(n, <<ExtTalkerStart(External)>>, SatelliteNews(n, External), toServer, toClient)
    /\ UNCHANGED <<procs, conns, talker, satActive, roster>>

\* TrunkLink::handleMsgPeerTalkerStop
TrunkTalkerStop(n) ==
    /\ external[n]
    /\ external' = [external EXCEPT ![n] = FALSE]
    /\ SetRemote(n, None, None)
    /\ Tell(n, <<ExtTalkerStop>>, SatelliteNews(n, None), toServer, toClient)
    /\ UNCHANGED <<procs, conns, talker, satActive, talks, roster>>

\* Reflector::sendNodeListToAllPeers, here the part of it that a twin is sent.
\* Bound: only when the list is not there or on its way already.
SendNodeList(n) ==
    /\ status[n] = "up"
    /\ n \in Twins
    /\ ~roster[Out(n).to]
    /\ QueuesShort(n)
    /\ Tell(n, <<NodeList>>, <<>>, toServer, toClient)
    /\ UNCHANGED <<procs, conns, tgs, roster>>

-----------------------------------------------------------------------------
(* The client end of a line: TcpPrioClient and its owner.                  *)

\* A SatelliteLink that never got a hello has no timer: one whose connection died
\* silently is kept for ever, without effect, and its slot may serve again.
Unused(l, k) ==
    \/ server[l][k] = "closed"
    \/ l.kind = "satellite" /\ server[l][k] = "pending" /\ k \in cut[l]

\* One attempt succeeds. The peer's operating system accepts, onConnected sends
\* the hello and starts the heartbeat timer; satelliteConnected or
\* twinClientConnected takes the connection. Failed attempts are repeated.
Connect(l, k) ==
    /\ status[l.from] = "up" /\ status[l.to] = "up"
    /\ l \notin parked
    /\ sock[l] = None
    /\ Unused(l, k)
    /\ sock' = [sock EXCEPT ![l] = k]
    /\ hello' = [hello EXCEPT ![l] = FALSE]
    /\ server' = [server EXCEPT ![l][k] = "pending"]
    /\ timer' = [timer EXCEPT ![l.from] = TRUE]
    /\ toServer' = [toServer EXCEPT ![l][k] = <<Hello>>]
    /\ toClient' = [toClient EXCEPT ![l][k] = <<>>]
    /\ cut' = [cut EXCEPT ![l] = @ \ {k}]
    /\ UNCHANGED <<procs, parked, tgs, roster>>

ClosesClientEnd(l) ==
    /\ sock' = [sock EXCEPT ![l] = None]
    /\ toClient' = [toClient EXCEPT ![l][sock[l]] = <<>>]

ServerHasClosed(l) == sock[l] # None /\ server[l][sock[l]] = "closed"

\* SatelliteClient::onDisconnected
OnSatelliteDisconnected(l) ==
    /\ l \in LinesOf("satellite")
    /\ ServerHasClosed(l)
    /\ ClosesClientEnd(l)
    /\ hello' = [hello EXCEPT ![l] = FALSE]
    /\ timer' = [timer EXCEPT ![l.from] = FALSE]
    /\ SetRemote(l.from, None, None)
    /\ UNCHANGED <<procs, parked, server, cut, toServer, talker, satActive,
                   external, talks, roster>>

\* Mutant: the timer is stopped although there is an inbound connection.
OnTwinDisconnectedStopsTimer(l) ==
    /\ l \in LinesOf("twin")
    /\ ServerHasClosed(l)
    /\ ClosesClientEnd(l)
    /\ hello' = [hello EXCEPT ![l] = FALSE]
    /\ timer' = [timer EXCEPT ![l.from] = FALSE]
    /\ roster' = [roster EXCEPT ![l.from] = @ /\ Inbound(In(l.from)) # {}]
    /\ UNCHANGED <<procs, parked, server, cut, toServer, tgs>>

\* TwinLink::onDisconnected. The timer goes on for an inbound connection;
\* without one the link is down and the roster is cleared.
OnTwinDisconnected(l) ==
    LET up == Inbound(In(l.from)) # {}
    IN  /\ l \in LinesOf("twin")
        /\ ServerHasClosed(l)
        /\ ClosesClientEnd(l)
        /\ hello' = [hello EXCEPT ![l] = FALSE]
        /\ timer' = [timer EXCEPT ![l.from] = @ /\ up]
        /\ roster' = [roster EXCEPT ![l.from] = @ /\ up]
        /\ UNCHANGED <<procs, parked, server, cut, toServer, tgs>>

\* SatelliteClient::heartbeatTick, nothing has come for 15 seconds. A client
\* disconnected in this way stays so and its owner is not told.
SatelliteTimeout(l) ==
    /\ l \in LinesOf("satellite")
    /\ timer[l.from]
    /\ sock[l] \in cut[l]
    /\ ClosesClientEnd(l)
    /\ parked' = parked \cup {l}
    /\ UNCHANGED <<procs, hello, server, timer, cut, toServer, tgs, roster>>

-----------------------------------------------------------------------------
(* What a reflector reads. up and down are the queues without the message. *)

\* SatelliteClient::handleMsgPeerTalkerStart and ...Stop; a satellite has no
\* satellites to tell.
HandleFromParent(n, m, up, down) ==
    /\ SetRemote(n, IF m.type = "TalkerStart" THEN m.callsign ELSE None, "parent")
    /\ Tell(n, <<>>, <<>>, up, down)
    /\ UNCHANGED <<satActive, roster>>

\* SatelliteLink::handleMsgPeerTalkerStart and ...Stop, for the connection k of l.
\* A stop clears whatever remote talker holds the TG.
HandleFromSatellite(l, k, m, up, down) ==
    LET n == l.to
        c == IF m.type = "TalkerStart" THEN m.callsign ELSE None
    IN  /\ SetRemote(n, c, "satellite")
        /\ satActive' = [satActive EXCEPT ![l] = IF c = None THEN @ \ {k} ELSE @ \cup {k}]
        /\ Tell(n, <<m>>, SatelliteNews(n, c), up, down)
        /\ UNCHANGED roster

\* Mutant: a talker of the twin is treated like one of a satellite.
TwinReportsEchoed(n, c, id, up, down) ==
    /\ SetRemote(n, c, id)
    /\ Tell(n, IF c = None THEN <<TalkerStop>> ELSE <<TalkerStart(c)>>,
            SatelliteNews(n, c), up, down)
    /\ UNCHANGED <<satActive, roster>>

\* Satellites are told, the twin is not told what it has said.
TwinReports(n, c, id, up, down) ==
    /\ SetRemote(n, c, id)
    /\ Tell(n, <<>>, SatelliteNews(n, c), up, down)
    /\ UNCHANGED <<satActive, roster>>

\* TwinLink::handleMsg...: a stop clears any remote talker, a stop of an
\* external talker only one reported for the same trunk.
HandleFromTwin(n, m, up, down) ==
    \/ /\ m.type = "TalkerStart"
       /\ TwinReports(n, m.callsign, "twin", up, down)
    \/ /\ m.type = "TalkerStop"
       /\ TwinReports(n, None, None, up, down)
    \/ /\ m.type = "ExtTalkerStart"
       /\ TwinReports(n, m.callsign, "trunk", up, down)
    \/ /\ m.type = "ExtTalkerStop" /\ peerId[n] = "trunk"
       /\ TwinReports(n, None, None, up, down)
    \/ /\ m.type = "ExtTalkerStop" /\ peerId[n] # "trunk"
       /\ TwinReports(n, remote[n], peerId[n], up, down)
    \/ /\ m.type = "NodeList"
       /\ roster' = [roster EXCEPT ![n] = TRUE]
       /\ Tell(n, <<>>, <<>>, up, down)
       /\ UNCHANGED <<remote, peerId, satActive>>

\* Before the hello nothing else counts.
ReadByClient(l) ==
    LET k == sock[l]
        m == Head(toClient[l][k])
        down == [toClient EXCEPT ![l][k] = Tail(@)]
    IN  /\ k # None
        /\ toClient[l][k] # <<>>
        /\ hello' = [hello EXCEPT ![l] = @ \/ m.type = "Hello"]
        /\ IF m.type = "Hello" \/ ~hello[l]
             THEN /\ toClient' = down
                  /\ UNCHANGED <<toServer, remote, peerId, satActive, roster>>
             ELSE \/ l.kind = "satellite" /\ HandleFromParent(l.from, m, toServer, down)
                  \/ l.kind = "twin" /\ HandleFromTwin(l.from, m, toServer, down)
        /\ UNCHANGED <<procs, sock, parked, server, timer, cut, talker, external, talks>>

\* The server end of a ready connection.
ReadByServer(l, k) ==
    LET m == Head(toServer[l][k])
        up == [toServer EXCEPT ![l][k] = Tail(@)]
    IN  /\ server[l][k] = "ready"
        /\ toServer[l][k] # <<>>
        /\ \/ l.kind = "satellite" /\ HandleFromSatellite(l, k, m, up, toClient)
           \/ l.kind = "twin" /\ HandleFromTwin(l.to, m, up, toClient)
        /\ UNCHANGED <<procs, conns, talker, external, talks>>

-----------------------------------------------------------------------------
(* The server end of a line.                                               *)

\* The hello is right: SatelliteLink::handleMsgPeerHello, or
\* Reflector::twinPendingFrameReceived and TwinLink::acceptInboundConnection.
\* The hello that answers it is the first thing on the connection.
AcceptHello(l, k) ==
    /\ server[l][k] = "pending"
    /\ toServer[l][k] # <<>>
    /\ l.kind = "satellite" \/ Inbound(l) = {}
    /\ server' = [server EXCEPT ![l][k] = "ready"]
    /\ timer' = [timer EXCEPT ![l.to] = @ \/ l.kind = "twin"]
    /\ toServer' = [toServer EXCEPT ![l][k] = Tail(@)]
    /\ toClient' = [toClient EXCEPT ![l][k] = IF Carries(l, k) THEN <<Hello>> ELSE @]
    /\ UNCHANGED <<procs, sock, parked, hello, cut, tgs, roster>>

CloseServerEnd(l, k) ==
    /\ server' = [server EXCEPT ![l][k] = "closed"]
    /\ toServer' = [toServer EXCEPT ![l][k] = <<>>]

\* acceptInboundConnection: an inbound connection that is open, so far as this
\* twin knows, is kept.
RejectHello(l, k) ==
    /\ l.kind = "twin"
    /\ server[l][k] = "pending"
    /\ toServer[l][k] # <<>>
    /\ Inbound(l) # {}
    /\ CloseServerEnd(l, k)
    /\ UNCHANGED <<procs, sock, parked, hello, timer, cut, toClient, tgs, roster>>

ClientHasClosed(l, k) == server[l][k] # "closed" /\ sock[l] # k /\ k \notin cut[l]

\* The client has closed the connection: twinClientDisconnected or the signal
\* handler of acceptInboundConnection; or no hello came within 10 seconds. What
\* was sent before may be read first or be lost. No talker is released.
InboundTwinLost(l, k) ==
    /\ l.kind = "twin"
    /\ ClientHasClosed(l, k) \/ (server[l][k] = "pending" /\ k \in cut[l])
    /\ CloseServerEnd(l, k)
    /\ UNCHANGED <<procs, sock, parked, hello, timer, cut, toClient, tgs, roster>>

\* Mutant: the talkers of the satellite are left.
SatelliteLostSilently(l, k) ==
    /\ l.kind = "satellite"
    /\ ClientHasClosed(l, k) \/ (server[l][k] = "ready" /\ k \in cut[l])
    /\ CloseServerEnd(l, k)
    /\ satActive' = [satActive EXCEPT ![l] = @ \ {k}]
    /\ UNCHANGED <<procs, sock, parked, hello, timer, cut, toClient, talker, remote,
                   peerId, external, talks, roster>>

\* satelliteDisconnected, or SatelliteLink::heartbeatTick and
\* processSatelliteCleanup, which tick only after the hello; ~SatelliteLink.
SatelliteLost(l, k) ==
    LET c == IF k \in satActive[l] THEN None ELSE remote[l.to]
    IN  /\ l.kind = "satellite"
        /\ ClientHasClosed(l, k) \/ (server[l][k] = "ready" /\ k \in cut[l])
        /\ server' = [server EXCEPT ![l][k] = "closed"]
        /\ satActive' = [satActive EXCEPT ![l] = @ \ {k}]
        /\ SetRemote(l.to, c, peerId[l.to])
        /\ Tell(l.to, <<>>, SatelliteNews(l.to, c), [toServer EXCEPT ![l][k] = <<>>], toClient)
        /\ UNCHANGED <<procs, sock, parked, hello, timer, cut, talker, external,
                       talks, roster>>

-----------------------------------------------------------------------------
(* The heartbeats of a twin.                                               *)

Silent(n) == {l \in {Out(n)} : sock[l] \in cut[l]}
                 \cup {l \in {In(n)} : Inbound(l) \cap cut[l] # {}}

\* Mutant: the roster is left when the link is down.
TwinHeartbeatKeepsRoster(n) ==
    /\ n \in Twins
    /\ timer[n]
    /\ \E dead \in SUBSET Silent(n) :
           LET out == Out(n)
               in == In(n)
               outOpen == sock[out] # None /\ out \notin dead
               inOpen == Inbound(in) # {} /\ in \notin dead
           IN  /\ dead # {} \/ ~(outOpen \/ inOpen)
               /\ sock' = [sock EXCEPT ![out] = IF out \in dead THEN None ELSE @]
               /\ server' = [server EXCEPT ![in] =
                               IF in \in dead
                                 THEN [k \in Slots |-> IF k \in Inbound(in) THEN "closed" ELSE @[k]]
                                 ELSE @]
               /\ timer' = [timer EXCEPT ![n] = outOpen \/ inOpen]
               /\ UNCHANGED <<procs, parked, hello, cut, wires, tgs, roster>>

\* TwinLink::heartbeatTick in which a connection is given up that has been silent
\* for 5 seconds, the timer is stopped because none is left, or the roster cleared
\* because none has had its hello. The outbound one is opened again without
\* onDisconnected.
TwinHeartbeat(n) ==
    /\ n \in Twins
    /\ timer[n]
    /\ \E dead \in SUBSET Silent(n) :
           LET out == Out(n)
               in == In(n)
               outOpen == sock[out] # None /\ out \notin dead
               inOpen == Inbound(in) # {} /\ in \notin dead
               active == (outOpen /\ hello[out]) \/ inOpen
           IN  /\ dead # {} \/ ~(outOpen \/ inOpen) \/ (roster[n] /\ ~active)
               /\ sock' = [sock EXCEPT ![out] = IF out \in dead THEN None ELSE @]
               /\ server' = [server EXCEPT ![in] =
                               IF in \in dead
                                 THEN [k \in Slots |-> IF k \in Inbound(in) THEN "closed" ELSE @[k]]
                                 ELSE @]
               /\ timer' = [timer EXCEPT ![n] = outOpen \/ inOpen]
               /\ roster' = [roster EXCEPT ![n] = @ /\ active]
               /\ UNCHANGED <<procs, parked, hello, cut, wires, tgs>>

-----------------------------------------------------------------------------
(* Processes and the network.                                              *)

\* Process n ends: its memory is gone, its sockets are closed.
Ends(n, how) ==
    /\ status' = [status EXCEPT ![n] = how]
    /\ sock' = [l \in Lines |-> IF l.from = n THEN None ELSE sock[l]]
    /\ parked' = {l \in parked : l.from # n}
    /\ hello' = [l \in Lines |-> hello[l] /\ l.from # n]
    /\ server' = [l \in Lines |-> IF l.to = n THEN [k \in Slots |-> "closed"] ELSE server[l]]
    /\ timer' = [timer EXCEPT ![n] = FALSE]
    /\ toServer' = [l \in Lines |-> IF l.to = n THEN [k \in Slots |-> <<>>] ELSE toServer[l]]
    /\ toClient' = [l \in Lines |-> IF l.from = n THEN [k \in Slots |-> <<>>] ELSE toClient[l]]
    /\ talker' = [talker EXCEPT ![n] = FALSE]
    /\ remote' = [remote EXCEPT ![n] = None]
    /\ peerId' = [peerId EXCEPT ![n] = None]
    /\ satActive' = [l \in Lines |-> IF l.to = n THEN {} ELSE satActive[l]]
    /\ roster' = [roster EXCEPT ![n] = FALSE]
    /\ external' = [external EXCEPT ![n] = FALSE]
    /\ UNCHANGED <<sc, cut, talks>>

Killed(n) ==
    /\ failures < sc.maxFailures
    /\ status[n] = "up"
    /\ failures' = failures + 1
    /\ Ends(n, "down")

\* SatelliteClient::heartbeatTick, 10 seconds after the last message: sendMsg
\* writes to the connection, open or not, and TcpConnection::write asserts that
\* it is.
HeartbeatWithoutSocket(l) ==
    /\ l \in LinesOf("satellite")
    /\ timer[l.from]
    /\ sock[l] = None
    /\ Ends(l.from, "aborted")
    /\ UNCHANGED failures

\* docker-compose.yml, restart: unless-stopped
Started(n) ==
    /\ status[n] # "up"
    /\ status' = [status EXCEPT ![n] = "up"]
    /\ UNCHANGED <<sc, failures, conns, wires, tgs, roster>>

\* The network drops a connection without either end being told.
ConnectionFails(l, k) ==
    /\ failures < sc.maxFailures
    /\ k \notin cut[l]
    /\ sock[l] = k \/ server[l][k] # "closed"
    /\ failures' = failures + 1
    /\ cut' = [cut EXCEPT ![l] = @ \cup {k}]
    /\ toServer' = [toServer EXCEPT ![l][k] = <<>>]
    /\ toClient' = [toClient EXCEPT ![l][k] = <<>>]
    /\ UNCHANGED <<sc, status, sock, parked, hello, server, timer, tgs, roster>>

ClientStep(n) ==
    \/ Key(n) \/ Unkey(n)
    \/ TrunkTalkerStart(n) \/ TrunkTalkerStop(n)
    \/ SendNodeList(n)

LineStep(l) ==
    \/ OnSatelliteDisconnected(l) \/ OnTwinDisconnected(l)
    \/ SatelliteTimeout(l) \/ HeartbeatWithoutSocket(l)
    \/ ReadByClient(l)
    \/ \E k \in Slots :
          \/ Connect(l, k)
          \/ ReadByServer(l, k)
          \/ AcceptHello(l, k) \/ RejectHello(l, k)
          \/ InboundTwinLost(l, k) \/ SatelliteLost(l, k)
          \/ ConnectionFails(l, k)

Next ==
    \/ \E n \in Members : ClientStep(n) \/ TwinHeartbeat(n) \/ Killed(n) \/ Started(n)
    \/ \E l \in Lines : LineStep(l)

\* Talks end, TcpPrioClient goes on connecting, timers run out, sockets report
\* what has arrived, and a process that ended is started again.
Fairness ==
    /\ \A n \in Nodes :
          /\ WF_vars(Unkey(n)) /\ WF_vars(TrunkTalkerStop(n))
          /\ WF_vars(TwinHeartbeat(n)) /\ WF_vars(Started(n))
    /\ \A kind \in Kinds, a, b \in Nodes :
          LET l == Line(kind, a, b)
          IN  /\ WF_vars(l \in Lines /\ OnSatelliteDisconnected(l))
              /\ WF_vars(l \in Lines /\ OnTwinDisconnected(l))
              /\ WF_vars(l \in Lines /\ SatelliteTimeout(l))
              /\ WF_vars(l \in Lines /\ HeartbeatWithoutSocket(l))
              /\ WF_vars(l \in Lines /\ ReadByClient(l))
              /\ WF_vars(l \in Lines /\ \E k \in Slots : Connect(l, k))
              /\ \A k \in Slots :
                    /\ WF_vars(l \in Lines /\ ReadByServer(l, k))
                    /\ WF_vars(l \in Lines /\ (AcceptHello(l, k) \/ RejectHello(l, k)))
                    /\ WF_vars(l \in Lines /\ (InboundTwinLost(l, k) \/ SatelliteLost(l, k)))

Spec == Init /\ [][Next]_vars /\ Fairness

-----------------------------------------------------------------------------
(* Properties.                                                             *)

\* TwinLink.cpp, handleMsgTwinExtTalkerStart: "there is no echo loop". No twin is
\* told of a talker of its own or of one of its satellites.
NoTwinEcho ==
    \A l \in LinesOf("twin"), k \in Slots :
        LET Behind(n) == {n} \cup {s.from : s \in {t \in LinesOf("satellite") : t.to = n}}
            Starts(q) == {q[i].callsign : i \in {j \in DOMAIN q : q[j].type = "TalkerStart"}}
        IN  /\ Starts(toServer[l][k]) \cap Behind(l.to) = {}
            /\ Starts(toClient[l][k]) \cap Behind(l.from) = {}

\* clearPartnerRosterIfInactive is called by the timer and by onDisconnected: a
\* roster is not left behind where the one no longer runs and the other is past.
RosterIsWatched == \A n \in Twins : roster[n] => timer[n]

\* docs/TWIN_PROTOCOL.md, kill/restart recovery, and
\* docs/DESIGN_SATELLITE_AND_CLUSTER.md, "Satellite retries automatically": in the
\* end every line is ready at both ends, whatever each end was left with.
LinesRecover ==
    <>[](\A l \in Lines : OutboundReady(l) /\ server[l][sock[l]] = "ready")

\* A parent does not hold the TG for a satellite for ever, nor a satellite for
\* its own echo; without twins nothing is held in the end.
SatellitesRelease ==
    <>[](\A l \in LinesOf("satellite") : \A n \in {l.from, l.to} :
            remote[n] # l.from /\ (Twins = {} => remote[n] = None))

\* AsyncTcpConnection.cpp, write: assert(sock >= 0). No reflector aborts.
NoAbort == \A n \in Nodes : status[n] # "aborted"

\* docs/TWIN_PROTOCOL.md, split brain: "nothing is left in a permanently
\* inconsistent state". At rest a remote talker is talking.
NothingLeftHeld ==
    AtRest => \A n \in Nodes : \/ remote[n] = None
                               \/ remote[n] = External /\ \E a \in Nodes : external[a]
                               \/ remote[n] \in Nodes /\ talker[remote[n]]
=============================================================================
