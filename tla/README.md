# GeuReflector: a TLA+ verification project

GeuReflector is a voice conference server ("reflector") for SvxLink radio
nodes. Client nodes connect to it, select a talk group (TG) and send audio; one
client at a time holds a TG and is heard by the others on it. Reflectors are
connected to each other by trunks, satellites and twins, so that a TG spans
several of them. This directory models the reflector
(`src/src/svxlink/reflector`), checks the models with TLC and proves theorems
about them with TLAPS.

The question behind all of it is the promise "one talker at a time per TG": who
may hold a TG, that every node agrees on it, and that nobody holds it for ever,
when the parts that decide this are timers, UDP datagrams, TCP messages of
clients and messages of other reflectors in any order.

## 1. The system

A reflector is one process with one event loop. Every callback (a TCP frame, a
datagram, a timer, a line on the control PTY, a Redis notification) runs to its
end, so inside a reflector the hazards are the order of callbacks and what one
callback leaves for the next. Between reflectors they are those of a
distributed system: claims that cross, connections that fail silently, restarts.

| Component | State | Operations | What makes it correct |
|---|---|---|---|
| `TGHandler` | TG of each client, talker of each TG, two timers per TG, remote talker of each TG and the peer that reported it | `switchTo`, `removeClient`, `setTalkerForTG`, `checkTimers`, `setTrunkTalkerForTGViaPeer`, `clearTrunkTalkerForTG`, `clearAllTrunkTalkers` | a talker is a member; limits; a talker loses the TG on silence or after too long; remote talkers are protected |
| `ReflectorClient` | connection state, current TG, monitored TGs, blocking time, heartbeat counters, UDP sequence numbers | handshake, `handleSelectTG`, `handleHeartbeat`, `setBlock`, `udpMsgReceived`, `disconnect` | its TG agrees with the TGHandler's; a block ends after silence only; one session per callsign |
| `Reflector` | clients, links, pending connections, random QSY, debounce timers | UDP and PTY handlers, `onTalkerUpdated`, `onTrunkTalkerUpdated`, fan-out to links, MQTT and Redis | every start and stop is announced to everybody who should hear of it, once |
| `TrunkLink`, talkers | claimed TGs of the peer, yielded TGs, both nonces | `onLocalTalkerStart/Stop/Audio/Flush`, `handleMsgPeerTalkerStart/Stop/Audio/Flush` | simultaneous claims end with one talker; both ends agree; no TG stays held by nobody |
| `TrunkLink`, connections | outbound and inbound connection, hello flags, heartbeat counters, sticky choice of a PAIRED link | `onConnected`, `onDisconnected`, `acceptInboundConnection`, `heartbeatTick`, `sendMsg` | both connections recover; a lost peer holds nothing |
| Trunk mesh | prefixes, cluster TGs, TG interest, TG maps, aliases | `isSharedTG`, relaying, `buildOutgoingTgInterest` | a TG has one owner; relays do not loop; a stop reaches whom the start reached |
| `TwinLink` | connections, partner's roster | talker and audio mirroring, external talker start and stop | both twins show the same talker |
| `SatelliteLink`, `SatelliteClient` | parent's and satellite's end of a link, filter | talker and audio in both directions | the satellite follows the parent; it connects again; what it held is released |
| `RedisStore`, `MqttPublisher` | three connections to Redis, queue of writes, reconnect back-off | stored peers and their announcements; live talkers, clients, trunks as outputs | the links are those stored; a lost connection removes none |
| Certificates, configuration, HTTP status | files, JSON | start-up, CA, PTY commands | no protocol state |

`PROJECT.json` lists the components with their status and every hazard with its
line and the properties that cover it.

How they interact: clients talk to `Reflector` and `ReflectorClient`, which call
`TGHandler`; its signals `talkerUpdated` and `trunkTalkerUpdated` come back to
`Reflector`, which tells the local clients and calls `onLocalTalkerStart` and
`onLocalTalkerStop` of every link; links call `TGHandler` for what their peers
report. A trunk link has two TCP connections, one opened by each end.

## 2. The modules

    TGHandler ------------- MCTGHandler             TGHandlerProofs
    TGFloor (abstract)
    TrunkTalker (refines TGFloor)                   TrunkTalkerProofs
      |-- TrunkArbitration - MCTrunkArbitration     TrunkArbitrationProofs
      `-- TrunkLink -------- MCTrunkLink            TrunkLinkProofs
    TgRouting (operators)
      |-- TrunkMesh -------- MCTrunkMesh            TrunkMeshProofs
      `-- LocalAliases
            `-- TrunkRoutes - MCTrunkRoutes         TrunkRoutesProofs
    Site ------------------ MCSite                  SiteProofs
    Sessions -------------- MCSessions              SessionsProofs

Where one module would need several small instances, the instances are
*scenarios*: records of the configuration and of the bounds, one of which the
initial state picks and no step changes. One run then looks at all of them.

**TGHandler** is one reflector. Variables are the maps of `TGHandler`
(`clientTg` for `m_client_map`, `talker`, `sqlTimeoutCnt` and `silence` for the
fields of `TGInfo`, `trunkTalker` and `trunkPeer` for the two maps of remote
talkers) and the fields of `ReflectorClient` that decide who may talk
(`currentTg`, `blocktime`, `remaining`). `onAir` is what the clients have been
told by `talkerUpdated`; `quiet` and `heldFor` are history variables. One action is one
callback: `SelectTG` is `handleSelectTG` with `setTg`, `switchTo` and
`removeClientP`; `CheckTimers` is the whole pass of `checkTimers` over the TGs, the
audio timeout of a TG first (`TalkerAfterAudioTimeout`) and then its squelch
timeout, which uses the talker without looking whether there still is one.
What the peer links do to the table of remote talkers may come at any time and
in any order; the modules below say when each link does it.

**TrunkTalker** holds what two reflectors keep about a TG and the handlers of
`TrunkLink` for talkers, without saying how messages travel: `Handle` is the
dispatch of `onFrameReceived`, `AcceptStart` and `IgnoreStart` the two outcomes
of `handleMsgPeerTalkerStart`, `StopMsgs` and `AudioMsgs` the checks of
`m_yielded_tgs` in `onLocalTalkerStop` and `onLocalAudio`. The remote talker's
callsign is kept, and an audio frame carries the callsign of its speaker (in the
code it has none), so that a property can say whose voice is played.

**TGFloor** is what both trunk modules promise, without messages, connections or
failures: at each reflector the floor of a TG is free, a client's or the
peer's; a client takes a free floor only, and the peer takes the floor from a
client only at the end that gives way when claims cross. `FloorSpec` in
TrunkTalker is its specification under the mapping `FloorOf`, which reads the
local talker first, so that a client who talks over a remote talker shows as one
that took the floor from the peer. Which reflectors give way (`yielding`) may be
settled anew at any time, but in a step of its own that moves no floor (`Settle`) or
when a reflector starts again with all its floors free.

**TrunkArbitration** lets both ends send on one reliable, ordered connection
each. Clients key, talk, unkey and are dropped by a timeout; those of the
reflectors in `Selectors` also select another TG while talking, which in the code
ends the talk without a signal.

**TrunkLink** has both TCP connections of a link that is not PAIRED. A connection
is identified by the end that opened it and a slot. `toAcc` and `toInit` are its
two directions. A connection fails silently (`ConnectionFails`): nothing arrives
on it any more, and each end finds out by its own heartbeat timeout. A restart
loses a reflector's state, closes its sockets and draws a new nonce (`nonce`,
`m_priority`); the peer's (`peerNonce`, `m_peer_priority`) is 0 until the first
hello and taken from every hello after it. So which end gives way can change, and
for a while both ends or neither may think it is the one. `SendMsg` prefers the outbound
connection and falls back to the inbound one, as `sendMsg` does, so that
messages of one end can overtake each other. Time is not modelled: a timeout can
happen once nothing more can come, which is the order of events that the
15-second timeout against a 10-second heartbeat yields.

**TgRouting** has no state. It says which trunk a TG belongs on: a TG number is
the sequence of its decimal digits, as the code compares prefixes with
`std::to_string(tg)`, and `IsSharedTG`, `IsLocalTG`, `IsOwnedTG`,
`HasPrefixRoute`, `MatchesRoutable` and `ShouldRelayInbound` are the functions of
those names. The TG filters (exact, prefix, range) and the number translations
(TG_MAP, aliases) are operators too.

**TrunkMesh** puts several reflectors with one TGHandler each on a graph of
trunks. `lk[n][p]` is what n's `TrunkLink` to p keeps (`m_peer_active_tgs`,
`m_yielded_tgs`, `m_peer_interested_tgs`, `m_last_sent_tg_interest`). `Passes` is
the gate that `onLocalTalkerStart`, `onLocalTalkerStop` and `onLocalAudio` apply
at the moment of the call, `Accepts` the gate of the handlers for a peer's
messages, `Relay` is `forwardTrunk...ToOtherTrunks`; `AcceptStart` is the whole
handler: the yield, the stop it sends to the other links, the remote talker, the
relayed start. `Advertise` is `sendTgInterest`, `LoseLink` `clearPeerTalkerState`,
`RemoveTrunkLink` the removal at run time. A link is one ordered channel here;
its two connections are the subject of TrunkLink.

**LocalAliases** is `parseLocalAliases`, one entry per step, with its three maps.
**TrunkRoutes** is one reflector whose routing tables change while it runs: the
prefixes of each link, `m_all_prefixes` and the copy of it in each link. Trunks
come from the file or from hashes in Redis that a dashboard writes and announces;
of the three connections to Redis one carries the announcements (lost with it),
one the queries (a failed query finds nothing) and one the live data. The
dashboard does not wait for the reflector: it may write between the read of the
store at start-up and the SUBSCRIBE, which the event loop sends (`Subscribe`), and
while connections are down. A reconnect sets up what is lost again, may fail
halfway, and reloads the links there are. `missed` is a history variable: the peers
whose last write was not heard of or met a failing query. The PTY commands `CFG` and
`TRUNK RELOAD` are there. A default route (`*` among ROUTABLE_PREFIXES) is the
empty prefix `Star`, which only its own link ever looks at. The aliases are read
before the event loop runs.

**Site** has two twins and satellites. A line is a TCP connection that one
reflector opens to another; either end knows of it what its own sockets and
timers have told it, so the two ends differ for a while. `Tell` is everything one
handler writes: a twin sends on its outbound connection when that one is ready
and else on its inbound one (`TwinLink::sendMsg`), a satellite to its parent, a
parent to each satellite. Actions are the callbacks of `TcpPrioClient` and of the
servers, the handlers of both links, and the heartbeat timers. `parked` is the
state of a TcpPrioClient on which `disconnect` was called: it does not connect
again by itself. `Ends` is the end of a process, by a kill or by the assertion in
`TcpConnection::write`; docker starts it again.

**Sessions** is the life of client sessions: the connection states of
`ReflectorClient`, the login (`connectionAuthenticated`), the two heartbeat
timers, the delayed disconnect of `sendError`, `clientDisconnected` and the node
lists; then UDP: who a datagram belongs to (by client id, or by source in protocol
version 3), the registration of the source, and the check of the sequence number,
16 bits wide in version 2. `told` and `due` are history variables: the callsigns
a node has been told of, and the unreduced number of the datagram that should come
next.

Abstractions shared by the modules: callsigns and peer ids are values, there are
no audio contents and no wording of messages. Operators marked "Mutant" in a
module are faulty variants of the definition below them; they are not part of the
specification, and `PROJECT.json` says which property finds which of them.

## 3. The runs

| Run | Module, cfg | Shows |
|---|---|---|
| `tg_clients` | MCTGHandler | two clients, two TGs, a limit of one active TG, an ALLOW pattern that refuses one client one TG, a squelch timeout of 2 s: the talker is a member (`TalkerIsMember`), both records of a TG agree (`MembershipsAgree`), the squelch timeout blocks whoever has held the TG for all of it and nobody else, and never dereferences a talker that the audio timeout has just cleared (`CutOffIsDue`), a block ends only after silence (`BlockEndsAfterSilence`), nobody holds a TG for ever (`NobodyHoldsForever`) |
| `tg_stop` | MCTGHandler, `_stop` | *violation* of `StopIsAnnounced`: a talker that selects another TG is not announced as stopped |
| `trunk_race` | MCTrunkArbitration | both ends claim at once: one talker per reflector (`OneTalkerPerNode`), the link's records match the announced talker (`TalkerRecordsAgree`), the end with the higher nonce follows the other exactly (`LoserFollowsWinner`), who talks is carried once all is read (`AgreementAtRest`), nobody is heard under another's callsign (`VoiceIsAnnounced`), the floor is passed as TGFloor says (`FloorSpec`), the conflict ends (`ConflictEnds`) |
| `link` | MCTrunkLink | two silent failures or restarts, each with a new nonce: the records stay coherent, on an established trunk each end knows the nonce the other has now (`NoncesAgree`), the floor is passed as TGFloor says, and both connections come up again for good (`LinkRecovers`) |
| `mesh` | MCTrunkMesh | five meshes of three reflectors: one talker per reflector, nothing relayed back to its speaker (`NoEcho`), a talker is followed wherever somebody listens and nowhere after its stop (`ListenersFollow`), interest reaches every reflector towards the owner although links are lost, interest expires and a trunk is removed (`InterestArrives`) |
| `mesh_gateway` | MCTrunkMesh, `_gateway` | *violation* of `TalkersAreReal`: a gateway that loses the talker's trunk does not stop the talker at the others |
| `routes` | MCTrunkRoutes | peers stored and deleted from the start-up on, reloads, a default route, lost connections to Redis and failed reconnects: a TG has one next hop (`OneNextHop`), no prefix of a removed peer remains in the table or in any link's copy (`NoGhostPrefix`), links are those stored but for the peers whose own last announcement is on its way or was missed (`StoredPeersAreLinked`); aliases are owned (`AliasesAreOwned`) and what is dialled is what is published (`DialledIsPublished`) |
| `routes_reload` | MCTrunkRoutes, `_reload` | *violation* of `NoLostTG`: a reload with Redis empties the routable prefixes of a trunk of the file |
| `site` | MCSite | satellite, twins, and all three: no echo between twins (`NoTwinEcho`), a roster is watched by a timer (`RosterIsWatched`), all lines come up again at both ends (`LinesRecover`), a satellite's talker is released (`SatellitesRelease`) |
| `satellite_write` | MCSite, `_write` | *violation* of `NoAbort`: a satellite without connection writes its heartbeat and aborts |
| `site_rest` | MCSite, `_rest` | *violation* of `NothingLeftHeld`: a talker of a lost twin is held for ever |
| `sessions` | MCSessions | two nodes under one callsign or behind one NAT, a node that stalls, datagrams that are lost, late and repeated: one session per callsign (`OneSessionPerCallsign`), every node is told of just those logged in (`NodeListsAgree`), no datagram is taken after a later one (`TakenInOrder`), handshakes end (`HandshakesEnd`), nodes come back (`NodesComeBack`) |

`tg_clients`, `trunk_race`, `mesh`, `routes`, `site` and `sessions` check the type
invariant of their module as well.

**Bounds.**
*TGHandler, trunks.* One or two TGs: the tables are indexed by TG and the only
thing that couples TGs is a limit, for which two TGs and limits of 1 suffice.
Two clients make a talker and a competitor; on a trunk end B has two, so that one
talk can follow another with messages still in flight. Timeouts of 1 and 2 s reach
every comparison of the timers from both sides. `MaxQueue` (3 messages, or 1 per
connection in TrunkLink, when a client adds more) lets claims cross, a stop
follow a claim unread, and the start of the next talk follow both.
`MaxFailures` = 2 allows a failure during the recovery from another. `Nonces` in
TrunkLink has reflector A at 2 and lets B draw 1 or 3 whenever it starts, so that
either end gives way and a restart can turn that round. `Slots` = 2:
an old connection and its successor, the case the code's limit of two pending
connections is made for; a new connection takes any free slot (`NewSlot`), for slots
are names only. `PtyBlocktimes` are the seconds an operator may give.

*Mesh.* Three reflectors are the fewest with a gateway or with a cycle. `Chain`:
two talkers behind a gateway key at once. `Cluster`: three claims of a cluster TG
on a cycle of trunks. `Owner`: a full mesh where the owner relays the others to
one another, and `DefaultRoute`: a gateway with a `*` route; both one talk after
another (`patient`: a client keys when all has been read), for what
`ListenersFollow` promises holds for a talker that met no other. `Interest`:
a listener comes and goes behind the gateway while a link is lost, interest
expires and the gateway removes a trunk. Three talks, or one; one lost link; two
selections.

*Routes.* The reflector owns 2, has the file trunk of 24, which an operator gives 34
and a default route, and two Redis peers of 3 and 31, so that every relation of
prefixes occurs; lists of up to three aliases, three announcements on their way. The
subscription and the connection for live data are lost once; queries fail twice, the
first time maybe at start-up already, so that a reconnect can fail halfway after a
query has failed.

*Site.* `WithSatellite`: satellite and parent, two talks, one of them maybe a
trunk's, two failures. `Pair`: twins, two failures and no talk, for what happens to
two connections each of which either end may think dead. `Whole`: twins, satellite
and trunk with one talk and no failure. Two slots, an old connection and a new
one. For `site_rest` clients are patient and there is one failure: nothing but
that failure can be blamed.

*Sessions.* Three slots: a new session of either node beside an old one. Half of
the sequence numbers is 2, so that six datagrams run through all four numbers. A
datagram is overtaken by fewer than half of the numbers, and no more than that are
lost in a row: a session silent for 120 s ends, and 2^15 frames of 20 ms are eleven
minutes. The 2^32 datagrams after which the counter of the cipher would wrap are
out of reach.

**Fairness.** `TGHandler`: `CheckTimers` only; the timer is periodic and nothing
disables it. `TrunkArbitration`: each end reads what arrives, as the event loop
does. `TrunkLink`: reading, connecting (TcpPrioClient retries) and every timeout
and disconnect notice. `TrunkMesh`: reading, the interest timers, and a dead link
is noticed and connected again. `TrunkRoutes`: the event loop is entered, sends
the SUBSCRIBE and handles announcements, and the reconnect timer runs. `Site`: also a talk ends and an ended process is started
again (`restart: unless-stopped`). `Sessions`: nodes that do not stall go on with
the handshake, connect again and repeat their registration; timers run and
datagrams arrive. No fairness is asked of clients that key, of failures or of the
operator; failures are bounded, so that what "comes up again" does so after the
last one.

**Deadlock** is checked in `tg_clients`, `tg_stop` and `trunk_race`. The others
really can rest. In TrunkLink both reflectors may hold the TG for a remote talker
when nobody talks, so that no client can take it and no message is under way
(when a start and its stop travelled on different connections). In the mesh and
the site all talks, losses and failures that the scenario has are over and all has
been read. The routes end where an alias list has been read that is not
the one with which the event loop is entered (`RunsWith`, a bound: what happens
afterwards, the dashboard's writes included, reads and changes no alias), and in the sessions all nodes are served
and their datagrams sent.

## 4. What the code does otherwise than its documents say

1. `tg_stop`: c1 keys on TG 1 and selects TG 2. `removeClientP` forgets the
   talker without `talkerUpdated`; no stop is sent to clients, trunks, MQTT or
   Redis. `docs/MQTT.md` line 56 promises an event when a client stops talking.
2. `mesh_gateway`: A - B - C, A's talker is relayed by B to C. B loses the link to
   A and clears its own table (`TrunkLink.cpp` line 1884); C is sent no stop and
   keeps the TG for a talker that is gone. `docs/PEER_PROTOCOL.md` line 528
   promises that clients are not left blocked.
3. `routes_reload`: `TrunkLink::reloadConfig` reads the routable prefixes again
   without Redis only (line 2026); with Redis every reload, also the one after a
   reconnect, leaves a trunk of the file without them, and the TGs on them on no
   trunk. `docs/REDIS.md` lines 394-395 call file trunks immutable at run time.
4. `satellite_write`: `SatelliteClient::heartbeatTick` closes a silent connection
   and lets the timer run. `disconnect` raises no signal and the TcpPrioClient does
   not connect again; the next tick writes to the closed connection and meets
   `assert(sock >= 0)` (`AsyncTcpConnection.cpp` line 241).
5. `site_rest`: a twin whose partner is lost in the middle of a talk keeps the
   remote talker: neither `onDisconnected` nor the heartbeat clears it
   (`TwinLink.cpp` line 424). After both are connected again the TG is held for
   nobody. `docs/TWIN_PROTOCOL.md` line 420 says nothing is left inconsistent.

Seen while modelling, without a run of its own:

* A trunk that has lost its only, outbound, connection releases no talker
  (`TrunkLink.cpp` line 903); only the loss of the inbound one does.
* Without Redis, `TRUNK RELOAD` brings routable prefixes into a link but not into
  `m_all_prefixes`, so that two links may carry one TG. `OneHop` below is
  therefore proved with Redis.
* `parseLocalAliases` is called at start-up only; a trunk added later may own the
  long number of an alias. A removed trunk releases its talkers under the numbers
  of the wire, which leaves a talker delivered on an alias.
* `docs/REDIS.md` line 406 says that after a mid-flight disconnect the reflector keeps
  "running on last-known in-memory config". `loadTrunkPeers` returns no peers when
  its query fails (`RedisStore.cpp` line 202), and `onRedisConfigChanged` takes that
  for a deleted peer: while the query connection is dead, the announcement of a peer
  that is still stored removes its trunk, and a reflector whose query fails at
  start-up starts without its trunks. Nothing but a peer's next announcement, heard
  when queries work again, brings its trunk back; the query connection is looked after
  only when another one is lost.
* `docs/REDIS.md` lines 413-415 say that the `all` reload after a reconnect picks up
  "any changes made while the connection was down". Of trunks it adds and removes
  none (`Reflector.cpp` line 3465): a peer stored or deleted during the outage stays
  without its link, or with it, until it is announced again. The same goes for one
  written between the read of the store at start-up and the SUBSCRIBE. For these
  peers, and those of the item above, `StoredPeersAreLinked` makes its exception
  (`missed`); what it promises is that they are the only ones.
* Twins do not compare nonces, although `docs/TWIN_PROTOCOL.md` lines 152-156
  describe a tie-break; a parent has no priority over a satellite, although the
  design document says so; a parent echoes a satellite's start to it.
* A start and a stop between twins can arrive in the other order, for each takes
  the connection that is ready when it is sent.
* A SatelliteLink that never gets a hello has no timer.

## 5. What is proved

For every set of clients, reflectors, TGs, callsigns, any configuration, limits,
timeouts, nonces and bounds (only the ASSUMEs of the modules):

* **TGHandlerProofs**: the type invariant (`TypeCorrect`), `TalkersAreMembers`,
  `MembershipsHold`, `BlocksEndAfterSilence` and `CutOffsAreDue`. The
  inductive invariant `IInv` joins the state invariants with `BlockCounts`: the
  remaining blocking time and the seconds of silence since the last audio add up
  to the blocking time. Without it nothing relates the moment the counter runs out
  to the silence before it. That a limit holds rests on a cardinality argument: a
  client leaves its TG before it enters another, so the limit is compared with the
  TGs of the others. `CutOffsAreDue` rests on the squelch counter and `heldFor` adding
  up to SQL_TIMEOUT for every talker: no way of taking a TG leaves an older count.
* **TrunkTalkerProofs**: lemmas that each handler keeps `TalkInv`
  (`OneTalkerPerNode`, the agreement of the records, and types) for whatever
  message it meets, hence for every transport. For the refinement it also has
  `FloorStep`: a step changes the talkers of one reflector, each TG of it in one of
  four ways, each of which `MayFollow` of TGFloor allows; `OneTalkerPerNode` is
  what makes the end of a local talk a free floor. Every handler is a `FloorStep`.
* **TrunkArbitrationProofs**: types, `OneTalker`, `RecordsAgree`, the refinement of
  TGFloor (`ImplementsFloor`), and three properties of messages in flight:
  `LoserFollows`, `AgreesAtRest` and `VoiceAnnounced`. Their common notion is that
  the first messages of a channel *lead* a record to a talker (`Leads`): the last
  claim or stop among them announces the talker, and if there is none the record
  is already right. `Followed` says that the channel of the end with the lower
  nonce leads the other end's record to its talker, for the other end takes every
  claim. `Resolved` says of the end with the higher nonce that its talker is led
  to, or a claim that ends it is on its way to it. `SentInv` says that every voice
  on its way is preceded by the claim that announces it. The lemmas on `Leads` say
  what writing and reading a message do to it.
* **TrunkLinkProofs**: types, the invariants and the refinement of TGFloor under
  failures, restarts and reordering. `TalkInv` is itself inductive there, by the
  same lemmas. `NoncesKnown` (`NoncesAgree`) says that hellos of an old process do not
  outlive it where they count: an end that has had its hello on a connection
  still open at both ends has it from the process that is at the other end now, and a
  connection is accepted on the hello that was sent on it (`NonceInv`), so that on an
  established trunk each end decides by the nonces of now. `ImplementsFloor` takes the
  end that gives way from the nonces each end holds at that moment (`Wins`). A claim
  moves the floor and leaves the nonces alone, a hello does the reverse, and a restart
  frees the floor with the nonce it replaces: whatever the nonces become, a late claim
  of an old process takes the floor from a client only where the nonces held when it
  is read say so.
* **TrunkMeshProofs**: types (`TypeCorrect`), and `OneTalker` on every reflector of
  every mesh: a local talker is cleared by the handler that sets a remote one,
  whatever number the maps and aliases translate to. `NoEcho` rests on two tables
  that do not change and overestimate what can happen: `carried[n][p]`, the TGs n
  and p may pass one another, and `heardFrom[n][tg][c]`, the peers n may hear c from
  on tg. A mesh is `LoopFree` if some such tables take in all that the prefixes, the
  maps and the relay rule permit (`Carries`, `Flows`) and still have nobody relay a
  talk to its own reflector. `LoopFreeMeansNoEcho`: then it does not happen, for the
  invariant `EchoInv` says that every message under way is one the tables expect,
  and that nobody is interested in what is not carried. Two shapes are loop-free,
  which gives `TreesAndFullMeshesDoNotEcho`: a tree of trunks with any configuration
  (`TrunkTree`: a talk only moves away along its path), and a full mesh
  (`FullMesh`: of a TG that is not a cluster TG only the owner has anybody to relay
  to, and what the owner has relayed nobody relays again). A full mesh has to agree
  on the cluster TGs: `shouldRelayInbound` relays a TG with a prefix that is not in
  this reflector's own CLUSTER_TGS. `MCTrunkMesh` assumes, and so has TLC evaluate,
  that each of its meshes has one of the two shapes.
  `ListenersFollow` is proved for meshes of any size and shape whose prefixes agree
  (`RoutedMeansFollowed`). `Routed` says this of the configuration alone: nothing is
  filtered, renumbered, tuned or removed (`Plain`), and for each TG there is a set of
  reflectors, the listeners among them (`Spans`), all of whom come to ask their next
  hop for the TG (`Asks`), and over which each listener's talk goes along one tree
  (`Reaches`: `hop[n]` is the one peer n hears it from; whoever may pass it on to
  another peer is that peer's hop, and each hop has reason to). The inductive
  invariant `FollowInv` says of the running mesh: every talk message under way goes
  along the tree of one listener; at each edge the last claim under way, or else
  what the hearer holds, is what the teller holds (`LeadsTo`); an interest that was
  sent is noted or still on its way (`InterestInv`), and all on the tree have asked
  (`Asked`) by the time anybody talks. At rest this leaves one talker that all hold.
  The tree may change only when a client keys at rest while nobody talks
  (`Reoriented`): at rest all have asked, so the new tree is as complete as the old.
  The lemma on relays is `Heard`: a talk message is refused only where the
  configuration has it refused, or else held and passed on as the same claim. TLC
  found no violation of `FollowInv` on seven meshes (chains, a default route,
  a full mesh, cluster TGs) before it was proved. `EverybodyIsReached` of
  `MCTrunkMesh` has TLC evaluate `Routed` on each scenario the property is about.
  `FullMeshesFollow` shows that the documented full mesh is routed at any size, if
  each TG that is listened to has an owner or is a cluster TG, and not both
  (`Carried`). `Routed` is sufficient, not necessary: a cluster TG that a prefix
  claims too is outside it, because it may reach a reflector by two ways.
* **TrunkRoutesProofs**: types; with Redis, `OneHop`; `NoGhost`, `PeersAreLinked`,
  `AliasesOwned`, `DialledPublished`. `OneHop` rests on `TableCovers`
  (the table and every link's copy of it hold at least the prefixes of the links)
  and on `LongestAgree`: two prefixes of one number, each the longest in a table
  that holds both, are the same. `PeersAreLinked` holds by
  itself with the types of `links` and `events` (`LinksInv`): an announcement that is
  handled settles its own peer and no other, and a loss puts the peers of the
  announcements it drops among the missed.
* **SiteProofs**: types, `RosterWatched` and `NoEcho` for every site and any number
  of failures. The invariant says of each line that every talker start sent to a
  parent or twin names a reflector behind its sender (`Wires`); no reflector is
  behind both twins, since each opens one line (`BehindTwins`). The timer of a twin
  runs while either of its connections is open (`Timed`), which is what a roster
  that arrives on one needs.
* **SessionsProofs**: types, `OneSession` and `ListsAgree`, from what each session's
  state says of its callsign and of the lists, and `DatagramsInOrder`
  (`TakenInOrder`). In version 2 a datagram is taken if its number is less than half
  of the numbers ahead of the one expected; the lemmas on remainders say that this
  is the order of sending as long as the two are closer than that
  (`NumbersAreClose`), which is the bound `InWindow`. In version 3 a registration
  starts the numbers again before its port is looked at; all registrations of a
  session come from one port (`RegistersOnce`), so none that is refused does so.

**Model-checked only.** Liveness (`NobodyHoldsForever`, `ConflictEnds`,
`LinkRecovers`, `InterestArrives`, `LinesRecover`, `SatellitesRelease`,
`HandshakesEnd`, `NodesComeBack`), which is outside the prover's reach. And
`ListenersFollow` of the mesh where it goes beyond `Routed`; every scenario with
patient clients that the runs check is routed.

**What the proofs assume.** Only the ASSUMEs of the modules, which TLC evaluates for
every run, and for `NoEcho` and `ListenersFollow` of the mesh the shapes that their
theorems state as hypotheses. Of the system the ASSUMEs say: the trunks are configured on both ends
(`PeersAssumption`), no translation leads out of the TGs considered
(`NumbersAssumption`), no client is named like the absence of one
(`NoneAssumption`), prefixes are sequences of digits (`PrefixesAssumption`), a
section of the file is not one of the store (`SectionsAssumption`), each node has a
port of its own to begin with (`SourcesAssumption`); the rest gives the bounds their
type.
`TalkersAssumption` has the trunk and mesh modules speak of no more than
MAX_TRUNK_TALKERS (10000) TGs: at that number of remote talkers `TGHandler` refuses the
next one (`TGHandler.cpp` lines 319-325), while the link has already marked the TG as
claimed and maybe as yielded, so that its records would no longer agree.
`TGHandler` itself has the limit (`SetTrunkTalkerForTGViaPeer`).

## 6. What is not modelled, and why

* PAIRED trunks, whose peer is a twin pair: the sticky choice of a connection, and
  the failover in the middle of a talk. The hazards at `TrunkLink.cpp` lines 1315
  and 1450 name what to look for. They would be a variant of TrunkLink with two
  outbound connections, and are the next thing to add.
* Monitored TGs, random QSY and AUTO_QSY, the receiver debounce: they change who
  listens and when a TG is left, not who holds it.
* Several claims of one TG by different peers of one reflector, and the stop of one
  that clears the claim of another (`TrunkLink.cpp` line 1173): they are steps of the
  mesh, but `ListenersFollow` is about a talker that met no other and the documents
  say nothing of the others. Interest that expires in the middle of a talk is a step
  too, and looked at by the safety properties and `InterestArrives` only.
* Trunks of a site beyond the talkers they report to a twin: that a lost satellite's
  talkers are stopped at the trunks too, and a stop relayed for another trunk peer
  than the recorded one (`SatelliteLink.cpp` line 110, `TwinLink.cpp` line 691).
* The failed verification of a hello and the limit of pending connections over all
  addresses.
* Three claims of a cluster TG at once end with one talker per reflector
  (`OneTalkerPerNode` of the mesh), but with which is a question the code answers
  pair by pair; no document says what to expect.
* What twins do when both let a client talk (no tie-break exists), and their
  failures in the middle of a talk beyond the finding above.
* Audio and flush on twin and satellite lines, the filter of a satellite, the
  status messages for display.
* The queue and the expiry of live data in Redis, and MQTT: outputs, read by
  nothing here.
* TLS and certificates, configuration files, the HTTP status page, logging, packing
  of messages, audio contents and codecs: no protocol state. The Async library and
  the rest of the SvxLink code in the repository are upstream; how sockets, timers
  and TcpPrioClient behave is taken from their source where the reflector depends
  on it, and not analysed beyond that.
