------------------------------ MODULE TrunkMesh ------------------------------
(***************************************************************************)
(* Several reflectors connected by trunks. Each keeps one TGHandler, whose *)
(* remote talkers all its links share, and for every link the TGs the peer *)
(* is talking on, those yielded to it and those it is interested in. What  *)
(* a link is told, and what a reflector relays from one trunk to others,   *)
(* follows from the routing of TgRouting.                                  *)
(*                                                                         *)
(* A link is modelled by one ordered channel per direction; how its two    *)
(* connections come and go is the subject of TrunkLink. A client is named  *)
(* by its reflector; a flush and the muting of a callsign, which change     *)
(* nothing here, are left out.                                             *)
(*   src/svxlink/reflector/TrunkLink.cpp, Reflector.cpp                    *)
(***************************************************************************)
EXTENDS TgRouting

CONSTANTS
    Nodes,      \* reflectors, each the callsign of its client as well
    TGs,        \* TG numbers in use
    None,       \* the null pointer, the empty callsign
    Scenarios   \* the meshes to look at and what happens in them

(***************************************************************************)
(* A scenario is a record of                                               *)
(*   config     config[n]: n's prefixes, cluster TGs, aliases, and a link  *)
(*              record for each peer                                       *)
(*   priority   priority[n][p]: the nonce of n's link to p                 *)
(*   speaks     bound: speaks[n]: the TGs n's client talks on              *)
(*   tunes      bound: tunes[n]: the TGs n's client selects and leaves     *)
(*   listening  listening[n]: the TGs n's clients start on                 *)
(*   maxTalks, maxMoves, maxLosses                                         *)
(*              bounds: talks, TG selections, lost links                   *)
(*   maxQueue   bound: messages under way when a client goes on talking    *)
(*   expiry     may a peer's interest expire?                              *)
(*   patient    bound: do clients key only when all has been read?         *)
(*   removals   bound: pairs <<n, p>> of links an operator removes         *)
(***************************************************************************)
ASSUME NoneAssumption == None \notin Nodes

PeersIn(s, n) == DOMAIN s.config[n].link

ASSUME PeersAssumption ==
    \A s \in Scenarios : \A n \in Nodes :
        /\ PeersIn(s, n) \subseteq Nodes \ {n}
        /\ \A p \in PeersIn(s, n) : n \in PeersIn(s, p)

\* TGs is large enough: every translation of a number in it is in it.
ASSUME NumbersAssumption ==
    \A s \in Scenarios : \A n \in Nodes : \A tg \in TGs :
        /\ Translate(s.config[n].route, tg) \in TGs
        /\ Translate(s.config[n].deliver, tg) \in TGs
        /\ \A p \in PeersIn(s, n) :
              /\ Translate(s.config[n].link[p].mapIn, tg) \in TGs
              /\ Translate(s.config[n].link[p].mapOut, tg) \in TGs

ASSUME ScenariosAssumption ==
    \A s \in Scenarios :
        /\ s.listening \in [Nodes -> SUBSET TGs]
        /\ \A n \in Nodes : s.tunes[n] \subseteq TGs
        /\ s.maxTalks \in Nat /\ s.maxMoves \in Nat /\ s.maxLosses \in Nat

\* setTrunkTalkerForTG refuses the remote talker of one TG more, without telling
\* the link that has marked the TG, so that this is about fewer TGs.
MAX_TRUNK_TALKERS == 10000
ASSUME TalkersAssumption ==
    IsFiniteSet(TGs) /\ Cardinality(TGs) <= MAX_TRUNK_TALKERS

VARIABLES
    sc,             \* the scenario
    talker,         \* talker[n][tg]: the local talker in n's TGHandler
    trunkTalker,    \* trunkTalker[n][tg]: the remote talker in n's TGHandler
    lk,             \* lk[n][p]: what n's link to p keeps
    listening,      \* listening[n]: the TGs n's clients have selected
    links,          \* links[n]: the peers in n's m_trunk_links
    up,             \* up[n][p]: TrunkLink::isActive
    chan,           \* chan[n][p]: messages n has sent and p not yet read
    talks, moves, losses    \* so far

Config == sc.config
Peers(n) == PeersIn(sc, n)

counts == <<talks, moves, losses>>
vars == <<sc, talker, trunkTalker, lk, listening, links, up, chan, counts>>

\* m_peer_active_tgs, m_yielded_tgs, m_peer_interested_tgs and
\* m_last_sent_tg_interest.
LinkState == [active : SUBSET TGs, yielded : SUBSET TGs,
              interested : SUBSET TGs, lastSent : SUBSET TGs]
Fresh == [active |-> {}, yielded |-> {}, interested |-> {}, lastSent |-> {}]

Messages ==
    [type : {"TalkerStart", "Audio"}, tg : TGs, callsign : Nodes]
        \cup [type : {"TalkerStop"}, tg : TGs]
        \cup [type : {"TgInterest"}, tgs : SUBSET TGs]

TalkerStart(tg, c) == [type |-> "TalkerStart", tg |-> tg, callsign |-> c]
TalkerStop(tg) == [type |-> "TalkerStop", tg |-> tg]
Audio(tg, c) == [type |-> "Audio", tg |-> tg, callsign |-> c]
TgInterest(tgs) == [type |-> "TgInterest", tgs |-> tgs]

TypeOK ==
    /\ sc \in Scenarios
    /\ talker \in [Nodes -> [TGs -> Nodes \cup {None}]]
    /\ trunkTalker \in [Nodes -> [TGs -> Nodes \cup {None}]]
    /\ \A n \in Nodes :
          /\ lk[n] \in [Peers(n) -> LinkState]
          /\ links[n] \subseteq Peers(n)
          /\ up[n] \in [Peers(n) -> BOOLEAN]
          /\ \A p \in Peers(n) : chan[n][p] \in Seq(Messages)
    /\ listening \in [Nodes -> SUBSET TGs]
    /\ talks \in 0..sc.maxTalks /\ moves \in 0..sc.maxMoves /\ losses \in 0..sc.maxLosses

Init ==
    /\ sc \in Scenarios
    /\ talker = [n \in Nodes |-> [tg \in TGs |-> None]]
    /\ trunkTalker = [n \in Nodes |-> [tg \in TGs |-> None]]
    /\ lk = [n \in Nodes |-> [p \in Peers(n) |-> Fresh]]
    /\ listening = sc.listening
    /\ links = [n \in Nodes |-> Peers(n)]
    /\ up = [n \in Nodes |-> [p \in Peers(n) |-> TRUE]]
    /\ chan = [n \in Nodes |-> [p \in Peers(n) |-> <<>>]]
    /\ talks = 0 /\ moves = 0 /\ losses = 0

-----------------------------------------------------------------------------
(* What a reflector tells its peers.                                       *)

\* m_all_prefixes
AllPrefixes(n) ==
    Config[n].local
        \cup UNION {Config[n].link[p].remote \cup Config[n].link[p].routable : p \in links[n]}

Shared(n, p, tg) == IsSharedTG(Config[n].link[p], AllPrefixes(n), tg)

Filtered(n, p, tg) ==
    IsBlacklisted(Config[n].link[p], tg) \/ ~IsAllowed(Config[n].link[p], tg)

\* The gate of onLocalTalkerStart, onLocalTalkerStop and onLocalAudio, with
\* ls the state of n's links at the time of the call.
Passes(n, p, tg, ls) ==
    LET out == Translate(Config[n].route, tg)
    IN  /\ up[n][p]
        /\ ~Filtered(n, p, out)
        /\ \/ out \in DOMAIN Config[n].link[p].mapOut
           \/ Shared(n, p, out)
           \/ out \in Config[n].cluster
           \/ out \in ls[p].interested

Wire(n, p, tg) == Translate(Config[n].link[p].mapOut, Translate(Config[n].route, tg))

OnLocalTalkerStart(n, p, tg, c, ls) ==
    IF Passes(n, p, tg, ls) THEN <<TalkerStart(Wire(n, p, tg), c)>> ELSE <<>>

\* A stop that comes from yielding to the peer is kept back.
OnLocalTalkerStop(n, p, tg, ls) ==
    IF Passes(n, p, tg, ls) /\ tg \notin ls[p].yielded
      THEN <<TalkerStop(Wire(n, p, tg))>> ELSE <<>>

OnLocalAudio(n, p, tg, c, ls) ==
    IF Passes(n, p, tg, ls) /\ tg \notin ls[p].yielded
      THEN <<Audio(Wire(n, p, tg), c)>> ELSE <<>>

\* buildOutgoingTgInterest and aggregatePeerInterestsForLink: only the owner of
\* a TG, or the next hop towards it, is told.
OutgoingInterest(n, p) ==
    {tg \in listening[n] \cup UNION {lk[n][q].interested : q \in links[n] \ {p}} :
        ~Filtered(n, p, tg) /\ Shared(n, p, tg)}

\* n sends msgs[p] to each p; what goes to a peer that has lost the link is
\* lost. The message read from peer from, if any, leaves its channel.
SendAfter(n, from, msgs) ==
    chan' = [a \in Nodes |-> [b \in Peers(a) |->
        IF a = n /\ b \in links[n] /\ up[b][n] THEN chan[n][b] \o msgs[b]
        ELSE IF a = from /\ b = n THEN Tail(chan[a][b])
        ELSE chan[a][b]]]

-----------------------------------------------------------------------------
(* Local clients.                                                          *)

\* Everything that was sent has been read and every change of interest told.
AtRest ==
    \A n \in Nodes : \A p \in links[n] :
        /\ up[n][p] = up[p][n]
        /\ up[n][p] => chan[n][p] = <<>> /\ OutgoingInterest(n, p) = lk[n][p].lastSent

\* Mutant: audio takes a TG that a remote talker holds.
KeyHeldTG(n, tg) ==
    /\ talks < sc.maxTalks
    /\ tg \in sc.speaks[n] \cap listening[n]
    /\ talker[n][tg] = None
    /\ talker' = [talker EXCEPT ![n][tg] = n]
    /\ SendAfter(n, None, [p \in Peers(n) |-> OnLocalTalkerStart(n, p, tg, n, lk[n])])
    /\ talks' = talks + 1
    /\ UNCHANGED <<sc, trunkTalker, lk, listening, links, up, moves, losses>>

\* The first audio datagram of n's client on a free TG: onTalkerUpdated tells
\* every link, then the audio follows.
Key(n, tg) ==
    /\ talks < sc.maxTalks
    /\ sc.patient => AtRest
    /\ tg \in sc.speaks[n] \cap listening[n]
    /\ talker[n][tg] = None
    /\ trunkTalker[n][tg] = None
    /\ talker' = [talker EXCEPT ![n][tg] = n]
    /\ SendAfter(n, None, [p \in Peers(n) |->
          OnLocalTalkerStart(n, p, tg, n, lk[n]) \o OnLocalAudio(n, p, tg, n, lk[n])])
    /\ talks' = talks + 1
    /\ UNCHANGED <<sc, trunkTalker, lk, listening, links, up, moves, losses>>

\* Further audio.
Talk(n, tg) ==
    /\ talker[n][tg] # None
    /\ \A a \in Nodes : \A p \in Peers(a) : Len(chan[a][p]) < sc.maxQueue
    /\ SendAfter(n, None, [p \in Peers(n) |-> OnLocalAudio(n, p, tg, n, lk[n])])
    /\ UNCHANGED <<sc, talker, trunkTalker, lk, listening, links, up, counts>>

\* The talker releases the TG or is timed out.
Unkey(n, tg) ==
    /\ talker[n][tg] # None
    /\ talker' = [talker EXCEPT ![n][tg] = None]
    /\ SendAfter(n, None, [p \in Peers(n) |-> OnLocalTalkerStop(n, p, tg, lk[n])])
    /\ UNCHANGED <<sc, trunkTalker, lk, listening, links, up, counts>>

\* A client that is not talking selects a TG or leaves it.
Tune(n, tg) ==
    /\ moves < sc.maxMoves
    /\ tg \in sc.tunes[n]
    /\ talker[n][tg] = None
    /\ listening' = [listening EXCEPT ![n] = SymDiff(@, {tg})]
    /\ moves' = moves + 1
    /\ UNCHANGED <<sc, talker, trunkTalker, lk, links, up, chan, talks, losses>>

-----------------------------------------------------------------------------
(* Messages of a peer: handleMsgPeer..., with p the peer, m the message.   *)

\* Mutant: hasPrefixRoute is left out of the gate.
AcceptsOwnedOnly(n, p, wire) ==
    LET link == Config[n].link[p]
    IN  /\ ~Filtered(n, p, wire)
        /\ ~IsBlacklisted(link, Translate(link.mapIn, wire))
        /\ wire \in DOMAIN link.mapIn \/ IsOwnedTG(Config[n].local, link, wire)

Accepts(n, p, wire) ==
    LET link == Config[n].link[p]
    IN  /\ ~Filtered(n, p, wire)
        /\ ~IsBlacklisted(link, Translate(link.mapIn, wire))
        /\ \/ wire \in DOMAIN link.mapIn
           \/ IsOwnedTG(Config[n].local, link, wire)
           \/ wire \in Config[n].cluster
           \/ HasPrefixRoute(AllPrefixes(n), wire)
           \/ MatchesRoutable(link, wire)

LocalTG(n, p, m) == Translate(Config[n].link[p].mapIn, m.tg)
DeliverTG(n, tg) == Translate(Config[n].deliver, tg)

Relays(n, tg) ==
    ShouldRelayInbound(Config[n].local, AllPrefixes(n), Config[n].cluster, tg)

\* Mutant: the source trunk is not left out.
RelayToAll(n, from, tg, msgs) ==
    [p \in Peers(n) |-> IF Relays(n, tg) THEN msgs[p] ELSE <<>>]

\* forwardTrunk...ToOtherTrunks
Relay(n, from, tg, msgs) ==
    [p \in Peers(n) |-> IF Relays(n, tg) /\ p # from THEN msgs[p] ELSE <<>>]

Wins(n, p) == sc.priority[n][p] <= sc.priority[p][n]

\* The peer's claim is ignored while a local talker wins the tie-break.
IgnoreStart(n, p, m) ==
    /\ talker[n][DeliverTG(n, LocalTG(n, p, m))] # None
    /\ Wins(n, p)
    /\ SendAfter(n, p, [q \in Peers(n) |-> <<>>])
    /\ UNCHANGED <<talker, trunkTalker, lk>>

\* Otherwise it is taken. A local talker is cleared first, which tells every
\* link but the one yielded to; then the claim is relayed.
AcceptStart(n, p, m) ==
    LET tg == LocalTG(n, p, m)
        deliver == DeliverTG(n, tg)
        yields == talker[n][deliver] # None
        yielding == IF yields THEN [lk[n] EXCEPT ![p].yielded = @ \cup {deliver}]
                    ELSE lk[n]
        after == [yielding EXCEPT ![p].active = @ \cup {tg},
                                  ![p].interested = @ \cup {tg}]
        relayed == Relay(n, p, tg, [q \in Peers(n) |->
                       OnLocalTalkerStart(n, q, tg, m.callsign, after)])
    IN  /\ yields => ~Wins(n, p)
        /\ talker' = [talker EXCEPT ![n][deliver] = None]
        /\ trunkTalker' = [trunkTalker EXCEPT ![n][deliver] = m.callsign]
        /\ lk' = [lk EXCEPT ![n] = after]
        /\ SendAfter(n, p, [q \in Peers(n) |->
               (IF yields THEN OnLocalTalkerStop(n, q, deliver, yielding) ELSE <<>>)
                   \o relayed[q]])

\* A stop clears whatever remote talker holds the TG.
HandleStop(n, p, m) ==
    LET tg == LocalTG(n, p, m)
        deliver == DeliverTG(n, tg)
        after == [lk[n] EXCEPT ![p].yielded = @ \ {deliver}, ![p].active = @ \ {tg}]
    IN  /\ trunkTalker' = [trunkTalker EXCEPT ![n][deliver] = None]
        /\ lk' = [lk EXCEPT ![n] = after]
        /\ SendAfter(n, p, Relay(n, p, tg, [q \in Peers(n) |->
               OnLocalTalkerStop(n, q, tg, after)]))
        /\ UNCHANGED talker

\* Audio passes only if the peer has claimed the TG.
HandleAudio(n, p, m) ==
    LET tg == LocalTG(n, p, m)
        after == [lk[n] EXCEPT ![p].interested = @ \cup {tg}]
    IN  IF tg \in lk[n][p].active
          THEN /\ lk' = [lk EXCEPT ![n] = after]
               /\ SendAfter(n, p, Relay(n, p, tg, [q \in Peers(n) |->
                      OnLocalAudio(n, q, tg, m.callsign, after)]))
               /\ UNCHANGED <<talker, trunkTalker>>
          ELSE /\ SendAfter(n, p, [q \in Peers(n) |-> <<>>])
               /\ UNCHANGED <<talker, trunkTalker, lk>>

\* handleMsgPeerTgInterest. The links that have to pass it on do so when their
\* debounce timer fires (Advertise).
HandleTgInterest(n, p, m) ==
    /\ lk' = [lk EXCEPT ![n][p].interested =
                @ \cup {Translate(Config[n].link[p].mapIn, tg) : tg \in m.tgs}]
    /\ SendAfter(n, p, [q \in Peers(n) |-> <<>>])
    /\ UNCHANGED <<talker, trunkTalker>>

Refuse(n, p) ==
    /\ SendAfter(n, p, [q \in Peers(n) |-> <<>>])
    /\ UNCHANGED <<talker, trunkTalker, lk>>

Handle(n, p, m) ==
    IF m.type = "TgInterest" THEN HandleTgInterest(n, p, m)
    ELSE IF ~Accepts(n, p, m.tg) THEN Refuse(n, p)
    ELSE \/ m.type = "TalkerStart" /\ (IgnoreStart(n, p, m) \/ AcceptStart(n, p, m))
         \/ m.type = "TalkerStop" /\ HandleStop(n, p, m)
         \/ m.type = "Audio" /\ HandleAudio(n, p, m)

\* A removed link has no channel left to read.
Receive(n, p) ==
    /\ p \in links[n]
    /\ up[n][p]
    /\ chan[p][n] # <<>>
    /\ Handle(n, p, Head(chan[p][n]))
    /\ UNCHANGED <<sc, listening, links, up, counts>>

-----------------------------------------------------------------------------
(* TG interest.                                                            *)

\* sendTgInterest, from the debounce or the periodic timer. That the latter
\* repeats an unchanged set is seen in when interest may expire.
Advertise(n, p) ==
    LET out == OutgoingInterest(n, p)
    IN  /\ p \in links[n]
        /\ up[n][p]
        /\ out # lk[n][p].lastSent
        /\ lk' = [lk EXCEPT ![n][p].lastSent = out]
        /\ SendAfter(n, None, [q \in Peers(n) |-> IF q # p THEN <<>>
               ELSE <<TgInterest({Translate(Config[n].link[p].mapOut, tg) : tg \in out})>>])
        /\ UNCHANGED <<sc, talker, trunkTalker, listening, links, up, counts>>

\* Ten minutes without renewal. p renews what it advertises every minute, and
\* its audio renews the TG it is talking on.
ExpireInterest(n, p, tg) ==
    /\ sc.expiry
    /\ tg \in lk[n][p].interested \ lk[n][p].active
    /\ \A t \in lk[p][n].lastSent :
          Translate(Config[n].link[p].mapIn, Translate(Config[p].link[n].mapOut, t)) # tg
    /\ lk' = [lk EXCEPT ![n][p].interested = @ \ {tg}]
    /\ UNCHANGED <<sc, talker, trunkTalker, listening, links, up, chan, counts>>

-----------------------------------------------------------------------------
(* Links that are lost, restored and removed.                              *)

\* Mutant: the entries are erased.
ReleasedErased(n, tgs) == [tg \in TGs \ tgs |-> trunkTalker[n][tg]]

\* Talkers that the peer reported are no longer held.
Released(n, tgs) ==
    [tg \in TGs |-> IF tg \in tgs THEN None ELSE trunkTalker[n][tg]]

\* Mutant: what was last advertised is remembered over the loss.
LoseLinkKeepsLastSent(n, p) ==
    /\ p \in links[n]
    /\ up[n][p]
    /\ up[p][n] => losses < sc.maxLosses
    /\ losses' = IF up[p][n] THEN losses + 1 ELSE losses
    /\ up' = [up EXCEPT ![n][p] = FALSE]
    /\ trunkTalker' = [trunkTalker EXCEPT ![n] =
                         Released(n, {DeliverTG(n, tg) : tg \in lk[n][p].active})]
    /\ lk' = [lk EXCEPT ![n][p] = [Fresh EXCEPT !.lastSent = lk[n][p].lastSent]]
    /\ chan' = [chan EXCEPT ![p][n] = <<>>]
    /\ UNCHANGED <<sc, talker, listening, links, talks, moves>>

\* clearPeerTalkerState, when n notices that no connection to p is left. The
\* peer may notice later; until then what it sends is lost.
LoseLink(n, p) ==
    /\ p \in links[n]
    /\ up[n][p]
    /\ up[p][n] => losses < sc.maxLosses
    /\ losses' = IF up[p][n] THEN losses + 1 ELSE losses
    /\ up' = [up EXCEPT ![n][p] = FALSE]
    /\ trunkTalker' = [trunkTalker EXCEPT ![n] =
                         Released(n, {DeliverTG(n, tg) : tg \in lk[n][p].active})]
    /\ lk' = [lk EXCEPT ![n][p] = Fresh]
    /\ chan' = [chan EXCEPT ![p][n] = <<>>]
    /\ UNCHANGED <<sc, talker, listening, links, talks, moves>>

\* Both ends have a connection and the peer's hello again.
RestoreLink(n, p) ==
    /\ p \in links[n] /\ n \in links[p]
    /\ ~up[n][p] /\ ~up[p][n]
    /\ up' = [up EXCEPT ![n][p] = TRUE, ![p][n] = TRUE]
    /\ UNCHANGED <<sc, talker, trunkTalker, lk, listening, links, chan, counts>>

\* removeTrunkLink and ~TrunkLink: the talkers are released under the numbers
\* in m_peer_active_tgs.
RemoveTrunkLink(n, p) ==
    /\ <<n, p>> \in sc.removals
    /\ p \in links[n]
    /\ links' = [links EXCEPT ![n] = @ \ {p}]
    /\ up' = [up EXCEPT ![n][p] = FALSE]
    /\ trunkTalker' = [trunkTalker EXCEPT ![n] = Released(n, lk[n][p].active)]
    /\ lk' = [lk EXCEPT ![n][p] = Fresh]
    /\ chan' = [chan EXCEPT ![p][n] = <<>>]
    /\ UNCHANGED <<sc, talker, listening, counts>>

ClientStep ==
    \E n \in Nodes, tg \in TGs :
        Key(n, tg) \/ Talk(n, tg) \/ Unkey(n, tg) \/ Tune(n, tg)

LinkStep ==
    \E n \in Nodes : \E p \in Peers(n) :
        \/ Receive(n, p)
        \/ Advertise(n, p)
        \/ \E tg \in TGs : ExpireInterest(n, p, tg)
        \/ LoseLink(n, p)
        \/ RestoreLink(n, p)
        \/ RemoveTrunkLink(n, p)

Next == ClientStep \/ LinkStep

\* The event loops read what arrives, the interest timers run, and a dead link
\* is noticed by its heartbeats and connected again.
Fairness ==
    \A n, p \in Nodes :
        /\ WF_vars(p \in Peers(n) /\ Receive(n, p))
        /\ WF_vars(p \in Peers(n) /\ Advertise(n, p))
        /\ WF_vars(p \in Peers(n) /\ ~up[p][n] /\ LoseLink(n, p))
        /\ WF_vars(p \in Peers(n) /\ RestoreLink(n, p))

Spec == Init /\ [][Next]_vars /\ Fairness

-----------------------------------------------------------------------------
(* Two shapes of a mesh in which nothing comes back (docs/CONCEPTS.md and   *)
(* docs/TOPOLOGY_EXAMPLES.md).                                              *)

\* The trunks form a tree, whatever is configured on them: hop[n][c] is the
\* peer of n on the way to c.
TrunkTree(s) ==
    \E hop \in [Nodes -> [Nodes -> Nodes \cup {None}]] :
        \A n, c \in Nodes : \A p \in PeersIn(s, n) :
            IF n = c THEN hop[p][c] = n
            ELSE hop[n][c] = p \/ (hop[p][c] = n /\ p # c)

\* Every two reflectors have a trunk, a prefix has one owner, whom all know, and
\* all agree on the cluster TGs.
FullMesh(s) ==
    /\ s.removals = {}
    /\ \A n \in Nodes :
          /\ PeersIn(s, n) = Nodes \ {n}
          /\ s.config[n].local \subseteq Seq(Nat)
          /\ DOMAIN s.config[n].route = {}
    /\ \A n \in Nodes : \A p \in Nodes \ {n} :
          LET link == s.config[n].link[p]
          IN  /\ link.remote = s.config[p].local
              /\ link.routable = {} /\ ~link.wildcard
              /\ DOMAIN link.mapIn = {} /\ DOMAIN link.mapOut = {}
              /\ s.config[n].local \cap s.config[p].local = {}
              /\ s.config[n].cluster = s.config[p].cluster

-----------------------------------------------------------------------------
(* When a talk is heard wherever a client listens: the prefixes agree on   *)
(* one tree of reflectors for every TG (docs/CONCEPTS.md, prefix-based      *)
(* routing, and docs/PEER_PROTOCOL.md, TG interest).                       *)

PrefixesIn(s, n) ==
    s.config[n].local
        \cup (UNION {s.config[n].link[p].remote \cup s.config[n].link[p].routable :
                         p \in PeersIn(s, n)})

NextHop(s, n, p, tg) == IsSharedTG(s.config[n].link[p], PrefixesIn(s, n), tg)

RelaysIn(s, n, tg) ==
    ShouldRelayInbound(s.config[n].local, PrefixesIn(s, n), s.config[n].cluster, tg)

\* The gate of handleMsgPeerTalkerStart, on the numbers alone.
AcceptsIn(s, n, p, tg) ==
    \/ IsOwnedTG(s.config[n].local, s.config[n].link[p], tg)
    \/ tg \in s.config[n].cluster
    \/ HasPrefixRoute(PrefixesIn(s, n), tg)
    \/ MatchesRoutable(s.config[n].link[p], tg)

\* n and p may have something to say to one another on tg.
MayPass(s, n, p, tg) ==
    \/ NextHop(s, n, p, tg) \/ NextHop(s, p, n, tg)
    \/ tg \in s.config[n].cluster \cup s.config[p].cluster

\* Nobody filters or renumbers the TGs in use, tunes or removes a trunk.
Plain(s) ==
    /\ s.removals = {}
    /\ \A n \in Nodes :
          /\ s.tunes[n] = {}
          /\ DOMAIN s.config[n].route \cap TGs = {}
          /\ DOMAIN s.config[n].deliver \cap TGs = {}
          /\ \A p \in PeersIn(s, n) :
                LET link == s.config[n].link[p]
                IN  /\ DOMAIN link.mapIn \cap TGs = {} /\ DOMAIN link.mapOut \cap TGs = {}
                    /\ \A tg \in TGs : ~IsBlacklisted(link, tg) /\ IsAllowed(link, tg)

Listeners(s, tg) == {n \in Nodes : tg \in s.listening[n]}

\* n has reason to ask the next hop for tg, if those in asking ask theirs.
HasReason(s, tg, n, asking) ==
    \/ tg \in s.listening[n] \/ \A p \in PeersIn(s, n) : ~NextHop(s, n, p, tg)
    \/ \E q \in asking \cap PeersIn(s, n) : NextHop(s, q, n, tg) /\ ~NextHop(s, n, q, tg)

\* All in span have, from the listeners on.
Asks(s, tg, span) ==
    \A asking \in SUBSET span :
        (\A n \in span : HasReason(s, tg, n, asking) => n \in asking) => asking = span

\* What c says goes to all in span, each of whom hears it from one peer, hop.
Reaches(s, tg, span, c, hop) ==
    /\ hop[c] = None
    /\ \A n \in Nodes : \A p \in PeersIn(s, n) :
          MayPass(s, n, p, tg) /\ (n = c \/ RelaysIn(s, n, tg)) /\ p # hop[n] => hop[p] = n
    /\ \A n \in span \ {c} :
          /\ hop[n] \in span \cap PeersIn(s, n)
          /\ hop[n] = c \/ RelaysIn(s, hop[n], tg)
          /\ AcceptsIn(s, n, hop[n], tg)
          /\ \/ NextHop(s, hop[n], n, tg) \/ NextHop(s, n, hop[n], tg)
             \/ tg \in s.config[hop[n]].cluster
    /\ \A heard \in SUBSET span :
          c \in heard /\ (\A n \in span \ {c} : hop[n] \in heard => n \in heard) => heard = span

Spans(s, tg, span) ==
    /\ Listeners(s, tg) \subseteq span
    /\ Asks(s, tg, span)
    /\ \A c \in Listeners(s, tg) :
          \E hop \in [Nodes -> Nodes \cup {None}] : Reaches(s, tg, span, c, hop)

Routed(s) == Plain(s) /\ \A tg \in TGs : \E span \in SUBSET Nodes : Spans(s, tg, span)

-----------------------------------------------------------------------------
(* Properties.                                                             *)

\* README.md: "One talker at a time per TG". No reflector has a local and a
\* remote talker on a TG, whichever of its trunks reported the latter.
OneTalkerPerNode ==
    \A n \in Nodes, tg \in TGs : talker[n][tg] = None \/ trunkTalker[n][tg] = None

\* docs/PEER_PROTOCOL.md, loop safety: what a reflector's client says is never
\* relayed back to that reflector, by whatever way round.
NoEcho ==
    \A n \in Nodes : \A p \in Peers(n) : \A i \in DOMAIN chan[p][n] :
        LET m == chan[p][n][i] IN m.type \in {"TalkerStart", "Audio"} => m.callsign # n

\* docs/PEER_PROTOCOL.md, "for every non-owner to hear every other, the owner
\* must fan out": a talker that met no other is followed wherever a client
\* listens, and nowhere is one followed that has stopped.
ListenersFollow ==
    sc.patient /\ losses = 0 /\ AtRest => \A n, m \in Nodes : \A tg \in listening[m] :
        (talker[n][tg] # None /\ n # m) <=> (trunkTalker[m][tg] = n)

\* docs/PEER_PROTOCOL.md, "all trunk talker locks are immediately released so
\* local clients are not left blocked": at rest a remote talker is talking.
TalkersAreReal ==
    AtRest => \A m \in Nodes, tg \in TGs :
        trunkTalker[m][tg] = None \/ \E t \in TGs : talker[trunkTalker[m][tg]][t] # None

\* docs/PEER_PROTOCOL.md, multi-hop propagation: in the end every reflector
\* towards the owner of a TG knows who listens to it behind which peer,
\* whatever links were lost and restored meanwhile.
InterestArrives ==
    <>[](\A n \in Nodes : \A p \in links[n] : n \in links[p] =>
            OutgoingInterest(n, p) \subseteq lk[p][n].interested)
=============================================================================
