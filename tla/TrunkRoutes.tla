----------------------------- MODULE TrunkRoutes -----------------------------
(***************************************************************************)
(* The routing tables of one reflector while its configuration changes.    *)
(* Trunks come from [TRUNK_x] sections of the configuration file, which an *)
(* operator may edit live (PTY commands CFG and TRUNK RELOAD), and, when   *)
(* Redis is used, from peer hashes that a dashboard writes and announces   *)
(* on the channel config.changed. The reflector keeps three copies of what *)
(* it knows: the prefixes of each link, m_all_prefixes, and in each link a *)
(* copy of the latter. LOCAL_ALIASES is read once, at start-up.            *)
(*                                                                         *)
(* ROUTABLE_PREFIXES may contain "*", a default route. It is Star here, the *)
(* prefix of every TG, and as in the code never in the tables.             *)
(*   src/svxlink/reflector/Reflector.cpp, TrunkLink.cpp, RedisStore.cpp    *)
(***************************************************************************)
EXTENDS LocalAliases

CONSTANTS
    FileSections,   \* [TRUNK_x] sections of the configuration file
    RedisSections,  \* sections a dashboard may store
    Remote,         \* Remote[s]: REMOTE_PREFIX of section s
    Routables,      \* values of ROUTABLE_PREFIXES an operator sets
    TGs,            \* TG numbers the properties look at
    UsesRedis,      \* is [REDIS] configured?
    RunsWith,       \* bound: the alias entries with which events follow
    MaxEvents,      \* bound: config.changed messages on their way
    MaxLosses       \* bound: MaxLosses[c]: losses of the connection c to Redis

Sections == FileSections \cup RedisSections

\* RedisStore: m_async receives the announcements, m_sync serves the queries,
\* m_async_write carries the live data.
Connections == {"sub", "sync", "write"}

ASSUME SectionsAssumption == FileSections \cap RedisSections = {}
ASSUME RemoteAssumption == Sections \subseteq DOMAIN Remote
Star == <<>>

ASSUME PrefixesAssumption ==
    /\ \A prefixes \in {LocalPrefixes} \cup {Remote[s] : s \in Sections} :
          prefixes \subseteq Seq(Nat) \ {Star}
    /\ \A prefixes \in Routables : prefixes \subseteq Seq(Nat)
ASSUME BoundsAssumption ==
    MaxEvents \in Nat /\ \A c \in Connections : MaxLosses[c] \in Nat

VARIABLES
    running,    \* has the event loop been entered?
    stored,     \* peer hashes present in Redis
    cfg,        \* cfg[s]: ROUTABLE_PREFIXES in the live configuration
    links,      \* m_trunk_links
    routable,   \* routable[s]: m_routable_prefixes
    linkAll,    \* linkAll[s]: TrunkLink::m_all_prefixes
    events,     \* config.changed messages on their way
    up,         \* the connections that work
    subscribed, \* has Redis taken the SUBSCRIBE of the connection "sub"?
    reconnecting,   \* m_reconnect_timer runs
    losses,     \* losses[c]: losses of connection c so far
    missed      \* history: peers of which the last write was not heard of, or
                \* heard of when the queries failed

redis == <<stored, events, up, subscribed, reconnecting, losses, missed>>
tables == <<links, routable, all, linkAll>>
vars == <<redis, cfg, tables, aliases, running>>

PrefixSets ==
    SUBSET (LocalPrefixes \cup ((UNION Routables) \ {Star}) \cup UNION {Remote[s] : s \in Sections})

TypeOK ==
    /\ AliasTypeOK
    /\ running \in BOOLEAN
    /\ stored \subseteq RedisSections
    /\ cfg \in [Sections -> Routables]
    /\ links \subseteq Sections
    /\ routable \in [Sections -> Routables \cup {{}}]
    /\ all \in PrefixSets
    /\ linkAll \in [Sections -> PrefixSets]
    /\ events \in BoundedSeq(RedisSections, MaxEvents)
    /\ up \subseteq Connections
    /\ subscribed \in BOOLEAN
    /\ reconnecting \in BOOLEAN
    /\ \A c \in Connections : losses[c] \in 0..MaxLosses[c]
    /\ missed \subseteq RedisSections

\* Mutant: the default route is kept as a prefix.
CollectStar(ls, r) == LocalPrefixes \cup UNION {Remote[s] \cup r[s] : s \in ls}

\* LOCAL_PREFIX and the prefixes of a set of links (collectAllTrunkPrefixes).
Collect(ls, r) ==
    LocalPrefixes \cup ((UNION {Remote[s] \cup r[s] : s \in ls}) \ {Star})

\* initTrunkLinks, after RedisStore::connect: Redis peers are loaded first, unless
\* the query fails, and the table is complete before the links are made. The
\* SUBSCRIBE that connect has queued is not sent before the event loop runs.
Init ==
    /\ AliasInit
    /\ running = FALSE
    /\ stored \in SUBSET RedisSections
    /\ stored # {} => UsesRedis
    /\ cfg \in [Sections -> Routables]
    /\ \A s \in RedisSections : cfg[s] = {}
    /\ up \in IF UsesRedis
                THEN {Connections, Connections \ {c \in {"sync"} : MaxLosses[c] > 0}}
                ELSE {{}}
    /\ losses = [c \in Connections |-> IF UsesRedis /\ c \notin up THEN 1 ELSE 0]
    /\ missed = IF "sync" \in up THEN {} ELSE stored
    /\ links = FileSections \cup (stored \ missed)
    /\ routable = [s \in Sections |-> IF s \in links THEN cfg[s] ELSE {}]
    /\ all = Collect(links, routable)
    /\ linkAll = [s \in Sections |-> IF s \in links THEN all ELSE {}]
    /\ events = <<>>
    /\ subscribed = FALSE
    /\ reconnecting = FALSE

\* The end of initTrunkLinks.
ReadAlias(e) ==
    /\ ~running
    /\ ReadEntry(e)
    /\ UNCHANGED <<redis, cfg, tables, running>>

EnterEventLoop ==
    /\ ~running
    /\ taken = RunsWith
    /\ running' = TRUE
    /\ UNCHANGED <<redis, cfg, tables, aliases>>

-----------------------------------------------------------------------------
(* The dashboard and the connections to Redis.                             *)

\* A peer hash is written or deleted, and announced. Nobody keeps the message
\* for a subscriber that is away or not there yet.
Store(s) ==
    /\ UsesRedis
    /\ Len(events) < MaxEvents
    /\ \/ stored' = stored \cup {s} /\ s \notin stored
       \/ stored' = stored \ {s} /\ s \in stored
    /\ IF subscribed
         THEN events' = Append(events, s) /\ UNCHANGED missed
         ELSE missed' = missed \cup {s} /\ UNCHANGED events
    /\ UNCHANGED <<cfg, tables, up, subscribed, reconnecting, losses>>

\* The event loop sends the SUBSCRIBE.
Subscribe ==
    /\ "sub" \in up
    /\ ~subscribed
    /\ subscribed' = TRUE
    /\ UNCHANGED <<stored, cfg, tables, events, up, reconnecting, losses, missed>>

\* Announcements on their way are lost with the subscription. RedisStore hears of
\* the loss of that or of the write connection and schedules a reconnect; that the
\* queries fail nobody looks at.
LoseConnection(c) ==
    /\ c \in up
    /\ losses[c] < MaxLosses[c]
    /\ up' = up \ {c}
    /\ losses' = [losses EXCEPT ![c] = @ + 1]
    /\ reconnecting' = (reconnecting \/ c # "sync")
    /\ IF c = "sub"
         THEN /\ subscribed' = FALSE
              /\ events' = <<>>
              /\ missed' = missed \cup Range(events)
         ELSE UNCHANGED <<subscribed, events, missed>>
    /\ UNCHANGED <<stored, cfg, tables>>

\* Mutant: only peers with a link already are found.
LoadedLinkedPeers == stored \cap links

\* loadTrunkPeers: a query that fails returns no peers.
LoadedPeers == IF "sync" \in up THEN stored ELSE {}

-----------------------------------------------------------------------------
(* The links.                                                              *)

\* Mutant: the links there were keep their copy.
RebroadcastToNewLinks(ls, r) ==
    /\ all' = Collect(ls, r)
    /\ linkAll' = [s \in Sections |-> IF s \notin ls THEN {}
                                     ELSE IF s \in links THEN linkAll[s]
                                     ELSE Collect(ls, r)]

\* The end of addTrunkLink and removeTrunkLink.
Rebroadcast(ls, r) ==
    /\ all' = Collect(ls, r)
    /\ linkAll' = [s \in Sections |-> IF s \in ls THEN Collect(ls, r) ELSE {}]

\* addTrunkLink: a section from Redis has no ROUTABLE_PREFIXES.
AddTrunkLink(s) ==
    /\ links' = links \cup {s}
    /\ routable' = routable
    /\ Rebroadcast(links', routable)

\* removeTrunkLink
RemoveTrunkLink(s) ==
    /\ links' = links \ {s}
    /\ routable' = [routable EXCEPT ![s] = {}]
    /\ Rebroadcast(links', routable')

\* TrunkLink::reloadConfig of a set of links: with Redis the routable prefixes
\* are not read again. The table stays.
ReloadConfig(ls) ==
    /\ routable' = [s \in Sections |->
                      IF s \notin ls THEN routable[s]
                      ELSE IF UsesRedis THEN {} ELSE cfg[s]]
    /\ UNCHANGED <<links, all, linkAll>>

\* onRedisConfigChanged("trunk:<section>"). A link goes only if it came from
\* Redis.
ConfigChanged ==
    /\ events # <<>>
    /\ LET s == Head(events)
       IN  IF s \in LoadedPeers /\ s \notin links THEN AddTrunkLink(s)
           ELSE IF s \notin LoadedPeers /\ s \in links THEN RemoveTrunkLink(s)
           ELSE IF s \in links THEN ReloadConfig({s})
           ELSE UNCHANGED tables
    /\ missed' = IF "sync" \in up THEN missed \ {Head(events)}
                 ELSE missed \cup {Head(events)}
    /\ events' = Tail(events)
    /\ UNCHANGED <<stored, cfg, up, subscribed, reconnecting, losses>>

\* RedisStore::scheduleReconnect: what is lost is connected again, a SUBSCRIBE is
\* queued and the query connection is rebuilt; then "all" is emitted, on which every
\* link reloads and no peer is looked for.
Reconnect ==
    /\ reconnecting
    /\ reconnecting' = FALSE
    /\ up' = Connections
    /\ ReloadConfig(links)
    /\ UNCHANGED <<stored, cfg, events, subscribed, losses, missed>>

\* The query connection cannot be rebuilt: the timer is started again.
ReconnectHalfway ==
    /\ reconnecting
    /\ losses["sync"] < MaxLosses["sync"]
    /\ losses' = [losses EXCEPT !["sync"] = @ + 1]
    /\ up' = Connections \ {"sync"}
    /\ UNCHANGED <<stored, cfg, tables, events, subscribed, reconnecting, missed>>

\* The PTY command CFG <section> ROUTABLE_PREFIXES <value>.
PtyCfg(s, prefixes) ==
    /\ prefixes # cfg[s]
    /\ cfg' = [cfg EXCEPT ![s] = prefixes]
    /\ UNCHANGED <<redis, tables>>

\* The PTY command TRUNK RELOAD <section>.
PtyReload(s) ==
    /\ s \in links
    /\ ReloadConfig({s})
    /\ UNCHANGED <<redis, cfg>>

\* What happens while the reflector runs.
Event ==
    \/ Subscribe
    \/ \E c \in Connections : LoseConnection(c)
    \/ ConfigChanged
    \/ Reconnect
    \/ ReconnectHalfway
    \/ \E s \in FileSections : \E prefixes \in Routables : PtyCfg(s, prefixes)
    \/ \E s \in Sections : PtyReload(s)

\* The dashboard does not wait for the reflector.
DashboardWrites ==
    /\ taken = RunsWith
    /\ \E s \in RedisSections : Store(s)

Next ==
    \/ \E e \in Entries : ReadAlias(e)
    \/ EnterEventLoop
    \/ DashboardWrites /\ UNCHANGED <<aliases, running>>
    \/ running /\ Event /\ UNCHANGED <<aliases, running>>

Fairness ==
    /\ WF_vars(EnterEventLoop)
    /\ WF_vars(running /\ Subscribe)
    /\ WF_vars(running /\ ConfigChanged)
    /\ WF_vars(running /\ Reconnect)

Spec == Init /\ [][Next]_vars /\ Fairness

-----------------------------------------------------------------------------
(* Properties.                                                             *)

\* docs/PEER_PROTOCOL.md: with LOCAL_ALIASES "a typo can never claim a number the
\* reflector doesn't own", nor take a number from its owner here. It is so when the
\* list has been read; a trunk added later may claim the number for another.
AliasesAreOwned == ~running => MapsAreOwned

\* What a link claims. Star is a match of length zero.
Own(s) == Remote[s] \cup routable[s]

LinkRecord(s) ==
    [remote |-> Remote[s], routable |-> routable[s] \ {Star},
     wildcard |-> Star \in routable[s]]

SharedBy(tg) == {s \in links : IsSharedTG(LinkRecord(s), linkAll[s], tg)}

\* A TG has one next hop: of links that both carry it, the longest prefix that
\* either claims for it is claimed by both, and this reflector owns it too only if
\* that prefix is configured as its own. With default routes only a TG nobody
\* claims goes to each of those.
OneNextHop ==
    \A tg \in TGs :
        /\ \A s, t \in SharedBy(tg) :
              \E p \in Claims(Own(s), tg) \cap Own(t) :
                  IsLongest(p, Own(s) \cup Own(t), tg)
        /\ IsLocalTG(LocalPrefixes, all, tg) =>
              \A s \in SharedBy(tg) :
                  \E p \in Claims(LocalPrefixes, tg) \cap Own(s) :
                      IsLongest(p, Own(s), tg)

\* Every prefix of the table, and of the copy any link has of it, is that of someone
\* here: no prefix of a trunk that is gone goes on taking TGs away from the others.
\* Trunks of the file never go. The default route is nobody's prefix.
NoGhostPrefix ==
    \A p \in all \cup UNION {linkAll[s] : s \in links} :
        /\ p # Star
        /\ p \in LocalPrefixes \cup (UNION Routables) \cup UNION {Remote[s] : s \in links}

\* docs/REDIS.md: trunks of the file "are treated as immutable at runtime". If they
\* are, a TG that some link claims is always carried by a link or owned here.
NoLostTG ==
    \A tg \in TGs :
        (\E s \in links : Claims(Own(s), tg) # {}) =>
            SharedBy(tg) # {} \/ IsLocalTG(LocalPrefixes, all, tg)

\* There are links to just the peers the dashboard stores, but for those of which
\* an announcement is on its way and those of which the last one was missed: no
\* failure costs more than the peers whose own announcements it met, whatever else
\* is reloaded or handled since, and the next one of a missed peer that is heard sets
\* it right.
StoredPeersAreLinked ==
    \A s \in RedisSections \ (missed \cup Range(events)) :
        s \in links <=> s \in stored
=============================================================================
