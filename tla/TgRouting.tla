------------------------------ MODULE TgRouting ------------------------------
(***************************************************************************)
(* Which trunk a talk group (TG) belongs on: longest-prefix routing, the   *)
(* TG filters and the number translations, as operators. A TG number is    *)
(* the sequence of its decimal digits, for the code compares prefixes with *)
(* std::to_string(tg).                                                     *)
(*                                                                         *)
(* link is a record with what a [TRUNK_x] section configures: the sets     *)
(* remote and routable of prefixes, the flag wildcard (a "*" among the     *)
(* routable ones), the filters blacklist and allow, and mapIn and mapOut,  *)
(* the two directions of TG_MAP. No prefix is empty: splitPrefixes drops   *)
(* empty tokens. all is the set of prefixes known in the mesh.             *)
(*   src/svxlink/reflector/TrunkLink.cpp, Reflector.cpp, TgFilter.h        *)
(***************************************************************************)
EXTENDS SequencesExt, Integers

Number(tg) == FoldLeft(LAMBDA n, digit : 10 * n + digit, 0, tg)

Claims(prefixes, tg) == {p \in prefixes : IsPrefix(p, tg)}

\* No prefix in the mesh that matches tg is longer than p.
IsLongest(p, all, tg) == \A q \in Claims(all, tg) : Len(q) <= Len(p)

\* Mutant: the first match of the link is taken for its longest one.
IsSharedByAnyMatch(link, all, tg) ==
    LET own == Claims(link.remote \cup link.routable, tg)
    IN  own # {} \/ (link.wildcard /\ Claims(all, tg) = {})

\* TrunkLink::isSharedTG: this peer is the owner of tg or the next hop towards
\* the owner. "*" counts as a match of length zero.
IsSharedTG(link, all, tg) ==
    LET own == Claims(link.remote \cup link.routable, tg)
    IN  \/ \E p \in own : IsLongest(p, all, tg)
        \/ own = {} /\ link.wildcard /\ Claims(all, tg) = {}

\* Mutant: a longer prefix of another reflector is not looked at.
IsLocalByAnyMatch(local, all, tg) == Claims(local, tg) # {}

\* Reflector::isLocalTG: this reflector owns tg.
IsLocalTG(local, all, tg) ==
    \E p \in Claims(local, tg) : IsLongest(p, all, tg)

\* Reflector::hasPrefixRoute
HasPrefixRoute(all, tg) == Claims(all, tg) # {}

\* TrunkLink::isOwnedTG
IsOwnedTG(local, link, tg) == Claims(local \cup link.remote, tg) # {}

\* TrunkLink::matchesRoutable
MatchesRoutable(link, tg) == link.wildcard \/ Claims(link.routable, tg) # {}

\* Reflector::shouldRelayInbound
ShouldRelayInbound(local, all, cluster, tg) ==
    \/ IsLocalTG(local, all, tg)
    \/ tg \notin cluster /\ HasPrefixRoute(all, tg)

-----------------------------------------------------------------------------
(* TgFilter: a set of entries, each an exact TG, a prefix or a range.      *)

\* TgFilter::matches for one entry.
EntryMatches(entry, tg) ==
    \/ entry.type = "EXACT" /\ tg = entry.tg
    \/ entry.type = "PREFIX" /\ IsPrefix(entry.tg, tg)
    \/ entry.type = "RANGE" /\ Number(tg) \in Number(entry.tg)..Number(entry.end)

\* TgFilter::matches: the empty filter matches every TG.
FilterMatches(filter, tg) == filter = {} \/ \E e \in filter : EntryMatches(e, tg)

IsBlacklisted(link, tg) == link.blacklist # {} /\ FilterMatches(link.blacklist, tg)

IsAllowed(link, tg) == FilterMatches(link.allow, tg)

-----------------------------------------------------------------------------
(* Number translations. A map is a function on the TGs it translates.      *)

\* The find-or-identity lookups: TrunkLink::mapTgIn, mapTgOut,
\* Reflector::aliasToRoute, aliasToLocal, aliasSelect.
Translate(map, tg) == IF tg \in DOMAIN map THEN map[tg] ELSE tg

\* The assignment to an element of a std::map.
Put(map, key, value) ==
    [k \in DOMAIN map \cup {key} |-> IF k = key THEN value ELSE map[k]]

\* A map filled in the order of the entries: a later one replaces an earlier
\* one with the same key.
MapOf(entries, key(_), value(_)) ==
    FoldLeft(LAMBDA map, e : Put(map, key(e), value(e)), <<>>, entries)

\* The two maps of TG_MAP=peer:local,... (TrunkLink::initialize, reloadConfig).
TgMapIn(pairs) == MapOf(pairs, LAMBDA e : e.peer, LAMBDA e : e.local)
TgMapOut(pairs) == MapOf(pairs, LAMBDA e : e.local, LAMBDA e : e.peer)
=============================================================================
