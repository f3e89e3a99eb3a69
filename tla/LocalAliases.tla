----------------------------- MODULE LocalAliases -----------------------------
(***************************************************************************)
(* Reflector::parseLocalAliases: the entries of LOCAL_ALIASES, which give a *)
(* short local TG a long number under a prefix this reflector owns, read   *)
(* one after the other into the three translation maps. One step is one    *)
(* iteration of the loop. Splitting the text of an entry is left out; an   *)
(* entry whose numbers or direction do not parse is skipped there.         *)
(*   src/svxlink/reflector/Reflector.cpp, Reflector.h                      *)
(***************************************************************************)
EXTENDS TgRouting

CONSTANTS
    Numbers,        \* TG numbers that may stand in an entry
    LocalPrefixes,  \* LOCAL_PREFIX
    MaxEntries      \* bound: entries in LOCAL_ALIASES

ASSUME EntriesAssumption == MaxEntries \in Nat

VARIABLES
    taken,      \* the entries taken so far
    seenShort,  \* seen_short
    route,      \* m_alias_route: short to long, for what goes out
    deliver,    \* m_alias_deliver: long to short, for what comes in
    select,     \* m_alias_select: long to short, for what a client selects
    read,       \* entries read so far
    all         \* Reflector::m_all_prefixes: LOCAL_PREFIX, prefixes of the trunks

aliases == <<taken, seenShort, route, deliver, select, read>>

Entries == [tg : Numbers, alias : Numbers, dir : {"", "in", "out"}]

Owned(tg) == IsLocalTG(LocalPrefixes, all, tg)

AliasTypeOK ==
    /\ taken \subseteq Entries
    /\ seenShort = {e.tg : e \in taken}
    /\ \A map \in {route, deliver, select} :
          DOMAIN map \subseteq Numbers /\ Range(map) \subseteq Numbers
    /\ read \in 0..MaxEntries

AliasInit ==
    /\ taken = {}
    /\ seenShort = {}
    /\ route = <<>>
    /\ deliver = <<>>
    /\ select = <<>>
    /\ read = 0

\* Mutant: the short number may be one this reflector owns.
RefusedUnlessUnderPrefix(e) == ~Owned(e.alias) \/ e.tg \in seenShort

\* The long number must be owned, the short one must not, and the first entry
\* of a short number stands.
Refused(e) == ~Owned(e.alias) \/ Owned(e.tg) \/ e.tg \in seenShort

Skip(e) ==
    /\ Refused(e)
    /\ UNCHANGED <<taken, seenShort, route, deliver, select>>

\* Mutant: a publish-only alias does not reserve its long number.
TakeWithoutReserving(e) ==
    /\ ~Refused(e)
    /\ taken' = taken \cup {e}
    /\ seenShort' = seenShort \cup {e.tg}
    /\ route' = IF e.dir = "in" THEN route ELSE Put(route, e.tg, e.alias)
    /\ deliver' = IF e.dir = "out" THEN deliver ELSE Put(deliver, e.alias, e.tg)
    /\ select' = IF e.dir = "out" THEN select ELSE Put(select, e.alias, e.tg)

\* The map assignments: a later entry replaces an earlier one with its key.
Take(e) ==
    /\ ~Refused(e)
    /\ taken' = taken \cup {e}
    /\ seenShort' = seenShort \cup {e.tg}
    /\ route' = IF e.dir = "in" THEN route ELSE Put(route, e.tg, e.alias)
    /\ deliver' = IF e.dir = "out" THEN deliver ELSE Put(deliver, e.alias, e.tg)
    /\ select' = Put(select, e.alias, e.tg)

ReadEntry(e) ==
    /\ read < MaxEntries
    /\ read' = read + 1
    /\ Skip(e) \/ Take(e)

-----------------------------------------------------------------------------
(* Properties.                                                             *)

\* What leaves under an alias is owned, and no number this reflector owns is
\* translated on its way out.
MapsAreOwned ==
    /\ \A tg \in DOMAIN route : Owned(route[tg]) /\ ~Owned(tg)
    /\ \A tg \in DOMAIN deliver : Owned(tg) /\ ~Owned(deliver[tg])

\* docs/PEER_PROTOCOL.md: the short and the long number "are always the same
\* conversation locally". A client that dials a long number is folded onto a
\* short one, and what it says there goes out under the number it dialled.
DialledIsPublished ==
    \A e \in taken :
        LET short == Translate(select, e.alias)
        IN  short # e.alias /\ Translate(route, short) \in {short, e.alias}
=============================================================================
