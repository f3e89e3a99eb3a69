--------------------------- MODULE TrunkRoutesProofs ---------------------------
(***************************************************************************)
(* Proofs about TrunkRoutes, for any prefixes, trunks and announcements:   *)
(* translations agree with the aliases they were read from, a TG has one   *)
(* next hop as long as reloads do not bring new prefixes, the links follow *)
(* the store but for the peers whose announcements were missed, no prefix  *)
(* of a trunk that is gone remains, and every value has its type.          *)
(***************************************************************************)
EXTENDS TrunkRoutes, SequenceTheorems, TLAPS

-----------------------------------------------------------------------------
(* Aliases.                                                                *)

AliasesTyped ==
    /\ taken \subseteq Entries
    /\ seenShort = {e.tg : e \in taken}

\* The entries taken have different short numbers, and none is its own alias.
EntriesDiffer ==
    /\ \A e, f \in taken : e.tg = f.tg => e = f
    /\ \A e \in taken : e.alias # e.tg

\* The maps hold what some entry says, route what the only entry of its short
\* number says.
MapsAreTaken ==
    /\ \A e \in taken : /\ e.alias \in DOMAIN select
                        /\ \E f \in taken : f.alias = e.alias /\ select[e.alias] = f.tg
    /\ \A e \in taken : e.tg \in DOMAIN route => route[e.tg] = e.alias
    /\ DOMAIN route \subseteq seenShort

AliasInv ==
    /\ AliasesTyped
    /\ EntriesDiffer
    /\ MapsAreTaken
    /\ AliasesAreOwned

LEMMA AliasesInit == Init => AliasInv
  BY DEF Init, AliasInit, AliasInv, AliasesTyped, EntriesDiffer, MapsAreTaken,
         AliasesAreOwned, MapsAreOwned

LEMMA TakeKeeps ==
    ASSUME AliasInv, ~running, NEW e \in Entries, Take(e), UNCHANGED <<all, running>>
    PROVE  AliasInv'
  <1> USE DEF AliasInv
  <1>1. /\ Owned(e.alias) /\ ~Owned(e.tg) /\ e.tg \notin seenShort
        /\ taken' = taken \cup {e}
        /\ seenShort' = seenShort \cup {e.tg}
    BY DEF Take, Refused
  <1>2. \A n : Owned(n)' <=> Owned(n)
    BY DEF Owned, IsLocalTG, IsLongest, Claims
  <1>3. AliasesTyped'
    BY <1>1 DEF AliasesTyped
  <1>4. EntriesDiffer'
    BY <1>1 DEF AliasesTyped, EntriesDiffer
  <1>5. /\ DOMAIN select' = {e.alias} \cup DOMAIN select
        /\ select'[e.alias] = e.tg
        /\ \A x \in DOMAIN select \ {e.alias} : select'[x] = select[x]
    BY DEF Take, Put
  <1>6. \/ route' = route
        \/ /\ DOMAIN route' = {e.tg} \cup DOMAIN route
           /\ route'[e.tg] = e.alias
           /\ \A x \in DOMAIN route \ {e.tg} : route'[x] = route[x]
    BY DEF Take, Put
  <1>7. \/ deliver' = deliver
        \/ /\ DOMAIN deliver' = {e.alias} \cup DOMAIN deliver
           /\ deliver'[e.alias] = e.tg
           /\ \A x \in DOMAIN deliver \ {e.alias} : deliver'[x] = deliver[x]
    BY DEF Take, Put
  <1>8. MapsAreTaken'
    <2>1. ASSUME NEW d \in taken'
          PROVE  /\ d.alias \in DOMAIN select'
                 /\ \E f \in taken' : f.alias = d.alias /\ select'[d.alias] = f.tg
      <3>1. CASE d.alias = e.alias
        BY <1>1, <1>5, <3>1
      <3>2. CASE d.alias # e.alias
        BY <1>1, <1>5, <3>2 DEF MapsAreTaken
      <3> QED BY <3>1, <3>2
    <2>2. ASSUME NEW d \in taken', d.tg \in DOMAIN route'
          PROVE  route'[d.tg] = d.alias
      <3>1. CASE d = e
        BY <1>1, <1>6, <2>2, <3>1 DEF MapsAreTaken
      <3>2. CASE d \in taken
        <4>1. d.tg # e.tg
          BY <1>1, <3>2 DEF AliasesTyped
        <4> QED BY <1>6, <2>2, <3>2, <4>1 DEF MapsAreTaken
      <3> QED BY <1>1, <2>2, <3>1, <3>2
    <2>3. DOMAIN route' \subseteq seenShort'
      BY <1>1, <1>6 DEF MapsAreTaken
    <2> QED BY <2>1, <2>2, <2>3 DEF MapsAreTaken
  <1>9. AliasesAreOwned'
    BY <1>1, <1>2, <1>6, <1>7 DEF AliasesAreOwned, MapsAreOwned
  <1> QED BY <1>3, <1>4, <1>8, <1>9

\* What happens while the reflector runs leaves the maps alone.
LEMMA RunningKeeps ==
    ASSUME AliasInv, UNCHANGED aliases, running' = TRUE \/ UNCHANGED <<running, all>>
    PROVE  AliasInv'
  <1>1. AliasesTyped' /\ EntriesDiffer' /\ MapsAreTaken'
    BY DEF AliasInv, AliasesTyped, EntriesDiffer, MapsAreTaken, aliases
  <1>2. AliasesAreOwned'
    BY DEF AliasInv, AliasesAreOwned, MapsAreOwned, Owned, IsLocalTG, IsLongest,
           Claims, aliases
  <1> QED BY <1>1, <1>2 DEF AliasInv

LEMMA AliasesNext == AliasInv /\ [Next]_vars => AliasInv'
  <1> SUFFICES ASSUME AliasInv, [Next]_vars PROVE AliasInv'
    OBVIOUS
  <1>1. ASSUME NEW e \in Entries, ReadAlias(e) PROVE AliasInv'
    <2>1. ~running /\ UNCHANGED <<all, running>>
      BY <1>1 DEF ReadAlias, tables
    <2>2. CASE Take(e)
      BY <2>1, <2>2, TakeKeeps
    <2>3. CASE Skip(e)
      <3>1. UNCHANGED <<taken, seenShort, route, deliver, select>>
        BY <2>3 DEF Skip
      <3>2. AliasesTyped' /\ EntriesDiffer' /\ MapsAreTaken'
        BY <3>1 DEF AliasInv, AliasesTyped, EntriesDiffer, MapsAreTaken
      <3>3. AliasesAreOwned'
        BY <2>1, <3>1 DEF AliasInv, AliasesAreOwned, MapsAreOwned, Owned, IsLocalTG,
                          IsLongest, Claims
      <3> QED BY <3>2, <3>3 DEF AliasInv
    <2> QED BY <1>1, <2>2, <2>3 DEF ReadAlias, ReadEntry
  <1>2. CASE EnterEventLoop
    BY <1>2, RunningKeeps DEF EnterEventLoop
  <1>3. CASE running /\ Event /\ UNCHANGED <<aliases, running>>
    BY <1>3, RunningKeeps
  <1>5. CASE DashboardWrites /\ UNCHANGED <<aliases, running>>
    BY <1>5, RunningKeeps DEF DashboardWrites, Store, tables
  <1>4. CASE UNCHANGED vars
    BY <1>4, RunningKeeps DEF vars, tables
  <1> QED BY <1>1, <1>2, <1>3, <1>4, <1>5 DEF Next

LEMMA AliasesHold == Spec => []AliasInv
  BY AliasesInit, AliasesNext, PTL DEF Spec

\* When LOCAL_ALIASES has been read, whatever its entries, no alias claims a number
\* this reflector does not own, and no owned number is translated.
THEOREM AliasesOwned == Spec => []AliasesAreOwned
  BY AliasesHold, PTL DEF AliasInv

\* A client that dials a long number is folded onto a short one and is published
\* under the number it dialled, or under none, whatever entries share it.
THEOREM DialledPublished == Spec => []DialledIsPublished
  <1>1. ASSUME AliasInv PROVE DialledIsPublished
    <2> SUFFICES ASSUME NEW e \in taken
                 PROVE  LET short == Translate(select, e.alias)
                        IN  short # e.alias /\ Translate(route, short) \in {short, e.alias}
      BY DEF DialledIsPublished
    <2>1. PICK f \in taken : /\ e.alias \in DOMAIN select
                             /\ f.alias = e.alias /\ select[e.alias] = f.tg
      BY <1>1 DEF AliasInv, MapsAreTaken
    <2>2. f.tg # e.alias /\ (f.tg \in DOMAIN route => route[f.tg] = e.alias)
      BY <1>1, <2>1 DEF AliasInv, MapsAreTaken, EntriesDiffer
    <2> QED BY <2>1, <2>2 DEF Translate
  <1>2. AliasInv => DialledIsPublished
    BY <1>1
  <1> QED BY <1>2, AliasesHold, PTL

-----------------------------------------------------------------------------
(* Links and the table.                                                    *)

RoutesTyped ==
    /\ stored \subseteq RedisSections
    /\ links \subseteq Sections
    /\ cfg \in [Sections -> Routables]
    /\ routable \in [Sections -> Routables \cup {{}}]
    /\ linkAll = [s \in Sections |-> linkAll[s]]
    /\ events \in Seq(RedisSections)

\* The table and every link's copy of it hold at least the prefixes of the links.
TableCovers ==
    /\ Collect(links, routable) \subseteq all
    /\ \A s \in links : Collect(links, routable) \subseteq linkAll[s]

\* With Redis. Without it a reload of a trunk of the file brings prefixes that the
\* table lacks.
RoutesInv ==
    /\ RoutesTyped
    /\ TableCovers

LEMMA RoutesInit == ASSUME UsesRedis, Init PROVE RoutesInv
  <1>1. RoutesTyped
    BY DEF Init, RoutesTyped, Sections
  <1>2. TableCovers
    BY DEF Init, TableCovers, Sections
  <1> QED BY <1>1, <1>2 DEF RoutesInv

\* With Redis a reload takes prefixes from links and gives them none.
LEMMA ReloadKeeps ==
    ASSUME UsesRedis, RoutesInv, NEW ls, ReloadConfig(ls)
    PROVE  /\ TableCovers'
           /\ routable' \in [Sections -> Routables \cup {{}}]
           /\ UNCHANGED <<links, all, linkAll>>
  <1>1. /\ routable' = [s \in Sections |-> IF s \notin ls THEN routable[s] ELSE {}]
        /\ UNCHANGED <<links, all, linkAll>>
    BY DEF ReloadConfig
  <1>2. Collect(links', routable') \subseteq Collect(links, routable)
    BY <1>1 DEF Collect, RoutesInv, RoutesTyped
  <1> QED BY <1>1, <1>2 DEF RoutesInv, RoutesTyped, TableCovers

\* The end of an addition and of a removal renews the table and every copy.
LEMMA RebroadcastCovers ==
    ASSUME links' \subseteq Sections, Rebroadcast(links', routable')
    PROVE  TableCovers' /\ linkAll' = [s \in Sections |-> linkAll'[s]]
  BY DEF Rebroadcast, TableCovers

LEMMA AnnouncementKeeps ==
    ASSUME UsesRedis, RoutesInv, ConfigChanged
    PROVE  RoutesInv'
  <1> USE DEF RoutesInv
  <1> DEFINE s == Head(events)
  <1>1. /\ s \in Sections /\ events' \in Seq(RedisSections)
        /\ UNCHANGED <<stored, cfg>>
    BY DEF ConfigChanged, RoutesTyped, Sections
  <1>2. AddTrunkLink(s) \/ RemoveTrunkLink(s) \/ ReloadConfig({s}) \/ UNCHANGED tables
    BY DEF ConfigChanged
  <1> HIDE DEF s
  <1>3. CASE AddTrunkLink(s)
    <2>1. /\ links' = links \cup {s} /\ routable' = routable
          /\ Rebroadcast(links', routable')
      BY <1>3 DEF AddTrunkLink
    <2> QED BY <1>1, <2>1, RebroadcastCovers DEF RoutesTyped
  <1>4. CASE RemoveTrunkLink(s)
    <2>1. /\ links' = links \ {s} /\ routable' = [routable EXCEPT ![s] = {}]
          /\ Rebroadcast(links', routable')
      BY <1>4 DEF RemoveTrunkLink
    <2> QED BY <1>1, <2>1, RebroadcastCovers DEF RoutesTyped
  <1>5. CASE ReloadConfig({s})
    BY <1>1, <1>5, ReloadKeeps DEF RoutesTyped
  <1>6. CASE UNCHANGED tables
    BY <1>1, <1>6 DEF tables, RoutesTyped, TableCovers
  <1> QED BY <1>2, <1>3, <1>4, <1>5, <1>6

\* The announcements on their way stay or are lost with the subscription.
LEMMA LossEvents ==
    ASSUME NEW c, LoseConnection(c), NEW T, events \in Seq(T)
    PROVE  (events' = events \/ events' = <<>>) /\ events' \in Seq(T)
  <1>1. events' = events \/ events' = <<>>
    <2>1. CASE c = "sub"
      BY <2>1 DEF LoseConnection
    <2>2. CASE c # "sub"
      BY <2>2 DEF LoseConnection
    <2> QED BY <2>1, <2>2
  <1>2. <<>> \in Seq(T)
    OBVIOUS
  <1> QED BY <1>1, <1>2

LEMMA RoutesNext == ASSUME UsesRedis PROVE RoutesInv /\ [Next]_vars => RoutesInv'
  <1> SUFFICES ASSUME RoutesInv, [Next]_vars PROVE RoutesInv'
    OBVIOUS
  <1>1. ASSUME UNCHANGED tables, cfg' \in [Sections -> Routables],
               stored' \subseteq RedisSections, events' \in Seq(RedisSections)
        PROVE  RoutesInv'
    BY <1>1 DEF RoutesInv, RoutesTyped, TableCovers, tables
  <1>2. CASE \/ \E e \in Entries : ReadAlias(e)
             \/ EnterEventLoop
             \/ Subscribe
             \/ ReconnectHalfway
             \/ UNCHANGED vars
    BY <1>1, <1>2 DEF ReadAlias, EnterEventLoop, Subscribe, ReconnectHalfway, vars,
                      redis, RoutesInv, RoutesTyped
  <1>3. CASE DashboardWrites
    <2>1. PICK s \in RedisSections : Store(s)
      BY <1>3 DEF DashboardWrites
    <2>2. events' = events \/ events' = Append(events, s)
      BY <2>1 DEF Store
    <2>3. events' \in Seq(RedisSections)
      BY <2>2 DEF RoutesInv, RoutesTyped
    <2>4. UNCHANGED tables /\ UNCHANGED cfg /\ stored' \subseteq RedisSections
      BY <2>1 DEF Store, RoutesInv, RoutesTyped
    <2> QED BY <1>1, <2>3, <2>4 DEF RoutesInv, RoutesTyped
  <1>8. CASE \E c \in Connections : LoseConnection(c)
    <2>1. PICK c \in Connections : LoseConnection(c)
      BY <1>8
    <2>2. events' \in Seq(RedisSections)
      BY <2>1, LossEvents DEF RoutesInv, RoutesTyped
    <2>3. UNCHANGED tables /\ UNCHANGED <<cfg, stored>>
      BY <2>1 DEF LoseConnection
    <2> QED BY <1>1, <2>2, <2>3 DEF RoutesInv, RoutesTyped
  <1>4. CASE ConfigChanged
    BY <1>4, AnnouncementKeeps
  <1>5. CASE Reconnect
    <2>1. ReloadConfig(links) /\ UNCHANGED <<stored, cfg, events>>
      BY <1>5 DEF Reconnect
    <2> QED BY <2>1, ReloadKeeps DEF RoutesInv, RoutesTyped
  <1>6. ASSUME NEW s \in FileSections, NEW prefixes \in Routables, PtyCfg(s, prefixes)
        PROVE  RoutesInv'
    BY <1>1, <1>6 DEF PtyCfg, redis, RoutesInv, RoutesTyped
  <1>7. ASSUME NEW s \in Sections, PtyReload(s) PROVE RoutesInv'
    <2>1. ReloadConfig({s}) /\ UNCHANGED <<redis, cfg>>
      BY <1>7 DEF PtyReload
    <2> QED BY <2>1, ReloadKeeps DEF redis, RoutesInv, RoutesTyped
  <1> QED BY <1>2, <1>3, <1>4, <1>5, <1>6, <1>7, <1>8 DEF Next, Event

LEMMA RoutesHold == ASSUME UsesRedis PROVE Spec => []RoutesInv
  <1>1. Init => RoutesInv
    BY RoutesInit
  <1>2. RoutesInv /\ [Next]_vars => RoutesInv'
    BY RoutesNext
  <1> QED BY <1>1, <1>2, PTL DEF Spec

\* Prefixes of one length that match one TG are the same.
LEMMA PrefixesAgree ==
    ASSUME NEW p \in Seq(Nat), NEW q \in Seq(Nat), NEW tg,
           IsPrefix(p, tg), IsPrefix(q, tg), Len(p) = Len(q)
    PROVE  p = q
  <1>1. SubSeq(p, 1, Len(p)) = SubSeq(q, 1, Len(q))
    BY DEF IsPrefix
  <1> QED BY <1>1, SubSeqFull

\* Two that are both the longest in tables with both of them agree.
LEMMA LongestAgree ==
    ASSUME NEW tg, NEW a, NEW b,
           NEW p \in Claims(b, tg), NEW q \in Claims(a, tg),
           p \in Seq(Nat), q \in Seq(Nat),
           IsLongest(p, a, tg), IsLongest(q, b, tg)
    PROVE  p = q
  <1>1. Len(q) <= Len(p) /\ Len(p) <= Len(q)
    BY DEF IsLongest
  <1>2. Len(p) \in Nat /\ Len(q) \in Nat
    OBVIOUS
  <1>3. Len(p) = Len(q)
    BY <1>1, <1>2
  <1> QED BY <1>3, PrefixesAgree DEF Claims

\* Why a link carries a TG: by its longest prefix of it, or by default when nobody
\* claims it.
ByPrefix(s, tg, p) ==
    p \in Claims(Own(s) \ {Star}, tg) /\ IsLongest(p, linkAll[s], tg)

ByDefault(s, tg) == Star \in Own(s) /\ Claims(linkAll[s], tg) = {}

LEMMA WhyShared ==
    ASSUME RoutesTyped, NEW tg, NEW s \in SharedBy(tg)
    PROVE  s \in links /\ (ByDefault(s, tg) \/ \E p : ByPrefix(s, tg, p))
  <1>1. s \in Sections /\ Star \notin Remote[s]
    BY PrefixesAssumption DEF RoutesTyped, SharedBy
  <1>2. Remote[s] \cup (routable[s] \ {Star}) = Own(s) \ {Star}
    BY <1>1 DEF Own
  <1>3. IsSharedTG(LinkRecord(s), linkAll[s], tg)
    BY DEF SharedBy
  <1>4. \/ \E p \in Claims(Own(s) \ {Star}, tg) : IsLongest(p, linkAll[s], tg)
        \/ Star \in routable[s] /\ Claims(linkAll[s], tg) = {}
    BY <1>2, <1>3 DEF IsSharedTG, LinkRecord
  <1> QED BY <1>4 DEF SharedBy, ByPrefix, ByDefault, Own

\* What is known of the prefixes of a link, and of the table.
LEMMA OwnCovered ==
    ASSUME RoutesInv, NEW s \in links
    PROVE  /\ Own(s) \subseteq Seq(Nat)
           /\ Own(s) \ {Star} \subseteq all
           /\ \A t \in links : Own(s) \ {Star} \subseteq linkAll[t]
           /\ LocalPrefixes \subseteq linkAll[s]
           /\ LocalPrefixes \subseteq Seq(Nat) \ {Star}
  <1>1. s \in Sections /\ Remote[s] \subseteq Seq(Nat)
    BY PrefixesAssumption DEF RoutesInv, RoutesTyped
  <1>2. routable[s] \subseteq Seq(Nat)
    BY <1>1, PrefixesAssumption DEF RoutesInv, RoutesTyped
  <1>3. Own(s) \subseteq Seq(Nat)
    BY <1>1, <1>2 DEF Own
  <1>4. Own(s) \ {Star} \subseteq Collect(links, routable)
    BY DEF Own, Collect
  <1>5. LocalPrefixes \subseteq Collect(links, routable)
    BY DEF Collect
  <1> QED BY <1>3, <1>4, <1>5, PrefixesAssumption DEF RoutesInv, TableCovers

\* No claim is shorter than the default route's.
LEMMA StarIsShortest ==
    ASSUME NEW p \in Seq(Nat)
    PROVE  Len(Star) <= Len(p) /\ Len(Star) = 0
  BY DEF Star

\* A TG has one next hop, whatever prefixes trunks and peers come with: links that
\* carry a TG claim the same longest prefix of it, and so does this reflector if it
\* owns it.
THEOREM OneHop == ASSUME UsesRedis PROVE Spec => []OneNextHop
  <1>1. ASSUME RoutesInv, NEW tg \in TGs, NEW s \in SharedBy(tg), NEW t \in SharedBy(tg)
        PROVE  \E p \in Claims(Own(s), tg) \cap Own(t) :
                   IsLongest(p, Own(s) \cup Own(t), tg)
    <2>1. s \in links /\ t \in links
      BY <1>1, WhyShared DEF RoutesInv
    <2>2. /\ Own(s) \subseteq Seq(Nat) /\ Own(t) \subseteq Seq(Nat)
          /\ (Own(s) \cup Own(t)) \ {Star} \subseteq linkAll[s]
          /\ (Own(s) \cup Own(t)) \ {Star} \subseteq linkAll[t]
      BY <1>1, <2>1, OwnCovered
    <2>3. CASE ByDefault(s, tg)
      <3>1. Claims(Own(s) \cup Own(t), tg) \subseteq {Star}
        BY <2>2, <2>3 DEF ByDefault, Claims
      <3>2. ByDefault(t, tg)
        BY <1>1, <3>1, WhyShared DEF RoutesInv, ByPrefix, Claims
      <3>3. Star \in Claims(Own(s), tg) \cap Own(t)
        BY <2>3, <3>2 DEF ByDefault, Claims, IsPrefix, Star
      <3>4. IsLongest(Star, Own(s) \cup Own(t), tg)
        BY <3>1 DEF IsLongest, Star
      <3> QED BY <3>3, <3>4
    <2>4. ASSUME NEW p, ByPrefix(s, tg, p)
          PROVE  \E r \in Claims(Own(s), tg) \cap Own(t) :
                     IsLongest(r, Own(s) \cup Own(t), tg)
      <3>1. /\ p \in Claims(Own(s), tg) /\ p # Star /\ p \in Seq(Nat)
            /\ p \in Claims(linkAll[t], tg) /\ IsLongest(p, linkAll[s], tg)
        BY <2>2, <2>4 DEF ByPrefix, Claims
      <3>2. PICK q : ByPrefix(t, tg, q)
        BY <1>1, <3>1, WhyShared DEF RoutesInv, ByDefault
      <3>3. /\ q \in Own(t) /\ q \in Seq(Nat) /\ IsLongest(q, linkAll[t], tg)
            /\ q \in Claims(linkAll[s], tg)
        BY <2>2, <3>2 DEF ByPrefix, Claims
      <3>4. p = q
        BY <3>1, <3>3, LongestAgree
      <3>5. IsLongest(p, Own(s) \cup Own(t), tg)
        <4> SUFFICES ASSUME NEW r \in Claims(Own(s) \cup Own(t), tg)
                     PROVE  Len(r) <= Len(p)
          BY DEF IsLongest
        <4>1. CASE r = Star
          BY <3>1, <4>1, StarIsShortest
        <4>2. CASE r # Star
          <5>1. r \in Claims(linkAll[s], tg)
            BY <2>2, <4>2 DEF Claims
          <5> QED BY <3>1, <5>1 DEF IsLongest
        <4> QED BY <4>1, <4>2
      <3> QED BY <3>1, <3>3, <3>4, <3>5
    <2> QED BY <1>1, <2>3, <2>4, WhyShared DEF RoutesInv
  <1>2. ASSUME RoutesInv, NEW tg \in TGs, IsLocalTG(LocalPrefixes, all, tg),
               NEW s \in SharedBy(tg)
        PROVE  \E p \in Claims(LocalPrefixes, tg) \cap Own(s) :
                   IsLongest(p, Own(s), tg)
    <2>1. PICK p \in Claims(LocalPrefixes, tg) : IsLongest(p, all, tg)
      BY <1>2 DEF IsLocalTG
    <2>2. s \in links
      BY <1>2, WhyShared DEF RoutesInv
    <2>3. /\ Own(s) \subseteq Seq(Nat) /\ Own(s) \ {Star} \subseteq all
          /\ p \in Seq(Nat) /\ p \in Claims(linkAll[s], tg)
      BY <1>2, <2>1, <2>2, OwnCovered DEF Claims
    <2>4. PICK q : ByPrefix(s, tg, q)
      BY <1>2, <2>3, WhyShared DEF RoutesInv, ByDefault
    <2>5. /\ q \in Claims(Own(s), tg) /\ q \in Seq(Nat)
          /\ q \in Claims(all, tg) /\ IsLongest(q, linkAll[s], tg)
      BY <2>3, <2>4 DEF ByPrefix, Claims
    <2>6. p = q
      BY <2>1, <2>3, <2>5, LongestAgree
    <2>7. IsLongest(p, Own(s), tg)
      <3> SUFFICES ASSUME NEW r \in Claims(Own(s), tg) PROVE Len(r) <= Len(p)
        BY DEF IsLongest
      <3>1. CASE r = Star
        BY <2>3, <3>1, StarIsShortest
      <3>2. CASE r # Star
        <4>1. r \in Claims(all, tg)
          BY <2>3, <3>2 DEF Claims
        <4> QED BY <2>1, <4>1 DEF IsLongest
      <3> QED BY <3>1, <3>2
    <2> QED BY <2>1, <2>5, <2>6, <2>7 DEF Claims
  <1>3. RoutesInv => OneNextHop
    BY <1>1, <1>2 DEF OneNextHop
  <1> QED BY <1>3, RoutesHold, PTL

-----------------------------------------------------------------------------
(* The links and the store, with Redis or without.                         *)

LinksTyped ==
    /\ stored \subseteq RedisSections
    /\ links \subseteq Sections
    /\ events \in Seq(RedisSections)

LinksInv == LinksTyped /\ StoredPeersAreLinked

LEMMA LinksInit == Init => LinksInv
  BY SectionsAssumption
     DEF Init, LinksInv, LinksTyped, Sections, StoredPeersAreLinked, Range

LEMMA RangeAppend ==
    ASSUME NEW q \in Seq(RedisSections), NEW s \in RedisSections
    PROVE  Range(q) \cup {s} \subseteq Range(Append(q, s))
  <1>1. /\ Len(Append(q, s)) = Len(q) + 1 /\ Len(q) \in Nat
        /\ DOMAIN Append(q, s) = 1..(Len(q) + 1) /\ DOMAIN q = 1..Len(q)
    OBVIOUS
  <1>2. Append(q, s)[Len(q) + 1] = s /\ Len(q) + 1 \in DOMAIN Append(q, s)
    BY <1>1
  <1>3. \A i \in DOMAIN q : i \in DOMAIN Append(q, s) /\ Append(q, s)[i] = q[i]
    BY <1>1
  <1> QED BY <1>2, <1>3 DEF Range

LEMMA RangeTail ==
    ASSUME NEW q \in Seq(RedisSections), q # <<>>
    PROVE  Range(q) \subseteq Range(Tail(q)) \cup {Head(q)}
  <1> SUFFICES ASSUME NEW i \in 1..Len(q)
               PROVE  q[i] \in Range(Tail(q)) \cup {Head(q)}
    BY DEF Range
  <1>1. /\ Len(Tail(q)) = Len(q) - 1 /\ Len(q) \in Nat
        /\ DOMAIN Tail(q) = 1..Len(Tail(q))
    OBVIOUS
  <1>2. CASE i = 1
    BY <1>2
  <1>3. CASE i # 1
    <2>1. i - 1 \in DOMAIN Tail(q)
      BY <1>1, <1>3
    <2>2. Tail(q)[i - 1] = q[i]
      BY <1>1, <1>3, <2>1
    <2> QED BY <2>1, <2>2 DEF Range
  <1> QED BY <1>2, <1>3

LEMMA AnnouncementLinks == ASSUME LinksInv, ConfigChanged PROVE LinksInv'
  <1> USE DEF LinksInv
  <1> DEFINE s == Head(events)
  <1>1. /\ s \in Sections /\ events \in Seq(RedisSections) /\ events # <<>>
        /\ events' = Tail(events) /\ events' \in Seq(RedisSections)
        /\ missed' = IF "sync" \in up THEN missed \ {s} ELSE missed \cup {s}
        /\ stored' = stored
    BY DEF ConfigChanged, LinksTyped, Sections
  <1>2. \/ s \in LoadedPeers /\ s \notin links /\ AddTrunkLink(s)
        \/ s \notin LoadedPeers /\ s \in links /\ RemoveTrunkLink(s)
        \/ s \in LoadedPeers /\ s \in links /\ ReloadConfig({s})
        \/ s \notin LoadedPeers /\ s \notin links /\ UNCHANGED tables
    BY DEF ConfigChanged
  <1>r. Range(events) \subseteq Range(events') \cup {s}
    BY <1>1, RangeTail
  <1> HIDE DEF s
  <1>3. /\ \A x \in Sections \ {s} : x \in links' <=> x \in links
        /\ s \in links' <=> s \in LoadedPeers
        /\ links' \subseteq Sections
    BY <1>1, <1>2 DEF AddTrunkLink, RemoveTrunkLink, ReloadConfig, tables, LinksTyped
  <1>4. LinksTyped'
    BY <1>1, <1>3 DEF LinksTyped
  <1>5. ASSUME NEW x \in RedisSections, x \notin missed', x \notin Range(events')
        PROVE  x \in links' <=> x \in stored'
    <2>1. CASE x = s
      BY <1>1, <1>3, <1>5, <2>1 DEF LoadedPeers
    <2>2. CASE x # s
      <3>1. x \notin missed /\ x \notin Range(events) /\ x \in Sections
        BY <1>1, <1>r, <1>5, <2>2 DEF Sections
      <3> QED BY <1>1, <1>3, <2>2, <3>1 DEF StoredPeersAreLinked
    <2> QED BY <2>1, <2>2
  <1>6. StoredPeersAreLinked'
    BY <1>5 DEF StoredPeersAreLinked
  <1> QED BY <1>4, <1>6

LEMMA LinksNext == LinksInv /\ [Next]_vars => LinksInv'
  <1> SUFFICES ASSUME LinksInv, [Next]_vars PROVE LinksInv'
    OBVIOUS
  <1> USE DEF LinksInv
  <1>1. ASSUME NEW s \in RedisSections, Store(s) PROVE LinksInv'
    <2>1. LinksTyped'
      BY <1>1 DEF Store, tables, LinksTyped
    <2>2. /\ UNCHANGED links
          /\ \A x \in RedisSections \ {s} : x \in stored' <=> x \in stored
      BY <1>1 DEF Store, tables
    <2>3. \/ events' = Append(events, s) /\ missed' = missed
          \/ events' = events /\ missed' = missed \cup {s}
      BY <1>1 DEF Store
    <2>4. missed \cup Range(events) \cup {s} \subseteq missed' \cup Range(events')
      BY <2>3, RangeAppend DEF LinksTyped
    <2> QED BY <2>1, <2>2, <2>4 DEF StoredPeersAreLinked
  <1>2. ASSUME NEW c \in Connections, LoseConnection(c) PROVE LinksInv'
    <2>e. events' \in Seq(RedisSections) /\ UNCHANGED <<links, stored>>
      BY <1>2, LossEvents DEF LoseConnection, tables, LinksTyped
    <2>1. LinksTyped' /\ UNCHANGED <<links, stored>>
      BY <2>e DEF LinksTyped
    <2>2. missed \cup Range(events) \subseteq missed' \cup Range(events')
      BY <1>2 DEF LoseConnection
    <2> QED BY <2>1, <2>2 DEF StoredPeersAreLinked
  <1>3. CASE ConfigChanged
    BY <1>3, AnnouncementLinks
  <1>4. CASE UNCHANGED <<stored, events, links, missed>>
    BY <1>4 DEF LinksTyped, StoredPeersAreLinked
  <1>5. CASE \/ \E e \in Entries : ReadAlias(e)
             \/ EnterEventLoop
             \/ Subscribe
             \/ Reconnect
             \/ ReconnectHalfway
             \/ \E s \in FileSections, prefixes \in Routables : PtyCfg(s, prefixes)
             \/ \E s \in Sections : PtyReload(s)
             \/ UNCHANGED vars
    BY <1>4, <1>5 DEF ReadAlias, EnterEventLoop, Subscribe, Reconnect, ReconnectHalfway,
                      PtyCfg, PtyReload, ReloadConfig, vars, redis, tables
  <1> QED BY <1>1, <1>2, <1>3, <1>5 DEF Next, Event, DashboardWrites

LEMMA LinksHold == Spec => []LinksInv
  BY LinksInit, LinksNext, PTL DEF Spec

\* Whatever is lost between the reflector and Redis, from the first moment on, a link
\* and its peer disagree only for a peer whose own last announcement is on its way or
\* was missed.
THEOREM PeersAreLinked == Spec => []StoredPeersAreLinked
  BY LinksHold, PTL DEF LinksInv

-----------------------------------------------------------------------------
(* The table and the trunks that are gone.                                 *)

GhostInv ==
    /\ links \subseteq Sections
    /\ cfg \in [Sections -> Routables]
    /\ routable \in [Sections -> Routables \cup {{}}]
    /\ \A s \in links : linkAll[s] = all
    /\ NoGhostPrefix

LEMMA MemberInUnion ==
    ASSUME NEW S, NEW x \in S \cup {{}}
    PROVE  x \subseteq UNION S
  OBVIOUS

LEMMA CollectHasNoGhost ==
    ASSUME NEW ls \in SUBSET Sections, NEW r \in [Sections -> Routables \cup {{}}]
    PROVE  /\ Collect(ls, r) \subseteq
                  LocalPrefixes \cup (UNION Routables) \cup UNION {Remote[s] : s \in ls}
           /\ Star \notin Collect(ls, r)
  <1> DEFINE P == UNION {Remote[s] \cup r[s] : s \in ls}
  <1>1. ASSUME NEW s \in ls PROVE r[s] \subseteq UNION Routables
    <2>1. s \in Sections
      OBVIOUS
    <2>2. r[s] \in Routables \cup {{}}
      BY <2>1
    <2> QED BY <2>2, MemberInUnion
  <1>2. P \subseteq (UNION Routables) \cup UNION {Remote[s] : s \in ls}
    BY <1>1
  <1>3. Collect(ls, r) = LocalPrefixes \cup (P \ {Star})
    BY Zenon DEF Collect
  <1>4. Star \notin LocalPrefixes
    BY PrefixesAssumption
  <1> HIDE DEF P
  <1> QED BY <1>2, <1>3, <1>4

\* What a link's copy of the table adds to it.
LEMMA CopiesAgree ==
    ASSUME \A s \in links : linkAll[s] = all
    PROVE  all \cup UNION {linkAll[s] : s \in links} = all
  OBVIOUS

LEMMA GhostInit == Init => GhostInv
  <1> SUFFICES ASSUME Init PROVE GhostInv
    OBVIOUS
  <1>1. /\ links \subseteq Sections
        /\ cfg \in [Sections -> Routables]
        /\ routable \in [Sections -> Routables \cup {{}}]
        /\ all = Collect(links, routable)
        /\ \A s \in links : linkAll[s] = all
    <2>1. links \subseteq Sections /\ cfg \in [Sections -> Routables]
      BY DEF Init, Sections
    <2> QED BY <2>1 DEF Init
  <1>2. all \cup UNION {linkAll[s] : s \in links} = all
    BY <1>1, CopiesAgree
  <1> QED BY <1>1, <1>2, CollectHasNoGhost DEF GhostInv, NoGhostPrefix

LEMMA GhostNext == LinksTyped /\ GhostInv /\ [Next]_vars => GhostInv'
  <1> SUFFICES ASSUME LinksTyped, GhostInv, [Next]_vars PROVE GhostInv'
    OBVIOUS
  <1> USE DEF GhostInv
  <1>1. ASSUME UNCHANGED <<links, all, linkAll>>, cfg' \in [Sections -> Routables],
               routable' \in [Sections -> Routables \cup {{}}]
        PROVE  GhostInv'
    BY <1>1 DEF NoGhostPrefix
  <1>2. ASSUME NEW ls, ReloadConfig(ls), UNCHANGED cfg PROVE GhostInv'
    BY <1>1, <1>2 DEF ReloadConfig
  <1>3. ASSUME NEW s \in Sections, AddTrunkLink(s) \/ RemoveTrunkLink(s), UNCHANGED cfg
        PROVE  GhostInv'
    <2>1. /\ links' \subseteq Sections
          /\ routable' \in [Sections -> Routables \cup {{}}]
          /\ all' = Collect(links', routable')
          /\ \A t \in links' : linkAll'[t] = all'
      BY <1>3 DEF AddTrunkLink, RemoveTrunkLink, Rebroadcast
    <2>2. /\ Collect(links', routable') \subseteq
                 LocalPrefixes \cup (UNION Routables) \cup UNION {Remote[t] : t \in links'}
          /\ Star \notin Collect(links', routable')
      BY <2>1, CollectHasNoGhost
    <2>3. all' \cup UNION {linkAll'[t] : t \in links'} = all'
      BY <2>1
    <2> QED BY <1>3, <2>1, <2>2, <2>3 DEF NoGhostPrefix
  <1>4. CASE ConfigChanged
    <2>1. CASE AddTrunkLink(Head(events)) \/ RemoveTrunkLink(Head(events))
      <3>1. Head(events) \in Sections
        BY <1>4 DEF ConfigChanged, LinksTyped, Sections
      <3> QED BY <1>3, <1>4, <2>1, <3>1 DEF ConfigChanged
    <2> QED BY <1>1, <1>2, <1>4, <2>1 DEF ConfigChanged, tables
  <1>5. CASE \/ DashboardWrites
             \/ Subscribe
             \/ ReconnectHalfway
             \/ \E c \in Connections : LoseConnection(c)
             \/ \E s \in FileSections, prefixes \in Routables : PtyCfg(s, prefixes)
             \/ \E e \in Entries : ReadAlias(e)
             \/ EnterEventLoop
             \/ UNCHANGED vars
    <2>1. UNCHANGED tables /\ cfg' \in [Sections -> Routables]
      BY <1>5 DEF DashboardWrites, Store, Subscribe, ReconnectHalfway, LoseConnection,
                  PtyCfg, ReadAlias, EnterEventLoop, vars
    <2> QED BY <1>1, <2>1 DEF tables
  <1>6. CASE Reconnect \/ \E s \in Sections : PtyReload(s)
    BY <1>2, <1>6 DEF Reconnect, PtyReload
  <1> QED BY <1>4, <1>5, <1>6 DEF Next, Event

\* However trunks from Redis come and go, no prefix of one that is gone stays in the
\* table or in a link's copy of it and takes TGs away from the others.
THEOREM NoGhost == Spec => []NoGhostPrefix
  <1>1. GhostInv => NoGhostPrefix
    BY DEF GhostInv
  <1> QED BY <1>1, LinksHold, GhostInit, GhostNext, PTL DEF Spec, LinksInv

-----------------------------------------------------------------------------
(* Types.                                                                  *)

\* What BoundedSeq contains.
LEMMA Bounded ==
    ASSUME NEW S, NEW n \in Nat, NEW s
    PROVE  s \in BoundedSeq(S, n) <=> s \in Seq(S) /\ Len(s) <= n
  <1>1. ASSUME s \in BoundedSeq(S, n) PROVE s \in Seq(S) /\ Len(s) <= n
    <2>1. PICK m \in 0..n : s \in [1..m -> S]
      BY <1>1 DEF BoundedSeq, SeqOf
    <2>2. m \in Nat /\ m <= n
      BY <2>1
    <2>3. s \in [1..m -> S]
      BY <2>1
    <2>4. s \in Seq(S)
      BY <2>2, <2>3, SeqDef
    <2>5. Len(s) = m
      BY <2>2, <2>3, <2>4, LenProperties
    <2> QED BY <2>2, <2>4, <2>5
  <1>2. ASSUME s \in Seq(S), Len(s) <= n PROVE s \in BoundedSeq(S, n)
    <2>1. Len(s) \in 0..n /\ s \in [1..Len(s) -> S]
      BY <1>2, LenProperties
    <2> QED BY <2>1 DEF BoundedSeq, SeqOf
  <1> QED BY <1>1, <1>2

\* TypeOK, and that every connection has a count of its losses.
RoutesTypeInv ==
    /\ TypeOK
    /\ losses = [c \in Connections |-> losses[c]]

\* The table is made of configured prefixes.
LEMMA CollectTyped ==
    ASSUME NEW ls \in SUBSET Sections, NEW r \in [Sections -> Routables \cup {{}}]
    PROVE  Collect(ls, r) \in PrefixSets
  <1>1. ASSUME NEW s \in ls
        PROVE  /\ Remote[s] \subseteq UNION {Remote[t] : t \in Sections}
               /\ r[s] \subseteq UNION Routables
    <2>1. s \in Sections /\ r[s] \in Routables \cup {{}}
      OBVIOUS
    <2> QED BY <2>1
  <1>2. UNION {Remote[s] \cup r[s] : s \in ls}
            \subseteq (UNION Routables) \cup (UNION {Remote[s] : s \in Sections})
    BY <1>1
  <1> DEFINE P == UNION {Remote[s] \cup r[s] : s \in ls}
             Q == (UNION Routables) \cup (UNION {Remote[s] : s \in Sections})
             R == UNION {Remote[s] : s \in Sections}
  <1>3. Collect(ls, r) = LocalPrefixes \cup (P \ {Star})
    BY Zenon DEF Collect
  <1>4. PrefixSets = SUBSET (LocalPrefixes \cup ((UNION Routables) \ {Star}) \cup R)
    BY Zenon DEF PrefixSets
  <1>5. P \subseteq (UNION Routables) \cup R
    BY <1>2
  <1> HIDE DEF P, R
  <1> QED BY <1>3, <1>4, <1>5

LEMMA TypesInit == Init => RoutesTypeInv
  <1> SUFFICES ASSUME Init PROVE RoutesTypeInv
    OBVIOUS
  <1>1. AliasTypeOK
    BY EntriesAssumption DEF Init, AliasInit, AliasTypeOK, Range
  <1>2. links \subseteq Sections /\ routable \in [Sections -> Routables \cup {{}}]
        /\ cfg \in [Sections -> Routables]
    <2>1. links \subseteq Sections /\ cfg \in [Sections -> Routables]
      BY DEF Init, Sections
    <2> QED BY <2>1 DEF Init
  <1>3. all \in PrefixSets
    BY <1>2, CollectTyped DEF Init
  <1>4. linkAll \in [Sections -> PrefixSets]
    BY <1>3 DEF Init, PrefixSets
  <1>5. events \in BoundedSeq(RedisSections, MaxEvents)
    <2>1. events \in Seq(RedisSections) /\ Len(events) <= MaxEvents
      BY BoundsAssumption DEF Init
    <2> QED BY <2>1, Bounded, BoundsAssumption
  <1>6. /\ losses = [c \in Connections |-> losses[c]]
        /\ \A c \in Connections : losses[c] \in 0..MaxLosses[c]
    BY BoundsAssumption DEF Init
  <1>7. /\ running \in BOOLEAN /\ stored \subseteq RedisSections /\ up \subseteq Connections
        /\ subscribed \in BOOLEAN /\ reconnecting \in BOOLEAN /\ missed \subseteq RedisSections
    BY DEF Init
  <1> QED BY <1>1, <1>2, <1>3, <1>4, <1>5, <1>6, <1>7 DEF RoutesTypeInv, TypeOK

\* An assignment of numbers to a map of numbers.
LEMMA PutTyped ==
    ASSUME NEW map, DOMAIN map \subseteq Numbers, Range(map) \subseteq Numbers,
           NEW k \in Numbers, NEW v \in Numbers
    PROVE  DOMAIN Put(map, k, v) \subseteq Numbers /\ Range(Put(map, k, v)) \subseteq Numbers
  BY DEF Put, Range

\* One entry of LOCAL_ALIASES.
LEMMA EntryTyped ==
    ASSUME AliasTypeOK, NEW e \in Entries, ReadEntry(e)
    PROVE  AliasTypeOK'
  <1>1. e.tg \in Numbers /\ e.alias \in Numbers
    BY DEF Entries
  <1>2. read' \in 0..MaxEntries
    BY EntriesAssumption DEF ReadEntry, AliasTypeOK
  <1>3. CASE Skip(e)
    BY <1>2, <1>3 DEF Skip, AliasTypeOK
  <1>4. CASE Take(e)
    <2>1. /\ taken' = taken \cup {e} /\ seenShort' = seenShort \cup {e.tg}
          /\ route' \in {route, Put(route, e.tg, e.alias)}
          /\ deliver' \in {deliver, Put(deliver, e.alias, e.tg)}
          /\ select' = Put(select, e.alias, e.tg)
      BY <1>4 DEF Take
    <2>2. \A map \in {route', deliver', select'} :
              DOMAIN map \subseteq Numbers /\ Range(map) \subseteq Numbers
      BY <1>1, <2>1, PutTyped DEF AliasTypeOK
    <2>3. taken' \subseteq Entries /\ seenShort' = {f.tg : f \in taken'}
      BY <2>1 DEF AliasTypeOK
    <2> QED BY <1>2, <2>2, <2>3 DEF AliasTypeOK
  <1> QED BY <1>3, <1>4 DEF ReadEntry

\* What is kept of the store and its connections.
RedisOK ==
    /\ stored \subseteq RedisSections /\ up \subseteq Connections
    /\ events \in BoundedSeq(RedisSections, MaxEvents)
    /\ subscribed \in BOOLEAN /\ reconnecting \in BOOLEAN
    /\ losses = [c \in Connections |-> losses[c]]
    /\ \A c \in Connections : losses[c] \in 0..MaxLosses[c]
    /\ missed \subseteq RedisSections

LEMMA EventsBounded ==
    RedisOK => events \in Seq(RedisSections) /\ Len(events) <= MaxEvents
  BY Bounded, BoundsAssumption DEF RedisOK

\* A step of the store and its connections.
LEMMA RedisTyped ==
    ASSUME RedisOK,
           \/ \E s \in RedisSections : Store(s)
           \/ \E c \in Connections : LoseConnection(c)
           \/ Subscribe
           \/ ReconnectHalfway
    PROVE  RedisOK' /\ UNCHANGED <<cfg, tables>>
  <1>1. MaxEvents \in Nat /\ \A c \in Connections : MaxLosses[c] \in Nat
    BY BoundsAssumption
  <1>2. events \in Seq(RedisSections) /\ Len(events) <= MaxEvents /\ Len(events) \in Nat
    BY EventsBounded
  <1>3. ASSUME NEW s \in RedisSections, Store(s)
        PROVE  RedisOK' /\ UNCHANGED <<cfg, tables>>
    <2>1. /\ Append(events, s) \in Seq(RedisSections)
          /\ Len(Append(events, s)) = Len(events) + 1
      BY <1>2
    <2>2. Len(events) < MaxEvents /\ events' \in {events, Append(events, s)}
      BY <1>3 DEF Store
    <2>3. events' \in Seq(RedisSections) /\ Len(events') <= MaxEvents
      BY <1>1, <1>2, <2>1, <2>2
    <2>4. events' \in BoundedSeq(RedisSections, MaxEvents)
      BY <1>1, <2>3, Bounded
    <2> QED BY <1>3, <2>4 DEF Store, RedisOK
  <1>4. ASSUME NEW c \in Connections, LoseConnection(c)
        PROVE  RedisOK' /\ UNCHANGED <<cfg, tables>>
    <2>e. /\ events' = events \/ events' = <<>>
          /\ events' \in Seq(RedisSections)
      BY <1>2, <1>4, LossEvents
    <2>1. events' \in Seq(RedisSections) /\ Len(events') <= MaxEvents
      BY <1>1, <1>2, <2>e
    <2>2. events' \in BoundedSeq(RedisSections, MaxEvents)
      BY <1>1, <2>1, Bounded
    <2>3. /\ losses' = [d \in Connections |-> losses'[d]]
          /\ \A d \in Connections : losses'[d] \in 0..MaxLosses[d]
      BY <1>1, <1>4 DEF LoseConnection, RedisOK
    <2>4. missed' \subseteq RedisSections
      BY <1>2, <1>4 DEF LoseConnection, RedisOK, Range
    <2> QED BY <1>4, <2>2, <2>3, <2>4 DEF LoseConnection, RedisOK
  <1>5. CASE Subscribe
    BY <1>5 DEF Subscribe, RedisOK
  <1>6. CASE ReconnectHalfway
    <2>1. /\ losses' = [d \in Connections |-> losses'[d]]
          /\ \A d \in Connections : losses'[d] \in 0..MaxLosses[d]
      BY <1>1, <1>6 DEF ReconnectHalfway, RedisOK
    <2> QED BY <1>6, <2>1 DEF ReconnectHalfway, RedisOK
  <1> QED BY <1>3, <1>4, <1>5, <1>6

\* A link that is added, removed or reloaded, with the table sent to all.
LEMMA TablesTyped ==
    ASSUME RoutesTypeInv,
           \/ \E ls : ReloadConfig(ls)
           \/ \E s \in Sections : AddTrunkLink(s) \/ RemoveTrunkLink(s)
           \/ UNCHANGED tables,
           cfg' \in [Sections -> Routables]
    PROVE  /\ links' \subseteq Sections
           /\ routable' \in [Sections -> Routables \cup {{}}]
           /\ all' \in PrefixSets
           /\ linkAll' \in [Sections -> PrefixSets]
  <1>1. ASSUME NEW s \in Sections, AddTrunkLink(s) \/ RemoveTrunkLink(s)
        PROVE  /\ links' \subseteq Sections
               /\ routable' \in [Sections -> Routables \cup {{}}]
               /\ all' \in PrefixSets
               /\ linkAll' \in [Sections -> PrefixSets]
    <2>1. /\ links' \subseteq Sections
          /\ routable' \in [Sections -> Routables \cup {{}}]
          /\ all' = Collect(links', routable')
          /\ linkAll' = [t \in Sections |-> IF t \in links' THEN all' ELSE {}]
      BY <1>1 DEF AddTrunkLink, RemoveTrunkLink, Rebroadcast, RoutesTypeInv, TypeOK
    <2>2. all' \in PrefixSets
      BY <2>1, CollectTyped
    <2>3. {} \in PrefixSets
      BY DEF PrefixSets
    <2> QED BY <2>1, <2>2, <2>3
  <1>2. CASE (\E ls : ReloadConfig(ls)) \/ UNCHANGED tables
    BY <1>2 DEF ReloadConfig, tables, RoutesTypeInv, TypeOK
  <1> QED BY <1>1, <1>2

LEMMA TypesNext == RoutesTypeInv /\ [Next]_vars => RoutesTypeInv'
  <1> SUFFICES ASSUME RoutesTypeInv, [Next]_vars PROVE RoutesTypeInv'
    OBVIOUS
  <1> DEFINE TablesOK ==
                 /\ links \subseteq Sections
                 /\ routable \in [Sections -> Routables \cup {{}}]
                 /\ all \in PrefixSets
                 /\ linkAll \in [Sections -> PrefixSets]
             RestOK == AliasTypeOK /\ running \in BOOLEAN
             CfgOK == cfg \in [Sections -> Routables]
  <1>1. RoutesTypeInv <=> RedisOK /\ TablesOK /\ RestOK /\ CfgOK
    BY DEF RoutesTypeInv, TypeOK, RedisOK
  <1>2. RoutesTypeInv' <=> RedisOK' /\ TablesOK' /\ RestOK' /\ CfgOK'
    BY DEF RoutesTypeInv, TypeOK, RedisOK
  <1>3. UNCHANGED redis => RedisOK'
    BY <1>1 DEF redis, RedisOK
  <1>4. UNCHANGED tables => TablesOK'
    BY <1>1 DEF tables
  <1>5. UNCHANGED <<aliases, running>> => RestOK'
    BY <1>1 DEF aliases, AliasTypeOK
  <1>6. UNCHANGED cfg => CfgOK'
    BY <1>1
  <1> HIDE DEF TablesOK, RestOK, CfgOK
  <1>7. ASSUME NEW e \in Entries, ReadAlias(e) PROVE RoutesTypeInv'
    <2>1. RestOK'
      BY <1>1, <1>7, EntryTyped DEF ReadAlias, RestOK
    <2> QED BY <1>2, <1>3, <1>4, <1>6, <1>7, <2>1 DEF ReadAlias
  <1>8. CASE EnterEventLoop
    <2>1. RestOK'
      BY <1>1, <1>8 DEF EnterEventLoop, RestOK, aliases, AliasTypeOK
    <2> QED BY <1>2, <1>3, <1>4, <1>6, <1>8, <2>1 DEF EnterEventLoop
  <1>9. CASE UNCHANGED vars
    BY <1>2, <1>3, <1>4, <1>5, <1>6, <1>9 DEF vars
  <1>10. CASE (Event \/ DashboardWrites) /\ UNCHANGED <<aliases, running>>
    <2>1. CASE \/ DashboardWrites
               \/ \E c \in Connections : LoseConnection(c)
               \/ Subscribe
               \/ ReconnectHalfway
      <3>1. RedisOK' /\ UNCHANGED <<cfg, tables>>
        BY <1>1, <2>1, RedisTyped DEF DashboardWrites
      <3> QED BY <1>2, <1>4, <1>5, <1>6, <1>10, <3>1
    <2>2. CASE ConfigChanged
      <3>1. MaxEvents \in Nat /\ events \in Seq(RedisSections) /\ Len(events) <= MaxEvents
        BY <1>1, EventsBounded, BoundsAssumption
      <3>2. /\ events # <<>> /\ events' = Tail(events)
            /\ missed' \in {missed \ {Head(events)}, missed \cup {Head(events)}}
            /\ UNCHANGED <<stored, cfg, up, subscribed, reconnecting, losses>>
        BY <2>2 DEF ConfigChanged
      <3>3. Tail(events) \in Seq(RedisSections) /\ Len(Tail(events)) <= MaxEvents
        BY <3>1, <3>2
      <3>4. events' \in BoundedSeq(RedisSections, MaxEvents)
        BY <3>1, <3>2, <3>3, Bounded
      <3>6. Head(events) \in Sections /\ Head(events) \in RedisSections
        BY <3>1, <3>2 DEF Sections
      <3>5. RedisOK'
        BY <1>1, <3>2, <3>4, <3>6 DEF RedisOK
      <3>7. \/ \E ls : ReloadConfig(ls)
            \/ \E s \in Sections : AddTrunkLink(s) \/ RemoveTrunkLink(s)
            \/ UNCHANGED tables
        BY <2>2, <3>6 DEF ConfigChanged
      <3>8. CfgOK'
        BY <1>6, <3>2
      <3>9. TablesOK'
        BY <3>7, <3>8, TablesTyped DEF TablesOK, CfgOK
      <3> QED BY <1>2, <1>5, <1>10, <3>5, <3>8, <3>9
    <2>3. CASE Reconnect
      <3>1. RedisOK'
        BY <1>1, <2>3 DEF Reconnect, RedisOK
      <3>2. CfgOK'
        BY <1>6, <2>3 DEF Reconnect
      <3>3. TablesOK'
        BY <2>3, <3>2, TablesTyped DEF Reconnect, TablesOK, CfgOK
      <3> QED BY <1>2, <1>5, <1>10, <3>1, <3>2, <3>3
    <2>4. ASSUME NEW s \in FileSections, NEW prefixes \in Routables, PtyCfg(s, prefixes)
          PROVE  RoutesTypeInv'
      <3>1. CfgOK'
        BY <1>1, <2>4 DEF PtyCfg, CfgOK
      <3> QED BY <1>2, <1>3, <1>4, <1>5, <1>10, <2>4, <3>1 DEF PtyCfg
    <2>5. ASSUME NEW s \in Sections, PtyReload(s) PROVE RoutesTypeInv'
      <3>1. RedisOK' /\ CfgOK'
        BY <1>3, <1>6, <2>5 DEF PtyReload
      <3>2. TablesOK'
        BY <2>5, <3>1, TablesTyped DEF PtyReload, TablesOK, CfgOK
      <3> QED BY <1>2, <1>5, <1>10, <3>1, <3>2
    <2> QED BY <1>10, <2>1, <2>2, <2>3, <2>4, <2>5 DEF Event
  <1> QED BY <1>7, <1>8, <1>9, <1>10 DEF Next

\* The tables only hold configured prefixes, the aliases only configured numbers,
\* and no more announcements and losses are counted than the bounds allow
\* (TrunkRoutes!TypeOK).
THEOREM TypeCorrect == Spec => []TypeOK
  <1>1. RoutesTypeInv => TypeOK
    BY DEF RoutesTypeInv
  <1> QED BY <1>1, TypesInit, TypesNext, PTL DEF Spec
=============================================================================
