----------------------------- MODULE SiteProofs -----------------------------
(***************************************************************************)
(* Proofs about Site, for every site of twins, parents and satellites and  *)
(* any number of failures.                                                 *)
(***************************************************************************)
EXTENDS Site, SequenceTheorems, TLAPS

-----------------------------------------------------------------------------
(* The lines of a site.                                                    *)

LEMMA LineTypes ==
    ASSUME sc \in Scenarios, NEW l \in Lines
    PROVE  /\ l = [kind |-> l.kind, from |-> l.from, to |-> l.to]
           /\ l.kind \in Kinds /\ l.from \in Nodes /\ l.to \in Nodes
           /\ l.from # l.to /\ l.from \in Members /\ l.to \in Members
           /\ \A m \in Lines : l.from = m.from => l = m
           /\ \A m \in Lines : l.kind = "satellite" => m.to # l.from
           /\ l.kind = "twin" => Line("twin", l.to, l.from) \in Lines
  BY LinesAssumption DEF Lines, Members

LEMMA MemberTypes == ASSUME sc \in Scenarios PROVE Members \subseteq Nodes
  BY LineTypes DEF Members

\* A twin has one outbound and one inbound line.
LEMMA TwinLines ==
    ASSUME sc \in Scenarios, NEW l \in LinesOf("twin")
    PROVE  /\ l \in Lines /\ l.kind = "twin"
           /\ l.from \in Twins /\ l.to \in Twins
           /\ Out(l.from) = l /\ In(l.to) = l
           /\ In(l.from) = Line("twin", l.to, l.from) /\ In(l.from) \in LinesOf("twin")
           /\ \A m \in LinesOf("twin") :
                /\ m.from = l.from => m = l
                /\ m.to = l.to => m = l
                /\ m.to = l.from => m = In(l.from)
  <1>1. l \in Lines /\ l.kind = "twin"
    BY DEF LinesOf
  <1>2. ASSUME NEW m \in LinesOf("twin"), NEW k \in LinesOf("twin"), m.to = k.to PROVE m = k
    <2>1. /\ m \in Lines /\ k \in Lines /\ m.kind = "twin" /\ k.kind = "twin"
      BY DEF LinesOf
    <2>2. /\ Line("twin", m.to, m.from) \in Lines /\ Line("twin", k.to, k.from) \in Lines
      BY <2>1, LineTypes
    <2>3. Line("twin", m.to, m.from) = Line("twin", k.to, k.from)
      BY <1>2, <2>2, LineTypes DEF Line
    <2>4. m.from = k.from
      BY <2>3 DEF Line
    <2> QED BY <2>1, <2>4, LineTypes
  <1>3. Line("twin", l.to, l.from) \in LinesOf("twin")
    BY <1>1, LineTypes DEF LinesOf, Line
  <1>4. Out(l.from) = l
    BY <1>1, LineTypes DEF Out
  <1>5. In(l.to) = l
    BY <1>2 DEF In
  <1>6. In(l.from) = Line("twin", l.to, l.from)
    <2>1. Line("twin", l.to, l.from).to = l.from
      BY DEF Line
    <2> QED BY <1>2, <1>3, <2>1 DEF In
  <1>7. l.from \in Twins /\ l.to \in Twins
    BY <1>3 DEF Twins, Line
  <1>8. ASSUME NEW m \in LinesOf("twin")
        PROVE  /\ m.from = l.from => m = l
               /\ m.to = l.to => m = l
               /\ m.to = l.from => m = In(l.from)
    <2>1. m.from = l.from => m = l
      BY <1>1, LineTypes DEF LinesOf
    <2>2. Line("twin", l.to, l.from).to = l.from
      BY DEF Line
    <2> QED BY <1>2, <1>3, <1>6, <2>1, <2>2
  <1> QED BY <1>1, <1>3, <1>4, <1>5, <1>6, <1>7, <1>8

LEMMA TwinOut ==
    ASSUME sc \in Scenarios, NEW n \in Twins
    PROVE  Out(n) \in LinesOf("twin") /\ Out(n).from = n /\ In(n) \in LinesOf("twin") /\ In(n).to = n
  <1>1. PICK l \in LinesOf("twin") : l.from = n
    BY DEF Twins
  <1>2. Out(n) = l /\ In(n) = Line("twin", l.to, l.from) /\ In(n) \in LinesOf("twin")
    BY <1>1, TwinLines
  <1> QED BY <1>1, <1>2 DEF Line

\* No satellite is a twin or the parent of another.
LEMMA SatelliteLines ==
    ASSUME sc \in Scenarios, NEW l \in LinesOf("satellite")
    PROVE  /\ l \in Lines
           /\ \A m \in Lines : m.to # l.from
           /\ \A m \in LinesOf("twin") : m.from # l.from
           /\ l.from \notin Twins
  <1>1. l \in Lines /\ l.kind = "satellite"
    BY DEF LinesOf
  <1>2. \A m \in LinesOf("twin") : m \in Lines /\ m.kind = "twin"
    BY DEF LinesOf
  <1>3. \A m \in LinesOf("twin") : m.from # l.from
    BY <1>1, <1>2, LineTypes
  <1> QED BY <1>1, <1>3, LineTypes DEF Twins

-----------------------------------------------------------------------------
(* What is on the wires: no twin is told of a talker behind it.             *)

\* n and its satellites.
Behind(n) == {n} \cup {s.from : s \in {t \in LinesOf("satellite") : t.to = n}}

\* Messages of which every talker start names one of S.
Queue(q, S) ==
    /\ q \in Seq(Messages)
    /\ \A i \in 1..Len(q) : q[i].type = "TalkerStart" => q[i].callsign \in S

Wires(up, down) ==
    /\ up \in [Lines -> [Slots -> Seq(Messages)]]
    /\ down \in [Lines -> [Slots -> Seq(Messages)]]
    /\ \A l \in Lines, k \in Slots : Queue(up[l][k], Behind(l.from))
    /\ \A l \in LinesOf("twin"), k \in Slots : Queue(down[l][k], Behind(l.to))

LEMMA QueueEmpty == ASSUME NEW S PROVE Queue(<<>>, S)
  BY DEF Queue

LEMMA QueueOne ==
    ASSUME NEW S, NEW m \in Messages, m.type = "TalkerStart" => m.callsign \in S
    PROVE  Queue(<<m>>, S)
  BY DEF Queue

LEMMA QueueConcat ==
    ASSUME NEW S, NEW p, NEW q, Queue(p, S), Queue(q, S)
    PROVE  Queue(p \o q, S)
  <1> DEFINE all == p \o q
  <1>1. p \in Seq(Messages) /\ q \in Seq(Messages)
    BY DEF Queue
  <1>2. /\ all \in Seq(Messages)
        /\ Len(p) \in Nat /\ Len(q) \in Nat /\ Len(all) = Len(p) + Len(q)
        /\ \A i \in 1..Len(p) : all[i] = p[i]
        /\ \A i \in 1..Len(q) : all[Len(p) + i] = q[i]
    BY <1>1
  <1> HIDE DEF all
  <1>3. ASSUME NEW i \in 1..Len(all), all[i].type = "TalkerStart"
        PROVE  all[i].callsign \in S
    <2>1. CASE i \in 1..Len(p)
      BY <1>2, <1>3, <2>1 DEF Queue
    <2>2. CASE i \notin 1..Len(p)
      <3>1. i - Len(p) \in 1..Len(q) /\ i = Len(p) + (i - Len(p))
        BY <1>2, <2>2
      <3>2. all[i] = q[i - Len(p)]
        BY <1>2, <3>1
      <3> QED BY <1>3, <3>1, <3>2 DEF Queue
    <2> QED BY <2>1, <2>2
  <1>4. Queue(all, S)
    BY <1>2, <1>3 DEF Queue
  <1> QED BY <1>4 DEF all

LEMMA QueueRead ==
    ASSUME NEW S, NEW q, Queue(q, S), q # <<>>
    PROVE  /\ Queue(Tail(q), S)
           /\ Head(q) \in Messages
           /\ Head(q).type = "TalkerStart" => Head(q).callsign \in S
  <1> DEFINE rest == Tail(q)
  <1>1. /\ q \in Seq(Messages) /\ Len(q) \in Nat \ {0}
        /\ rest \in Seq(Messages) /\ Len(rest) = Len(q) - 1
        /\ \A i \in 1..Len(rest) : rest[i] = q[i + 1]
        /\ Head(q) = q[1] /\ Head(q) \in Messages
    BY HeadTailProperties DEF Queue
  <1> HIDE DEF rest
  <1>2. \A i \in 1..Len(rest) : i + 1 \in 1..Len(q)
    BY <1>1
  <1>3. Queue(rest, S)
    BY <1>1, <1>2 DEF Queue
  <1> QED BY <1>1, <1>3 DEF Queue, rest

\* Emptied queues.
LEMMA WiresEmptied ==
    ASSUME NEW up, NEW down, Wires(up, down), NEW l \in Lines, NEW k \in Slots
    PROVE  /\ Wires([up EXCEPT ![l][k] = <<>>], down)
           /\ Wires(up, [down EXCEPT ![l][k] = <<>>])
  <1>1. ASSUME NEW f \in [Lines -> [Slots -> Seq(Messages)]], NEW a \in Lines, NEW b \in Slots
        PROVE  /\ [f EXCEPT ![l][k] = <<>>] \in [Lines -> [Slots -> Seq(Messages)]]
               /\ [f EXCEPT ![l][k] = <<>>][a][b] = IF a = l /\ b = k THEN <<>> ELSE f[a][b]
    <2>1. <<>> \in Seq(Messages)
      OBVIOUS
    <2> QED BY <2>1
  <1>2. [up EXCEPT ![l][k] = <<>>] \in [Lines -> [Slots -> Seq(Messages)]]
    BY <1>1 DEF Wires
  <1>3. [down EXCEPT ![l][k] = <<>>] \in [Lines -> [Slots -> Seq(Messages)]]
    BY <1>1 DEF Wires
  <1>4. \A a \in Lines, b \in Slots : Queue([up EXCEPT ![l][k] = <<>>][a][b], Behind(a.from))
    BY <1>1, QueueEmpty DEF Wires
  <1>5. \A a \in LinesOf("twin"), b \in Slots :
            Queue([down EXCEPT ![l][k] = <<>>][a][b], Behind(a.to))
    BY <1>1, QueueEmpty DEF Wires, LinesOf
  <1> QED BY <1>2, <1>3, <1>4, <1>5 DEF Wires

\* Queues without the message read.
LEMMA WiresRead ==
    ASSUME NEW up, NEW down, Wires(up, down), NEW l \in Lines, NEW k \in Slots
    PROVE  /\ up[l][k] # <<>> => Wires([up EXCEPT ![l][k] = Tail(@)], down)
           /\ down[l][k] # <<>> => Wires(up, [down EXCEPT ![l][k] = Tail(@)])
  <1>1. ASSUME NEW f \in [Lines -> [Slots -> Seq(Messages)]], f[l][k] # <<>>
        PROVE  /\ [f EXCEPT ![l][k] = Tail(@)] \in [Lines -> [Slots -> Seq(Messages)]]
               /\ \A a \in Lines, b \in Slots :
                    [f EXCEPT ![l][k] = Tail(@)][a][b] =
                        IF a = l /\ b = k THEN Tail(f[l][k]) ELSE f[a][b]
    <2>1. Tail(f[l][k]) \in Seq(Messages)
      BY <1>1, HeadTailProperties
    <2> QED BY <2>1
  <1>2. ASSUME up[l][k] # <<>> PROVE Wires([up EXCEPT ![l][k] = Tail(@)], down)
    <2> DEFINE new == [up EXCEPT ![l][k] = Tail(@)]
    <2>1. /\ new \in [Lines -> [Slots -> Seq(Messages)]]
          /\ \A a \in Lines, b \in Slots :
               new[a][b] = IF a = l /\ b = k THEN Tail(up[l][k]) ELSE up[a][b]
      BY <1>1, <1>2 DEF Wires
    <2> HIDE DEF new
    <2>2. \A a \in Lines, b \in Slots : Queue(new[a][b], Behind(a.from))
      BY <1>2, <2>1, QueueRead DEF Wires
    <2>3. Wires(new, down)
      BY <2>1, <2>2 DEF Wires
    <2> QED BY <2>3 DEF new
  <1>3. ASSUME down[l][k] # <<>> PROVE Wires(up, [down EXCEPT ![l][k] = Tail(@)])
    <2> DEFINE new == [down EXCEPT ![l][k] = Tail(@)]
    <2>1. /\ new \in [Lines -> [Slots -> Seq(Messages)]]
          /\ \A a \in Lines, b \in Slots :
               new[a][b] = IF a = l /\ b = k THEN Tail(down[l][k]) ELSE down[a][b]
      BY <1>1, <1>3 DEF Wires
    <2> HIDE DEF new
    <2>2. \A a \in LinesOf("twin"), b \in Slots : Queue(new[a][b], Behind(a.to))
      <3> SUFFICES ASSUME NEW a \in LinesOf("twin"), NEW b \in Slots
                   PROVE  Queue(new[a][b], Behind(a.to))
        OBVIOUS
      <3>1. a \in Lines /\ Queue(down[a][b], Behind(a.to))
        BY DEF Wires, LinesOf
      <3>2. CASE a = l /\ b = k
        BY <1>3, <2>1, <3>1, <3>2, QueueRead
      <3>3. CASE ~(a = l /\ b = k)
        BY <2>1, <3>1, <3>3
      <3> QED BY <3>2, <3>3
    <2>3. Wires(up, new)
      BY <2>1, <2>2 DEF Wires
    <2> QED BY <2>3 DEF new
  <1> QED BY <1>2, <1>3

\* What a reflector sends to its twin is about itself and those behind it.
LEMMA TellKeeps ==
    ASSUME sc \in Scenarios, NEW n \in Nodes, NEW twin, NEW sats, NEW up, NEW down,
           Wires(up, down), Queue(twin, Behind(n)), sats \in Seq(Messages),
           Tell(n, twin, sats, up, down)
    PROVE  Wires(toServer', toClient')
  <1>1. ASSUME NEW l \in Lines, NEW k \in Slots
        PROVE  /\ toServer'[l][k] \in Seq(Messages)
               /\ Queue(toServer'[l][k], Behind(l.from))
    <2>1. \/ toServer'[l][k] = up[l][k]
          \/ toServer'[l][k] = up[l][k] \o twin /\ l.from = n
      BY DEF Tell
    <2>2. Queue(up[l][k], Behind(l.from))
      BY DEF Wires
    <2>3. Queue(toServer'[l][k], Behind(l.from))
      BY <2>1, <2>2, QueueConcat
    <2> QED BY <2>3 DEF Queue
  <1>2. ASSUME NEW l \in Lines, NEW k \in Slots
        PROVE  /\ toClient'[l][k] \in Seq(Messages)
               /\ l.kind = "twin" => Queue(toClient'[l][k], Behind(l.to))
    <2> DEFINE msgs == IF l.to # n \/ server[l][k] # "ready" THEN <<>>
                       ELSE IF l.kind = "satellite" THEN sats
                       ELSE IF OutboundReady(Out(n)) THEN <<>> ELSE twin
    <2>1. /\ toClient'[l][k] \in {down[l][k], down[l][k] \o msgs}
          /\ \/ msgs = <<>>
             \/ msgs = sats /\ l.kind = "satellite"
             \/ msgs = twin /\ l.to = n
      <3>1. toClient'[l][k] = IF Carries(l, k) THEN down[l][k] \o msgs ELSE down[l][k]
        BY DEF Tell
      <3> QED BY <3>1
    <2> HIDE DEF msgs
    <2>2. msgs \in Seq(Messages) /\ down[l][k] \in Seq(Messages)
      <3>1. <<>> \in Seq(Messages) /\ twin \in Seq(Messages)
        BY DEF Queue
      <3> QED BY <2>1, <3>1 DEF Wires
    <2>3. toClient'[l][k] \in Seq(Messages)
      <3>1. down[l][k] \o msgs \in Seq(Messages)
        BY <2>2, ConcatProperties
      <3> QED BY <2>1, <2>2, <3>1
    <2>4. ASSUME l.kind = "twin" PROVE Queue(toClient'[l][k], Behind(l.to))
      <3>1. Queue(down[l][k], Behind(l.to))
        BY <2>4 DEF Wires, LinesOf
      <3>2. Queue(msgs, Behind(l.to))
        BY <2>1, <2>4, QueueEmpty
      <3> QED BY <2>1, <3>1, <3>2, QueueConcat
    <2> QED BY <2>3, <2>4
  <1>3. toServer' \in [Lines -> [Slots -> Seq(Messages)]]
    <2> DEFINE f(l, k) == toServer'[l][k]
    <2>1. toServer' = [l \in Lines |-> [k \in Slots |-> f(l, k)]]
      BY DEF Tell
    <2>2. \A l \in Lines, k \in Slots : f(l, k) \in Seq(Messages)
      BY <1>1
    <2> HIDE DEF f
    <2> QED BY <2>1, <2>2
  <1>4. toClient' \in [Lines -> [Slots -> Seq(Messages)]]
    <2> DEFINE f(l, k) == toClient'[l][k]
    <2>1. toClient' = [l \in Lines |-> [k \in Slots |-> f(l, k)]]
      BY DEF Tell
    <2>2. \A l \in Lines, k \in Slots : f(l, k) \in Seq(Messages)
      BY <1>2
    <2> HIDE DEF f
    <2> QED BY <2>1, <2>2
  <1> QED BY <1>1, <1>2, <1>3, <1>4 DEF Wires, LinesOf

-----------------------------------------------------------------------------
(* The invariant.                                                          *)

\* Types of all but the wires.
Types ==
    /\ sc \in Scenarios
    /\ status \in [Nodes -> {"up", "down", "aborted"}]
    /\ sock \in [Lines -> Slots \cup {None}]
    /\ parked \subseteq Lines
    /\ hello \in [Lines -> BOOLEAN]
    /\ server \in [Lines -> [Slots -> {"closed", "pending", "ready"}]]
    /\ timer \in [Nodes -> BOOLEAN]
    /\ cut \in [Lines -> SUBSET Slots]
    /\ talker \in [Nodes -> BOOLEAN]
    /\ remote \in [Nodes -> Nodes \cup {External, None}]
    /\ peerId \in [Nodes -> {"satellite", "parent", "twin", "trunk", None}]
    /\ satActive \in [Lines -> SUBSET Slots]
    /\ roster \in [Nodes -> BOOLEAN]
    /\ external \in [Nodes -> BOOLEAN]
    /\ talks \in 0..sc.maxTalks /\ failures \in 0..sc.maxFailures

\* The timer of a twin runs while either of its connections is open.
Timed ==
    \A l \in LinesOf("twin") : /\ sock[l] # None => timer[l.from]
                               /\ Inbound(l) # {} => timer[l.to]

Watch == Timed /\ RosterIsWatched

Invariant == Types /\ Wires(toServer, toClient) /\ Watch

\* The site stays the same.
LEMMA SameSite ==
    ASSUME sc' = sc
    PROVE  /\ Lines' = Lines /\ LinesOf("twin")' = LinesOf("twin")
           /\ LinesOf("satellite")' = LinesOf("satellite") /\ Twins' = Twins
           /\ Wires(toServer', toClient') => Wires(toServer, toClient)'
  BY DEF Lines, LinesOf, Twins, Wires, Behind

LEMMA WatchStays ==
    ASSUME Watch, sc' = sc, UNCHANGED <<sock, server, timer, roster>>
    PROVE  Watch'
  BY SameSite DEF Watch, Timed, RosterIsWatched, Inbound

LEMMA NewsIsMessages ==
    ASSUME NEW n \in Nodes, NEW c \in Nodes \cup {External, None}
    PROVE  SatelliteNews(n, c) \in Seq(Messages)
  <1>1. TalkerStop \in Messages /\ (c # None => TalkerStart(c) \in Messages)
    BY DEF Messages, TalkerStop, TalkerStart
  <1> QED BY <1>1 DEF SatelliteNews

LEMMA RemoteTypes ==
    ASSUME Types, NEW n \in Nodes, NEW c \in Nodes \cup {External, None},
           NEW id \in {"satellite", "parent", "twin", "trunk", None}, SetRemote(n, c, id)
    PROVE  /\ remote' \in [Nodes -> Nodes \cup {External, None}]
           /\ peerId' \in [Nodes -> {"satellite", "parent", "twin", "trunk", None}]
  BY DEF Types, SetRemote

-----------------------------------------------------------------------------
(* Clients and trunks.                                                     *)

LEMMA KeyKeeps == ASSUME Invariant, NEW n \in Nodes, Key(n) PROVE Invariant'
  <1>1. sc' = sc
    BY DEF Key, procs
  <1>2. TalkerStart(n) \in Messages /\ n \in Behind(n)
    BY DEF TalkerStart, Messages, Behind
  <1>3. Queue(<<TalkerStart(n)>>, Behind(n)) /\ <<TalkerStart(n)>> \in Seq(Messages)
    BY <1>2, QueueOne DEF TalkerStart
  <1>4. Wires(toServer', toClient')
    BY <1>3, TellKeeps DEF Key, Invariant, Types
  <1>5. Types'
    BY <1>1, SameSite, BoundsAssumption DEF Key, Invariant, Types, procs, conns
  <1>6. Watch'
    BY <1>1, WatchStays DEF Key, Invariant, conns
  <1> QED BY <1>1, <1>4, <1>5, <1>6, SameSite DEF Invariant

LEMMA UnkeyKeeps == ASSUME Invariant, NEW n \in Nodes, Unkey(n) PROVE Invariant'
  <1>1. sc' = sc
    BY DEF Unkey, procs
  <1>2. TalkerStop \in Messages
    BY DEF TalkerStop, Messages
  <1>3. Queue(<<TalkerStop>>, Behind(n)) /\ <<TalkerStop>> \in Seq(Messages)
    BY <1>2, QueueOne DEF TalkerStop
  <1>4. Wires(toServer', toClient')
    BY <1>3, TellKeeps DEF Unkey, Invariant, Types
  <1>5. Types'
    BY <1>1, SameSite DEF Unkey, Invariant, Types, procs, conns
  <1>6. Watch'
    BY <1>1, WatchStays DEF Unkey, Invariant, conns
  <1> QED BY <1>1, <1>4, <1>5, <1>6, SameSite DEF Invariant

LEMMA TrunkTalkerStartKeeps ==
    ASSUME Invariant, NEW n \in Nodes, TrunkTalkerStart(n) PROVE Invariant'
  <1>1. sc' = sc
    BY DEF TrunkTalkerStart, procs
  <1>2. ExtTalkerStart(External) \in Messages
    BY DEF ExtTalkerStart, Messages
  <1>3. Queue(<<ExtTalkerStart(External)>>, Behind(n))
    BY <1>2, QueueOne DEF ExtTalkerStart
  <1>4. Wires(toServer', toClient')
    BY <1>3, TellKeeps, NewsIsMessages DEF TrunkTalkerStart, Invariant, Types
  <1>5. /\ remote' \in [Nodes -> Nodes \cup {External, None}]
        /\ peerId' \in [Nodes -> {"satellite", "parent", "twin", "trunk", None}]
    BY RemoteTypes DEF TrunkTalkerStart, Invariant
  <1>6. Types'
    <2>1. talks' \in 0..sc.maxTalks
      BY BoundsAssumption DEF TrunkTalkerStart, Invariant, Types
    <2>2. external' \in [Nodes -> BOOLEAN]
      BY DEF TrunkTalkerStart, Invariant, Types
    <2> QED
      BY <1>1, <1>5, <2>1, <2>2, SameSite DEF TrunkTalkerStart, Invariant, Types, procs, conns
  <1>7. Watch'
    BY <1>1, WatchStays DEF TrunkTalkerStart, Invariant, conns
  <1> QED BY <1>1, <1>4, <1>6, <1>7, SameSite DEF Invariant

LEMMA TrunkTalkerStopKeeps ==
    ASSUME Invariant, NEW n \in Nodes, TrunkTalkerStop(n) PROVE Invariant'
  <1>1. sc' = sc
    BY DEF TrunkTalkerStop, procs
  <1>2. ExtTalkerStop \in Messages
    BY DEF ExtTalkerStop, Messages
  <1>3. Queue(<<ExtTalkerStop>>, Behind(n))
    BY <1>2, QueueOne DEF ExtTalkerStop
  <1>4. Wires(toServer', toClient')
    BY <1>3, TellKeeps, NewsIsMessages DEF TrunkTalkerStop, Invariant, Types
  <1>5. /\ remote' \in [Nodes -> Nodes \cup {External, None}]
        /\ peerId' \in [Nodes -> {"satellite", "parent", "twin", "trunk", None}]
    BY RemoteTypes DEF TrunkTalkerStop, Invariant
  <1>6. Types'
    BY <1>1, <1>5, SameSite DEF TrunkTalkerStop, Invariant, Types, procs, conns
  <1>7. Watch'
    BY <1>1, WatchStays DEF TrunkTalkerStop, Invariant, conns
  <1> QED BY <1>1, <1>4, <1>6, <1>7, SameSite DEF Invariant

LEMMA SendNodeListKeeps ==
    ASSUME Invariant, NEW n \in Nodes, SendNodeList(n) PROVE Invariant'
  <1>1. sc' = sc
    BY DEF SendNodeList, procs
  <1>2. NodeList \in Messages
    BY DEF NodeList, Messages
  <1>3. Queue(<<NodeList>>, Behind(n)) /\ <<>> \in Seq(Messages)
    BY <1>2, QueueOne DEF NodeList
  <1>4. Wires(toServer', toClient')
    BY <1>3, TellKeeps DEF SendNodeList, Invariant, Types
  <1>5. Types'
    BY <1>1, SameSite DEF SendNodeList, Invariant, Types, procs, conns, tgs
  <1>6. Watch'
    BY <1>1, WatchStays DEF SendNodeList, Invariant, conns
  <1> QED BY <1>1, <1>4, <1>5, <1>6, SameSite DEF Invariant

-----------------------------------------------------------------------------
(* The client end of a line.                                               *)

LEMMA ConnectKeeps ==
    ASSUME Invariant, NEW l \in Lines, NEW k \in Slots, Connect(l, k) PROVE Invariant'
  <1>1. sc' = sc /\ l.from \in Nodes
    BY LineTypes DEF Connect, procs, Invariant, Types
  <1>2. Wires(toServer', toClient')
    <2>1. Hello \in Messages /\ Queue(<<Hello>>, Behind(l.from))
      <3>1. Hello \in Messages /\ Hello.type = "Hello"
        BY DEF Hello, Messages
      <3> QED BY <3>1, QueueOne
    <2>2. Wires(toServer, [toClient EXCEPT ![l][k] = <<>>])
      BY WiresEmptied DEF Invariant
    <2>3. ASSUME NEW a \in Lines, NEW b \in Slots
          PROVE  Queue([toServer EXCEPT ![l][k] = <<Hello>>][a][b], Behind(a.from))
      <3>1. /\ toServer \in [Lines -> [Slots -> Seq(Messages)]]
            /\ Queue(toServer[a][b], Behind(a.from))
        BY DEF Invariant, Wires
      <3>2. [toServer EXCEPT ![l][k] = <<Hello>>][a][b] =
                IF a = l /\ b = k THEN <<Hello>> ELSE toServer[a][b]
        BY <3>1
      <3> QED BY <2>1, <3>1, <3>2
    <2>4. [toServer EXCEPT ![l][k] = <<Hello>>] \in [Lines -> [Slots -> Seq(Messages)]]
      <3>1. <<Hello>> \in Seq(Messages)
        BY <2>1
      <3> QED BY <3>1 DEF Invariant, Wires
    <2> QED BY <2>2, <2>3, <2>4 DEF Connect, Wires
  <1>3. Types'
    <2>1. hello' \in [Lines -> BOOLEAN] /\ sock' \in [Lines -> Slots \cup {None}]
      BY DEF Connect, Invariant, Types
    <2>2. /\ server' \in [Lines -> [Slots -> {"closed", "pending", "ready"}]]
          /\ timer' \in [Nodes -> BOOLEAN]
      BY DEF Connect, Invariant, Types
    <2>3. cut' \in [Lines -> SUBSET Slots]
      BY DEF Connect, Invariant, Types
    <2> QED BY <1>1, <2>1, <2>2, <2>3, SameSite DEF Connect, Invariant, Types, procs, tgs
  <1>4. Watch'
    <2>1. ASSUME NEW m \in LinesOf("twin")
          PROVE  /\ sock'[m] # None => timer'[m.from]
                 /\ Inbound(m)' # {} => timer'[m.to]
      <3>1. m \in Lines /\ m.from \in Nodes /\ m.to \in Nodes
        BY LineTypes DEF LinesOf, Invariant, Types
      <3>2. Inbound(m)' \subseteq Inbound(m)
        BY <3>1 DEF Inbound, Connect, Invariant, Types
      <3> QED BY <1>1, <3>1, <3>2 DEF Connect, Invariant, Types, Watch, Timed
    <2>2. ASSUME NEW n \in Twins, roster'[n] PROVE timer'[n]
      <3>1. n \in Nodes
        BY TwinOut, LineTypes DEF LinesOf, Invariant, Types
      <3> QED BY <1>1, <2>2, <3>1 DEF Connect, Invariant, Types, Watch, RosterIsWatched
    <2> QED BY <1>1, <2>1, <2>2, SameSite DEF Watch, Timed, RosterIsWatched
  <1> QED BY <1>1, <1>2, <1>3, <1>4, SameSite DEF Invariant
\* A closed client end of line l: its socket and what was to be read are gone.
LEMMA ClosedClientEnd ==
    ASSUME Invariant, NEW l \in Lines, sock[l] \in Slots, ClosesClientEnd(l)
    PROVE  /\ sock' = [sock EXCEPT ![l] = None]
           /\ sock' \in [Lines -> Slots \cup {None}]
           /\ Wires(toServer, toClient')
  BY WiresEmptied DEF ClosesClientEnd, Invariant, Types

\* If no line that was closed or lost belongs to a twin, its timer is as before.
LEMMA WatchOthers ==
    ASSUME Invariant, sc' = sc, UNCHANGED <<server, roster>>,
           NEW l \in LinesOf("satellite"), sock' = [sock EXCEPT ![l] = None],
           timer' \in {timer, [timer EXCEPT ![l.from] = FALSE]}
    PROVE  Watch'
  <1>1. ASSUME NEW m \in LinesOf("twin")
        PROVE  /\ sock'[m] = sock[m] /\ Inbound(m)' = Inbound(m)
               /\ timer'[m.from] = timer[m.from] /\ timer'[m.to] = timer[m.to]
    <2>1. m \in Lines /\ m.from \in Nodes /\ m.to \in Nodes /\ l # m
      BY LineTypes DEF LinesOf, Invariant, Types
    <2>2. m.from # l.from /\ m.to # l.from
      BY <2>1, SatelliteLines DEF Invariant, Types
    <2> QED BY <2>1, <2>2 DEF Inbound, Invariant, Types
  <1>2. ASSUME NEW n \in Twins PROVE timer'[n] = timer[n]
    <2>1. n \in Nodes /\ n # l.from
      BY TwinOut, LineTypes, SatelliteLines DEF LinesOf, Invariant, Types
    <2> QED BY <2>1 DEF Invariant, Types
  <1> QED BY <1>1, <1>2, SameSite DEF Watch, Timed, RosterIsWatched, Invariant

LEMMA OnSatelliteDisconnectedKeeps ==
    ASSUME Invariant, NEW l \in Lines, OnSatelliteDisconnected(l) PROVE Invariant'
  <1>1. sc' = sc /\ l \in LinesOf("satellite") /\ l.from \in Nodes
    BY LineTypes DEF OnSatelliteDisconnected, procs, Invariant, Types
  <1>2. /\ sock' = [sock EXCEPT ![l] = None]
        /\ sock' \in [Lines -> Slots \cup {None}]
        /\ Wires(toServer, toClient')
    BY ClosedClientEnd DEF OnSatelliteDisconnected, ServerHasClosed, Invariant, Types
  <1>3. /\ remote' \in [Nodes -> Nodes \cup {External, None}]
        /\ peerId' \in [Nodes -> {"satellite", "parent", "twin", "trunk", None}]
    BY <1>1, RemoteTypes DEF OnSatelliteDisconnected, Invariant
  <1>4. hello' \in [Lines -> BOOLEAN] /\ timer' \in [Nodes -> BOOLEAN]
    BY DEF OnSatelliteDisconnected, Invariant, Types
  <1>5. Types'
    BY <1>1, <1>2, <1>3, <1>4, SameSite DEF OnSatelliteDisconnected, Invariant, Types, procs
  <1>6. Watch'
    BY <1>1, <1>2, WatchOthers DEF OnSatelliteDisconnected
  <1> QED BY <1>1, <1>2, <1>5, <1>6, SameSite DEF Invariant, OnSatelliteDisconnected

LEMMA SatelliteTimeoutKeeps ==
    ASSUME Invariant, NEW l \in Lines, SatelliteTimeout(l) PROVE Invariant'
  <1>1. sc' = sc /\ l \in LinesOf("satellite")
    BY DEF SatelliteTimeout, procs
  <1>2. /\ sock' = [sock EXCEPT ![l] = None]
        /\ sock' \in [Lines -> Slots \cup {None}]
        /\ Wires(toServer, toClient')
    BY ClosedClientEnd DEF SatelliteTimeout, Invariant, Types
  <1>3. Types'
    BY <1>1, <1>2, SameSite DEF SatelliteTimeout, Invariant, Types, procs, tgs
  <1>4. Watch'
    BY <1>1, <1>2, WatchOthers DEF SatelliteTimeout
  <1> QED BY <1>1, <1>2, <1>3, <1>4, SameSite DEF Invariant, SatelliteTimeout

LEMMA OnTwinDisconnectedKeeps ==
    ASSUME Invariant, NEW l \in Lines, OnTwinDisconnected(l) PROVE Invariant'
  <1> DEFINE up == Inbound(In(l.from)) # {}
  <1>1. /\ sc' = sc /\ l \in LinesOf("twin") /\ l.from \in Nodes
        /\ timer' = [timer EXCEPT ![l.from] = @ /\ up]
        /\ roster' = [roster EXCEPT ![l.from] = @ /\ up]
        /\ server' = server
    BY LineTypes DEF OnTwinDisconnected, procs, Invariant, Types
  <1>2. /\ sock' = [sock EXCEPT ![l] = None]
        /\ sock' \in [Lines -> Slots \cup {None}]
        /\ Wires(toServer, toClient')
    BY ClosedClientEnd DEF OnTwinDisconnected, ServerHasClosed, Invariant, Types
  <1>3. hello' \in [Lines -> BOOLEAN]
    BY DEF OnTwinDisconnected, Invariant, Types
  <1>4. timer' \in [Nodes -> BOOLEAN] /\ roster' \in [Nodes -> BOOLEAN]
    BY <1>1 DEF Invariant, Types
  <1>5. Types'
    BY <1>1, <1>2, <1>3, <1>4, SameSite DEF OnTwinDisconnected, Invariant, Types, procs, tgs
  <1>6. Watch'
    <2>1. ASSUME NEW m \in LinesOf("twin")
          PROVE  /\ sock'[m] # None => timer'[m.from]
                 /\ Inbound(m)' # {} => timer'[m.to]
      <3>1. m \in Lines /\ m.from \in Nodes /\ m.to \in Nodes
        BY LineTypes DEF LinesOf, Invariant, Types
      <3>2. m.from = l.from => m = l
        BY <1>1, TwinLines DEF Invariant, Types
      <3>3. m.to = l.from => m = In(l.from)
        BY <1>1, TwinLines DEF Invariant, Types
      <3>4. Inbound(m)' = Inbound(m)
        BY <1>1 DEF Inbound
      <3>5. /\ sock[m] # None => timer[m.from]
            /\ Inbound(m) # {} => timer[m.to]
        BY DEF Invariant, Watch, Timed
      <3>6. sock'[m] # None => timer'[m.from]
        BY <1>1, <1>2, <3>1, <3>2, <3>5 DEF Invariant, Types
      <3>7. Inbound(m)' # {} => timer'[m.to]
        BY <1>1, <3>1, <3>3, <3>4, <3>5 DEF Invariant, Types
      <3> QED BY <3>6, <3>7
    <2>2. ASSUME NEW n \in Twins, roster'[n] PROVE timer'[n]
      <3>1. n \in Nodes
        BY TwinOut, LineTypes DEF LinesOf, Invariant, Types
      <3> QED BY <1>1, <2>2, <3>1 DEF Invariant, Types, Watch, RosterIsWatched
    <2> QED BY <1>1, <2>1, <2>2, SameSite DEF Watch, Timed, RosterIsWatched
  <1> QED BY <1>1, <1>2, <1>5, <1>6, SameSite DEF Invariant, OnTwinDisconnected

-----------------------------------------------------------------------------
(* What is read.                                                           *)

\* A talker start carries a callsign.
LEMMA StartsTyped ==
    ASSUME NEW m \in Messages, m.type \in {"TalkerStart", "ExtTalkerStart"}
    PROVE  m.callsign \in Nodes \cup {External}
  BY DEF Messages

\* Nothing is sent to a twin on its own news.
LEMMA TwinReportsKeeps ==
    ASSUME Invariant, NEW n \in Nodes, NEW c \in Nodes \cup {External, None},
           NEW id \in {"satellite", "parent", "twin", "trunk", None},
           NEW up, NEW down, Wires(up, down), TwinReports(n, c, id, up, down)
    PROVE  /\ Wires(toServer', toClient')
           /\ remote' \in [Nodes -> Nodes \cup {External, None}]
           /\ peerId' \in [Nodes -> {"satellite", "parent", "twin", "trunk", None}]
           /\ satActive' = satActive /\ roster' = roster
  <1>1. Wires(toServer', toClient')
    BY TellKeeps, QueueEmpty, NewsIsMessages DEF TwinReports, Invariant, Types
  <1> QED BY <1>1, RemoteTypes DEF TwinReports, Invariant

LEMMA HandleFromTwinKeeps ==
    ASSUME Invariant, NEW n \in Nodes, NEW m \in Messages,
           NEW up, NEW down, Wires(up, down), HandleFromTwin(n, m, up, down)
    PROVE  /\ Wires(toServer', toClient')
           /\ remote' \in [Nodes -> Nodes \cup {External, None}]
           /\ peerId' \in [Nodes -> {"satellite", "parent", "twin", "trunk", None}]
           /\ satActive' = satActive
           /\ roster' \in {roster, [roster EXCEPT ![n] = TRUE]}
  <1>1. CASE m.type = "TalkerStart" /\ TwinReports(n, m.callsign, "twin", up, down)
    BY <1>1, StartsTyped, TwinReportsKeeps
  <1>2. CASE TwinReports(n, None, None, up, down)
    BY <1>2, TwinReportsKeeps
  <1>3. CASE m.type = "ExtTalkerStart" /\ TwinReports(n, m.callsign, "trunk", up, down)
    BY <1>3, StartsTyped, TwinReportsKeeps
  <1>4. CASE TwinReports(n, remote[n], peerId[n], up, down)
    <2>1. /\ remote[n] \in Nodes \cup {External, None}
          /\ peerId[n] \in {"satellite", "parent", "twin", "trunk", None}
      BY DEF Invariant, Types
    <2> QED BY <1>4, <2>1, TwinReportsKeeps
  <1>5. CASE /\ roster' = [roster EXCEPT ![n] = TRUE]
             /\ Tell(n, <<>>, <<>>, up, down)
             /\ UNCHANGED <<remote, peerId, satActive>>
    <2>1. <<>> \in Seq(Messages)
      OBVIOUS
    <2>2. Wires(toServer', toClient')
      BY <1>5, <2>1, TellKeeps, QueueEmpty DEF Invariant, Types
    <2> QED BY <1>5, <2>2 DEF Invariant, Types
  <1> QED BY <1>1, <1>2, <1>3, <1>4, <1>5 DEF HandleFromTwin

\* A roster arrives on a connection, and the timer runs while one is open.
LEMMA RosterArrives ==
    ASSUME Invariant, sc' = sc, UNCHANGED <<sock, server, timer>>,
           NEW n \in Nodes, timer[n], roster' \in {roster, [roster EXCEPT ![n] = TRUE]}
    PROVE  Watch'
  <1>1. \A a \in Twins : a \in Nodes
    BY TwinOut, LineTypes DEF LinesOf, Invariant, Types
  <1>2. \A a \in Twins : roster'[a] => timer'[a]
    BY <1>1 DEF Invariant, Types, Watch, RosterIsWatched
  <1>3. Timed'
    BY SameSite DEF Invariant, Watch, Timed, Inbound
  <1> QED BY <1>2, <1>3, SameSite DEF Watch, RosterIsWatched

LEMMA ReadByClientKeeps ==
    ASSUME Invariant, NEW l \in Lines, ReadByClient(l) PROVE Invariant'
  <1> DEFINE k == sock[l]
             m == Head(toClient[l][k])
             down == [toClient EXCEPT ![l][k] = Tail(@)]
  <1>1. /\ sc' = sc /\ l.from \in Nodes /\ l.kind \in Kinds /\ k \in Slots
        /\ UNCHANGED <<sock, server, timer>>
    BY LineTypes DEF ReadByClient, procs, Invariant, Types
  <1>2. Wires(toServer, down) /\ m \in Messages
    <2>1. toClient[l][k] # <<>> /\ toClient[l][k] \in Seq(Messages)
      BY <1>1 DEF ReadByClient, Invariant, Wires
    <2>2. m \in Messages
      BY <2>1, HeadTailProperties
    <2> QED BY <1>1, <2>1, <2>2, WiresRead DEF Invariant
  <1>3. hello' \in [Lines -> BOOLEAN]
    BY DEF ReadByClient, Invariant, Types
  <1> HIDE DEF down, m
  <1>4. \/ toClient' = down /\ UNCHANGED <<toServer, remote, peerId, satActive, roster>>
        \/ l.kind = "satellite" /\ HandleFromParent(l.from, m, toServer, down)
        \/ l.kind = "twin" /\ HandleFromTwin(l.from, m, toServer, down)
    BY DEF ReadByClient, m, down
  <1>5. /\ Wires(toServer', toClient')
        /\ remote' \in [Nodes -> Nodes \cup {External, None}]
        /\ peerId' \in [Nodes -> {"satellite", "parent", "twin", "trunk", None}]
        /\ satActive' = satActive
        /\ \/ roster' = roster
           \/ l.kind = "twin" /\ roster' \in {roster, [roster EXCEPT ![l.from] = TRUE]}
    <2>1. CASE toClient' = down /\ UNCHANGED <<toServer, remote, peerId, satActive, roster>>
      BY <1>2, <2>1 DEF Invariant, Types
    <2>2. CASE HandleFromParent(l.from, m, toServer, down)
      <3> DEFINE c == IF m.type = "TalkerStart" THEN m.callsign ELSE None
      <3>1. c \in Nodes \cup {External, None}
        BY <1>2, StartsTyped
      <3>2. <<>> \in Seq(Messages)
        OBVIOUS
      <3>3. Wires(toServer', toClient')
        BY <1>1, <1>2, <2>2, <3>2, TellKeeps, QueueEmpty DEF HandleFromParent, Invariant, Types
      <3> QED BY <1>1, <2>2, <3>1, <3>3, RemoteTypes DEF HandleFromParent, Invariant
    <2>3. CASE l.kind = "twin" /\ HandleFromTwin(l.from, m, toServer, down)
      BY <1>1, <1>2, <2>3, HandleFromTwinKeeps
    <2> QED BY <1>4, <2>1, <2>2, <2>3
  <1>6. Types'
    <2>1. roster' \in [Nodes -> BOOLEAN]
      BY <1>5 DEF Invariant, Types
    <2> QED BY <1>1, <1>3, <1>5, <2>1, SameSite DEF ReadByClient, Invariant, Types, procs
  <1>7. Watch'
    <2>1. CASE roster' = roster
      BY <1>1, <2>1, WatchStays DEF Invariant
    <2>2. CASE l.kind = "twin" /\ roster' \in {roster, [roster EXCEPT ![l.from] = TRUE]}
      <3>1. timer[l.from]
        BY <1>1, <2>2 DEF ReadByClient, Invariant, Watch, Timed, LinesOf
      <3> QED BY <1>1, <2>2, <3>1, RosterArrives
    <2> QED BY <1>5, <2>1, <2>2
  <1> QED BY <1>1, <1>5, <1>6, <1>7, SameSite DEF Invariant

\* What a satellite says is about itself, and it stands behind its parent.
LEMMA HandleFromSatelliteKeeps ==
    ASSUME Invariant, NEW l \in LinesOf("satellite"), NEW k \in Slots, NEW m \in Messages,
           m.type = "TalkerStart" => m.callsign \in Behind(l.from),
           NEW up, NEW down, Wires(up, down), HandleFromSatellite(l, k, m, up, down)
    PROVE  /\ Wires(toServer', toClient')
           /\ remote' \in [Nodes -> Nodes \cup {External, None}]
           /\ peerId' \in [Nodes -> {"satellite", "parent", "twin", "trunk", None}]
           /\ satActive' \in [Lines -> SUBSET Slots] /\ roster' = roster
  <1> DEFINE c == IF m.type = "TalkerStart" THEN m.callsign ELSE None
  <1>1. l \in Lines /\ l.to \in Nodes
    BY LineTypes DEF LinesOf, Invariant, Types
  <1>2. c \in Nodes \cup {External, None}
    BY StartsTyped
  <1>3. Behind(l.from) = {l.from}
    BY <1>1, SatelliteLines DEF Behind, LinesOf, Invariant, Types
  <1>4. l.from \in Behind(l.to)
    BY DEF Behind
  <1>5. Queue(<<m>>, Behind(l.to))
    BY <1>3, <1>4, QueueOne
  <1> HIDE DEF c
  <1>6. /\ SetRemote(l.to, c, "satellite")
        /\ satActive' = [satActive EXCEPT ![l] = IF c = None THEN @ \ {k} ELSE @ \cup {k}]
        /\ Tell(l.to, <<m>>, SatelliteNews(l.to, c), up, down)
        /\ UNCHANGED roster
    BY DEF HandleFromSatellite, c
  <1>7. Wires(toServer', toClient')
    BY <1>1, <1>2, <1>5, <1>6, TellKeeps, NewsIsMessages DEF Invariant, Types
  <1>8. satActive' \in [Lines -> SUBSET Slots]
    BY <1>6 DEF Invariant, Types
  <1> QED BY <1>1, <1>2, <1>6, <1>7, <1>8, RemoteTypes DEF Invariant

LEMMA ReadByServerKeeps ==
    ASSUME Invariant, NEW l \in Lines, NEW k \in Slots, ReadByServer(l, k)
    PROVE  Invariant'
  <1> DEFINE m == Head(toServer[l][k])
             up == [toServer EXCEPT ![l][k] = Tail(@)]
  <1>1. /\ sc' = sc /\ l.to \in Nodes /\ l.kind \in Kinds
        /\ UNCHANGED <<sock, server, timer>>
    BY LineTypes DEF ReadByServer, procs, conns, Invariant, Types
  <1>2. /\ Wires(up, toClient) /\ m \in Messages
        /\ m.type = "TalkerStart" => m.callsign \in Behind(l.from)
    <2>1. toServer[l][k] # <<>> /\ Queue(toServer[l][k], Behind(l.from))
      BY DEF ReadByServer, Invariant, Wires
    <2> QED BY <2>1, QueueRead, WiresRead DEF Invariant
  <1> HIDE DEF up, m
  <1>3. \/ l.kind = "satellite" /\ HandleFromSatellite(l, k, m, up, toClient)
        \/ l.kind = "twin" /\ HandleFromTwin(l.to, m, up, toClient)
    BY DEF ReadByServer, m, up
  <1>4. /\ Wires(toServer', toClient')
        /\ remote' \in [Nodes -> Nodes \cup {External, None}]
        /\ peerId' \in [Nodes -> {"satellite", "parent", "twin", "trunk", None}]
        /\ satActive' \in [Lines -> SUBSET Slots]
        /\ \/ roster' = roster
           \/ l.kind = "twin" /\ roster' \in {roster, [roster EXCEPT ![l.to] = TRUE]}
    <2>1. CASE l.kind = "satellite" /\ HandleFromSatellite(l, k, m, up, toClient)
      BY <1>2, <2>1, HandleFromSatelliteKeeps DEF LinesOf
    <2>2. CASE l.kind = "twin" /\ HandleFromTwin(l.to, m, up, toClient)
      <3>1. satActive \in [Lines -> SUBSET Slots]
        BY DEF Invariant, Types
      <3> QED BY <1>1, <1>2, <2>2, <3>1, HandleFromTwinKeeps
    <2> QED BY <1>3, <2>1, <2>2
  <1>5. Types'
    <2>1. roster' \in [Nodes -> BOOLEAN]
      BY <1>4 DEF Invariant, Types
    <2> QED BY <1>1, <1>4, <2>1, SameSite DEF ReadByServer, Invariant, Types, procs, conns
  <1>6. Watch'
    <2>1. CASE roster' = roster
      BY <1>1, <2>1, WatchStays DEF Invariant
    <2>2. CASE l.kind = "twin" /\ roster' \in {roster, [roster EXCEPT ![l.to] = TRUE]}
      <3>1. timer[l.to]
        BY <2>2 DEF ReadByServer, Invariant, Watch, Timed, LinesOf, Inbound
      <3> QED BY <1>1, <2>2, <3>1, RosterArrives
    <2> QED BY <1>4, <2>1, <2>2
  <1> QED BY <1>1, <1>4, <1>5, <1>6, SameSite DEF Invariant
-----------------------------------------------------------------------------
(* The server end of a line.                                               *)

\* If the twins' inbound connections do not grow, the timers are enough.
LEMMA WatchFewer ==
    ASSUME Invariant, sc' = sc, UNCHANGED <<sock, timer, roster>>,
           \A m \in LinesOf("twin") : Inbound(m)' \subseteq Inbound(m)
    PROVE  Watch'
  BY SameSite DEF Watch, Timed, RosterIsWatched, Invariant

LEMMA ClosedServerEnd ==
    ASSUME Invariant, NEW l \in Lines, NEW k \in Slots,
           server' = [server EXCEPT ![l][k] = "closed"]
    PROVE  /\ server' \in [Lines -> [Slots -> {"closed", "pending", "ready"}]]
           /\ \A m \in Lines : Inbound(m)' \subseteq Inbound(m)
  BY DEF Inbound, Invariant, Types

LEMMA AcceptHelloKeeps ==
    ASSUME Invariant, NEW l \in Lines, NEW k \in Slots, AcceptHello(l, k)
    PROVE  Invariant'
  <1>1. sc' = sc /\ l.to \in Nodes /\ l.from \in Nodes /\ UNCHANGED <<sock, roster>>
    BY LineTypes DEF AcceptHello, procs, Invariant, Types
  <1>2. Wires(toServer', toClient')
    <2>1. Hello \in Messages /\ Hello.type = "Hello"
      BY DEF Hello, Messages
    <2>2. Wires(toServer', toClient)
      BY WiresRead DEF AcceptHello, Invariant
    <2>3. toClient' \in [Lines -> [Slots -> Seq(Messages)]]
      <3>1. <<Hello>> \in Seq(Messages)
        BY <2>1
      <3> QED BY <3>1 DEF AcceptHello, Invariant, Wires
    <2>4. ASSUME NEW a \in LinesOf("twin"), NEW b \in Slots
          PROVE  Queue(toClient'[a][b], Behind(a.to))
      <3>1. /\ a \in Lines
            /\ toClient \in [Lines -> [Slots -> Seq(Messages)]]
            /\ Queue(toClient[a][b], Behind(a.to))
        BY DEF Invariant, Wires, LinesOf
      <3>2. toClient'[a][b] \in {<<Hello>>, toClient[a][b]}
        BY <3>1 DEF AcceptHello
      <3> QED BY <2>1, <3>1, <3>2, QueueOne
    <2> QED BY <2>2, <2>3, <2>4 DEF Wires
  <1>3. Types'
    <2>1. /\ server' \in [Lines -> [Slots -> {"closed", "pending", "ready"}]]
          /\ timer' \in [Nodes -> BOOLEAN]
      BY DEF AcceptHello, Invariant, Types
    <2> QED BY <1>1, <2>1, SameSite DEF AcceptHello, Invariant, Types, procs, tgs
  <1>4. Watch'
    <2>1. ASSUME NEW n \in Nodes
          PROVE  timer[n] => timer'[n]
      BY DEF AcceptHello, Invariant, Types
    <2>2. ASSUME NEW m \in LinesOf("twin")
          PROVE  /\ sock'[m] # None => timer'[m.from]
                 /\ Inbound(m)' # {} => timer'[m.to]
      <3>1. m \in Lines /\ m.kind = "twin" /\ m.from \in Nodes /\ m.to \in Nodes
        BY LineTypes DEF LinesOf, Invariant, Types
      <3>2. CASE m # l
        <4>1. Inbound(m)' = Inbound(m)
          BY <3>1, <3>2 DEF Inbound, AcceptHello, Invariant, Types
        <4> QED BY <1>1, <2>1, <3>1, <4>1 DEF Invariant, Watch, Timed
      <3>3. CASE m = l
        <4>1. timer'[m.to]
          BY <3>1, <3>3 DEF AcceptHello, Invariant, Types
        <4> QED BY <1>1, <2>1, <3>1, <4>1 DEF Invariant, Watch, Timed
      <3> QED BY <3>2, <3>3
    <2>3. ASSUME NEW n \in Twins, roster'[n] PROVE timer'[n]
      <3>1. n \in Nodes
        BY TwinOut, LineTypes DEF LinesOf, Invariant, Types
      <3> QED BY <1>1, <2>1, <2>3, <3>1 DEF Invariant, Watch, RosterIsWatched
    <2> QED BY <1>1, <2>2, <2>3, SameSite DEF Watch, Timed, RosterIsWatched
  <1> QED BY <1>1, <1>2, <1>3, <1>4, SameSite DEF Invariant

\* RejectHello and InboundTwinLost only close the server's end.
LEMMA CloseServerEndKeeps ==
    ASSUME Invariant, NEW l \in Lines, NEW k \in Slots, CloseServerEnd(l, k),
           UNCHANGED <<procs, sock, parked, hello, timer, cut, toClient, tgs, roster>>
    PROVE  Invariant'
  <1>1. sc' = sc
    BY DEF procs
  <1>2. /\ server' \in [Lines -> [Slots -> {"closed", "pending", "ready"}]]
        /\ \A m \in Lines : Inbound(m)' \subseteq Inbound(m)
    BY ClosedServerEnd DEF CloseServerEnd
  <1>3. Wires(toServer', toClient')
    BY WiresEmptied DEF CloseServerEnd, Invariant
  <1>4. Types'
    BY <1>1, <1>2, SameSite DEF Invariant, Types, procs, tgs
  <1>5. Watch'
    BY <1>1, <1>2, WatchFewer DEF LinesOf
  <1> QED BY <1>1, <1>3, <1>4, <1>5, SameSite DEF Invariant

LEMMA SatelliteLostKeeps ==
    ASSUME Invariant, NEW l \in Lines, NEW k \in Slots, SatelliteLost(l, k)
    PROVE  Invariant'
  <1> DEFINE c == IF k \in satActive[l] THEN None ELSE remote[l.to]
             up == [toServer EXCEPT ![l][k] = <<>>]
  <1>1. sc' = sc /\ l.to \in Nodes
    BY LineTypes DEF SatelliteLost, procs, Invariant, Types
  <1>2. /\ server' \in [Lines -> [Slots -> {"closed", "pending", "ready"}]]
        /\ \A m \in Lines : Inbound(m)' \subseteq Inbound(m)
    BY ClosedServerEnd DEF SatelliteLost
  <1>3. c \in Nodes \cup {External, None} /\ Wires(up, toClient)
    BY <1>1, WiresEmptied DEF Invariant, Types
  <1> HIDE DEF c, up
  <1>4. SetRemote(l.to, c, peerId[l.to]) /\ Tell(l.to, <<>>, SatelliteNews(l.to, c), up, toClient)
    BY DEF SatelliteLost, c, up
  <1>5. Wires(toServer', toClient')
    BY <1>1, <1>3, <1>4, TellKeeps, QueueEmpty, NewsIsMessages DEF Invariant, Types
  <1>6. /\ remote' \in [Nodes -> Nodes \cup {External, None}]
        /\ peerId' \in [Nodes -> {"satellite", "parent", "twin", "trunk", None}]
    <2>1. peerId[l.to] \in {"satellite", "parent", "twin", "trunk", None}
      BY <1>1 DEF Invariant, Types
    <2> QED BY <1>1, <1>3, <1>4, <2>1, RemoteTypes DEF Invariant
  <1>7. satActive' \in [Lines -> SUBSET Slots]
    BY DEF SatelliteLost, Invariant, Types
  <1>8. Types'
    BY <1>1, <1>2, <1>6, <1>7, SameSite DEF SatelliteLost, Invariant, Types, procs
  <1>9. Watch'
    BY <1>1, <1>2, WatchFewer DEF SatelliteLost, LinesOf
  <1> QED BY <1>1, <1>5, <1>8, <1>9, SameSite DEF Invariant

-----------------------------------------------------------------------------
(* Heartbeats, processes and the network.                                  *)

LEMMA TwinHeartbeatKeeps ==
    ASSUME Invariant, NEW n \in Nodes, TwinHeartbeat(n) PROVE Invariant'
  <1> DEFINE out == Out(n)
             in == In(n)
  <1>0. n \in Twins /\ sc \in Scenarios
    BY DEF TwinHeartbeat, Invariant, Types
  <1>1. /\ sc' = sc /\ UNCHANGED <<toServer, toClient>>
        /\ out \in LinesOf("twin") /\ out.from = n /\ in \in LinesOf("twin") /\ in.to = n
        /\ out \in Lines /\ in \in Lines
    BY <1>0, TwinOut DEF TwinHeartbeat, procs, wires, LinesOf
  <1> HIDE DEF out, in
  <1>2. PICK dead \in SUBSET Silent(n) :
           /\ sock' = [sock EXCEPT ![out] = IF out \in dead THEN None ELSE @]
           /\ server' = [server EXCEPT ![in] =
                           IF in \in dead
                             THEN [k \in Slots |-> IF k \in Inbound(in) THEN "closed" ELSE @[k]]
                             ELSE @]
           /\ timer' = [timer EXCEPT ![n] = \/ sock[out] # None /\ out \notin dead
                                            \/ Inbound(in) # {} /\ in \notin dead]
           /\ roster' = [roster EXCEPT ![n] =
                            @ /\ \/ (sock[out] # None /\ out \notin dead) /\ hello[out]
                                 \/ Inbound(in) # {} /\ in \notin dead]
           /\ UNCHANGED <<procs, parked, hello, cut, wires, tgs>>
    BY DEF TwinHeartbeat, out, in
  <1>3. Types'
    <2>1. sock' \in [Lines -> Slots \cup {None}]
      BY <1>2 DEF Invariant, Types
    <2>2. timer' \in [Nodes -> BOOLEAN] /\ roster' \in [Nodes -> BOOLEAN]
      BY <1>2 DEF Invariant, Types
    <2>3. server' \in [Lines -> [Slots -> {"closed", "pending", "ready"}]]
      BY <1>2 DEF Invariant, Types
    <2> QED BY <1>1, <1>2, <2>1, <2>2, <2>3, SameSite DEF Invariant, Types, procs, tgs
  <1>4. Watch'
    <2>1. ASSUME NEW m \in LinesOf("twin")
          PROVE  /\ sock'[m] # None => timer'[m.from]
                 /\ Inbound(m)' # {} => timer'[m.to]
      <3>1. m \in Lines /\ m.from \in Nodes /\ m.to \in Nodes
        BY LineTypes DEF LinesOf, Invariant, Types
      <3>2. (m.from = n => m = out) /\ (m.to = n => m = in)
        BY <1>0, <1>1, TwinLines
      <3>3. /\ sock[m] # None => timer[m.from]
            /\ Inbound(m) # {} => timer[m.to]
        BY DEF Invariant, Watch, Timed
      <3>4. sock'[m] # None => timer'[m.from]
        <4>1. CASE m = out
          BY <1>1, <1>2, <3>1, <4>1 DEF Invariant, Types
        <4>2. CASE m # out
          BY <1>2, <3>1, <3>2, <3>3, <4>2 DEF Invariant, Types
        <4> QED BY <4>1, <4>2
      <3>5. Inbound(m)' # {} => timer'[m.to]
        <4>1. CASE m = in
          <5>1. CASE in \in dead
            <6>1. \A k \in Slots : server'[m][k] = IF k \in Inbound(m) THEN "closed" ELSE server[m][k]
              BY <1>2, <3>1, <4>1, <5>1 DEF Invariant, Types
            <6>2. Inbound(m)' = {}
              BY <6>1 DEF Inbound
            <6> QED BY <6>2
          <5>2. CASE in \notin dead
            <6>1. server'[m] = server[m]
              BY <1>2, <3>1, <4>1, <5>2 DEF Invariant, Types
            <6>2. Inbound(m)' = Inbound(m)
              BY <6>1 DEF Inbound
            <6> QED BY <1>1, <1>2, <3>1, <4>1, <5>2, <6>2 DEF Invariant, Types
          <5> QED BY <5>1, <5>2
        <4>2. CASE m # in
          <5>1. server'[m] = server[m]
            BY <1>2, <3>1, <4>2 DEF Invariant, Types
          <5>2. Inbound(m)' = Inbound(m)
            BY <5>1 DEF Inbound
          <5> QED BY <1>2, <3>1, <3>2, <3>3, <4>2, <5>2 DEF Invariant, Types
        <4> QED BY <4>1, <4>2
      <3> QED BY <3>4, <3>5
    <2>2. ASSUME NEW a \in Twins, roster'[a] PROVE timer'[a]
      <3>1. a \in Nodes
        BY <1>0, TwinOut, LineTypes DEF LinesOf
      <3> QED BY <1>2, <2>2, <3>1 DEF Invariant, Types, Watch, RosterIsWatched
    <2> QED BY <1>1, <2>1, <2>2, SameSite DEF Watch, Timed, RosterIsWatched
  <1> QED BY <1>1, <1>3, <1>4, SameSite DEF Invariant

\* An ended process leaves closed ends, and an empty memory.
LEMMA EndsKeeps ==
    ASSUME Invariant, NEW n \in Nodes, NEW how \in {"down", "aborted"}, Ends(n, how),
           failures' \in 0..sc.maxFailures
    PROVE  Invariant'
  <1>1. sc' = sc
    BY DEF Ends
  <1>2. Wires(toServer', toClient')
    <2>1. <<>> \in Seq(Messages)
      OBVIOUS
    <2>2. /\ toServer' \in [Lines -> [Slots -> Seq(Messages)]]
          /\ \A l \in Lines, k \in Slots : toServer'[l][k] \in {<<>>, toServer[l][k]}
      BY <2>1 DEF Ends, Invariant, Wires
    <2>3. /\ toClient' \in [Lines -> [Slots -> Seq(Messages)]]
          /\ \A l \in Lines, k \in Slots : toClient'[l][k] \in {<<>>, toClient[l][k]}
      BY <2>1 DEF Ends, Invariant, Wires
    <2>4. ASSUME NEW l \in Lines, NEW k \in Slots PROVE Queue(toServer'[l][k], Behind(l.from))
      BY <2>2, QueueEmpty DEF Invariant, Wires
    <2>5. ASSUME NEW l \in LinesOf("twin"), NEW k \in Slots
          PROVE  Queue(toClient'[l][k], Behind(l.to))
      BY <2>3, QueueEmpty DEF Invariant, Wires, LinesOf
    <2> QED BY <2>2, <2>3, <2>4, <2>5 DEF Wires
  <1>3. Types'
    <2>1. /\ status' \in [Nodes -> {"up", "down", "aborted"}]
          /\ sock' \in [Lines -> Slots \cup {None}]
          /\ parked' \subseteq Lines
          /\ hello' \in [Lines -> BOOLEAN]
          /\ server' \in [Lines -> [Slots -> {"closed", "pending", "ready"}]]
      BY DEF Ends, Invariant, Types
    <2>2. /\ timer' \in [Nodes -> BOOLEAN]
          /\ talker' \in [Nodes -> BOOLEAN]
          /\ roster' \in [Nodes -> BOOLEAN]
          /\ external' \in [Nodes -> BOOLEAN]
          /\ satActive' \in [Lines -> SUBSET Slots]
      BY DEF Ends, Invariant, Types
    <2>3. /\ remote' \in [Nodes -> Nodes \cup {External, None}]
          /\ peerId' \in [Nodes -> {"satellite", "parent", "twin", "trunk", None}]
      BY DEF Ends, Invariant, Types
    <2> QED BY <1>1, <2>1, <2>2, <2>3, SameSite DEF Ends, Invariant, Types
  <1>4. Watch'
    <2>1. \A a \in Nodes : a # n => timer'[a] = timer[a] /\ roster'[a] = roster[a]
      BY DEF Ends, Invariant, Types
    <2>2. roster'[n] = FALSE
      BY DEF Ends, Invariant, Types
    <2>3. ASSUME NEW m \in LinesOf("twin")
          PROVE  /\ sock'[m] # None => timer'[m.from]
                 /\ Inbound(m)' # {} => timer'[m.to]
      <3>1. m \in Lines /\ m.from \in Nodes /\ m.to \in Nodes
        BY LineTypes DEF LinesOf, Invariant, Types
      <3>2. sock'[m] = IF m.from = n THEN None ELSE sock[m]
        BY <3>1 DEF Ends
      <3>3. Inbound(m)' = IF m.to = n THEN {} ELSE Inbound(m)
        <4>1. server'[m] = IF m.to = n THEN [k \in Slots |-> "closed"] ELSE server[m]
          BY <3>1 DEF Ends
        <4> QED BY <4>1 DEF Inbound
      <3> QED BY <2>1, <3>1, <3>2, <3>3 DEF Invariant, Watch, Timed
    <2>4. ASSUME NEW a \in Twins, roster'[a] PROVE timer'[a]
      <3>1. a \in Nodes
        BY TwinOut, LineTypes DEF LinesOf, Invariant, Types
      <3> QED BY <2>1, <2>2, <2>4, <3>1 DEF Invariant, Watch, RosterIsWatched
    <2> QED BY <1>1, <2>3, <2>4, SameSite DEF Watch, Timed, RosterIsWatched
  <1> QED BY <1>1, <1>2, <1>3, <1>4, SameSite DEF Invariant

LEMMA KilledKeeps == ASSUME Invariant, NEW n \in Nodes, Killed(n) PROVE Invariant'
  <1>1. failures' \in 0..sc.maxFailures
    BY BoundsAssumption DEF Killed, Invariant, Types
  <1> QED BY <1>1, EndsKeeps DEF Killed

LEMMA HeartbeatWithoutSocketKeeps ==
    ASSUME Invariant, NEW l \in Lines, HeartbeatWithoutSocket(l) PROVE Invariant'
  <1>1. failures' \in 0..sc.maxFailures /\ l.from \in Nodes
    BY LineTypes DEF HeartbeatWithoutSocket, Invariant, Types
  <1> QED BY <1>1, EndsKeeps DEF HeartbeatWithoutSocket

LEMMA StartedKeeps == ASSUME Invariant, NEW n \in Nodes, Started(n) PROVE Invariant'
  <1>1. sc' = sc /\ UNCHANGED <<conns, wires, tgs, roster>>
    BY DEF Started
  <1>2. Types'
    BY <1>1, SameSite DEF Started, Invariant, Types, conns, tgs
  <1>3. Watch'
    BY <1>1, WatchStays DEF Invariant, conns
  <1> QED BY <1>1, <1>2, <1>3, SameSite DEF Invariant, wires

LEMMA ConnectionFailsKeeps ==
    ASSUME Invariant, NEW l \in Lines, NEW k \in Slots, ConnectionFails(l, k)
    PROVE  Invariant'
  <1>1. sc' = sc /\ UNCHANGED <<sock, server, timer, roster>>
    BY DEF ConnectionFails
  <1>2. Wires(toServer', toClient')
    <2>1. Wires([toServer EXCEPT ![l][k] = <<>>], toClient)
      BY WiresEmptied DEF Invariant
    <2> QED BY <2>1, WiresEmptied DEF ConnectionFails
  <1>3. Types'
    <2>1. failures' \in 0..sc.maxFailures
      BY BoundsAssumption DEF ConnectionFails, Invariant, Types
    <2>2. cut' \in [Lines -> SUBSET Slots]
      BY DEF ConnectionFails, Invariant, Types
    <2> QED BY <1>1, <2>1, <2>2, SameSite DEF ConnectionFails, Invariant, Types, tgs
  <1>4. Watch'
    BY <1>1, WatchStays DEF Invariant
  <1> QED BY <1>1, <1>2, <1>3, <1>4, SameSite DEF Invariant

-----------------------------------------------------------------------------
(* The theorems.                                                           *)

LEMMA InitInvariant == ASSUME Init PROVE Invariant
  <1>1. Types
    BY BoundsAssumption DEF Init, Types
  <1>2. Wires(toServer, toClient)
    <2>1. <<>> \in Seq(Messages)
      OBVIOUS
    <2>2. \A l \in Lines, k \in Slots : toServer[l][k] = <<>> /\ toClient[l][k] = <<>>
      BY DEF Init
    <2>3. /\ toServer \in [Lines -> [Slots -> Seq(Messages)]]
          /\ toClient \in [Lines -> [Slots -> Seq(Messages)]]
      BY <2>1 DEF Init
    <2> QED BY <2>2, <2>3, QueueEmpty DEF Wires, LinesOf
  <1>3. Watch
    <2>1. \A n \in Twins : n \in Nodes
      BY <1>1, TwinOut, LineTypes DEF LinesOf, Types
    <2> QED BY <2>1 DEF Init, Watch, Timed, RosterIsWatched, Inbound, LinesOf
  <1> QED BY <1>1, <1>2, <1>3 DEF Invariant

LEMMA NextKeeps == ASSUME Invariant, [Next]_vars PROVE Invariant'
  <1>1. CASE UNCHANGED vars
    BY <1>1 DEF vars, procs, conns, wires, tgs, Invariant, Types, Wires, Watch, Timed,
                RosterIsWatched, Inbound, Behind, Lines, LinesOf, Twins
  <1>2. ASSUME NEW n \in Members, ClientStep(n) \/ TwinHeartbeat(n) \/ Killed(n) \/ Started(n)
        PROVE  Invariant'
    <2>1. n \in Nodes
      BY MemberTypes DEF Invariant, Types
    <2>2. CASE ClientStep(n)
      BY <2>1, <2>2, KeyKeeps, UnkeyKeeps, TrunkTalkerStartKeeps, TrunkTalkerStopKeeps,
         SendNodeListKeeps DEF ClientStep
    <2> QED BY <1>2, <2>1, <2>2, TwinHeartbeatKeeps, KilledKeeps, StartedKeeps
  <1>3. ASSUME NEW l \in Lines, LineStep(l) PROVE Invariant'
    <2>1. CASE \/ OnSatelliteDisconnected(l) \/ OnTwinDisconnected(l)
               \/ SatelliteTimeout(l) \/ HeartbeatWithoutSocket(l) \/ ReadByClient(l)
      BY <2>1, OnSatelliteDisconnectedKeeps, OnTwinDisconnectedKeeps, SatelliteTimeoutKeeps,
         HeartbeatWithoutSocketKeeps, ReadByClientKeeps
    <2>2. ASSUME NEW k \in Slots,
                 \/ Connect(l, k) \/ ReadByServer(l, k) \/ AcceptHello(l, k)
                 \/ SatelliteLost(l, k) \/ ConnectionFails(l, k)
          PROVE  Invariant'
      BY <2>2, ConnectKeeps, ReadByServerKeeps, AcceptHelloKeeps, SatelliteLostKeeps,
         ConnectionFailsKeeps
    <2>3. ASSUME NEW k \in Slots, RejectHello(l, k) \/ InboundTwinLost(l, k)
          PROVE  Invariant'
      BY <2>3, CloseServerEndKeeps DEF RejectHello, InboundTwinLost
    <2> QED BY <1>3, <2>1, <2>2, <2>3 DEF LineStep
  <1> QED BY <1>1, <1>2, <1>3 DEF Next

THEOREM InvariantHolds == Spec => []Invariant
  <1>1. Init => Invariant
    BY InitInvariant
  <1>2. Invariant /\ [Next]_vars => Invariant'
    BY NextKeeps
  <1> QED BY <1>1, <1>2, PTL DEF Spec

\* Every part of the site's state keeps its type.
THEOREM TypeCorrect == Spec => []TypeOK
  <1>1. Invariant => TypeOK
    BY DEF Invariant, Types, Wires, TypeOK
  <1> QED BY <1>1, InvariantHolds, PTL

\* TwinLink: while a twin keeps a roster its timer runs, so that the roster is
\* cleared when the link is down, however connections come and go.
THEOREM RosterWatched == Spec => []RosterIsWatched
  <1>1. Invariant => RosterIsWatched
    BY DEF Invariant, Watch
  <1> QED BY <1>1, InvariantHolds, PTL

\* Reflectors that are twins have no satellite in common, nor is one the other's.
LEMMA BehindTwins ==
    ASSUME sc \in Scenarios, NEW l \in LinesOf("twin")
    PROVE  Behind(l.from) \cap Behind(l.to) = {}
  <1>1. l \in Lines /\ l.from # l.to
    BY LineTypes DEF LinesOf
  <1>2. \A s \in LinesOf("satellite") : s.from # l.from /\ s.from # l.to
    BY <1>1, SatelliteLines
  <1>3. \A s, t \in LinesOf("satellite") : s.from = t.from => s.to = t.to
    BY LineTypes DEF LinesOf
  <1> QED BY <1>1, <1>2, <1>3 DEF Behind

\* "There is no echo loop" (TwinLink.cpp, handleMsgTwinExtTalkerStart): no twin
\* is told of a talker of its own or of one of its satellites.
THEOREM NoEcho == Spec => []NoTwinEcho
  <1>1. Invariant => NoTwinEcho
    <2> SUFFICES ASSUME Invariant, NEW l \in LinesOf("twin"), NEW k \in Slots
                 PROVE  /\ {toServer[l][k][i].callsign :
                                i \in {j \in DOMAIN toServer[l][k] :
                                         toServer[l][k][j].type = "TalkerStart"}}
                              \cap Behind(l.to) = {}
                        /\ {toClient[l][k][i].callsign :
                                i \in {j \in DOMAIN toClient[l][k] :
                                         toClient[l][k][j].type = "TalkerStart"}}
                              \cap Behind(l.from) = {}
      BY DEF NoTwinEcho, Behind
    <2>1. Behind(l.from) \cap Behind(l.to) = {}
      BY BehindTwins DEF Invariant, Types
    <2>2. /\ Queue(toServer[l][k], Behind(l.from)) /\ Queue(toClient[l][k], Behind(l.to))
      BY DEF Invariant, Wires, LinesOf
    <2>3. /\ DOMAIN toServer[l][k] = 1..Len(toServer[l][k])
          /\ DOMAIN toClient[l][k] = 1..Len(toClient[l][k])
      BY <2>2 DEF Queue
    <2> QED BY <2>1, <2>2, <2>3 DEF Queue
  <1> QED BY <1>1, InvariantHolds, PTL
=============================================================================
