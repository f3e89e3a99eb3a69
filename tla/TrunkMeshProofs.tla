--------------------------- MODULE TrunkMeshProofs ---------------------------
(***************************************************************************)
(* Proofs about TrunkMesh, for every set of reflectors and every           *)
(* configuration of prefixes, cluster TGs, filters and aliases: no         *)
(* reflector has two talkers on a TG, every value has its type, in a tree  *)
(* of trunks and in a full mesh nobody's talk comes back, and where the    *)
(* prefixes agree on one tree of reflectors for a TG, all who listen hear  *)
(* who talks.                                                              *)
(***************************************************************************)
EXTENDS TrunkMesh, SequenceTheorems, TLAPS

-----------------------------------------------------------------------------
(* One talker.                                                             *)

\* Both talkers are kept for every TG of every reflector, whatever they are: a
\* number that an alias or a map makes up outside of TGs is never looked up.
Tables ==
    /\ talker = [n \in Nodes |-> [tg \in TGs |-> talker[n][tg]]]
    /\ trunkTalker = [n \in Nodes |-> [tg \in TGs |-> trunkTalker[n][tg]]]

Invariant == Tables /\ OneTalkerPerNode

LEMMA Unchanged == ASSUME Invariant, UNCHANGED <<talker, trunkTalker>> PROVE Invariant'
  BY DEF Invariant, Tables, OneTalkerPerNode

LEMMA KeyKeeps ==
    ASSUME Invariant, NEW n \in Nodes, NEW tg \in TGs, Key(n, tg) PROVE Invariant'
  BY DEF Key, Invariant, Tables, OneTalkerPerNode

LEMMA UnkeyKeeps ==
    ASSUME Invariant, NEW n \in Nodes, NEW tg \in TGs, Unkey(n, tg) PROVE Invariant'
  BY DEF Unkey, Invariant, Tables, OneTalkerPerNode

\* A local talker is cleared before a remote one is set.
LEMMA AcceptStartKeeps ==
    ASSUME Invariant, NEW n \in Nodes, NEW p, NEW m, AcceptStart(n, p, m) PROVE Invariant'
  <1> DEFINE deliver == DeliverTG(n, LocalTG(n, p, m))
  <1>1. /\ talker' = [talker EXCEPT ![n][deliver] = None]
        /\ trunkTalker' = [trunkTalker EXCEPT ![n][deliver] = m.callsign]
    BY DEF AcceptStart
  <1> HIDE DEF deliver
  <1> QED BY <1>1 DEF Invariant, Tables, OneTalkerPerNode

LEMMA HandleStopKeeps ==
    ASSUME Invariant, NEW n \in Nodes, NEW p, NEW m, HandleStop(n, p, m) PROVE Invariant'
  <1> DEFINE deliver == DeliverTG(n, LocalTG(n, p, m))
  <1>1. talker' = talker /\ trunkTalker' = [trunkTalker EXCEPT ![n][deliver] = None]
    BY DEF HandleStop
  <1> HIDE DEF deliver
  <1>2. \A a \in Nodes, tg \in TGs : trunkTalker'[a][tg] \in {None, trunkTalker[a][tg]}
    BY <1>1 DEF Invariant, Tables
  <1>3. Tables'
    BY <1>1 DEF Invariant, Tables
  <1> QED BY <1>1, <1>2, <1>3 DEF Invariant, OneTalkerPerNode

LEMMA ReceiveKeeps ==
    ASSUME Invariant, NEW n \in Nodes, NEW p, Receive(n, p) PROVE Invariant'
  <1> DEFINE m == Head(chan[p][n])
  <1>1. Handle(n, p, m)
    BY DEF Receive
  <1> HIDE DEF m
  <1>2. \/ UNCHANGED <<talker, trunkTalker>> \/ AcceptStart(n, p, m) \/ HandleStop(n, p, m)
    BY <1>1 DEF Handle, HandleTgInterest, Refuse, IgnoreStart, HandleAudio
  <1> QED BY <1>2, Unchanged, AcceptStartKeeps, HandleStopKeeps

\* A lost or removed link only releases.
LEMMA ReleaseKeeps ==
    ASSUME Invariant, NEW n \in Nodes, NEW tgs, talker' = talker,
           trunkTalker' = [trunkTalker EXCEPT ![n] = Released(n, tgs)]
    PROVE  Invariant'
  BY DEF Released, Invariant, Tables, OneTalkerPerNode

LEMMA NextKeeps == ASSUME Invariant, [Next]_vars PROVE Invariant'
  <1>1. CASE UNCHANGED vars
    BY <1>1, Unchanged DEF vars
  <1>2. ASSUME NEW n \in Nodes, NEW tg \in TGs,
               Key(n, tg) \/ Talk(n, tg) \/ Unkey(n, tg) \/ Tune(n, tg)
        PROVE  Invariant'
    <2>1. Talk(n, tg) \/ Tune(n, tg) => UNCHANGED <<talker, trunkTalker>>
      BY DEF Talk, Tune
    <2> QED BY <1>2, <2>1, Unchanged, KeyKeeps, UnkeyKeeps
  <1>3. ASSUME NEW n \in Nodes, NEW p \in Peers(n),
               \/ Receive(n, p) \/ Advertise(n, p)
               \/ \E tg \in TGs : ExpireInterest(n, p, tg)
               \/ LoseLink(n, p) \/ RestoreLink(n, p) \/ RemoveTrunkLink(n, p)
        PROVE  Invariant'
    <2>1. \/ Advertise(n, p) \/ RestoreLink(n, p)
          \/ \E tg \in TGs : ExpireInterest(n, p, tg)
          => UNCHANGED <<talker, trunkTalker>>
      BY DEF Advertise, RestoreLink, ExpireInterest
    <2>2. CASE LoseLink(n, p)
      BY <2>2, ReleaseKeeps DEF LoseLink
    <2>3. CASE RemoveTrunkLink(n, p)
      BY <2>3, ReleaseKeeps DEF RemoveTrunkLink
    <2> QED BY <1>3, <2>1, <2>2, <2>3, Unchanged, ReceiveKeeps
  <1> QED BY <1>1, <1>2, <1>3 DEF Next, ClientStep, LinkStep

\* "One talker at a time per TG" (README.md), on every reflector of every mesh,
\* whichever trunk a remote talker comes from and whatever it is relayed as.
THEOREM OneTalker == Spec => []OneTalkerPerNode
  <1>1. Init => Invariant
    BY DEF Init, Invariant, Tables, OneTalkerPerNode
  <1>2. Invariant /\ [Next]_vars => Invariant'
    BY NextKeeps
  <1>3. Invariant => OneTalkerPerNode
    BY DEF Invariant
  <1> QED BY <1>1, <1>2, <1>3, PTL DEF Spec

-----------------------------------------------------------------------------
(* Types.                                                                  *)

\* TypeOK says what the entries of the tables are. That lk, links and up are
\* tables, with an entry for each reflector, is needed to know what an
\* assignment to one entry leaves of the others.
TypeInv ==
    /\ TypeOK
    /\ lk = [n \in Nodes |-> lk[n]] /\ links = [n \in Nodes |-> links[n]]
    /\ up = [n \in Nodes |-> up[n]]

\* Trunks are configured on both ends.
LEMMA PeersAreNodes ==
    ASSUME sc \in Scenarios, NEW n \in Nodes, NEW p \in Peers(n)
    PROVE  p \in Nodes /\ p # n /\ n \in Peers(p)
  BY PeersAssumption DEF Peers

LEMMA TypeInvInit == Init => TypeInv
  BY ScenariosAssumption DEF Init, TypeInv, TypeOK, Fresh, LinkState

\* A queue that holds only messages of a set takes and yields only those.
LEMMA Queues ==
    ASSUME NEW G, NEW s \in Seq(G), NEW t \in Seq(G)
    PROVE  /\ s \o t \in Seq(G)
           /\ s # <<>> => Head(s) \in G /\ Tail(s) \in Seq(G)
           /\ <<>> \in Seq(G)
           /\ \A i \in DOMAIN s : s[i] \in G
  OBVIOUS

LEMMA NoMessage == ASSUME NEW G PROVE <<>> \in Seq(G)
  OBVIOUS

LEMMA OneMessage == ASSUME NEW G, NEW m \in G PROVE <<m>> \in Seq(G)
  OBVIOUS

\* What SendAfter leaves in the channels is what was there or is sent.
LEMMA SendKeeps ==
    ASSUME sc \in Scenarios, NEW G,
           \A a \in Nodes : \A b \in Peers(a) : chan[a][b] \in Seq(G[a][b]),
           NEW n \in Nodes, NEW from \in Nodes \cup {None},
           \A a \in Nodes : a = from /\ n \in Peers(a) => chan[a][n] # <<>>,
           NEW msgs, \A b \in Peers(n) : msgs[b] \in Seq(G[n][b]),
           SendAfter(n, from, msgs), UNCHANGED sc
    PROVE  \A a \in Nodes : \A b \in Peers(a) : chan'[a][b] \in Seq(G[a][b])
  <1> SUFFICES ASSUME NEW a \in Nodes, NEW b \in Peers(a)
               PROVE  chan'[a][b] \in Seq(G[a][b])
    OBVIOUS
  <1>1. chan'[a][b] = IF a = n /\ b \in links[n] /\ up[b][n] THEN chan[n][b] \o msgs[b]
                      ELSE IF a = from /\ b = n THEN Tail(chan[a][b])
                      ELSE chan[a][b]
    BY DEF SendAfter
  <1>2. chan[a][b] \in Seq(G[a][b])
    OBVIOUS
  <1>3. CASE a = n /\ b \in links[n] /\ up[b][n]
    <2>1. msgs[b] \in Seq(G[a][b])
      BY <1>3
    <2>2. chan[a][b] \o msgs[b] \in Seq(G[a][b])
      BY <1>2, <2>1, Queues
    <2> QED BY <1>1, <1>3, <2>2
  <1>4. CASE ~(a = n /\ b \in links[n] /\ up[b][n]) /\ a = from /\ b = n
    BY <1>1, <1>2, <1>4, Queues
  <1>5. CASE ~(a = n /\ b \in links[n] /\ up[b][n]) /\ ~(a = from /\ b = n)
    BY <1>1, <1>2, <1>5
  <1> QED BY <1>3, <1>4, <1>5

ChanTyped == \A a \in Nodes : \A b \in Peers(a) : chan[a][b] \in Seq(Messages)

\* Channels keep holding messages.
LEMMA SendTyped ==
    ASSUME TypeInv, NEW n \in Nodes, NEW from \in Nodes \cup {None},
           \A a \in Nodes : a = from /\ n \in Peers(a) => chan[a][n] # <<>>,
           NEW msgs, \A b \in Peers(n) : msgs[b] \in Seq(Messages),
           SendAfter(n, from, msgs), UNCHANGED sc
    PROVE  ChanTyped'
  <1> DEFINE G == [a \in Nodes |-> [b \in Peers(a) |-> Messages]]
  <1>1. \A a \in Nodes : \A b \in Peers(a) : G[a][b] = Messages
    OBVIOUS
  <1> HIDE DEF G
  <1>2. \A a \in Nodes : \A b \in Peers(a) : chan[a][b] \in Seq(G[a][b])
    BY <1>1 DEF TypeInv, TypeOK
  <1>3. \A b \in Peers(n) : msgs[b] \in Seq(G[n][b])
    BY <1>1
  <1>4. sc \in Scenarios
    BY DEF TypeInv, TypeOK
  <1>5. \A a \in Nodes : \A b \in Peers(a) : chan'[a][b] \in Seq(G[a][b])
    BY <1>2, <1>3, <1>4, SendKeeps
  <1> QED BY <1>1, <1>5 DEF ChanTyped, Peers

\* No translation leaves TGs.
LEMMA NumbersTyped ==
    ASSUME sc \in Scenarios, NEW n \in Nodes, NEW p \in Peers(n), NEW tg \in TGs
    PROVE  /\ Translate(Config[n].route, tg) \in TGs
           /\ DeliverTG(n, tg) \in TGs
           /\ Wire(n, p, tg) \in TGs
           /\ Translate(Config[n].link[p].mapIn, tg) \in TGs
           /\ Translate(Config[n].link[p].mapOut, tg) \in TGs
  BY NumbersAssumption DEF Config, Peers, DeliverTG, Wire

\* What the gates let through is a message.
LEMMA GatesTyped ==
    ASSUME sc \in Scenarios, NEW n \in Nodes, NEW p \in Peers(n), NEW tg \in TGs,
           NEW c \in Nodes, NEW ls
    PROVE  /\ OnLocalTalkerStart(n, p, tg, c, ls) \in Seq(Messages)
           /\ OnLocalTalkerStop(n, p, tg, ls) \in Seq(Messages)
           /\ OnLocalAudio(n, p, tg, c, ls) \in Seq(Messages)
  <1>1. Wire(n, p, tg) \in TGs
    BY NumbersTyped
  <1> DEFINE w == Wire(n, p, tg)
  <1> HIDE DEF w
  <1>2. w \in TGs
    BY <1>1 DEF w
  <1>3. /\ TalkerStart(w, c) \in Messages /\ TalkerStop(w) \in Messages
        /\ Audio(w, c) \in Messages
    BY <1>2 DEF TalkerStart, TalkerStop, Audio, Messages
  <1>4. /\ <<TalkerStart(w, c)>> \in Seq(Messages) /\ <<TalkerStop(w)>> \in Seq(Messages)
        /\ <<Audio(w, c)>> \in Seq(Messages) /\ <<>> \in Seq(Messages)
    BY <1>3, OneMessage
  <1> QED BY <1>4 DEF w, OnLocalTalkerStart, OnLocalTalkerStop, OnLocalAudio

\* Talkers, links and interest are replaced by others of their type.
LEMMA StepTyped ==
    ASSUME TypeInv, ChanTyped', UNCHANGED sc,
           listening' \in [Nodes -> SUBSET TGs],
           talker' \in [Nodes -> [TGs -> Nodes \cup {None}]],
           trunkTalker' \in [Nodes -> [TGs -> Nodes \cup {None}]],
           NEW n \in Nodes, NEW state \in [Peers(n) -> LinkState],
           lk' = [lk EXCEPT ![n] = state],
           UNCHANGED <<links, up>>,
           talks' \in 0..sc'.maxTalks, moves' \in 0..sc'.maxMoves, losses' \in 0..sc'.maxLosses
    PROVE  TypeInv'
  <1>1. \A a \in Nodes : lk'[a] \in [Peers(a) -> LinkState]
    BY DEF TypeInv, TypeOK
  <1> QED BY <1>1 DEF TypeInv, TypeOK, ChanTyped, Peers

\* A step that no link keeps anything of.
LEMMA QuietTyped ==
    ASSUME TypeInv, ChanTyped', UNCHANGED <<sc, lk, links, up>>,
           listening' \in [Nodes -> SUBSET TGs],
           talker' \in [Nodes -> [TGs -> Nodes \cup {None}]],
           trunkTalker' \in [Nodes -> [TGs -> Nodes \cup {None}]],
           talks' \in 0..sc'.maxTalks, moves' \in 0..sc'.maxMoves, losses' \in 0..sc'.maxLosses
    PROVE  TypeInv'
  BY DEF TypeInv, TypeOK, ChanTyped, Peers

LEMMA ClientTyped ==
    ASSUME TypeInv, NEW n \in Nodes, NEW tg \in TGs,
           Key(n, tg) \/ Talk(n, tg) \/ Unkey(n, tg) \/ Tune(n, tg)
    PROVE  TypeInv'
  <1>0. /\ sc \in Scenarios /\ sc.maxTalks \in Nat /\ sc.maxMoves \in Nat
        /\ talks \in 0..sc.maxTalks /\ moves \in 0..sc.maxMoves /\ losses \in 0..sc.maxLosses
        /\ listening \in [Nodes -> SUBSET TGs]
        /\ talker \in [Nodes -> [TGs -> Nodes \cup {None}]]
        /\ trunkTalker \in [Nodes -> [TGs -> Nodes \cup {None}]]
        /\ ChanTyped
    BY ScenariosAssumption DEF TypeInv, TypeOK, ChanTyped
  <1>1. ASSUME NEW c \in Nodes, NEW p \in Peers(n)
        PROVE  /\ OnLocalTalkerStart(n, p, tg, c, lk[n]) \o OnLocalAudio(n, p, tg, c, lk[n])
                     \in Seq(Messages)
               /\ OnLocalAudio(n, p, tg, c, lk[n]) \in Seq(Messages)
               /\ OnLocalTalkerStop(n, p, tg, lk[n]) \in Seq(Messages)
    BY <1>0, GatesTyped, Queues
  <1>2. \A a \in Nodes : a = None /\ n \in Peers(a) => chan[a][n] # <<>>
    BY NoneAssumption
  <1>3. CASE Key(n, tg)
    <2>1. ChanTyped'
      BY <1>0, <1>1, <1>2, <1>3, SendTyped DEF Key
    <2>2. talker' \in [Nodes -> [TGs -> Nodes \cup {None}]]
      BY <1>0, <1>3 DEF Key
    <2> QED BY <1>0, <1>3, <2>1, <2>2, QuietTyped DEF Key
  <1>4. CASE Talk(n, tg)
    <2>1. ChanTyped'
      BY <1>0, <1>1, <1>2, <1>4, SendTyped DEF Talk
    <2> QED BY <1>0, <1>4, <2>1, QuietTyped DEF Talk, counts
  <1>5. CASE Unkey(n, tg)
    <2>1. ChanTyped'
      BY <1>0, <1>1, <1>2, <1>5, SendTyped DEF Unkey
    <2>2. talker' \in [Nodes -> [TGs -> Nodes \cup {None}]]
      BY <1>0, <1>5 DEF Unkey
    <2> QED BY <1>0, <1>5, <2>1, <2>2, QuietTyped DEF Unkey, counts
  <1>6. CASE Tune(n, tg)
    <2>1. ChanTyped'
      BY <1>0, <1>6 DEF Tune, ChanTyped, Peers
    <2>2. listening' \in [Nodes -> SUBSET TGs]
      BY <1>0, <1>6 DEF Tune, SymDiff
    <2>3. UNCHANGED <<sc, talker, trunkTalker, lk, links, up, talks, losses>>
      BY <1>6 DEF Tune
    <2>4. moves' \in 0..sc'.maxMoves
      BY <1>0, <1>6, <2>3 DEF Tune
    <2> QED BY <1>0, <2>1, <2>2, <2>3, <2>4, QuietTyped
  <1> QED BY <1>3, <1>4, <1>5, <1>6

\* The peer's next message, and the tables after it.
LEMMA ReceiveTyped ==
    ASSUME TypeInv, NEW n \in Nodes, NEW p \in Peers(n), Receive(n, p)
    PROVE  TypeInv'
  <1>1. /\ sc \in Scenarios /\ ChanTyped
        /\ talker \in [Nodes -> [TGs -> Nodes \cup {None}]]
        /\ trunkTalker \in [Nodes -> [TGs -> Nodes \cup {None}]]
        /\ lk[n] \in [Peers(n) -> LinkState]
    BY DEF TypeInv, TypeOK, ChanTyped
  <1>2. p \in Nodes /\ n \in Peers(p)
    BY <1>1, PeersAreNodes
  <1>3. PICK m \in Messages : m = Head(chan[p][n])
    BY <1>1, <1>2, Queues DEF Receive, ChanTyped
  <1>4. \A a \in Nodes : a = p /\ n \in Peers(a) => chan[a][n] # <<>>
    BY DEF Receive
  <1>5. Handle(n, p, m) /\ UNCHANGED <<sc, listening, links, up, counts>>
    BY <1>3 DEF Receive
  <1> DEFINE none == [q \in Peers(n) |-> <<>>]
  <1>6. ASSUME SendAfter(n, p, none) PROVE ChanTyped'
    <2>1. \A b \in Peers(n) : none[b] \in Seq(Messages)
      BY Queues
    <2> QED BY <1>2, <1>4, <1>5, <1>6, <2>1, SendTyped
  <1> HIDE DEF none
  <1>7. ASSUME ChanTyped', NEW state \in [Peers(n) -> LinkState],
               lk' = [lk EXCEPT ![n] = state],
               talker' \in [Nodes -> [TGs -> Nodes \cup {None}]],
               trunkTalker' \in [Nodes -> [TGs -> Nodes \cup {None}]]
        PROVE  TypeInv'
    BY <1>5, <1>7, StepTyped DEF counts, TypeInv, TypeOK
  <1>8. ASSUME ChanTyped', UNCHANGED <<talker, trunkTalker, lk>> PROVE TypeInv'
    BY <1>1, <1>5, <1>8, QuietTyped DEF counts, TypeInv, TypeOK
  <1>9. CASE Refuse(n, p)
    BY <1>6, <1>8, <1>9 DEF Refuse, none
  <1>10. CASE IgnoreStart(n, p, m)
    BY <1>6, <1>8, <1>10 DEF IgnoreStart, none
  <1>11. CASE m.type = "TgInterest" /\ HandleTgInterest(n, p, m)
    <2>1. m.tgs \subseteq TGs
      BY <1>11 DEF Messages
    <2>2. {Translate(Config[n].link[p].mapIn, tg) : tg \in m.tgs} \subseteq TGs
      BY <1>1, <2>1, NumbersTyped
    <2> DEFINE new == {Translate(Config[n].link[p].mapIn, tg) : tg \in m.tgs}
    <2>3. new \subseteq TGs
      BY <2>2
    <2>4. /\ lk' = [lk EXCEPT ![n][p].interested = @ \cup new]
          /\ UNCHANGED <<talker, trunkTalker>>
          /\ SendAfter(n, p, none)
      BY <1>11 DEF HandleTgInterest, none
    <2> HIDE DEF new
    <2> DEFINE state == [lk[n] EXCEPT ![p].interested = @ \cup new]
    <2>5. state \in [Peers(n) -> LinkState]
      BY <1>1, <2>3 DEF LinkState
    <2>6. lk' = [lk EXCEPT ![n] = state]
      BY <2>4
    <2> HIDE DEF state
    <2> QED BY <1>1, <1>6, <1>7, <2>4, <2>5, <2>6
  <1>12. ASSUME m.type \in {"TalkerStart", "TalkerStop", "Audio"}
         PROVE  LocalTG(n, p, m) \in TGs
    <2>1. m.tg \in TGs
      BY <1>12 DEF Messages
    <2> QED BY <1>1, <2>1, NumbersTyped DEF LocalTG
  <1>13. ASSUME m.type \in {"TalkerStart", "Audio"} PROVE m.callsign \in Nodes
    BY <1>13 DEF Messages
  <1>14. ASSUME NEW tg \in TGs, NEW msgs, \A q \in Peers(n) : msgs[q] \in Seq(Messages)
         PROVE  \A q \in Peers(n) : Relay(n, p, tg, msgs)[q] \in Seq(Messages)
    BY <1>14, Queues DEF Relay
  <1>15. CASE m.type = "TalkerStart" /\ AcceptStart(n, p, m)
    <2> DEFINE tg == LocalTG(n, p, m)
               deliver == DeliverTG(n, tg)
               yields == talker[n][deliver] # None
               yielding == IF yields THEN [lk[n] EXCEPT ![p].yielded = @ \cup {deliver}]
                           ELSE lk[n]
               after == [yielding EXCEPT ![p].active = @ \cup {tg},
                                         ![p].interested = @ \cup {tg}]
               starts == [q \in Peers(n) |-> OnLocalTalkerStart(n, q, tg, m.callsign, after)]
               relayed == Relay(n, p, tg, starts)
               sent == [q \in Peers(n) |->
                   (IF yields THEN OnLocalTalkerStop(n, q, deliver, yielding) ELSE <<>>)
                       \o relayed[q]]
    <2>1. /\ talker' = [talker EXCEPT ![n][deliver] = None]
          /\ trunkTalker' = [trunkTalker EXCEPT ![n][deliver] = m.callsign]
          /\ lk' = [lk EXCEPT ![n] = after]
          /\ SendAfter(n, p, sent)
      BY <1>15 DEF AcceptStart
    <2>2. tg \in TGs /\ deliver \in TGs
      BY <1>1, <1>12, <1>15, NumbersTyped
    <2> HIDE DEF tg, deliver
    <2>3. yielding \in [Peers(n) -> LinkState]
      BY <1>1, <2>2 DEF LinkState
    <2> HIDE DEF yielding, yields
    <2>4. after \in [Peers(n) -> LinkState]
      BY <2>2, <2>3 DEF LinkState
    <2> HIDE DEF after
    <2>5. \A q \in Peers(n) : starts[q] \in Seq(Messages)
      BY <1>1, <1>13, <1>15, <2>2, GatesTyped
    <2> HIDE DEF starts
    <2>6. \A q \in Peers(n) : relayed[q] \in Seq(Messages)
      BY <1>14, <2>2, <2>5
    <2> HIDE DEF relayed
    <2>7. ASSUME NEW q \in Peers(n) PROVE sent[q] \in Seq(Messages)
      <3>1. OnLocalTalkerStop(n, q, deliver, yielding) \in Seq(Messages)
        BY <1>1, <1>13, <1>15, <2>2, GatesTyped
      <3> DEFINE first == IF yields THEN OnLocalTalkerStop(n, q, deliver, yielding) ELSE <<>>
      <3>2. first \in Seq(Messages)
        BY <3>1, Queues
      <3>3. sent[q] = first \o relayed[q]
        OBVIOUS
      <3> HIDE DEF first, sent
      <3> QED BY <2>6, <3>2, <3>3, Queues
    <2> HIDE DEF sent
    <2>8. ChanTyped'
      BY <1>2, <1>4, <1>5, <2>1, <2>7, SendTyped
    <2>9. talker' \in [Nodes -> [TGs -> Nodes \cup {None}]]
      BY <1>1, <2>1, <2>2
    <2>10. trunkTalker' \in [Nodes -> [TGs -> Nodes \cup {None}]]
      BY <1>1, <1>13, <1>15, <2>1, <2>2
    <2> QED BY <1>7, <2>1, <2>4, <2>8, <2>9, <2>10
  <1>16. CASE m.type = "TalkerStop" /\ HandleStop(n, p, m)
    <2> DEFINE tg == LocalTG(n, p, m)
               deliver == DeliverTG(n, tg)
               after == [lk[n] EXCEPT ![p].yielded = @ \ {deliver}, ![p].active = @ \ {tg}]
               stops == [q \in Peers(n) |-> OnLocalTalkerStop(n, q, tg, after)]
    <2>1. /\ trunkTalker' = [trunkTalker EXCEPT ![n][deliver] = None]
          /\ lk' = [lk EXCEPT ![n] = after]
          /\ SendAfter(n, p, Relay(n, p, tg, stops))
          /\ UNCHANGED talker
      BY <1>16 DEF HandleStop
    <2>2. tg \in TGs /\ deliver \in TGs
      BY <1>1, <1>12, <1>16, NumbersTyped
    <2> HIDE DEF tg, deliver
    <2>3. after \in [Peers(n) -> LinkState]
      BY <1>1, <2>2 DEF LinkState
    <2> HIDE DEF after
    <2>4. \A q \in Peers(n) : stops[q] \in Seq(Messages)
      BY <1>1, <2>2, GatesTyped
    <2> HIDE DEF stops
    <2>5. ChanTyped'
      BY <1>2, <1>4, <1>5, <1>14, <2>1, <2>2, <2>4, SendTyped
    <2>6. trunkTalker' \in [Nodes -> [TGs -> Nodes \cup {None}]]
      BY <1>1, <2>1, <2>2
    <2> QED BY <1>1, <1>7, <2>1, <2>3, <2>5, <2>6
  <1>17. CASE m.type = "Audio" /\ HandleAudio(n, p, m)
    <2> DEFINE tg == LocalTG(n, p, m)
               after == [lk[n] EXCEPT ![p].interested = @ \cup {tg}]
               audio == [q \in Peers(n) |-> OnLocalAudio(n, q, tg, m.callsign, after)]
    <2>1. CASE tg \notin lk[n][p].active
      BY <1>6, <1>8, <1>17, <2>1 DEF HandleAudio, none
    <2>2. CASE tg \in lk[n][p].active
      <3>1. /\ lk' = [lk EXCEPT ![n] = after]
            /\ SendAfter(n, p, Relay(n, p, tg, audio))
            /\ UNCHANGED <<talker, trunkTalker>>
        BY <1>17, <2>2 DEF HandleAudio
      <3>2. tg \in TGs
        BY <1>12, <1>17
      <3> HIDE DEF tg
      <3>3. after \in [Peers(n) -> LinkState]
        BY <1>1, <3>2 DEF LinkState
      <3> HIDE DEF after
      <3>4. \A q \in Peers(n) : audio[q] \in Seq(Messages)
        BY <1>1, <1>13, <1>17, <3>2, GatesTyped
      <3> HIDE DEF audio
      <3>5. ChanTyped'
        BY <1>2, <1>4, <1>5, <1>14, <3>1, <3>2, <3>4, SendTyped
      <3> QED BY <1>1, <1>7, <3>1, <3>3, <3>5
    <2> QED BY <2>1, <2>2
  <1>18. m.type \in {"TalkerStart", "TalkerStop", "Audio", "TgInterest"}
    BY DEF Messages
  <1> QED BY <1>5, <1>9, <1>10, <1>11, <1>15, <1>16, <1>17, <1>18 DEF Handle

\* What is advertised are TGs, as the peer numbers them.
LEMMA AdvertiseTyped ==
    ASSUME TypeInv, NEW n \in Nodes, NEW p \in Peers(n), Advertise(n, p)
    PROVE  TypeInv'
  <1>1. /\ sc \in Scenarios /\ p \in Nodes
        /\ lk[n] \in [Peers(n) -> LinkState]
        /\ listening[n] \subseteq TGs
        /\ \A q \in links[n] : q \in Peers(n) /\ lk[n][q].interested \subseteq TGs
    <2>1. \A q \in Peers(n) : lk[n][q].interested \subseteq TGs
      BY DEF TypeInv, TypeOK, LinkState
    <2> QED BY <2>1, PeersAreNodes DEF TypeInv, TypeOK
  <1> DEFINE out == OutgoingInterest(n, p)
             told == {Translate(Config[n].link[p].mapOut, tg) : tg \in out}
             msgs == [q \in Peers(n) |-> IF q # p THEN <<>> ELSE <<TgInterest(told)>>]
             state == [lk[n] EXCEPT ![p].lastSent = out]
  <1>2. out \subseteq TGs
    BY <1>1 DEF OutgoingInterest
  <1>3. /\ lk' = [lk EXCEPT ![n][p].lastSent = out]
        /\ SendAfter(n, None, msgs)
        /\ UNCHANGED <<sc, talker, trunkTalker, listening, links, up, counts>>
    BY DEF Advertise
  <1> HIDE DEF out
  <1>4. told \subseteq TGs
    BY <1>1, <1>2, NumbersTyped
  <1> HIDE DEF told
  <1>5. TgInterest(told) \in Messages
    BY <1>4 DEF TgInterest, Messages
  <1>6. <<TgInterest(told)>> \in Seq(Messages)
    BY <1>5, OneMessage
  <1>7. \A q \in Peers(n) : msgs[q] \in Seq(Messages)
    BY <1>6, Queues
  <1> HIDE DEF msgs
  <1>8. ChanTyped'
    BY <1>3, <1>7, NoneAssumption, SendTyped
  <1>9. state \in [Peers(n) -> LinkState] /\ lk' = [lk EXCEPT ![n] = state]
    BY <1>1, <1>2, <1>3 DEF LinkState
  <1> HIDE DEF state
  <1> QED BY <1>3, <1>8, <1>9, StepTyped DEF counts, TypeInv, TypeOK

LEMMA ExpireTyped ==
    ASSUME TypeInv, NEW n \in Nodes, NEW p \in Peers(n), NEW tg \in TGs,
           ExpireInterest(n, p, tg)
    PROVE  TypeInv'
  <1> DEFINE state == [lk[n] EXCEPT ![p].interested = @ \ {tg}]
  <1>1. lk[n] \in [Peers(n) -> LinkState]
    BY DEF TypeInv, TypeOK
  <1>2. state \in [Peers(n) -> LinkState] /\ lk' = [lk EXCEPT ![n] = state]
    BY <1>1 DEF ExpireInterest, LinkState
  <1> HIDE DEF state
  <1>3. ChanTyped'
    BY DEF ExpireInterest, TypeInv, TypeOK, ChanTyped, Peers
  <1> QED BY <1>2, <1>3, StepTyped DEF ExpireInterest, counts, TypeInv, TypeOK

\* A lost or removed link: its state is fresh, nothing is left to read.
LEMMA LinkGoneTyped ==
    ASSUME TypeInv, NEW n \in Nodes, NEW p \in Peers(n), NEW tgs,
           UNCHANGED <<sc, talker, listening, talks, moves>>, losses' \in 0..sc'.maxLosses,
           links' = links \/ links' = [links EXCEPT ![n] = @ \ {p}],
           up' = [up EXCEPT ![n][p] = FALSE],
           trunkTalker' = [trunkTalker EXCEPT ![n] = Released(n, tgs)],
           lk' = [lk EXCEPT ![n][p] = Fresh],
           chan' = [chan EXCEPT ![p][n] = <<>>]
    PROVE  TypeInv'
  <1>1. Fresh \in LinkState
    BY DEF Fresh, LinkState
  <1>2. \A a \in Nodes : lk'[a] \in [Peers(a) -> LinkState] /\ up'[a] \in [Peers(a) -> BOOLEAN]
    BY <1>1 DEF TypeInv, TypeOK
  <1>3. trunkTalker' \in [Nodes -> [TGs -> Nodes \cup {None}]]
    BY DEF TypeInv, TypeOK, Released
  <1>4. \A a \in Nodes : \A b \in Peers(a) : chan'[a][b] \in Seq(Messages)
    BY Queues DEF TypeInv, TypeOK
  <1>5. \A a \in Nodes : links'[a] \subseteq Peers(a)
    <2>1. \A a \in Nodes : links'[a] = links[a] \/ links'[a] = links[a] \ {p}
      BY DEF TypeInv
    <2> QED BY <2>1 DEF TypeInv, TypeOK
  <1>6. TypeOK'
    BY <1>2, <1>3, <1>4, <1>5 DEF TypeInv, TypeOK, Peers
  <1> QED BY <1>6 DEF TypeInv

LEMMA LinkTyped ==
    ASSUME TypeInv, NEW n \in Nodes, NEW p \in Peers(n),
           LoseLink(n, p) \/ RestoreLink(n, p) \/ RemoveTrunkLink(n, p)
    PROVE  TypeInv'
  <1>1. CASE LoseLink(n, p)
    <2>1. losses' \in 0..sc'.maxLosses
      BY <1>1, ScenariosAssumption DEF LoseLink, TypeInv, TypeOK
    <2> QED BY <1>1, <2>1, LinkGoneTyped DEF LoseLink
  <1>2. CASE RemoveTrunkLink(n, p)
    BY <1>2, LinkGoneTyped DEF RemoveTrunkLink, counts, TypeInv, TypeOK
  <1>3. CASE RestoreLink(n, p)
    BY <1>3 DEF RestoreLink, counts, TypeInv, TypeOK, Peers
  <1> QED BY <1>1, <1>2, <1>3

LEMMA TypeInvNext == TypeInv /\ [Next]_vars => TypeInv'
  <1> SUFFICES ASSUME TypeInv, [Next]_vars PROVE TypeInv'
    OBVIOUS
  <1>1. CASE UNCHANGED vars
    BY <1>1 DEF vars, counts, TypeInv, TypeOK, Peers
  <1>2. CASE ClientStep
    BY <1>2, ClientTyped DEF ClientStep
  <1>3. CASE LinkStep
    BY <1>3, ReceiveTyped, AdvertiseTyped, ExpireTyped, LinkTyped DEF LinkStep
  <1> QED BY <1>1, <1>2, <1>3 DEF Next

\* Every table keeps its shape and every channel holds messages that a peer can
\* read: no translation, relay or loss of a link makes anything else, and the
\* counters stay within their bounds (TrunkMesh!TypeOK).
THEOREM TypeCorrect == Spec => []TypeOK
  <1>1. TypeInv => TypeOK
    BY DEF TypeInv
  <1> QED BY <1>1, TypeInvInit, TypeInvNext, PTL DEF Spec

-----------------------------------------------------------------------------
(* Echo. What a mesh carries at all is overestimated by two tables that do  *)
(* not change: carried[n][p], the numbers n and p may pass one another, in  *)
(* n's numbering, and heardFrom[n][tg][c], the peers from which n may get   *)
(* what c's client says on tg. If the routing alone keeps them from growing *)
(* back to where the talk began, interest and timing cannot lead it back.   *)

\* The links that may be left of n's, and the prefixes n then knows.
LinksLeft(s, n) ==
    {L \in SUBSET PeersIn(s, n) : \A p \in PeersIn(s, n) \ L : <<n, p>> \in s.removals}

Known(s, n, L) ==
    s.config[n].local
        \cup (UNION {s.config[n].link[p].remote \cup s.config[n].link[p].routable : p \in L})

\* n may pass tg to p without p having asked for it.
MaySend(s, n, p, tg) ==
    \/ tg \in DOMAIN s.config[n].link[p].mapOut
    \/ tg \in s.config[n].cluster
    \/ \E L \in LinksLeft(s, n) : IsSharedTG(s.config[n].link[p], Known(s, n, L), tg)

MayRelay(s, n, tg) ==
    \E L \in LinksLeft(s, n) :
        ShouldRelayInbound(s.config[n].local, Known(s, n, L), s.config[n].cluster, tg)

\* What n calls tg, as its peer p calls it.
AtPeer(s, n, p, tg) ==
    Translate(s.config[p].link[n].mapIn, Translate(s.config[n].link[p].mapOut, tg))

\* Whoever has passed a TG on is taken to be interested in it.
Carries(s, carried) ==
    \A n \in Nodes : \A p \in PeersIn(s, n) : \A tg \in TGs :
        /\ MaySend(s, n, p, tg) => tg \in carried[n][p]
        /\ tg \in carried[n][p] => AtPeer(s, n, p, tg) \in carried[p][n]

Flows(s, carried, heardFrom) ==
    \A n \in Nodes : \A p \in PeersIn(s, n) : \A tg \in TGs :
        LET out == Translate(s.config[n].route, tg)
            there == heardFrom[p][AtPeer(s, n, p, out)]
        IN  out \in carried[n][p] =>
              /\ tg \in s.speaks[n] => n \in there[n]
              /\ MayRelay(s, n, tg) =>
                    \A c \in Nodes \ {n} : \A q \in heardFrom[n][tg][c] \ {p} :
                        n \in there[c] /\ p # c

LoopFree(s) ==
    \E carried \in [Nodes -> [Nodes -> SUBSET TGs]],
       heardFrom \in [Nodes -> [TGs -> [Nodes -> SUBSET Nodes]]] :
        Carries(s, carried) /\ Flows(s, carried, heardFrom)

\* The messages that may be under way from p to n.
Expected(s, p, n, carried, heardFrom) ==
    LET mapIn == s.config[n].link[p].mapIn
    IN  {m \in Messages :
            /\ m.type = "TgInterest" =>
                  \A w \in m.tgs : Translate(mapIn, w) \in carried[n][p]
            /\ m.type \in {"TalkerStart", "Audio"} =>
                  /\ Translate(mapIn, m.tg) \in carried[n][p]
                  /\ p \in heardFrom[n][Translate(mapIn, m.tg)][m.callsign]
                  /\ m.callsign # n}

EchoInv(carried, heardFrom) ==
    /\ Carries(sc, carried) /\ Flows(sc, carried, heardFrom)
    /\ \A n \in Nodes : links[n] \in LinksLeft(sc, n)
    /\ \A n \in Nodes : \A p \in Peers(n) : lk[n][p].interested \subseteq carried[n][p]
    /\ \A n \in Nodes : \A tg \in TGs : talker[n][tg] # None => tg \in sc.speaks[n]
    /\ \A p \in Nodes : \A n \in Peers(p) :
          chan[p][n] \in Seq(Expected(sc, p, n, carried, heardFrom))

Witnesses(carried, heardFrom) ==
    /\ carried \in [Nodes -> [Nodes -> SUBSET TGs]]
    /\ heardFrom \in [Nodes -> [TGs -> [Nodes -> SUBSET Nodes]]]

NoEchoInv ==
    /\ TypeInv
    /\ \E carried, heardFrom : Witnesses(carried, heardFrom) /\ EchoInv(carried, heardFrom)

\* At first nothing is under way and nobody has asked for anything.
LEMMA EchoInit ==
    ASSUME \A s \in Scenarios : LoopFree(s), Init
    PROVE  NoEchoInv
  <1>1. TypeInv
    BY TypeInvInit
  <1>2. sc \in Scenarios
    BY DEF Init
  <1>3. PICK carried \in [Nodes -> [Nodes -> SUBSET TGs]],
             heardFrom \in [Nodes -> [TGs -> [Nodes -> SUBSET Nodes]]] :
                 Carries(sc, carried) /\ Flows(sc, carried, heardFrom)
    BY <1>2 DEF LoopFree
  <1>4. \A n \in Nodes : links[n] \in LinksLeft(sc, n)
    BY DEF Init, LinksLeft, Peers
  <1>5. \A n \in Nodes : \A p \in Peers(n) : lk[n][p].interested \subseteq carried[n][p]
    BY DEF Init, Fresh
  <1>6. \A n \in Nodes : \A tg \in TGs : talker[n][tg] = None
    BY DEF Init
  <1>7. \A p \in Nodes : \A n \in Peers(p) :
          chan[p][n] \in Seq(Expected(sc, p, n, carried, heardFrom))
    <2>1. \A p \in Nodes : \A n \in Peers(p) : chan[p][n] = <<>>
      BY DEF Init
    <2> QED BY <2>1, NoMessage
  <1>8. EchoInv(carried, heardFrom)
    BY <1>3, <1>4, <1>5, <1>6, <1>7 DEF EchoInv
  <1> QED BY <1>1, <1>3, <1>8 DEF NoEchoInv, Witnesses

LEMMA EchoGone == NoEchoInv => NoEcho
  <1> SUFFICES ASSUME TypeInv, NEW carried, NEW heardFrom, EchoInv(carried, heardFrom),
                      NEW n \in Nodes, NEW p \in Peers(n), NEW i \in DOMAIN chan[p][n],
                      chan[p][n][i].type \in {"TalkerStart", "Audio"}
               PROVE  chan[p][n][i].callsign # n
    BY DEF NoEchoInv, NoEcho
  <1>1. p \in Nodes /\ n \in Peers(p)
    BY PeersAreNodes DEF TypeInv, TypeOK
  <1>2. chan[p][n][i] \in Expected(sc, p, n, carried, heardFrom)
    BY <1>1, Queues DEF EchoInv
  <1> QED BY <1>2 DEF Expected

\* What passes the gate is carried, and arrives as the peer numbers it.
LEMMA GateCarries ==
    ASSUME TypeInv, NEW carried, NEW heardFrom, EchoInv(carried, heardFrom),
           NEW n \in Nodes, NEW p \in Peers(n), NEW tg \in TGs,
           NEW ls, ls[p].interested \subseteq carried[n][p], Passes(n, p, tg, ls)
    PROVE  LET out == Translate(Config[n].route, tg)
           IN  /\ out \in TGs /\ out \in carried[n][p]
               /\ AtPeer(sc, n, p, out) \in carried[p][n]
               /\ Wire(n, p, tg) \in TGs
               /\ Translate(Config[p].link[n].mapIn, Wire(n, p, tg)) = AtPeer(sc, n, p, out)
  <1> DEFINE out == Translate(Config[n].route, tg)
  <1>1. sc \in Scenarios
    BY DEF TypeInv, TypeOK
  <1>2. out \in TGs /\ Wire(n, p, tg) \in TGs
    BY <1>1, NumbersTyped
  <1>3. Translate(Config[p].link[n].mapIn, Wire(n, p, tg)) = AtPeer(sc, n, p, out)
    BY DEF Wire, AtPeer, Config
  <1>4. \/ out \in DOMAIN Config[n].link[p].mapOut
        \/ Shared(n, p, out) \/ out \in Config[n].cluster \/ out \in carried[n][p]
    BY DEF Passes
  <1> HIDE DEF out
  <1>5. Shared(n, p, out) => MaySend(sc, n, p, out)
    <2>1. AllPrefixes(n) = Known(sc, n, links[n])
      BY DEF AllPrefixes, Known, Config
    <2>2. links[n] \in LinksLeft(sc, n)
      BY DEF EchoInv
    <2> QED BY <2>1, <2>2 DEF Shared, MaySend, Config
  <1>6. out \in carried[n][p]
    BY <1>2, <1>4, <1>5 DEF EchoInv, Carries, MaySend, Peers, Config
  <1>7. AtPeer(sc, n, p, out) \in carried[p][n]
    BY <1>2, <1>6 DEF EchoInv, Carries, Peers
  <1> QED BY <1>2, <1>3, <1>6, <1>7 DEF out

ChanExpected(carried, heardFrom) ==
    \A p \in Nodes : \A n \in Peers(p) :
        chan[p][n] \in Seq(Expected(sc, p, n, carried, heardFrom))

\* A stop names nobody.
LEMMA StopsExpected ==
    ASSUME sc \in Scenarios, NEW carried, NEW heardFrom,
           NEW n \in Nodes, NEW p \in Peers(n), NEW tg \in TGs, NEW ls
    PROVE  OnLocalTalkerStop(n, p, tg, ls) \in Seq(Expected(sc, n, p, carried, heardFrom))
  <1> DEFINE w == Wire(n, p, tg)
             E == Expected(sc, n, p, carried, heardFrom)
  <1>1. w \in TGs
    BY NumbersTyped
  <1> HIDE DEF w
  <1>2. TalkerStop(w) \in Messages
    BY <1>1 DEF Messages, TalkerStop
  <1>3. TalkerStop(w) \in E
    BY <1>2 DEF TalkerStop, Expected
  <1> HIDE DEF E
  <1>4. <<TalkerStop(w)>> \in Seq(E) /\ <<>> \in Seq(E)
    BY <1>3, OneMessage, NoMessage
  <1> QED BY <1>4 DEF w, E, OnLocalTalkerStop

\* What n says of c is expected where the tables have c's talk come from n.
LEMMA TalkExpected ==
    ASSUME TypeInv, NEW carried, NEW heardFrom, EchoInv(carried, heardFrom),
           NEW n \in Nodes, NEW p \in Peers(n), NEW tg \in TGs, NEW c \in Nodes,
           NEW ls, ls[p].interested \subseteq carried[n][p],
           LET out == Translate(sc.config[n].route, tg)
           IN  out \in carried[n][p] =>
                   c # p /\ n \in heardFrom[p][AtPeer(sc, n, p, out)][c]
    PROVE  /\ OnLocalTalkerStart(n, p, tg, c, ls)
                  \in Seq(Expected(sc, n, p, carried, heardFrom))
           /\ OnLocalAudio(n, p, tg, c, ls) \in Seq(Expected(sc, n, p, carried, heardFrom))
  <1> DEFINE E == Expected(sc, n, p, carried, heardFrom)
             w == Wire(n, p, tg)
  <1>1. <<>> \in Seq(E)
    BY NoMessage
  <1>2. ASSUME Passes(n, p, tg, ls)
        PROVE  <<TalkerStart(w, c)>> \in Seq(E) /\ <<Audio(w, c)>> \in Seq(E)
    <2> DEFINE there == Translate(Config[p].link[n].mapIn, w)
    <2>1. w \in TGs /\ there \in carried[p][n] /\ n \in heardFrom[p][there][c] /\ c # p
      BY <1>2, GateCarries DEF Config
    <2>2. there = Translate(sc.config[p].link[n].mapIn, w)
      BY DEF Config
    <2> HIDE DEF there, w
    <2>3. TalkerStart(w, c) \in Messages /\ Audio(w, c) \in Messages
      BY <2>1 DEF Messages, TalkerStart, Audio
    <2>4. TalkerStart(w, c) \in E
      BY <2>1, <2>2, <2>3 DEF Expected, TalkerStart
    <2>5. Audio(w, c) \in E
      BY <2>1, <2>2, <2>3 DEF Expected, Audio
    <2> HIDE DEF E
    <2> QED BY <2>4, <2>5, OneMessage
  <1> HIDE DEF E, w
  <1>3. /\ OnLocalTalkerStart(n, p, tg, c, ls) \in Seq(E)
        /\ OnLocalAudio(n, p, tg, c, ls) \in Seq(E)
    BY <1>1, <1>2 DEF OnLocalTalkerStart, OnLocalAudio, w
  <1> QED BY <1>3 DEF E

\* Channels keep holding what is expected.
LEMMA SendExpected ==
    ASSUME TypeInv, NEW carried, NEW heardFrom, EchoInv(carried, heardFrom),
           NEW n \in Nodes, NEW from \in Nodes \cup {None},
           \A a \in Nodes : a = from /\ n \in Peers(a) => chan[a][n] # <<>>,
           NEW msgs,
           \A p \in Peers(n) : msgs[p] \in Seq(Expected(sc, n, p, carried, heardFrom)),
           SendAfter(n, from, msgs), UNCHANGED sc
    PROVE  ChanExpected(carried, heardFrom)'
  <1> DEFINE G == [a \in Nodes |-> [b \in Peers(a) |-> Expected(sc, a, b, carried, heardFrom)]]
  <1>1. \A a \in Nodes : \A b \in Peers(a) : G[a][b] = Expected(sc, a, b, carried, heardFrom)
    OBVIOUS
  <1> HIDE DEF G
  <1>2. \A a \in Nodes : \A b \in Peers(a) : chan[a][b] \in Seq(G[a][b])
    BY <1>1 DEF EchoInv
  <1>3. \A b \in Peers(n) : msgs[b] \in Seq(G[n][b])
    BY <1>1
  <1>4. sc \in Scenarios
    BY DEF TypeInv, TypeOK
  <1>5. \A a \in Nodes : \A b \in Peers(a) : chan'[a][b] \in Seq(G[a][b])
    BY <1>2, <1>3, <1>4, SendKeeps
  <1> QED BY <1>1, <1>5 DEF ChanExpected, Peers

\* A step that leaves scenario and links alone.
LEMMA EchoStep ==
    ASSUME NEW carried, NEW heardFrom, EchoInv(carried, heardFrom),
           UNCHANGED <<sc, links>>, ChanExpected(carried, heardFrom)',
           \A n \in Nodes : \A tg \in TGs :
               talker'[n][tg] # None => talker[n][tg] # None \/ tg \in sc.speaks[n],
           \A n \in Nodes : \A p \in Peers(n) : lk'[n][p].interested \subseteq carried[n][p]
    PROVE  EchoInv(carried, heardFrom)'
  BY DEF EchoInv, ChanExpected, Peers

\* A client speaks where its reflector may be heard from.
LEMMA EchoClient ==
    ASSUME TypeInv, NEW carried, NEW heardFrom, EchoInv(carried, heardFrom),
           NEW n \in Nodes, NEW tg \in TGs,
           Key(n, tg) \/ Talk(n, tg) \/ Unkey(n, tg) \/ Tune(n, tg)
    PROVE  EchoInv(carried, heardFrom)'
  <1>1. /\ sc \in Scenarios
        /\ talker \in [Nodes -> [TGs -> Nodes \cup {None}]]
        /\ \A a \in Nodes : a = None /\ n \in Peers(a) => chan[a][n] # <<>>
        /\ \A p \in Peers(n) : p \in Nodes /\ p # n /\ n \in Peers(p)
    BY NoneAssumption, PeersAreNodes DEF TypeInv, TypeOK
  <1>2. \A a \in Nodes : \A p \in Peers(a) : lk[a][p].interested \subseteq carried[a][p]
    BY DEF EchoInv
  <1>3. ASSUME tg \in sc.speaks[n], NEW p \in Peers(n)
        PROVE  /\ OnLocalTalkerStart(n, p, tg, n, lk[n])
                     \in Seq(Expected(sc, n, p, carried, heardFrom))
               /\ OnLocalAudio(n, p, tg, n, lk[n])
                     \in Seq(Expected(sc, n, p, carried, heardFrom))
    <2> DEFINE out == Translate(sc.config[n].route, tg)
    <2>1. out \in carried[n][p] => n # p /\ n \in heardFrom[p][AtPeer(sc, n, p, out)][n]
      BY <1>1, <1>3 DEF EchoInv, Flows, Peers
    <2> QED BY <1>1, <1>2, <2>1, TalkExpected
  <1>4. talker[n][tg] # None => tg \in sc.speaks[n]
    BY DEF EchoInv
  <1>5. CASE Key(n, tg)
    <2>1. tg \in sc.speaks[n]
      BY <1>5 DEF Key
    <2> DEFINE msgs == [p \in Peers(n) |->
                   OnLocalTalkerStart(n, p, tg, n, lk[n]) \o OnLocalAudio(n, p, tg, n, lk[n])]
    <2>2. ASSUME NEW p \in Peers(n)
          PROVE msgs[p] \in Seq(Expected(sc, n, p, carried, heardFrom))
      BY <1>3, <2>1, Queues
    <2>3. SendAfter(n, None, msgs) /\ UNCHANGED <<sc, lk, links>>
          /\ talker' = [talker EXCEPT ![n][tg] = n]
      BY <1>5 DEF Key
    <2> HIDE DEF msgs
    <2>4. ChanExpected(carried, heardFrom)'
      BY <1>1, <2>2, <2>3, SendExpected
    <2> QED BY <1>1, <1>2, <2>1, <2>3, <2>4, EchoStep
  <1>6. CASE Talk(n, tg)
    <2>1. tg \in sc.speaks[n]
      BY <1>4, <1>6 DEF Talk
    <2> DEFINE msgs == [p \in Peers(n) |-> OnLocalAudio(n, p, tg, n, lk[n])]
    <2>2. ASSUME NEW p \in Peers(n)
          PROVE msgs[p] \in Seq(Expected(sc, n, p, carried, heardFrom))
      BY <1>3, <2>1
    <2>3. SendAfter(n, None, msgs) /\ UNCHANGED <<sc, lk, links, talker>>
      BY <1>6 DEF Talk
    <2> HIDE DEF msgs
    <2>4. ChanExpected(carried, heardFrom)'
      BY <1>1, <2>2, <2>3, SendExpected
    <2> QED BY <1>2, <2>3, <2>4, EchoStep
  <1>7. CASE Unkey(n, tg)
    <2> DEFINE msgs == [p \in Peers(n) |-> OnLocalTalkerStop(n, p, tg, lk[n])]
    <2>2. ASSUME NEW p \in Peers(n)
          PROVE msgs[p] \in Seq(Expected(sc, n, p, carried, heardFrom))
      BY <1>1, StopsExpected
    <2>3. SendAfter(n, None, msgs) /\ UNCHANGED <<sc, lk, links>>
          /\ talker' = [talker EXCEPT ![n][tg] = None]
      BY <1>7 DEF Unkey
    <2> HIDE DEF msgs
    <2>4. ChanExpected(carried, heardFrom)'
      BY <1>1, <2>2, <2>3, SendExpected
    <2> QED BY <1>1, <1>2, <2>3, <2>4, EchoStep
  <1>8. CASE Tune(n, tg)
    <2>1. ChanExpected(carried, heardFrom)'
      BY <1>8 DEF Tune, EchoInv, ChanExpected, Peers
    <2> QED BY <1>2, <1>8, <2>1, EchoStep DEF Tune
  <1> QED BY <1>5, <1>6, <1>7, <1>8

\* What c says on tg and n has heard from p goes on to every other peer that
\* the relay serves.
LEMMA RelayExpected ==
    ASSUME TypeInv, NEW carried, NEW heardFrom, EchoInv(carried, heardFrom),
           NEW n \in Nodes, NEW p \in Peers(n), NEW tg \in TGs, NEW c \in Nodes \ {n},
           p \in heardFrom[n][tg][c],
           NEW ls, \A q \in Peers(n) : ls[q].interested \subseteq carried[n][q]
    PROVE  \A q \in Peers(n) :
             /\ Relay(n, p, tg, [r \in Peers(n) |-> OnLocalTalkerStart(n, r, tg, c, ls)])[q]
                   \in Seq(Expected(sc, n, q, carried, heardFrom))
             /\ Relay(n, p, tg, [r \in Peers(n) |-> OnLocalAudio(n, r, tg, c, ls)])[q]
                   \in Seq(Expected(sc, n, q, carried, heardFrom))
  <1> SUFFICES ASSUME NEW q \in Peers(n)
        PROVE /\ Relay(n, p, tg, [r \in Peers(n) |-> OnLocalTalkerStart(n, r, tg, c, ls)])[q]
                   \in Seq(Expected(sc, n, q, carried, heardFrom))
              /\ Relay(n, p, tg, [r \in Peers(n) |-> OnLocalAudio(n, r, tg, c, ls)])[q]
                   \in Seq(Expected(sc, n, q, carried, heardFrom))
    OBVIOUS
  <1> DEFINE E == Expected(sc, n, q, carried, heardFrom)
  <1>1. <<>> \in Seq(E)
    BY NoMessage
  <1>2. ASSUME Relays(n, tg), q # p
        PROVE  /\ OnLocalTalkerStart(n, q, tg, c, ls) \in Seq(E)
               /\ OnLocalAudio(n, q, tg, c, ls) \in Seq(E)
    <2>1. MayRelay(sc, n, tg)
      <3>1. AllPrefixes(n) = Known(sc, n, links[n])
        BY DEF AllPrefixes, Known, Config
      <3>2. links[n] \in LinksLeft(sc, n)
        BY DEF EchoInv
      <3> QED BY <1>2, <3>1, <3>2 DEF Relays, MayRelay, Config
    <2> DEFINE out == Translate(sc.config[n].route, tg)
    <2>2. out \in carried[n][q] =>
             c # q /\ n \in heardFrom[q][AtPeer(sc, n, q, out)][c]
      BY <1>2, <2>1 DEF EchoInv, Flows, Peers
    <2> QED BY <2>2, TalkExpected
  <1> HIDE DEF E
  <1>3. /\ Relay(n, p, tg, [r \in Peers(n) |-> OnLocalTalkerStart(n, r, tg, c, ls)])[q] \in Seq(E)
        /\ Relay(n, p, tg, [r \in Peers(n) |-> OnLocalAudio(n, r, tg, c, ls)])[q] \in Seq(E)
    BY <1>1, <1>2 DEF Relay
  <1> QED BY <1>3 DEF E

\* What was expected makes the peer interested in what is carried anyway, and
\* is relayed where it is expected from here.
LEMMA EchoReceive ==
    ASSUME TypeInv, NEW carried, NEW heardFrom, EchoInv(carried, heardFrom),
           NEW n \in Nodes, NEW p \in Peers(n), Receive(n, p)
    PROVE  EchoInv(carried, heardFrom)'
  <1>1. /\ sc \in Scenarios
        /\ talker \in [Nodes -> [TGs -> Nodes \cup {None}]]
        /\ lk[n] \in [Peers(n) -> LinkState]
        /\ \A a \in Nodes : lk[a] \in [Peers(a) -> LinkState]
        /\ lk = [a \in Nodes |-> lk[a]]
    BY DEF TypeInv, TypeOK
  <1>2. p \in Nodes /\ n \in Peers(p)
    BY <1>1, PeersAreNodes
  <1>3. PICK m : m = Head(chan[p][n]) /\ m \in Expected(sc, p, n, carried, heardFrom)
    BY <1>2, Queues DEF Receive, EchoInv
  <1>4. \A a \in Nodes : a = p /\ n \in Peers(a) => chan[a][n] # <<>>
    BY DEF Receive
  <1>5. Handle(n, p, m) /\ UNCHANGED <<sc, links>>
    BY <1>3 DEF Receive
  <1>6. \A a \in Nodes : \A b \in Peers(a) : lk[a][b].interested \subseteq carried[a][b]
    BY DEF EchoInv
  <1> DEFINE none == [q \in Peers(n) |-> <<>>]
  <1>7. ASSUME SendAfter(n, p, none) PROVE ChanExpected(carried, heardFrom)'
    <2>1. \A q \in Peers(n) : none[q] \in Seq(Expected(sc, n, q, carried, heardFrom))
      BY NoMessage
    <2> QED BY <1>2, <1>4, <1>5, <1>7, <2>1, SendExpected
  <1> HIDE DEF none
  <1>8. ASSUME NEW state, lk' = [lk EXCEPT ![n] = state],
               \A q \in Peers(n) : state[q].interested \subseteq carried[n][q]
        PROVE  \A a \in Nodes : \A b \in Peers(a) : lk'[a][b].interested \subseteq carried[a][b]
    BY <1>1, <1>6, <1>8
  <1>9. ASSUME SendAfter(n, p, none), UNCHANGED <<talker, lk>>
        PROVE  EchoInv(carried, heardFrom)'
    BY <1>5, <1>6, <1>7, <1>9, EchoStep
  <1>10. CASE Refuse(n, p)
    BY <1>9, <1>10 DEF Refuse, none
  <1>11. CASE IgnoreStart(n, p, m)
    BY <1>9, <1>11 DEF IgnoreStart, none
  <1>12. CASE m.type = "TgInterest" /\ HandleTgInterest(n, p, m)
    <2> DEFINE new == {Translate(Config[n].link[p].mapIn, tg) : tg \in m.tgs}
               state == [lk[n] EXCEPT ![p].interested = @ \cup new]
    <2>1. /\ lk' = [lk EXCEPT ![n][p].interested = @ \cup new]
          /\ UNCHANGED talker
          /\ SendAfter(n, p, none)
      BY <1>12 DEF HandleTgInterest, none
    <2>2. new \subseteq carried[n][p]
      BY <1>3, <1>12 DEF Expected, Config
    <2> HIDE DEF new
    <2>3. lk' = [lk EXCEPT ![n] = state]
      BY <2>1
    <2>4. \A q \in Peers(n) : state[q].interested \subseteq carried[n][q]
      BY <1>1, <1>6, <2>2 DEF LinkState
    <2> HIDE DEF state
    <2>5. \A a \in Nodes : \A b \in Peers(a) : lk'[a][b].interested \subseteq carried[a][b]
      BY <1>8, <2>3, <2>4
    <2> QED BY <1>5, <1>7, <2>1, <2>5, EchoStep
  <1>13. ASSUME m.type \in {"TalkerStart", "TalkerStop", "Audio"}
         PROVE  LocalTG(n, p, m) \in TGs
    <2>1. m.tg \in TGs
      BY <1>3, <1>13 DEF Messages, Expected
    <2> QED BY <1>1, <2>1, NumbersTyped DEF LocalTG
  <1>14. ASSUME m.type \in {"TalkerStart", "Audio"}
         PROVE  /\ m.callsign \in Nodes \ {n}
                /\ LocalTG(n, p, m) \in carried[n][p]
                /\ p \in heardFrom[n][LocalTG(n, p, m)][m.callsign]
    BY <1>3, <1>14 DEF Messages, Expected, LocalTG, Config
  <1>15. CASE m.type = "TalkerStart" /\ AcceptStart(n, p, m)
    <2> DEFINE tg == LocalTG(n, p, m)
               deliver == DeliverTG(n, tg)
               yields == talker[n][deliver] # None
               yielding == IF yields THEN [lk[n] EXCEPT ![p].yielded = @ \cup {deliver}]
                           ELSE lk[n]
               after == [yielding EXCEPT ![p].active = @ \cup {tg},
                                         ![p].interested = @ \cup {tg}]
               starts == [q \in Peers(n) |-> OnLocalTalkerStart(n, q, tg, m.callsign, after)]
               relayed == Relay(n, p, tg, starts)
               sent == [q \in Peers(n) |->
                   (IF yields THEN OnLocalTalkerStop(n, q, deliver, yielding) ELSE <<>>)
                       \o relayed[q]]
    <2>1. /\ talker' = [talker EXCEPT ![n][deliver] = None]
          /\ lk' = [lk EXCEPT ![n] = after]
          /\ SendAfter(n, p, sent)
      BY <1>15 DEF AcceptStart
    <2>2. /\ tg \in TGs /\ deliver \in TGs /\ tg \in carried[n][p]
          /\ m.callsign \in Nodes \ {n} /\ p \in heardFrom[n][tg][m.callsign]
      BY <1>1, <1>13, <1>14, <1>15, NumbersTyped
    <2> HIDE DEF tg, deliver
    <2>3. /\ yielding \in [Peers(n) -> LinkState]
          /\ \A q \in Peers(n) : yielding[q].interested = lk[n][q].interested
      <3>1. CASE ~yields
        BY <1>1, <3>1
      <3>2. CASE yields
        <4>1. yielding = [lk[n] EXCEPT ![p].yielded = @ \cup {deliver}]
          BY <3>2
        <4> HIDE DEF yielding, yields
        <4> QED BY <1>1, <2>2, <4>1 DEF LinkState
      <3> QED BY <3>1, <3>2
    <2> HIDE DEF yielding, yields
    <2>4. \A q \in Peers(n) : after[q].interested \subseteq carried[n][q]
      <3>1. \A q \in Peers(n) : q # p => after[q] = yielding[q]
        BY <2>3
      <3>2. after[p].interested = yielding[p].interested \cup {tg}
        BY <2>3 DEF LinkState
      <3> HIDE DEF after
      <3> QED BY <1>6, <2>2, <2>3, <3>1, <3>2
    <2> HIDE DEF after
    <2>5. \A q \in Peers(n) : relayed[q] \in Seq(Expected(sc, n, q, carried, heardFrom))
      BY <2>2, <2>4, RelayExpected
    <2> HIDE DEF relayed
    <2>6. ASSUME NEW q \in Peers(n)
          PROVE  sent[q] \in Seq(Expected(sc, n, q, carried, heardFrom))
      <3> DEFINE E == Expected(sc, n, q, carried, heardFrom)
                 first == IF yields THEN OnLocalTalkerStop(n, q, deliver, yielding) ELSE <<>>
      <3>1. OnLocalTalkerStop(n, q, deliver, yielding) \in Seq(E) /\ relayed[q] \in Seq(E)
        BY <1>1, <2>2, <2>5, StopsExpected
      <3>2. <<>> \in Seq(E)
        BY NoMessage
      <3>3. sent[q] = first \o relayed[q]
        OBVIOUS
      <3> HIDE DEF E, sent
      <3>4. first \in Seq(E)
        BY <3>1, <3>2
      <3> HIDE DEF first
      <3>5. sent[q] \in Seq(E)
        BY <3>1, <3>3, <3>4, Queues
      <3> QED BY <3>5 DEF E
    <2> HIDE DEF sent
    <2>7. ChanExpected(carried, heardFrom)'
      BY <1>2, <1>4, <1>5, <2>1, <2>6, SendExpected
    <2>8. \A a \in Nodes : \A b \in Peers(a) : lk'[a][b].interested \subseteq carried[a][b]
      BY <1>8, <2>1, <2>4
    <2> QED BY <1>1, <1>5, <2>1, <2>2, <2>7, <2>8, EchoStep
  <1>16. CASE m.type = "TalkerStop" /\ HandleStop(n, p, m)
    <2> DEFINE tg == LocalTG(n, p, m)
               deliver == DeliverTG(n, tg)
               after == [lk[n] EXCEPT ![p].yielded = @ \ {deliver}, ![p].active = @ \ {tg}]
               stops == [q \in Peers(n) |-> OnLocalTalkerStop(n, q, tg, after)]
    <2>1. /\ lk' = [lk EXCEPT ![n] = after]
          /\ SendAfter(n, p, Relay(n, p, tg, stops))
          /\ UNCHANGED talker
      BY <1>16 DEF HandleStop
    <2>2. tg \in TGs
      BY <1>13, <1>16
    <2> HIDE DEF tg, deliver
    <2>3. \A q \in Peers(n) : after[q].interested = lk[n][q].interested
      BY <1>1 DEF LinkState
    <2> HIDE DEF after
    <2>4. \A q \in Peers(n) : stops[q] \in Seq(Expected(sc, n, q, carried, heardFrom))
      BY <1>1, <2>2, StopsExpected
    <2> HIDE DEF stops
    <2>5. \A q \in Peers(n) : Relay(n, p, tg, stops)[q]
                   \in Seq(Expected(sc, n, q, carried, heardFrom))
      BY <2>4, NoMessage DEF Relay
    <2>6. ChanExpected(carried, heardFrom)'
      BY <1>2, <1>4, <1>5, <2>1, <2>5, SendExpected
    <2>7. \A a \in Nodes : \A b \in Peers(a) : lk'[a][b].interested \subseteq carried[a][b]
      BY <1>6, <1>8, <2>1, <2>3
    <2> QED BY <1>5, <2>1, <2>6, <2>7, EchoStep
  <1>17. CASE m.type = "Audio" /\ HandleAudio(n, p, m)
    <2> DEFINE tg == LocalTG(n, p, m)
               after == [lk[n] EXCEPT ![p].interested = @ \cup {tg}]
               audio == [q \in Peers(n) |-> OnLocalAudio(n, q, tg, m.callsign, after)]
    <2>1. CASE tg \notin lk[n][p].active
      BY <1>9, <1>17, <2>1 DEF HandleAudio, none
    <2>2. CASE tg \in lk[n][p].active
      <3>1. /\ lk' = [lk EXCEPT ![n] = after]
            /\ SendAfter(n, p, Relay(n, p, tg, audio))
            /\ UNCHANGED <<talker, trunkTalker>>
        BY <1>17, <2>2 DEF HandleAudio
      <3>2. /\ tg \in TGs /\ tg \in carried[n][p]
            /\ m.callsign \in Nodes \ {n} /\ p \in heardFrom[n][tg][m.callsign]
        BY <1>13, <1>14, <1>17
      <3> HIDE DEF tg
      <3>3. \A q \in Peers(n) : after[q].interested \subseteq carried[n][q]
        BY <1>1, <1>6, <3>2 DEF LinkState
      <3> HIDE DEF after
      <3>4. \A q \in Peers(n) : Relay(n, p, tg, audio)[q]
                     \in Seq(Expected(sc, n, q, carried, heardFrom))
        BY <3>2, <3>3, RelayExpected
      <3> HIDE DEF audio
      <3>5. ChanExpected(carried, heardFrom)'
        BY <1>2, <1>4, <1>5, <3>1, <3>4, SendExpected
      <3>6. \A a \in Nodes : \A b \in Peers(a) : lk'[a][b].interested \subseteq carried[a][b]
        BY <1>8, <3>1, <3>3
      <3> QED BY <1>5, <3>1, <3>5, <3>6, EchoStep
    <2> QED BY <2>1, <2>2
  <1> QED BY <1>5, <1>10, <1>11, <1>12, <1>15, <1>16, <1>17 DEF Handle

\* The TGs advertised to a peer are those it owns or is the next hop to, and
\* those may be sent to it without being asked for.
LEMMA EchoAdvertise ==
    ASSUME TypeInv, NEW carried, NEW heardFrom, EchoInv(carried, heardFrom),
           NEW n \in Nodes, NEW p \in Peers(n), Advertise(n, p)
    PROVE  EchoInv(carried, heardFrom)'
  <1>1. /\ sc \in Scenarios /\ p \in Nodes /\ n \in Peers(p)
        /\ listening[n] \subseteq TGs
        /\ \A q \in links[n] : q \in Peers(n) /\ lk[n][q].interested \subseteq TGs
        /\ \A a \in Nodes : lk[a] \in [Peers(a) -> LinkState]
        /\ lk = [a \in Nodes |-> lk[a]]
    <2>1. \A q \in Peers(n) : lk[n][q].interested \subseteq TGs
      BY DEF TypeInv, TypeOK, LinkState
    <2> QED BY <2>1, PeersAreNodes DEF TypeInv, TypeOK
  <1> DEFINE out == OutgoingInterest(n, p)
             told == {Translate(Config[n].link[p].mapOut, tg) : tg \in out}
             msgs == [q \in Peers(n) |-> IF q # p THEN <<>> ELSE <<TgInterest(told)>>]
             E == Expected(sc, n, p, carried, heardFrom)
  <1>2. out \subseteq TGs /\ \A tg \in out : Shared(n, p, tg)
    BY <1>1 DEF OutgoingInterest
  <1>3. /\ lk' = [lk EXCEPT ![n][p].lastSent = out]
        /\ SendAfter(n, None, msgs)
        /\ UNCHANGED <<sc, talker, links>>
    BY DEF Advertise
  <1> HIDE DEF out
  <1>4. ASSUME NEW tg \in out PROVE AtPeer(sc, n, p, tg) \in carried[p][n]
    <2>1. AllPrefixes(n) = Known(sc, n, links[n])
      BY DEF AllPrefixes, Known, Config
    <2>2. links[n] \in LinksLeft(sc, n)
      BY DEF EchoInv
    <2>3. MaySend(sc, n, p, tg)
      BY <1>2, <2>1, <2>2 DEF Shared, MaySend, Config
    <2> QED BY <1>2, <2>3 DEF EchoInv, Carries, Peers
  <1>5. told \subseteq TGs
    BY <1>1, <1>2, NumbersTyped
  <1>6. \A w \in told : Translate(sc.config[p].link[n].mapIn, w) \in carried[p][n]
    BY <1>4 DEF AtPeer, Config
  <1> HIDE DEF told
  <1>7. TgInterest(told) \in E
    BY <1>5, <1>6 DEF Expected, TgInterest, Messages
  <1> HIDE DEF E
  <1>8. <<TgInterest(told)>> \in Seq(E)
    BY <1>7, OneMessage
  <1>9. \A q \in Peers(n) : msgs[q] \in Seq(Expected(sc, n, q, carried, heardFrom))
    BY <1>8, NoMessage DEF E
  <1> HIDE DEF msgs
  <1>10. ChanExpected(carried, heardFrom)'
    BY <1>3, <1>9, NoneAssumption, SendExpected
  <1>11. \A a \in Nodes : \A b \in Peers(a) : lk'[a][b].interested = lk[a][b].interested
    BY <1>1, <1>3 DEF LinkState
  <1> QED BY <1>3, <1>10, <1>11, EchoStep DEF EchoInv

\* What a link that is gone told n is forgotten, and what n knew from it.
LEMMA EchoLinkGone ==
    ASSUME TypeInv, NEW carried, NEW heardFrom, EchoInv(carried, heardFrom),
           NEW n \in Nodes, NEW p \in Peers(n),
           UNCHANGED <<sc, talker>>,
           links' = links \/ (links' = [links EXCEPT ![n] = @ \ {p}] /\ <<n, p>> \in sc.removals),
           lk' = [lk EXCEPT ![n][p] = Fresh],
           chan' = [chan EXCEPT ![p][n] = <<>>]
    PROVE  EchoInv(carried, heardFrom)'
  <1>1. \A a \in Nodes : links'[a] \in LinksLeft(sc', a)
    <2>1. CASE links' = links
      BY <2>1 DEF EchoInv, LinksLeft
    <2>2. CASE links' = [links EXCEPT ![n] = @ \ {p}] /\ <<n, p>> \in sc.removals
      BY <2>2 DEF EchoInv, LinksLeft, TypeInv
    <2> QED BY <2>1, <2>2
  <1>2. \A a \in Nodes : \A b \in Peers(a) : lk'[a][b].interested \subseteq carried[a][b]
    <2>1. \A a \in Nodes : \A b \in Peers(a) : lk'[a][b] = lk[a][b] \/ lk'[a][b] = Fresh
      BY DEF TypeInv, TypeOK
    <2> QED BY <2>1 DEF EchoInv, Fresh
  <1>3. ChanExpected(carried, heardFrom)'
    <2> SUFFICES ASSUME NEW a \in Nodes, NEW b \in Peers(a)
                 PROVE  chan'[a][b] \in Seq(Expected(sc, a, b, carried, heardFrom))
      BY DEF ChanExpected, Peers
    <2>1. chan'[a][b] = chan[a][b] \/ chan'[a][b] = <<>>
      OBVIOUS
    <2> QED BY <2>1, NoMessage DEF EchoInv
  <1> QED BY <1>1, <1>2, <1>3 DEF EchoInv, ChanExpected, Peers

LEMMA EchoLink ==
    ASSUME TypeInv, NEW carried, NEW heardFrom, EchoInv(carried, heardFrom),
           NEW n \in Nodes, NEW p \in Peers(n),
           \/ \E tg \in TGs : ExpireInterest(n, p, tg)
           \/ LoseLink(n, p)
           \/ RestoreLink(n, p)
           \/ RemoveTrunkLink(n, p)
    PROVE  EchoInv(carried, heardFrom)'
  <1>1. CASE LoseLink(n, p)
    BY <1>1, EchoLinkGone DEF LoseLink
  <1>2. CASE RemoveTrunkLink(n, p)
    BY <1>2, EchoLinkGone DEF RemoveTrunkLink
  <1>3. CASE RestoreLink(n, p)
    BY <1>3, EchoStep DEF RestoreLink, EchoInv, ChanExpected, Peers
  <1>4. ASSUME NEW tg \in TGs, ExpireInterest(n, p, tg) PROVE EchoInv(carried, heardFrom)'
    <2>1. lk' = [lk EXCEPT ![n][p].interested = @ \ {tg}] /\ UNCHANGED <<sc, talker, links, chan>>
      BY <1>4 DEF ExpireInterest
    <2>2. \A a \in Nodes : \A b \in Peers(a) : lk'[a][b].interested \subseteq lk[a][b].interested
      BY <2>1 DEF TypeInv, TypeOK, LinkState
    <2>3. ChanExpected(carried, heardFrom)'
      BY <2>1 DEF EchoInv, ChanExpected, Peers
    <2>4. \A a \in Nodes : \A b \in Peers(a) : lk'[a][b].interested \subseteq carried[a][b]
      BY <2>2 DEF EchoInv
    <2> QED BY <2>1, <2>3, <2>4, EchoStep
  <1> QED BY <1>1, <1>2, <1>3, <1>4

LEMMA NoEchoInvNext == NoEchoInv /\ [Next]_vars => NoEchoInv'
  <1> SUFFICES ASSUME NoEchoInv, [Next]_vars PROVE NoEchoInv'
    OBVIOUS
  <1>1. TypeInv /\ TypeInv'
    BY TypeInvNext DEF NoEchoInv
  <1>2. PICK carried, heardFrom :
            Witnesses(carried, heardFrom) /\ EchoInv(carried, heardFrom)
    BY DEF NoEchoInv
  <1>3. EchoInv(carried, heardFrom)'
    <2>1. CASE UNCHANGED vars
      BY <1>2, <2>1 DEF vars, EchoInv, Peers
    <2>2. CASE ClientStep
      BY <1>1, <1>2, <2>2, EchoClient DEF ClientStep
    <2>3. CASE LinkStep
      BY <1>1, <1>2, <2>3, EchoReceive, EchoAdvertise, EchoLink DEF LinkStep
    <2> QED BY <2>1, <2>2, <2>3 DEF Next
  <1> QED BY <1>1, <1>2, <1>3 DEF NoEchoInv, Witnesses

\* Loop safety (docs/PEER_PROTOCOL.md): if what the routing permits does not lead
\* a client's talk back to its reflector, then interest, aliases, cluster TGs,
\* relays in any order and links that come, go and are removed do not either.
THEOREM LoopFreeMeansNoEcho == (\A s \in Scenarios : LoopFree(s)) => (Spec => []NoEcho)
  <1> SUFFICES ASSUME \A s \in Scenarios : LoopFree(s) PROVE Spec => []NoEcho
    OBVIOUS
  <1>1. Init => NoEchoInv
    BY EchoInit
  <1> QED BY <1>1, EchoGone, NoEchoInvNext, PTL DEF Spec

\* In a tree all may be carried: what c says comes from the next reflector
\* towards c, and so it only moves away.
LEMMA TreesAreLoopFree ==
    ASSUME NEW s \in Scenarios, TrunkTree(s)
    PROVE  LoopFree(s)
  <1>1. PICK hop \in [Nodes -> [Nodes -> Nodes \cup {None}]] :
            \A n, c \in Nodes : \A p \in PeersIn(s, n) :
                IF n = c THEN hop[p][c] = n
                ELSE hop[n][c] = p \/ (hop[p][c] = n /\ p # c)
    BY DEF TrunkTree
  <1> DEFINE carried == [n \in Nodes |-> [p \in Nodes |-> TGs]]
             heardFrom == [n \in Nodes |-> [tg \in TGs |-> [c \in Nodes |->
                              {q \in Nodes : q = hop[n][c]}]]]
  <1>2. /\ carried \in [Nodes -> [Nodes -> SUBSET TGs]]
        /\ \A n, p \in Nodes : carried[n][p] = TGs
        /\ heardFrom \in [Nodes -> [TGs -> [Nodes -> SUBSET Nodes]]]
        /\ \A n, c, q \in Nodes : \A tg \in TGs : q \in heardFrom[n][tg][c] <=> q = hop[n][c]
    OBVIOUS
  <1> HIDE DEF carried, heardFrom
  <1>3. \A n \in Nodes : \A p \in PeersIn(s, n) :
            /\ p \in Nodes /\ n \in PeersIn(s, p)
            /\ \A tg \in TGs : AtPeer(s, n, p, tg) \in TGs
    BY PeersAssumption, NumbersAssumption DEF AtPeer
  <1>4. Carries(s, carried)
    BY <1>2, <1>3 DEF Carries
  <1>5. Flows(s, carried, heardFrom)
    <2> SUFFICES ASSUME NEW n \in Nodes, NEW p \in PeersIn(s, n),
                        NEW there \in TGs, NEW tg \in TGs
                 PROVE  /\ n \in heardFrom[p][there][n]
                        /\ \A c \in Nodes \ {n} : \A q \in heardFrom[n][tg][c] \ {p} :
                              n \in heardFrom[p][there][c] /\ p # c
      <3> SUFFICES ASSUME NEW n \in Nodes, NEW p \in PeersIn(s, n), NEW tg \in TGs
                   PROVE  LET out == Translate(s.config[n].route, tg)
                              there == AtPeer(s, n, p, out)
                          IN  /\ n \in heardFrom[p][there][n]
                              /\ \A c \in Nodes \ {n} : \A q \in heardFrom[n][tg][c] \ {p} :
                                    n \in heardFrom[p][there][c] /\ p # c
        BY DEF Flows
      <3>1. Translate(s.config[n].route, tg) \in TGs
        BY NumbersAssumption
      <3>2. AtPeer(s, n, p, Translate(s.config[n].route, tg)) \in TGs
        BY <1>3, <3>1
      <3> QED BY <3>2
    <2>1. n \in heardFrom[p][there][n]
      BY <1>1, <1>2, <1>3
    <2>2. ASSUME NEW c \in Nodes \ {n}, NEW q \in heardFrom[n][tg][c] \ {p}
          PROVE  n \in heardFrom[p][there][c] /\ p # c
      <3>1. q = hop[n][c]
        BY <1>2
      <3>2. hop[p][c] = n /\ p # c
        BY <1>1, <3>1
      <3> QED BY <1>2, <1>3, <3>2
    <2> QED BY <2>1, <2>2
  <1> QED BY <1>2, <1>4, <1>5 DEF LoopFree

\* Prefixes of a TG that are of one length are one prefix.
LEMMA LongestClaim ==
    ASSUME NEW p \in Seq(Nat), NEW q \in Seq(Nat), NEW tg,
           IsPrefix(p, tg), IsPrefix(q, tg), Len(p) <= Len(q), Len(q) <= Len(p)
    PROVE  p = q
  <1>1. Len(p) = Len(q)
    BY LenProperties
  <1>2. SubSeq(p, 1, Len(p)) = SubSeq(q, 1, Len(q))
    BY <1>1 DEF IsPrefix
  <1> QED BY <1>2, SubSeqFull

\* The owner of a TG, and what a reflector of a full mesh may do with it.
AllOwned(s) == UNION {s.config[n].local : n \in Nodes}

Owns(s, n, tg) == IsLocalTG(s.config[n].local, AllOwned(s), tg)

\* No two reflectors have the longest claim.
LEMMA OneOwner ==
    ASSUME NEW s, FullMesh(s), NEW n \in Nodes, NEW p \in Nodes, NEW tg,
           Owns(s, n, tg), Owns(s, p, tg)
    PROVE  n = p
  <1>1. PICK x \in Claims(s.config[n].local, tg) : IsLongest(x, AllOwned(s), tg)
    BY DEF Owns, IsLocalTG
  <1>2. PICK y \in Claims(s.config[p].local, tg) : IsLongest(y, AllOwned(s), tg)
    BY DEF Owns, IsLocalTG
  <1>3. x \in Seq(Nat) /\ y \in Seq(Nat) /\ IsPrefix(x, tg) /\ IsPrefix(y, tg)
    BY DEF Claims, FullMesh
  <1>4. Len(x) <= Len(y) /\ Len(y) <= Len(x)
    BY <1>1, <1>2 DEF IsLongest, Claims, AllOwned
  <1>5. x = y
    BY <1>3, <1>4, LongestClaim
  <1> QED BY <1>5 DEF Claims, FullMesh

\* Only cluster TGs and TGs of the peer are sent unasked, and cluster TGs are
\* not relayed but by their owner.
LEMMA MeshRouting ==
    ASSUME NEW s, FullMesh(s), NEW n \in Nodes, NEW p \in PeersIn(s, n), NEW tg
    PROVE  /\ p \in Nodes \ {n}
           /\ Translate(s.config[n].route, tg) = tg /\ AtPeer(s, n, p, tg) = tg
           /\ MaySend(s, n, p, tg) => tg \in s.config[n].cluster \/ Owns(s, p, tg)
           /\ MayRelay(s, n, tg) => Owns(s, n, tg) \/ tg \notin s.config[n].cluster
  <1> DEFINE link == s.config[n].link[p]
  <1>1. /\ p \in Nodes \ {n} /\ DOMAIN s.config[n].route = {}
        /\ link.remote = s.config[p].local /\ link.routable = {} /\ ~link.wildcard
        /\ DOMAIN link.mapOut = {} /\ DOMAIN s.config[p].link[n].mapIn = {}
    BY DEF FullMesh
  <1>2. Translate(s.config[n].route, tg) = tg /\ AtPeer(s, n, p, tg) = tg
    BY <1>1 DEF Translate, AtPeer
  <1>3. ASSUME NEW L \in LinksLeft(s, n) PROVE Known(s, n, L) = AllOwned(s)
    <2>1. L = Nodes \ {n}
      BY DEF LinksLeft, FullMesh
    <2>2. \A q \in Nodes \ {n} :
             s.config[n].link[q].remote \cup s.config[n].link[q].routable = s.config[q].local
      BY DEF FullMesh
    <2> QED BY <2>1, <2>2 DEF Known, AllOwned
  <1>4. ASSUME MaySend(s, n, p, tg) PROVE tg \in s.config[n].cluster \/ Owns(s, p, tg)
    <2>1. CASE tg \in DOMAIN link.mapOut
      BY <1>1, <2>1
    <2>2. ASSUME NEW L \in LinksLeft(s, n), IsSharedTG(link, Known(s, n, L), tg)
          PROVE  Owns(s, p, tg)
      BY <1>1, <1>3, <2>2 DEF IsSharedTG, Owns, IsLocalTG, Claims
    <2> QED BY <1>4, <2>1, <2>2 DEF MaySend
  <1>5. ASSUME MayRelay(s, n, tg) PROVE Owns(s, n, tg) \/ tg \notin s.config[n].cluster
    BY <1>3, <1>5 DEF MayRelay, ShouldRelayInbound, Owns
  <1> QED BY <1>1, <1>2, <1>4, <1>5

\* A TG passes only to and from its owner, unless it is a cluster TG; only the
\* owner has anybody to relay to, and what the owner relays is relayed no more.
LEMMA FullMeshesAreLoopFree ==
    ASSUME NEW s \in Scenarios, FullMesh(s)
    PROVE  LoopFree(s)
  <1> DEFINE Passed(n, p, tg) ==
                 /\ n # p
                 /\ Owns(s, n, tg) \/ Owns(s, p, tg) \/ tg \in s.config[n].cluster
             carried == [n \in Nodes |-> [p \in Nodes |-> {tg \in TGs : Passed(n, p, tg)}]]
             heardFrom == [n \in Nodes |-> [tg \in TGs |-> [c \in Nodes |->
                 {q \in Nodes : (q = c \/ Owns(s, q, tg)) /\ Passed(q, n, tg)}]]]
  <1>1. /\ carried \in [Nodes -> [Nodes -> SUBSET TGs]]
        /\ \A n, p \in Nodes : \A tg \in TGs : tg \in carried[n][p] <=> Passed(n, p, tg)
        /\ heardFrom \in [Nodes -> [TGs -> [Nodes -> SUBSET Nodes]]]
        /\ \A n, c, q \in Nodes : \A tg \in TGs :
              q \in heardFrom[n][tg][c] <=> (q = c \/ Owns(s, q, tg)) /\ Passed(q, n, tg)
        /\ \A n, c \in Nodes : \A tg \in TGs : heardFrom[n][tg][c] \subseteq Nodes
    OBVIOUS
  <1> HIDE DEF carried, heardFrom
  <1>2. ASSUME NEW n \in Nodes, NEW p \in PeersIn(s, n), NEW tg \in TGs
        PROVE  /\ MaySend(s, n, p, tg) => Passed(n, p, tg)
               /\ Passed(n, p, tg) => Passed(p, n, tg)
    <2>1. p \in Nodes \ {n} /\ s.config[n].cluster = s.config[p].cluster
      BY DEF FullMesh
    <2> QED BY <2>1, MeshRouting
  <1>3. Carries(s, carried)
    <2> SUFFICES ASSUME NEW n \in Nodes, NEW p \in PeersIn(s, n), NEW tg \in TGs
                 PROVE  /\ MaySend(s, n, p, tg) => tg \in carried[n][p]
                        /\ tg \in carried[n][p] => AtPeer(s, n, p, tg) \in carried[p][n]
      BY DEF Carries
    <2>1. p \in Nodes /\ AtPeer(s, n, p, tg) = tg
      BY MeshRouting
    <2> HIDE DEF Passed
    <2> QED BY <1>1, <1>2, <2>1
  <1>4. Flows(s, carried, heardFrom)
    <2> SUFFICES ASSUME NEW n \in Nodes, NEW p \in PeersIn(s, n), NEW tg \in TGs,
                        tg \in carried[n][p]
                 PROVE  /\ n \in heardFrom[p][tg][n]
                        /\ MayRelay(s, n, tg) =>
                              \A c \in Nodes \ {n} : \A q \in heardFrom[n][tg][c] \ {p} :
                                  n \in heardFrom[p][tg][c] /\ p # c
      BY MeshRouting DEF Flows
    <2>1. p \in Nodes \ {n} /\ Passed(n, p, tg)
      BY <1>1, MeshRouting
    <2>2. n \in heardFrom[p][tg][n]
      BY <1>1, <2>1
    <2>3. ASSUME MayRelay(s, n, tg), NEW c \in Nodes \ {n}, NEW q \in heardFrom[n][tg][c] \ {p}
          PROVE  n \in heardFrom[p][tg][c] /\ p # c
      <3>1. /\ q \in Nodes /\ q # p /\ q # n /\ Passed(q, n, tg)
            /\ q = c \/ Owns(s, q, tg)
        BY <1>1, <2>3
      <3>2. Owns(s, n, tg)
        <4> SUFFICES ASSUME ~Owns(s, n, tg) PROVE FALSE
          OBVIOUS
        <4>1. tg \notin s.config[n].cluster
          BY <2>3, MeshRouting
        <4>2. s.config[q].cluster = s.config[n].cluster
          BY <3>1 DEF FullMesh
        <4>3. Owns(s, p, tg) /\ Owns(s, q, tg)
          BY <2>1, <3>1, <4>1, <4>2
        <4> QED BY <2>1, <3>1, <4>3, OneOwner
      <3>3. q = c
        BY <3>1, <3>2, OneOwner
      <3> QED BY <1>1, <2>1, <3>1, <3>2, <3>3
    <2> QED BY <2>2, <2>3
  <1> QED BY <1>1, <1>3, <1>4 DEF LoopFree

\* What a reflector's client says is never relayed back to it, in a tree of
\* trunks with any configuration and in a full mesh whose reflectors agree on
\* the cluster TGs (shouldRelayInbound relays one that is not agreed on).
THEOREM TreesAndFullMeshesDoNotEcho ==
    (\A s \in Scenarios : FullMesh(s) \/ TrunkTree(s)) => (Spec => []NoEcho)
  BY LoopFreeMeansNoEcho, TreesAreLoopFree, FullMeshesAreLoopFree

-----------------------------------------------------------------------------
(* Followed talkers. In a routed mesh, the messages about a TG go along one *)
(* tree, from the reflector whose client talks to all that listen. At every *)
(* edge of it, the last claim under way, or else what the hearer holds, is  *)
(* what the teller holds; at rest all hold the same.                       *)

LinksUp ==
    \A n \in Nodes : links[n] = Peers(n) /\ \A p \in Peers(n) : up[n][p] /\ lk[n][p].yielded = {}

IsTalk(m, tg) == m.type # "TgInterest" /\ m.tg = tg
IsClaim(m, tg) == m.type \in {"TalkerStart", "TalkerStop"} /\ m.tg = tg
Says(m) == IF m.type = "TalkerStart" THEN m.callsign ELSE None

\* Whoever holds r and hears all of q then holds v.
LeadsTo(q, tg, r, v) ==
    /\ (\A i \in DOMAIN q : ~IsClaim(q[i], tg)) => r = v
    /\ \A i \in DOMAIN q :
          IsClaim(q[i], tg) /\ (\A j \in DOMAIN q : j > i => ~IsClaim(q[j], tg)) => Says(q[i]) = v

\* The messages p may hear from n.
Telling(s, n, p) ==
    {m \in Messages : IF m.type = "TgInterest" THEN \A tg \in m.tgs : NextHop(s, n, p, tg)
                      ELSE MayPass(s, n, p, m.tg)}

Announced(q, tg) == \E i \in DOMAIN q : q[i].type = "TgInterest" /\ tg \in q[i].tgs

InterestInv ==
    \A n \in Nodes : \A p \in Peers(n) :
        /\ chan[n][p] \in Seq(Telling(sc, n, p))
        /\ \A tg \in lk[n][p].lastSent :
              NextHop(sc, n, p, tg) /\ (tg \in lk[p][n].interested \/ Announced(chan[n][p], tg))
        /\ \A tg \in lk[n][p].interested : MayPass(sc, n, p, tg)

Silence(tg) == {m \in Messages : ~IsTalk(m, tg)}

Silent(tg) ==
    /\ \A n \in Nodes : talker[n][tg] = None /\ trunkTalker[n][tg] = None
    /\ \A n \in Nodes : \A p \in Peers(n) : chan[n][p] \in Seq(Silence(tg))

View(n, c, tg) == IF n = c THEN talker[n][tg] ELSE trunkTalker[n][tg]

Along(a, b, tg, hop) == {m \in Messages : IsTalk(m, tg) => hop[b] = a}

Followed(tg, span, c, hop) ==
    /\ \A n \in Nodes \ {c} : talker[n][tg] = None
    /\ trunkTalker[c][tg] = None
    /\ \A a \in Nodes : \A b \in Peers(a) : chan[a][b] \in Seq(Along(a, b, tg, hop))
    /\ \A b \in span \ {c} : LeadsTo(chan[hop[b]][b], tg, View(b, c, tg), View(hop[b], c, tg))

\* The next hops have been asked for tg, and know.
Asked(tg, span) ==
    \A n \in span : \A p \in Peers(n) :
        NextHop(sc, n, p, tg) => tg \in lk[n][p].lastSent /\ tg \in lk[p][n].interested

FollowedSomehow(tg) ==
    \E span \in SUBSET Nodes :
        /\ Spans(sc, tg, span) /\ Asked(tg, span)
        /\ \E c \in Listeners(sc, tg) : \E hop \in [Nodes -> Nodes \cup {None}] :
              Reaches(sc, tg, span, c, hop) /\ Followed(tg, span, c, hop)

OwnTalkers == \A n \in Nodes, tg \in TGs : talker[n][tg] \in {n, None}

Following(tg) == Silent(tg) \/ FollowedSomehow(tg)

Settled ==
    /\ LinksUp /\ InterestInv /\ OwnTalkers
    /\ Routed(sc) /\ listening = sc.listening

FollowInv ==
    sc.patient /\ losses = 0 => Settled /\ \A tg \in TGs : Following(tg)

\* What LeadsTo says of no message, of more messages, and once one is read.
LEMMA LeadsNowhere == ASSUME NEW tg, NEW r, NEW v PROVE LeadsTo(<<>>, tg, r, v) <=> r = v
  BY DEF LeadsTo

LEMMA LeadsAppend ==
    ASSUME NEW q \in Seq(Messages), NEW t \in Seq(Messages), NEW tg, NEW r, NEW v, NEW w,
           LeadsTo(q, tg, r, v), LeadsTo(t, tg, v, w)
    PROVE  LeadsTo(q \o t, tg, r, w)
  <1> DEFINE u == q \o t
  <1>1. /\ u \in Seq(Messages) /\ Len(u) = Len(q) + Len(t)
        /\ \A i \in DOMAIN q : i \in DOMAIN u /\ u[i] = q[i]
        /\ \A i \in DOMAIN t : Len(q) + i \in DOMAIN u /\ u[Len(q) + i] = t[i]
        /\ \A i \in DOMAIN u : i \in DOMAIN q \/ (i - Len(q) \in DOMAIN t /\ u[i] = t[i - Len(q)])
        /\ DOMAIN q = 1..Len(q) /\ DOMAIN t = 1..Len(t) /\ DOMAIN u = 1..Len(u)
        /\ Len(q) \in Nat /\ Len(t) \in Nat
    OBVIOUS
  <1> HIDE DEF u
  <1>2. ASSUME \A i \in DOMAIN u : ~IsClaim(u[i], tg) PROVE r = w
    <2>1. \A i \in DOMAIN q : ~IsClaim(q[i], tg)
      BY <1>1, <1>2
    <2>2. \A i \in DOMAIN t : ~IsClaim(t[i], tg)
      BY <1>1, <1>2
    <2> QED BY <2>1, <2>2 DEF LeadsTo
  <1>3. ASSUME NEW i \in DOMAIN u, IsClaim(u[i], tg),
               \A j \in DOMAIN u : j > i => ~IsClaim(u[j], tg)
        PROVE  Says(u[i]) = w
    <2>1. CASE i \in DOMAIN q
      <3>1. \A j \in DOMAIN q : j > i => ~IsClaim(q[j], tg)
        BY <1>1, <1>3
      <3>2. Says(q[i]) = v
        BY <1>1, <1>3, <2>1, <3>1 DEF LeadsTo
      <3>3. \A j \in DOMAIN t : ~IsClaim(t[j], tg)
        BY <1>1, <1>3, <2>1
      <3>4. v = w
        BY <3>3 DEF LeadsTo
      <3> QED BY <1>1, <2>1, <3>2, <3>4
    <2>2. CASE i \notin DOMAIN q
      <3> DEFINE k == i - Len(q)
      <3>1. k \in DOMAIN t /\ u[i] = t[k] /\ i = Len(q) + k
        BY <1>1, <2>2
      <3> HIDE DEF k
      <3>2. \A j \in DOMAIN t : j > k => ~IsClaim(t[j], tg)
        <4> TAKE j \in DOMAIN t
        <4> HAVE j > k
        <4>1. Len(q) + j \in DOMAIN u /\ Len(q) + j > i /\ u[Len(q) + j] = t[j]
          BY <1>1, <3>1
        <4> QED BY <1>3, <4>1
      <3> QED BY <1>3, <3>1, <3>2 DEF LeadsTo
    <2> QED BY <2>1, <2>2
  <1>4. LeadsTo(u, tg, r, w)
    BY <1>2, <1>3 DEF LeadsTo
  <1> QED BY <1>4 DEF u

\* What a message makes of what was held.
After(r, m, tg) == IF IsClaim(m, tg) THEN Says(m) ELSE r

LEMMA LeadsOn ==
    ASSUME NEW q \in Seq(Messages), q # <<>>, NEW tg, NEW r, NEW v, LeadsTo(q, tg, r, v)
    PROVE  LeadsTo(Tail(q), tg, After(r, Head(q), tg), v)
  <1> DEFINE t == Tail(q)
  <1>1. /\ Len(t) = Len(q) - 1 /\ DOMAIN t = 1..Len(t) /\ DOMAIN q = 1..Len(q)
        /\ Len(q) \in Nat /\ Len(q) > 0 /\ Head(q) = q[1]
        /\ \A i \in DOMAIN t : i + 1 \in DOMAIN q /\ t[i] = q[i + 1]
        /\ \A i \in DOMAIN q : i = 1 \/ (i - 1 \in DOMAIN t /\ q[i] = t[i - 1])
    OBVIOUS
  <1> HIDE DEF t
  <1>2. ASSUME \A i \in DOMAIN t : ~IsClaim(t[i], tg) PROVE After(r, q[1], tg) = v
    <2>1. \A i \in DOMAIN q : i > 1 => ~IsClaim(q[i], tg)
      BY <1>1, <1>2
    <2>2. CASE IsClaim(q[1], tg)
      BY <1>1, <2>1, <2>2 DEF LeadsTo, After
    <2>3. CASE ~IsClaim(q[1], tg)
      <3>1. \A i \in DOMAIN q : ~IsClaim(q[i], tg)
        BY <1>1, <2>1, <2>3
      <3> QED BY <2>3, <3>1 DEF LeadsTo, After
    <2> QED BY <2>2, <2>3
  <1>3. ASSUME NEW i \in DOMAIN t, IsClaim(t[i], tg),
               \A j \in DOMAIN t : j > i => ~IsClaim(t[j], tg)
        PROVE  Says(t[i]) = v
    <2>1. i + 1 \in DOMAIN q /\ q[i + 1] = t[i]
      BY <1>1
    <2>2. \A j \in DOMAIN q : j > i + 1 => ~IsClaim(q[j], tg)
      BY <1>1, <1>3
    <2> QED BY <1>3, <2>1, <2>2 DEF LeadsTo
  <1>4. LeadsTo(t, tg, After(r, q[1], tg), v)
    BY <1>2, <1>3 DEF LeadsTo
  <1> QED BY <1>1, <1>4 DEF t

\* One claim, and something that is not one.
LEMMA LeadsByOne ==
    ASSUME NEW tg, NEW r, NEW m
    PROVE  LeadsTo(<<m>>, tg, r, After(r, m, tg))
  BY DEF LeadsTo, After

\* With every link up and nothing filtered or renumbered, what the handlers
\* compute is what the configuration says.
LEMMA PlainTerms ==
    ASSUME TypeInv, Plain(sc), LinksUp, NEW n \in Nodes, NEW p \in Peers(n), NEW tg \in TGs
    PROVE  /\ Translate(Config[n].route, tg) = tg /\ DeliverTG(n, tg) = tg
           /\ Wire(n, p, tg) = tg
           /\ Translate(Config[n].link[p].mapIn, tg) = tg
           /\ Translate(Config[n].link[p].mapOut, tg) = tg
           /\ Relays(n, tg) <=> RelaysIn(sc, n, tg)
           /\ AcceptsIn(sc, n, p, tg) => Accepts(n, p, tg)
           /\ \A ls : Passes(n, p, tg, ls) <=>
                  NextHop(sc, n, p, tg) \/ tg \in Config[n].cluster \/ tg \in ls[p].interested
           /\ tg \in OutgoingInterest(n, p) <=>
                  /\ NextHop(sc, n, p, tg)
                  /\ tg \in listening[n] \/ \E q \in Peers(n) \ {p} : tg \in lk[n][q].interested
  <1> DEFINE link == Config[n].link[p]
  <1>1. /\ DOMAIN Config[n].route \cap TGs = {} /\ DOMAIN Config[n].deliver \cap TGs = {}
        /\ DOMAIN link.mapIn \cap TGs = {} /\ DOMAIN link.mapOut \cap TGs = {}
        /\ ~IsBlacklisted(link, tg) /\ IsAllowed(link, tg)
    BY DEF Plain, Config, Peers
  <1> HIDE DEF link
  <1>2. /\ Translate(Config[n].route, tg) = tg /\ DeliverTG(n, tg) = tg
        /\ Translate(link.mapIn, tg) = tg /\ Translate(link.mapOut, tg) = tg
    BY <1>1 DEF Translate, DeliverTG
  <1>3. Wire(n, p, tg) = tg
    BY <1>2 DEF Wire, link
  <1>4. AllPrefixes(n) = PrefixesIn(sc, n)
    BY DEF AllPrefixes, PrefixesIn, LinksUp, Config, Peers
  <1>5. ~Filtered(n, p, tg)
    BY <1>1 DEF Filtered, link
  <1>6. Shared(n, p, tg) <=> NextHop(sc, n, p, tg)
    BY <1>4 DEF Shared, NextHop, Config
  <1>7. Relays(n, tg) <=> RelaysIn(sc, n, tg)
    BY <1>4 DEF Relays, RelaysIn, Config
  <1>8. AcceptsIn(sc, n, p, tg) => Accepts(n, p, tg)
    BY <1>1, <1>2, <1>4, <1>5 DEF AcceptsIn, Accepts, Config, link
  <1>9. ASSUME NEW ls
        PROVE  Passes(n, p, tg, ls) <=>
                  NextHop(sc, n, p, tg) \/ tg \in Config[n].cluster \/ tg \in ls[p].interested
    <2>1. up[n][p] /\ tg \notin DOMAIN Config[n].link[p].mapOut
      BY <1>1 DEF LinksUp, link
    <2> QED BY <1>2, <1>5, <1>6, <2>1 DEF Passes
  <1>10. tg \in OutgoingInterest(n, p) <=>
                  /\ NextHop(sc, n, p, tg)
                  /\ tg \in listening[n] \/ \E q \in Peers(n) \ {p} : tg \in lk[n][q].interested
    <2>1. links[n] = Peers(n)
      BY DEF LinksUp
    <2> QED BY <1>5, <1>6, <2>1 DEF OutgoingInterest
  <1> QED BY <1>2, <1>3, <1>7, <1>8, <1>9, <1>10 DEF link

\* What n sends on tg, with ls as the state of its links.
Goes(n, p, tg, ls) ==
    NextHop(sc, n, p, tg) \/ tg \in sc.config[n].cluster \/ tg \in ls[p].interested

LEMMA Spoken ==
    ASSUME TypeInv, Plain(sc), LinksUp, NEW n \in Nodes, NEW p \in Peers(n), NEW tg \in TGs,
           NEW ls, ls[p].yielded \subseteq {}, NEW c
    PROVE  /\ OnLocalTalkerStart(n, p, tg, c, ls)
                 = IF Goes(n, p, tg, ls) THEN <<TalkerStart(tg, c)>> ELSE <<>>
           /\ OnLocalTalkerStop(n, p, tg, ls)
                 = IF Goes(n, p, tg, ls) THEN <<TalkerStop(tg)>> ELSE <<>>
           /\ OnLocalAudio(n, p, tg, c, ls)
                 = IF Goes(n, p, tg, ls) THEN <<Audio(tg, c)>> ELSE <<>>
  <1>1. Wire(n, p, tg) = tg
    BY PlainTerms
  <1>2. Passes(n, p, tg, ls) <=> Goes(n, p, tg, ls)
    BY PlainTerms DEF Goes, Config
  <1> QED BY <1>1, <1>2 DEF OnLocalTalkerStart, OnLocalTalkerStop, OnLocalAudio

\* What a step does to each channel.
LEMMA ChanAfter ==
    ASSUME TypeInv, LinksUp, NEW n \in Nodes, NEW from \in Nodes \cup {None}, NEW msgs,
           SendAfter(n, from, msgs), NEW a \in Nodes, NEW b \in Peers(a)
    PROVE  chan'[a][b] = IF a = n THEN chan[n][b] \o msgs[b]
                         ELSE IF a = from /\ b = n THEN Tail(chan[a][b]) ELSE chan[a][b]
  <1>1. b \in Nodes /\ a \in Peers(b)
    BY PeersAreNodes DEF TypeInv, TypeOK
  <1>2. a = n => b \in links[n] /\ up[b][n]
    BY <1>1 DEF LinksUp
  <1> QED BY <1>2 DEF SendAfter

LEMMA WiderSeqs == ASSUME NEW S, NEW T, S \subseteq T, NEW q \in Seq(S) PROVE q \in Seq(T)
  OBVIOUS

\* Channels keep holding what may be told, and no talk where there is none.
LEMMA SendTells ==
    ASSUME TypeInv, InterestInv, NEW n \in Nodes, NEW from \in Nodes \cup {None},
           \A a \in Nodes : a = from /\ n \in Peers(a) => chan[a][n] # <<>>,
           NEW msgs, \A b \in Peers(n) : msgs[b] \in Seq(Telling(sc, n, b)),
           SendAfter(n, from, msgs), UNCHANGED sc
    PROVE  \A a \in Nodes : \A b \in Peers(a) : chan'[a][b] \in Seq(Telling(sc, a, b))
  <1> DEFINE G == [a \in Nodes |-> [b \in Peers(a) |-> Telling(sc, a, b)]]
  <1>1. \A a \in Nodes : \A b \in Peers(a) : G[a][b] = Telling(sc, a, b)
    OBVIOUS
  <1> HIDE DEF G
  <1>2. \A a \in Nodes : \A b \in Peers(a) : chan[a][b] \in Seq(G[a][b])
    BY <1>1 DEF InterestInv
  <1>3. \A b \in Peers(n) : msgs[b] \in Seq(G[n][b])
    BY <1>1
  <1>4. sc \in Scenarios
    BY DEF TypeInv, TypeOK
  <1>5. \A a \in Nodes : \A b \in Peers(a) : chan'[a][b] \in Seq(G[a][b])
    BY <1>2, <1>3, <1>4, SendKeeps
  <1> QED BY <1>1, <1>5

\* A TG of which nothing is said stays silent.
LEMMA SilentStep ==
    ASSUME TypeInv, NEW tg \in TGs, Silent(tg), UNCHANGED sc,
           NEW n \in Nodes, NEW from \in Nodes \cup {None},
           \A a \in Nodes : a = from /\ n \in Peers(a) => chan[a][n] # <<>>,
           NEW msgs, \A b \in Peers(n) : msgs[b] \in Seq(Silence(tg)),
           SendAfter(n, from, msgs),
           \A a \in Nodes : /\ talker'[a][tg] = talker[a][tg]
                            /\ trunkTalker'[a][tg] = trunkTalker[a][tg]
    PROVE  Silent(tg)'
  <1> DEFINE G == [a \in Nodes |-> [b \in Peers(a) |-> Silence(tg)]]
  <1>1. \A a \in Nodes : \A b \in Peers(a) : G[a][b] = Silence(tg)
    OBVIOUS
  <1> HIDE DEF G
  <1>2. \A a \in Nodes : \A b \in Peers(a) : chan[a][b] \in Seq(G[a][b])
    BY <1>1 DEF Silent
  <1>3. \A b \in Peers(n) : msgs[b] \in Seq(G[n][b])
    BY <1>1
  <1>4. sc \in Scenarios
    BY DEF TypeInv, TypeOK
  <1>5. \A a \in Nodes : \A b \in Peers(a) : chan'[a][b] \in Seq(G[a][b])
    BY <1>2, <1>3, <1>4, SendKeeps
  <1> QED BY <1>1, <1>5 DEF Silent, Peers

\* One reflector reads a message, says something to its peers, or both. Those
\* who hear of the TG from it are led to what it then holds.
LEMMA FollowedStep ==
    ASSUME TypeInv, LinksUp, UNCHANGED sc, NEW tg \in TGs, NEW span \in SUBSET Nodes,
           NEW c \in Nodes, NEW hop \in [Nodes -> Nodes \cup {None}],
           Reaches(sc, tg, span, c, hop), Followed(tg, span, c, hop),
           NEW n \in Nodes, NEW from \in Nodes \cup {None},
           \A a \in Nodes : a = from /\ n \in Peers(a) => chan[a][n] # <<>>,
           NEW msgs, SendAfter(n, from, msgs),
           \A b \in Peers(n) : msgs[b] \in Seq(Along(n, b, tg, hop)),
           \A a \in Nodes \ {n} : /\ talker'[a][tg] = talker[a][tg]
                                  /\ trunkTalker'[a][tg] = trunkTalker[a][tg],
           n # c => talker'[n][tg] = None,
           n = c => trunkTalker'[n][tg] = None,
           \A b \in Peers(n) : b \in span \ {c} /\ hop[b] = n =>
               LeadsTo(msgs[b], tg, View(n, c, tg), View(n, c, tg)'),
           n \in span \ {c} =>
               View(n, c, tg)' = IF from = hop[n]
                                   THEN After(View(n, c, tg), Head(chan[hop[n]][n]), tg)
                                   ELSE View(n, c, tg)
    PROVE  Followed(tg, span, c, hop)'
  <1>0. sc \in Scenarios
    BY DEF TypeInv, TypeOK
  <1>1. \A a \in Nodes : \A b \in Peers(a) : chan'[a][b] \in Seq(Along(a, b, tg, hop))
    <2> DEFINE G == [a \in Nodes |-> [b \in Peers(a) |-> Along(a, b, tg, hop)]]
    <2>1. \A a \in Nodes : \A b \in Peers(a) : G[a][b] = Along(a, b, tg, hop)
      OBVIOUS
    <2> HIDE DEF G
    <2>2. \A a \in Nodes : \A b \in Peers(a) : chan[a][b] \in Seq(G[a][b])
      BY <2>1 DEF Followed
    <2>3. \A b \in Peers(n) : msgs[b] \in Seq(G[n][b])
      BY <2>1
    <2>4. \A a \in Nodes : \A b \in Peers(a) : chan'[a][b] \in Seq(G[a][b])
      BY <1>0, <2>2, <2>3, SendKeeps
    <2> QED BY <2>1, <2>4
  <1>2. ASSUME NEW b \in span \ {c}
        PROVE  LeadsTo(chan'[hop[b]][b], tg, View(b, c, tg)', View(hop[b], c, tg)')
    <2> DEFINE h == hop[b]
    <2>1. b \in Nodes /\ h \in Peers(b)
      BY DEF Reaches, Peers
    <2>2. h \in Nodes /\ b \in Peers(h) /\ h # b
      BY <1>0, <2>1, PeersAreNodes
    <2>3. LeadsTo(chan[h][b], tg, View(b, c, tg), View(h, c, tg))
      BY DEF Followed
    <2>4. chan[h][b] \in Seq(Messages)
      BY <2>2 DEF TypeInv, TypeOK
    <2>5. chan'[h][b] = IF h = n THEN chan[n][b] \o msgs[b]
                        ELSE IF h = from /\ b = n THEN Tail(chan[h][b]) ELSE chan[h][b]
      BY <2>2, ChanAfter
    <2>6. \A a \in Nodes \ {n} : View(a, c, tg)' = View(a, c, tg)
      BY DEF View
    <2> HIDE DEF h
    <2>7. CASE h = n
      <3>1. LeadsTo(msgs[b], tg, View(n, c, tg), View(n, c, tg)')
        BY <2>2, <2>7 DEF h
      <3>2. msgs[b] \in Seq(Messages)
        BY <2>2, <2>7, WiderSeqs DEF Along
      <3>3. LeadsTo(chan[h][b] \o msgs[b], tg, View(b, c, tg), View(n, c, tg)')
        BY <2>3, <2>4, <2>7, <3>1, <3>2, LeadsAppend
      <3>4. View(b, c, tg)' = View(b, c, tg)
        BY <2>1, <2>2, <2>6, <2>7
      <3>5. LeadsTo(chan'[h][b], tg, View(b, c, tg)', View(n, c, tg)')
        BY <2>5, <2>7, <3>3, <3>4
      <3> QED BY <2>7, <3>5 DEF h
    <2>8. CASE h # n /\ b = n
      <3>1. View(h, c, tg)' = View(h, c, tg)
        BY <2>2, <2>6, <2>8
      <3>2. CASE from = h
        <4>1. chan[h][b] # <<>>
          BY <2>2, <2>8, <3>2
        <4>2. LeadsTo(Tail(chan[h][b]), tg, After(View(b, c, tg), Head(chan[h][b]), tg),
                      View(h, c, tg))
          BY <2>3, <2>4, <4>1, LeadsOn
        <4>3. View(b, c, tg)' = After(View(b, c, tg), Head(chan[h][b]), tg)
          BY <2>8, <3>2 DEF h
        <4>4. chan'[h][b] = Tail(chan[h][b])
          BY <2>5, <2>8, <3>2
        <4>5. LeadsTo(chan'[h][b], tg, View(b, c, tg)', View(h, c, tg)')
          BY <3>1, <4>2, <4>3, <4>4
        <4> QED BY <4>5 DEF h
      <3>3. CASE from # h
        <4>1. View(b, c, tg)' = View(b, c, tg)
          BY <2>8, <3>3 DEF h
        <4>2. LeadsTo(chan'[h][b], tg, View(b, c, tg)', View(h, c, tg)')
          BY <2>3, <2>5, <2>8, <3>1, <3>3, <4>1
        <4> QED BY <4>2 DEF h
      <3> QED BY <3>2, <3>3
    <2>9. CASE h # n /\ b # n
      <3>1. LeadsTo(chan'[h][b], tg, View(b, c, tg)', View(h, c, tg)')
        BY <2>1, <2>2, <2>3, <2>5, <2>6, <2>9
      <3> QED BY <3>1 DEF h
    <2> QED BY <2>7, <2>8, <2>9
  <1>3. /\ \A a \in Nodes \ {c} : talker'[a][tg] = None
        /\ trunkTalker'[c][tg] = None
    BY DEF Followed
  <1>4. \A b \in span \ {c} :
            LeadsTo(chan'[hop[b]][b], tg, View(b, c, tg)', View(hop[b], c, tg)')
    BY <1>2
  <1> QED BY <1>1, <1>3, <1>4 DEF Followed, Peers, View

\* Nobody hears from whom it tells: or else the two would hear nothing of c.
LEMMA NoReturn ==
    ASSUME NEW s, NEW tg, NEW span \in SUBSET Nodes, NEW c \in span, NEW hop,
           Reaches(s, tg, span, c, hop)
    PROVE  \A n \in span \ {c} : hop[hop[n]] # n
  <1> DEFINE heard == {n \in span : n = c \/ hop[hop[n]] # n}
  <1>1. hop[c] = None /\ None \notin Nodes
    BY NoneAssumption DEF Reaches
  <1>2. \A n \in span \ {c} : hop[n] \in heard => n \in heard
    BY <1>1
  <1>3. heard \in SUBSET span /\ c \in heard
    OBVIOUS
  <1> HIDE DEF heard
  <1>4. heard = span
    BY <1>2, <1>3 DEF Reaches
  <1> QED BY <1>4 DEF heard

\* Asks is an induction over those who ask: it ends with all of them.
LEMMA AllHaveReason ==
    ASSUME NEW s, NEW tg, NEW span, Asks(s, tg, span)
    PROVE  \A n \in span : HasReason(s, tg, n, span)
  <1> DEFINE asking == {n \in span : HasReason(s, tg, n, span)}
  <1>1. asking \in SUBSET span
    OBVIOUS
  <1>2. \A n \in span : HasReason(s, tg, n, asking) => n \in asking
    BY <1>1 DEF HasReason
  <1> HIDE DEF asking
  <1>3. asking = span
    BY <1>1, <1>2 DEF Asks
  <1> QED BY <1>3 DEF asking

\* From reason to ask to having asked.
LEMMA ReasonAsks ==
    ASSUME TypeInv, Plain(sc), LinksUp, listening = sc.listening, NEW tg \in TGs,
           NEW n \in Nodes, NEW asking, HasReason(sc, tg, n, asking),
           \A q \in asking \cap Peers(n) : NextHop(sc, q, n, tg) => tg \in lk[n][q].interested,
           NEW p \in Peers(n), NextHop(sc, n, p, tg)
    PROVE  tg \in OutgoingInterest(n, p)
  <1>1. \/ tg \in listening[n]
        \/ \E q \in asking \cap Peers(n) : NextHop(sc, q, n, tg) /\ ~NextHop(sc, n, q, tg)
    BY DEF HasReason, Peers
  <1>2. tg \in listening[n] \/ \E q \in Peers(n) \ {p} : tg \in lk[n][q].interested
    BY <1>1
  <1> QED BY <1>2, PlainTerms

\* At rest all on the tree have asked, by the same induction.
LEMMA AskedAtRest ==
    ASSUME TypeInv, Plain(sc), LinksUp, InterestInv, listening = sc.listening, AtRest,
           NEW tg \in TGs, NEW span \in SUBSET Nodes, Asks(sc, tg, span)
    PROVE  Asked(tg, span)
  <1> DEFINE HasAsked(n) == \A p \in Peers(n) :
                 NextHop(sc, n, p, tg) => tg \in lk[n][p].lastSent /\ tg \in lk[p][n].interested
             asking == {n \in span : HasAsked(n)}
  <1>1. ASSUME NEW n \in span, HasReason(sc, tg, n, asking) PROVE n \in asking
    <2> SUFFICES ASSUME NEW p \in Peers(n), NextHop(sc, n, p, tg)
                 PROVE  tg \in lk[n][p].lastSent /\ tg \in lk[p][n].interested
      OBVIOUS
    <2>1. ASSUME NEW q \in asking \cap Peers(n), NextHop(sc, q, n, tg)
          PROVE  tg \in lk[n][q].interested
      <3>1. n \in Peers(q)
        BY <2>1, PeersAreNodes DEF TypeInv, TypeOK
      <3> QED BY <2>1, <3>1
    <2>2. tg \in OutgoingInterest(n, p)
      BY <1>1, <2>1, ReasonAsks
    <2>3. OutgoingInterest(n, p) = lk[n][p].lastSent /\ chan[n][p] = <<>>
      BY DEF AtRest, LinksUp
    <2> QED BY <2>2, <2>3 DEF InterestInv, Announced
  <1>2. asking \in SUBSET span
    OBVIOUS
  <1> HIDE DEF asking
  <1>3. asking = span
    BY <1>1, <1>2 DEF Asks
  <1> QED BY <1>3 DEF asking, Asked

LEMMA RestIsSilent ==
    ASSUME TypeInv, LinksUp, AtRest, NEW n \in Nodes, NEW p \in Peers(n)
    PROVE  chan[n][p] = <<>>
  BY DEF AtRest, LinksUp

\* At rest all on the tree hold what c does.
LEMMA AllHoldTheSame ==
    ASSUME TypeInv, LinksUp, AtRest, NEW tg \in TGs, NEW span \in SUBSET Nodes,
           NEW c \in span, NEW hop, Reaches(sc, tg, span, c, hop), Followed(tg, span, c, hop)
    PROVE  \A n \in span : View(n, c, tg) = talker[c][tg]
  <1> DEFINE heard == {n \in span : View(n, c, tg) = talker[c][tg]}
  <1>1. heard \in SUBSET span /\ c \in heard
    BY DEF View
  <1>2. ASSUME NEW n \in span \ {c}, hop[n] \in heard PROVE n \in heard
    <2>1. n \in Nodes /\ hop[n] \in Nodes /\ n \in Peers(hop[n])
      <3>1. hop[n] \in Peers(n)
        BY DEF Reaches, Peers
      <3> QED BY <3>1, PeersAreNodes DEF TypeInv, TypeOK
    <2>2. chan[hop[n]][n] = <<>>
      BY <2>1, RestIsSilent
    <2>3. View(n, c, tg) = View(hop[n], c, tg)
      BY <2>2, LeadsNowhere DEF Followed
    <2> QED BY <1>2, <2>3
  <1> HIDE DEF heard
  <1>3. heard = span
    BY <1>1, <1>2 DEF Reaches
  <1> QED BY <1>3 DEF heard

\* The invariant says what ListenersFollow says.
LEMMA FollowMeans ==
    ASSUME TypeInv, FollowInv
    PROVE  ListenersFollow
  <1> SUFFICES ASSUME sc.patient, losses = 0, AtRest,
                      NEW n \in Nodes, NEW m \in Nodes, NEW tg \in listening[m]
               PROVE  (talker[n][tg] # None /\ n # m) <=> (trunkTalker[m][tg] = n)
    BY DEF ListenersFollow
  <1>1. tg \in TGs /\ LinksUp /\ OwnTalkers /\ m \in Listeners(sc, tg)
    BY DEF FollowInv, Settled, Listeners, TypeInv, TypeOK
  <1>2. n # None
    BY NoneAssumption
  <1>3. CASE Silent(tg)
    BY <1>2, <1>3 DEF Silent
  <1>4. ASSUME NEW span \in SUBSET Nodes, Spans(sc, tg, span), NEW c \in Listeners(sc, tg), NEW hop,
               Reaches(sc, tg, span, c, hop), Followed(tg, span, c, hop)
        PROVE  (talker[n][tg] # None /\ n # m) <=> (trunkTalker[m][tg] = n)
    <2>1. c \in span /\ m \in span
      BY <1>1, <1>4 DEF Spans
    <2>2. View(m, c, tg) = talker[c][tg]
      BY <1>1, <1>4, <2>1, AllHoldTheSame
    <2>3. /\ \A a \in Nodes \ {c} : talker[a][tg] = None
          /\ trunkTalker[c][tg] = None /\ talker[c][tg] \in {c, None}
      BY <1>1, <1>4, <2>1 DEF Followed, OwnTalkers
    <2> QED BY <1>2, <2>2, <2>3 DEF View
  <1>5. Silent(tg) \/ FollowedSomehow(tg)
    BY <1>1 DEF FollowInv, Following
  <1> QED BY <1>3, <1>4, <1>5 DEF FollowedSomehow

\* What c says, or another relays, goes along the tree,
LEMMA GoesAlong ==
    ASSUME TypeInv, NEW tg \in TGs, NEW span, NEW c, NEW hop, Reaches(sc, tg, span, c, hop),
           NEW n \in Nodes, NEW p \in Peers(n), n = c \/ RelaysIn(sc, n, tg), p # hop[n],
           NEW ls, tg \in ls[p].interested => MayPass(sc, n, p, tg), Goes(n, p, tg, ls)
    PROVE  hop[p] = n
  <1>1. MayPass(sc, n, p, tg)
    BY DEF Goes, MayPass
  <1> QED BY <1>1 DEF Reaches, Peers

\* and everywhere along it.
LEMMA GoesEverywhere ==
    ASSUME TypeInv, NEW tg \in TGs, NEW span \in SUBSET Nodes, NEW c, NEW hop,
           Reaches(sc, tg, span, c, hop), Asked(tg, span), NEW b \in span \ {c}, NEW ls,
           tg \in lk[hop[b]][b].interested => tg \in ls[b].interested
    PROVE  Goes(hop[b], b, tg, ls)
  <1>1. hop[b] \in Peers(b)
    BY DEF Reaches, Peers
  <1>2. NextHop(sc, b, hop[b], tg) => tg \in lk[hop[b]][b].interested
    BY <1>1 DEF Asked
  <1> QED BY <1>2 DEF Reaches, Goes

LEMMA SilenceLeads ==
    ASSUME NEW tg, NEW v, NEW q \in Seq(Silence(tg))
    PROVE  LeadsTo(q, tg, v, v)
  <1>1. \A i \in DOMAIN q : q[i] \in Silence(tg)
    BY Queues
  <1>2. \A i \in DOMAIN q : ~IsClaim(q[i], tg)
    BY <1>1 DEF Silence, IsTalk, IsClaim
  <1> QED BY <1>2 DEF LeadsTo

\* What has been asked stays asked.
LEMMA AskedStep ==
    ASSUME TypeInv, UNCHANGED sc, NEW tg, NEW span \in SUBSET Nodes, Asked(tg, span),
           \A a \in Nodes : \A b \in Peers(a) :
               /\ tg \in lk[a][b].lastSent => tg \in lk'[a][b].lastSent
               /\ tg \in lk[a][b].interested => tg \in lk'[a][b].interested
    PROVE  Asked(tg, span)'
  <1>1. \A n \in span : \A p \in Peers(n) : p \in Nodes /\ n \in Peers(p) /\ n \in Nodes
    BY PeersAreNodes DEF TypeInv, TypeOK
  <1> QED BY <1>1 DEF Asked, Peers

\* A step that is not about tg.
LEMMA OtherTG ==
    ASSUME TypeInv, LinksUp, UNCHANGED sc, NEW tg \in TGs, Following(tg),
           NEW n \in Nodes, NEW from \in Nodes \cup {None},
           \A a \in Nodes : a = from /\ n \in Peers(a) =>
               chan[a][n] # <<>> /\ ~IsTalk(Head(chan[a][n]), tg),
           NEW msgs, SendAfter(n, from, msgs), \A b \in Peers(n) : msgs[b] \in Seq(Silence(tg)),
           \A a \in Nodes : /\ talker'[a][tg] = talker[a][tg]
                            /\ trunkTalker'[a][tg] = trunkTalker[a][tg],
           \A span \in SUBSET Nodes : Asks(sc, tg, span) /\ Asked(tg, span) => Asked(tg, span)'
    PROVE  Following(tg)'
  <1>1. CASE Silent(tg)
    BY <1>1, SilentStep DEF Following
  <1>2. ASSUME NEW span \in SUBSET Nodes, Spans(sc, tg, span), Asked(tg, span),
               NEW c \in Listeners(sc, tg), NEW hop \in [Nodes -> Nodes \cup {None}],
               Reaches(sc, tg, span, c, hop), Followed(tg, span, c, hop)
        PROVE  Following(tg)'
    <2>1. c \in Nodes
      BY DEF Listeners
    <2>2. \A a \in Nodes : View(a, c, tg)' = View(a, c, tg)
      BY DEF View
    <2>3. ASSUME NEW b \in Peers(n) PROVE msgs[b] \in Seq(Along(n, b, tg, hop))
      <3>1. Silence(tg) \subseteq Along(n, b, tg, hop)
        BY DEF Silence, Along
      <3> QED BY <3>1, WiderSeqs
    <2>4. \A b \in Peers(n) : LeadsTo(msgs[b], tg, View(n, c, tg), View(n, c, tg)')
      BY <2>2, SilenceLeads
    <2>5. n # c => talker'[n][tg] = None
      BY <1>2 DEF Followed
    <2>6. n = c => trunkTalker'[n][tg] = None
      BY <1>2 DEF Followed
    <2>7. n \in span \ {c} /\ from = hop[n] =>
              After(View(n, c, tg), Head(chan[hop[n]][n]), tg) = View(n, c, tg)
      <3> SUFFICES ASSUME n \in span \ {c}, from = hop[n]
                   PROVE  ~IsClaim(Head(chan[hop[n]][n]), tg)
        BY DEF After
      <3>1. hop[n] \in Nodes /\ n \in Peers(hop[n])
        <4>1. hop[n] \in Peers(n)
          BY <1>2 DEF Reaches, Peers
        <4> QED BY <4>1, PeersAreNodes DEF TypeInv, TypeOK
      <3> QED BY <3>1 DEF IsTalk, IsClaim
    <2>8. Followed(tg, span, c, hop)'
      BY <1>2, <2>1, <2>2, <2>3, <2>4, <2>5, <2>6, <2>7, FollowedStep
    <2>9. Asked(tg, span)'
      BY <1>2 DEF Spans
    <2> QED BY <1>2, <2>8, <2>9 DEF Following, FollowedSomehow
  <1> QED BY <1>1, <1>2 DEF Following, FollowedSomehow

\* What was announced arrives.
LEMMA AnnouncedStep ==
    ASSUME NEW q \in Seq(Messages), NEW tg, Announced(q, tg)
    PROVE  /\ \A t \in Seq(Messages) : Announced(q \o t, tg)
           /\ q # <<>> => \/ Announced(Tail(q), tg)
                          \/ Head(q).type = "TgInterest" /\ tg \in Head(q).tgs
  <1>1. PICK i \in DOMAIN q : q[i].type = "TgInterest" /\ tg \in q[i].tgs
    BY DEF Announced
  <1>2. ASSUME NEW t \in Seq(Messages) PROVE Announced(q \o t, tg)
    <2>1. i \in DOMAIN (q \o t) /\ (q \o t)[i] = q[i]
      OBVIOUS
    <2> QED BY <1>1, <2>1 DEF Announced
  <1>3. CASE i = 1
    BY <1>1, <1>2, <1>3
  <1>4. CASE i # 1 /\ q # <<>>
    <2>1. i - 1 \in DOMAIN Tail(q) /\ Tail(q)[i - 1] = q[i]
      BY <1>4
    <2> QED BY <1>1, <1>2, <2>1 DEF Announced
  <1> QED BY <1>2, <1>3, <1>4

\* What was asked is noted or on its way.
LEMMA InterestStep ==
    ASSUME TypeInv, LinksUp, InterestInv, UNCHANGED sc,
           NEW n \in Nodes, NEW from \in Nodes \cup {None},
           \A a \in Nodes : a = from /\ n \in Peers(a) => chan[a][n] # <<>>,
           NEW msgs, SendAfter(n, from, msgs),
           \A b \in Peers(n) : msgs[b] \in Seq(Telling(sc, n, b)),
           \A a \in Nodes : \A b \in Peers(a) :
               /\ lk'[a][b].lastSent = lk[a][b].lastSent
               /\ lk[a][b].interested \subseteq lk'[a][b].interested
               /\ \A t \in lk'[a][b].interested : MayPass(sc, a, b, t),
           \A a \in Nodes : a = from /\ n \in Peers(a) /\ Head(chan[a][n]).type = "TgInterest" =>
               Head(chan[a][n]).tgs \subseteq lk'[n][a].interested
    PROVE  InterestInv'
  <1>1. \A a \in Nodes : \A b \in Peers(a) : chan'[a][b] \in Seq(Telling(sc, a, b))
    BY SendTells
  <1>2. ASSUME NEW a \in Nodes, NEW b \in Peers(a), NEW tg \in lk'[a][b].lastSent
        PROVE  NextHop(sc, a, b, tg) /\ (tg \in lk'[b][a].interested \/ Announced(chan'[a][b], tg))
    <2>1. b \in Nodes /\ a \in Peers(b) /\ chan[a][b] \in Seq(Messages)
      BY PeersAreNodes DEF TypeInv, TypeOK
    <2>2. NextHop(sc, a, b, tg) /\ (tg \in lk[b][a].interested \/ Announced(chan[a][b], tg))
      BY DEF InterestInv
    <2>3. lk[b][a].interested \subseteq lk'[b][a].interested
      BY <2>1
    <2>4. chan'[a][b] = IF a = n THEN chan[n][b] \o msgs[b]
                        ELSE IF a = from /\ b = n THEN Tail(chan[a][b]) ELSE chan[a][b]
      BY ChanAfter
    <2>5. ASSUME Announced(chan[a][b], tg), a = n PROVE Announced(chan'[a][b], tg)
      <3>1. msgs[b] \in Seq(Messages)
        BY <2>5, WiderSeqs DEF Telling
      <3> QED BY <2>1, <2>4, <2>5, <3>1, AnnouncedStep
    <2>6. ASSUME Announced(chan[a][b], tg), a # n, a = from, b = n
          PROVE  tg \in lk'[b][a].interested \/ Announced(chan'[a][b], tg)
      BY <2>1, <2>4, <2>6, AnnouncedStep
    <2> QED BY <2>2, <2>3, <2>4, <2>5, <2>6
  <1> QED BY <1>1, <1>2 DEF InterestInv, Peers

TalkOn(tg, c) == {TalkerStart(tg, c), TalkerStop(tg), Audio(tg, c)}

\* What n says on tg, with ls as the state of its links.
SaysOn(n, tg, c, ls, msgs) ==
    \A p \in Peers(n) : /\ msgs[p] \in Seq(TalkOn(tg, c))
                        /\ msgs[p] # <<>> => Goes(n, p, tg, ls)
                        /\ \A t \in ls[p].interested : MayPass(sc, n, p, t)

LEMMA TalkKinds ==
    ASSUME NEW tg \in TGs, NEW c \in Nodes
    PROVE  /\ TalkOn(tg, c) \subseteq Messages
           /\ \A m \in TalkOn(tg, c) : IsTalk(m, tg) /\ \A t : IsTalk(m, t) => t = tg
           /\ \A m \in TalkOn(tg, c) : m.type # "TgInterest" /\ m.tg = tg
  BY DEF TalkOn, TalkerStart, TalkerStop, Audio, Messages, IsTalk

\* It is of no consequence to other TGs.
LEMMA SpeakStep ==
    ASSUME TypeInv, Settled, UNCHANGED sc, NEW tg \in TGs, NEW c \in Nodes,
           NEW n \in Nodes, NEW from \in Nodes \cup {None},
           \A a \in Nodes : a = from /\ n \in Peers(a) =>
               chan[a][n] # <<>> /\ IsTalk(Head(chan[a][n]), tg),
           NEW msgs, SendAfter(n, from, msgs), NEW ls, SaysOn(n, tg, c, ls, msgs),
           \A a \in Nodes : \A t \in TGs \ {tg} : /\ talker'[a][t] = talker[a][t]
                                                  /\ trunkTalker'[a][t] = trunkTalker[a][t],
           \A a \in Nodes : \A b \in Peers(a) :
               /\ lk'[a][b].lastSent = lk[a][b].lastSent
               /\ lk[a][b].interested \subseteq lk'[a][b].interested
               /\ \A t \in lk'[a][b].interested : MayPass(sc, a, b, t),
           \A t \in TGs : Following(t)
    PROVE  InterestInv' /\ \A t \in TGs \ {tg} : Following(t)'
  <1>1. LinksUp /\ InterestInv
    BY DEF Settled
  <1>2. InterestInv'
    <2>1. ASSUME NEW b \in Peers(n) PROVE msgs[b] \in Seq(Telling(sc, n, b))
      <3>1. msgs[b] \in Seq(TalkOn(tg, c))
        BY DEF SaysOn
      <3>2. CASE msgs[b] = <<>>
        BY <3>2, NoMessage
      <3>3. CASE msgs[b] # <<>>
        <4>1. MayPass(sc, n, b, tg)
          BY <3>3 DEF SaysOn, Goes, MayPass
        <4>2. TalkOn(tg, c) \subseteq Telling(sc, n, b)
          BY <4>1, TalkKinds DEF Telling
        <4> QED BY <3>1, <4>2, WiderSeqs
      <3> QED BY <3>2, <3>3
    <2>2. \A a \in Nodes : a = from /\ n \in Peers(a) => Head(chan[a][n]).type # "TgInterest"
      BY DEF IsTalk
    <2> QED BY <1>1, <2>1, <2>2, InterestStep
  <1>3. ASSUME NEW t \in TGs \ {tg} PROVE Following(t)'
    <2>1. \A b \in Peers(n) : msgs[b] \in Seq(Silence(t))
      <3>1. TalkOn(tg, c) \subseteq Silence(t)
        BY TalkKinds DEF Silence
      <3> QED BY <3>1, WiderSeqs DEF SaysOn
    <2>2. \A a \in Nodes : a = from /\ n \in Peers(a) => ~IsTalk(Head(chan[a][n]), t)
      BY DEF IsTalk
    <2>3. \A span \in SUBSET Nodes : Asks(sc, t, span) /\ Asked(t, span) => Asked(t, span)'
      BY AskedStep
    <2> QED BY <1>1, <2>1, <2>2, <2>3, OtherTG
  <1> QED BY <1>2, <1>3

\* The reflector whose client talks says so to all that follow it.
LEMMA TalkerStep ==
    ASSUME TypeInv, Settled, UNCHANGED <<sc, trunkTalker, lk>>, NEW tg \in TGs,
           NEW span \in SUBSET Nodes, Spans(sc, tg, span), Asked(tg, span),
           NEW c \in Listeners(sc, tg), NEW hop \in [Nodes -> Nodes \cup {None}],
           Reaches(sc, tg, span, c, hop), Followed(tg, span, c, hop),
           NEW msgs, SendAfter(c, None, msgs), SaysOn(c, tg, c, lk[c], msgs),
           \A a \in Nodes \ {c} : talker'[a][tg] = talker[a][tg],
           \A b \in Peers(c) : Goes(c, b, tg, lk[c]) =>
               LeadsTo(msgs[b], tg, talker[c][tg], talker'[c][tg])
    PROVE  Following(tg)'
  <1>0. c \in Nodes /\ LinksUp /\ InterestInv /\ None \notin Nodes
    BY NoneAssumption DEF Listeners, Settled
  <1>1. ASSUME NEW b \in Peers(c) PROVE msgs[b] \in Seq(Along(c, b, tg, hop))
    <2>1. msgs[b] \in Seq(TalkOn(tg, c))
      BY DEF SaysOn
    <2>2. CASE msgs[b] = <<>>
      BY <2>2, NoMessage
    <2>3. CASE msgs[b] # <<>>
      <3>0. b \in Nodes
        BY <1>0, PeersAreNodes DEF TypeInv, TypeOK
      <3>1. hop[c] = None /\ b # None
        BY <1>0, <3>0 DEF Reaches
      <3>2. Goes(c, b, tg, lk[c]) /\ (tg \in lk[c][b].interested => MayPass(sc, c, b, tg))
        BY <2>3 DEF SaysOn
      <3>3. hop[b] = c
        BY <1>0, <3>1, <3>2, GoesAlong
      <3>4. TalkOn(tg, c) \subseteq Along(c, b, tg, hop)
        BY <1>0, <3>3, TalkKinds DEF Along
      <3> QED BY <2>1, <3>4, WiderSeqs
    <2> QED BY <2>2, <2>3
  <1>2. ASSUME NEW b \in Peers(c), b \in span \ {c}, hop[b] = c
        PROVE  LeadsTo(msgs[b], tg, View(c, c, tg), View(c, c, tg)')
    <2>1. Goes(c, b, tg, lk[c])
      BY <1>2, GoesEverywhere
    <2> QED BY <2>1 DEF View
  <1>3. trunkTalker'[c][tg] = None
    BY DEF Followed
  <1>4. Followed(tg, span, c, hop)'
    <2>1. \A a \in Nodes : a = None /\ c \in Peers(a) => chan[a][c] # <<>>
      BY <1>0
    <2>2. \A a \in Nodes \ {c} : talker'[a][tg] = talker[a][tg] /\ trunkTalker'[a][tg] = trunkTalker[a][tg]
      OBVIOUS
    <2> QED BY <1>0, <1>1, <1>2, <1>3, <2>1, <2>2, FollowedStep
  <1>5. Asked(tg, span)'
    BY AskedStep
  <1> QED BY <1>4, <1>5 DEF Following, FollowedSomehow

\* One that keys at rest, when nobody talks, is followed from then on.
LEMMA Reoriented ==
    ASSUME TypeInv, Settled, AtRest, NEW tg \in TGs, Following(tg),
           NEW n \in Listeners(sc, tg), talker[n][tg] = None, trunkTalker[n][tg] = None
    PROVE  \E span \in SUBSET Nodes :
               /\ Spans(sc, tg, span) /\ Asked(tg, span)
               /\ \E hop \in [Nodes -> Nodes \cup {None}] :
                     Reaches(sc, tg, span, n, hop) /\ Followed(tg, span, n, hop)
  <1>0. n \in Nodes /\ LinksUp /\ InterestInv /\ Plain(sc) /\ listening = sc.listening
    BY DEF Listeners, Settled, Routed
  <1>1. \E span \in SUBSET Nodes :
            /\ Spans(sc, tg, span)
            /\ \A a \in Nodes : talker[a][tg] = None /\ (a \in span => trunkTalker[a][tg] = None)
    <2>1. CASE Silent(tg)
      BY <2>1 DEF Silent, Settled, Routed
    <2>2. ASSUME NEW span \in SUBSET Nodes, Spans(sc, tg, span),
                 NEW c \in Listeners(sc, tg), NEW hop \in [Nodes -> Nodes \cup {None}],
                 Reaches(sc, tg, span, c, hop), Followed(tg, span, c, hop)
          PROVE  \A a \in Nodes : talker[a][tg] = None /\ (a \in span => trunkTalker[a][tg] = None)
      <3>1. c \in span /\ n \in span
        BY <2>2 DEF Spans
      <3>2. \A a \in span : View(a, c, tg) = talker[c][tg]
        BY <1>0, <2>2, <3>1, AllHoldTheSame
      <3>3. talker[c][tg] = None
        BY <3>1, <3>2 DEF View
      <3> QED BY <2>2, <3>2, <3>3 DEF View, Followed
    <2> QED BY <2>1, <2>2 DEF Following, FollowedSomehow
  <1>2. PICK span \in SUBSET Nodes :
            /\ Spans(sc, tg, span)
            /\ \A a \in Nodes : talker[a][tg] = None /\ (a \in span => trunkTalker[a][tg] = None)
    BY <1>1
  <1>3. PICK hop \in [Nodes -> Nodes \cup {None}] : Reaches(sc, tg, span, n, hop)
    BY <1>2 DEF Spans
  <1>4. Asked(tg, span)
    BY <1>0, <1>2, AskedAtRest DEF Spans
  <1>5. Followed(tg, span, n, hop)
    <2>1. \A a \in Nodes : \A b \in Peers(a) : chan[a][b] = <<>>
      BY <1>0, RestIsSilent
    <2>2. \A a \in Nodes : \A b \in Peers(a) : chan[a][b] \in Seq(Along(a, b, tg, hop))
      BY <2>1, NoMessage
    <2>3. \A a \in span : View(a, n, tg) = None
      BY <1>2 DEF View
    <2>4. ASSUME NEW b \in span \ {n}
          PROVE  LeadsTo(chan[hop[b]][b], tg, View(b, n, tg), View(hop[b], n, tg))
      <3>1. hop[b] \in span /\ hop[b] \in Peers(b)
        BY <1>3 DEF Reaches, Peers
      <3>2. b \in Peers(hop[b])
        BY <3>1, PeersAreNodes DEF TypeInv, TypeOK
      <3>3. chan[hop[b]][b] = <<>>
        BY <2>1, <3>1, <3>2
      <3> QED BY <2>3, <3>1, <3>3, LeadsNowhere
    <2> QED BY <1>2, <2>2, <2>4 DEF Followed
  <1> QED BY <1>2, <1>3, <1>4, <1>5

\* What the client of n makes n say.
LEMMA ClientSays ==
    ASSUME TypeInv, Settled, NEW n \in Nodes, NEW tg \in TGs, NEW p \in Peers(n)
    PROVE  LET start == OnLocalTalkerStart(n, p, tg, n, lk[n])
               stop == OnLocalTalkerStop(n, p, tg, lk[n])
               audio == OnLocalAudio(n, p, tg, n, lk[n])
           IN  /\ start \o audio \in Seq(TalkOn(tg, n))
               /\ stop \in Seq(TalkOn(tg, n)) /\ audio \in Seq(TalkOn(tg, n))
               /\ ~Goes(n, p, tg, lk[n]) => start \o audio = <<>> /\ stop = <<>> /\ audio = <<>>
               /\ \A t \in lk[n][p].interested : MayPass(sc, n, p, t)
               /\ Goes(n, p, tg, lk[n]) => \A r : /\ LeadsTo(start \o audio, tg, r, n)
                                                  /\ LeadsTo(stop, tg, r, None)
                                                  /\ LeadsTo(audio, tg, r, r)
  <1> DEFINE T == TalkOn(tg, n)
             a == TalkerStart(tg, n)
             b == TalkerStop(tg)
             d == Audio(tg, n)
  <1>0. LinksUp /\ Plain(sc) /\ lk[n][p].yielded \subseteq {}
    BY DEF Settled, Routed, LinksUp
  <1>1. /\ OnLocalTalkerStart(n, p, tg, n, lk[n]) = IF Goes(n, p, tg, lk[n]) THEN <<a>> ELSE <<>>
        /\ OnLocalTalkerStop(n, p, tg, lk[n]) = IF Goes(n, p, tg, lk[n]) THEN <<b>> ELSE <<>>
        /\ OnLocalAudio(n, p, tg, n, lk[n]) = IF Goes(n, p, tg, lk[n]) THEN <<d>> ELSE <<>>
    BY <1>0, Spoken
  <1>2. a \in T /\ b \in T /\ d \in T
    BY DEF TalkOn
  <1>3. /\ \A r : After(r, a, tg) = n /\ After(r, b, tg) = None /\ After(r, d, tg) = r
    BY DEF After, IsClaim, Says, TalkerStart, TalkerStop, Audio
  <1>4. a \in Messages /\ d \in Messages
    BY TalkKinds, <1>2
  <1> HIDE DEF T, a, b, d
  <1>5. <<a>> \in Seq(T) /\ <<b>> \in Seq(T) /\ <<d>> \in Seq(T) /\ <<>> \in Seq(T)
    BY <1>2, OneMessage, NoMessage
  <1>6. <<a>> \o <<d>> \in Seq(T) /\ <<>> \o <<>> = <<>>
    BY <1>5, Queues
  <1>7. \A r : LeadsTo(<<a>>, tg, r, n) /\ LeadsTo(<<b>>, tg, r, None) /\ LeadsTo(<<d>>, tg, r, r)
    BY <1>3, LeadsByOne
  <1>8. \A r : LeadsTo(<<a>> \o <<d>>, tg, r, n)
    <2>1. <<a>> \in Seq(Messages) /\ <<d>> \in Seq(Messages)
      BY <1>4, OneMessage
    <2> QED BY <1>7, <2>1, LeadsAppend
  <1>9. \A t \in lk[n][p].interested : MayPass(sc, n, p, t)
    BY DEF Settled, InterestInv
  <1> QED BY <1>1, <1>5, <1>6, <1>7, <1>8, <1>9 DEF T

\* A client keys, talks on or stops.
LEMMA ClientFollowed ==
    ASSUME TypeInv, Settled, \A t \in TGs : Following(t), sc.patient,
           NEW n \in Nodes, NEW tg \in TGs, Key(n, tg) \/ Talk(n, tg) \/ Unkey(n, tg)
    PROVE  Settled' /\ \A t \in TGs : Following(t)'
  <1> DEFINE start(p) == OnLocalTalkerStart(n, p, tg, n, lk[n])
             stop(p) == OnLocalTalkerStop(n, p, tg, lk[n])
             audio(p) == OnLocalAudio(n, p, tg, n, lk[n])
  <1>0. /\ LinksUp /\ InterestInv /\ OwnTalkers /\ Routed(sc) /\ listening = sc.listening
        /\ None \notin Nodes
        /\ \A a \in Nodes : \A b \in Peers(a) : \A t \in lk[a][b].interested : MayPass(sc, a, b, t)
    BY NoneAssumption DEF Settled, InterestInv
  <1>1. UNCHANGED <<sc, trunkTalker, lk, links, up, listening>>
    BY DEF Key, Talk, Unkey, counts
  <1>2. \E msgs, v :
            /\ SendAfter(n, None, msgs)
            /\ talker' = [talker EXCEPT ![n][tg] = v] /\ v \in {n, None}
            /\ SaysOn(n, tg, n, lk[n], msgs)
            /\ \A b \in Peers(n) : Goes(n, b, tg, lk[n]) => LeadsTo(msgs[b], tg, talker[n][tg], v)
    <2>1. CASE Key(n, tg)
      <3> DEFINE msgs == [p \in Peers(n) |-> start(p) \o audio(p)]
      <3>1. SendAfter(n, None, msgs) /\ talker' = [talker EXCEPT ![n][tg] = n]
        BY <2>1 DEF Key
      <3>2. \A p \in Peers(n) : msgs[p] = start(p) \o audio(p)
        OBVIOUS
      <3> HIDE DEF msgs
      <3>3. SaysOn(n, tg, n, lk[n], msgs)
        BY <3>2, ClientSays DEF SaysOn
      <3>4. \A b \in Peers(n) : Goes(n, b, tg, lk[n]) => LeadsTo(msgs[b], tg, talker[n][tg], n)
        BY <3>2, ClientSays
      <3> QED BY <3>1, <3>3, <3>4
    <2>2. CASE Talk(n, tg)
      <3> DEFINE msgs == [p \in Peers(n) |-> audio(p)]
      <3>1. SendAfter(n, None, msgs) /\ talker' = talker
        BY <2>2 DEF Talk
      <3>2. \A p \in Peers(n) : msgs[p] = audio(p)
        OBVIOUS
      <3> HIDE DEF msgs
      <3>3. SaysOn(n, tg, n, lk[n], msgs)
        BY <3>2, ClientSays DEF SaysOn
      <3>4. \A b \in Peers(n) : Goes(n, b, tg, lk[n]) =>
                LeadsTo(msgs[b], tg, talker[n][tg], talker[n][tg])
        BY <3>2, ClientSays
      <3>5. talker' = [talker EXCEPT ![n][tg] = talker[n][tg]] /\ talker[n][tg] \in {n, None}
        BY <1>0, <3>1 DEF TypeInv, TypeOK, OwnTalkers
      <3> QED BY <3>1, <3>3, <3>4, <3>5
    <2>3. CASE Unkey(n, tg)
      <3> DEFINE msgs == [p \in Peers(n) |-> stop(p)]
      <3>1. SendAfter(n, None, msgs) /\ talker' = [talker EXCEPT ![n][tg] = None]
        BY <2>3 DEF Unkey
      <3>2. \A p \in Peers(n) : msgs[p] = stop(p)
        OBVIOUS
      <3> HIDE DEF msgs
      <3>3. SaysOn(n, tg, n, lk[n], msgs)
        BY <3>2, ClientSays DEF SaysOn
      <3>4. \A b \in Peers(n) : Goes(n, b, tg, lk[n]) => LeadsTo(msgs[b], tg, talker[n][tg], None)
        BY <3>2, ClientSays
      <3> QED BY <3>1, <3>3, <3>4
    <2> QED BY <2>1, <2>2, <2>3
  <1> HIDE DEF start, stop, audio
  <1>3. PICK msgs, v :
            /\ SendAfter(n, None, msgs)
            /\ talker' = [talker EXCEPT ![n][tg] = v] /\ v \in {n, None}
            /\ SaysOn(n, tg, n, lk[n], msgs)
            /\ \A b \in Peers(n) : Goes(n, b, tg, lk[n]) => LeadsTo(msgs[b], tg, talker[n][tg], v)
    BY <1>2
  <1>4. /\ talker'[n][tg] = v
        /\ \A a \in Nodes \ {n} : talker'[a] = talker[a]
        /\ \A a \in Nodes : \A t \in TGs \ {tg} : talker'[a][t] = talker[a][t]
    BY <1>3 DEF TypeInv, TypeOK
  <1>5. InterestInv' /\ \A t \in TGs \ {tg} : Following(t)'
    <2>1. \A a \in Nodes : a # None
      BY <1>0
    <2> QED BY <1>0, <1>1, <1>3, <1>4, <2>1, SpeakStep
  <1>6. Following(tg)'
    <2>1. ASSUME NEW span \in SUBSET Nodes, Spans(sc, tg, span), Asked(tg, span),
                 NEW c \in Listeners(sc, tg), NEW hop \in [Nodes -> Nodes \cup {None}],
                 Reaches(sc, tg, span, c, hop), Followed(tg, span, c, hop), c = n
          PROVE  Following(tg)'
      BY <1>1, <1>3, <1>4, <2>1, TalkerStep
    <2>2. CASE Key(n, tg)
      <3>1. /\ n \in Listeners(sc, tg) /\ AtRest
            /\ talker[n][tg] = None /\ trunkTalker[n][tg] = None
        BY <1>0, <2>2 DEF Key, Listeners
      <3> QED BY <2>1, <3>1, Reoriented
    <2>3. CASE ~Key(n, tg)
      <3>1. talker[n][tg] # None
        BY <2>3 DEF Talk, Unkey
      <3>2. \A span, c, hop : Followed(tg, span, c, hop) => c = n
        BY <3>1 DEF Followed
      <3>3. FollowedSomehow(tg)
        BY <3>1 DEF Following, Silent
      <3> QED BY <2>1, <3>2, <3>3 DEF FollowedSomehow
    <2> QED BY <2>2, <2>3
  <1>7. Settled'
    <2>1. LinksUp'
      BY <1>0, <1>1 DEF LinksUp, Peers
    <2>2. OwnTalkers'
      BY <1>0, <1>3, <1>4 DEF OwnTalkers
    <2> QED BY <1>0, <1>1, <1>5, <2>1, <2>2 DEF Settled
  <1> QED BY <1>5, <1>6, <1>7

\* What n makes of a message about a TG that no client of its talks on: its
\* links are then in the state ls, and it says msgs to its peers.
Response(n, p, m, c, ls, msgs) ==
    /\ SendAfter(n, p, msgs) /\ talker' = talker
    /\ lk' = [lk EXCEPT ![n] = ls]
    /\ \A q \in Peers(n) :
          /\ ls[q].lastSent = lk[n][q].lastSent /\ ls[q].yielded = {}
          /\ lk[n][q].interested \subseteq ls[q].interested
          /\ ls[q].interested \subseteq lk[n][q].interested \cup (IF q = p THEN {m.tg} ELSE {})
          /\ msgs[q] \in Seq(TalkOn(m.tg, c))
          /\ msgs[q] # <<>> => RelaysIn(sc, n, m.tg) /\ q # p /\ Goes(n, q, m.tg, ls)

Refused(n, p, m) == ~AcceptsIn(sc, n, p, m.tg) /\ trunkTalker' = trunkTalker

Heeded(n, p, m, ls, msgs) ==
    LET v == After(trunkTalker[n][m.tg], m, m.tg)
    IN  /\ trunkTalker' = [trunkTalker EXCEPT ![n][m.tg] = v]
        /\ \A q \in Peers(n) \ {p} : RelaysIn(sc, n, m.tg) /\ Goes(n, q, m.tg, ls) =>
              LeadsTo(msgs[q], m.tg, trunkTalker[n][m.tg], v)

RelaysThat(n, p, m, c, ls, msgs) ==
    \A q \in Peers(n) :
        /\ msgs[q] \in Seq(TalkOn(m.tg, c))
        /\ msgs[q] # <<>> => RelaysIn(sc, n, m.tg) /\ q # p /\ Goes(n, q, m.tg, ls)
        /\ q # p /\ RelaysIn(sc, n, m.tg) /\ Goes(n, q, m.tg, ls) =>
              \A r : LeadsTo(msgs[q], m.tg, r, After(r, m, m.tg))

\* What is relayed is what was heard.
LEMMA RelaySays ==
    ASSUME TypeInv, Plain(sc), LinksUp, NEW n \in Nodes, NEW p \in Peers(n),
           NEW m, m.tg \in TGs, NEW c \in Nodes, m.type # "TalkerStop" => m.callsign = c,
           NEW ls, \A q \in Peers(n) : ls[q].yielded = {}, NEW msgs,
           \/ /\ m.type = "TalkerStart"
              /\ \A q \in Peers(n) : msgs[q] = IF Relays(n, m.tg) /\ q # p
                     THEN OnLocalTalkerStart(n, q, m.tg, c, ls) ELSE <<>>
           \/ /\ m.type = "TalkerStop"
              /\ \A q \in Peers(n) : msgs[q] = IF Relays(n, m.tg) /\ q # p
                     THEN OnLocalTalkerStop(n, q, m.tg, ls) ELSE <<>>
           \/ /\ m.type = "Audio"
              /\ \A q \in Peers(n) : msgs[q] = IF Relays(n, m.tg) /\ q # p
                     THEN OnLocalAudio(n, q, m.tg, c, ls) ELSE <<>>
    PROVE  RelaysThat(n, p, m, c, ls, msgs)
  <1> SUFFICES ASSUME NEW q \in Peers(n)
        PROVE  /\ msgs[q] \in Seq(TalkOn(m.tg, c))
               /\ msgs[q] # <<>> => RelaysIn(sc, n, m.tg) /\ q # p /\ Goes(n, q, m.tg, ls)
               /\ q # p /\ RelaysIn(sc, n, m.tg) /\ Goes(n, q, m.tg, ls) =>
                     \A r : LeadsTo(msgs[q], m.tg, r, After(r, m, m.tg))
    BY DEF RelaysThat
  <1>1. PICK tg \in TGs : tg = m.tg
    OBVIOUS
  <1> DEFINE T == TalkOn(tg, c)
  <1>2. Relays(n, tg) <=> RelaysIn(sc, n, tg)
    BY PlainTerms
  <1>3. /\ OnLocalTalkerStart(n, q, tg, c, ls)
               = (IF Goes(n, q, tg, ls) THEN <<TalkerStart(tg, c)>> ELSE <<>>)
        /\ OnLocalTalkerStop(n, q, tg, ls)
               = (IF Goes(n, q, tg, ls) THEN <<TalkerStop(tg)>> ELSE <<>>)
        /\ OnLocalAudio(n, q, tg, c, ls)
               = (IF Goes(n, q, tg, ls) THEN <<Audio(tg, c)>> ELSE <<>>)
    BY Spoken
  <1>4. \E k \in T : /\ msgs[q] = IF Relays(n, tg) /\ q # p /\ Goes(n, q, tg, ls)
                                    THEN <<k>> ELSE <<>>
                     /\ \A r : After(r, k, tg) = After(r, m, tg)
    <2>1. CASE m.type = "TalkerStart"
      <3>1. TalkerStart(tg, c) \in T
        BY DEF TalkOn
      <3>2. \A r : After(r, TalkerStart(tg, c), tg) = After(r, m, tg)
        BY <1>1, <2>1 DEF After, IsClaim, Says, TalkerStart
      <3>3. msgs[q] = IF Relays(n, tg) /\ q # p THEN OnLocalTalkerStart(n, q, tg, c, ls) ELSE <<>>
        BY <1>1, <2>1
      <3> QED BY <1>3, <3>1, <3>2, <3>3
    <2>2. CASE m.type = "TalkerStop"
      <3>1. TalkerStop(tg) \in T
        BY DEF TalkOn
      <3>2. \A r : After(r, TalkerStop(tg), tg) = After(r, m, tg)
        BY <1>1, <2>2 DEF After, IsClaim, Says, TalkerStop
      <3>3. msgs[q] = IF Relays(n, tg) /\ q # p THEN OnLocalTalkerStop(n, q, tg, ls) ELSE <<>>
        BY <1>1, <2>2
      <3> QED BY <1>3, <3>1, <3>2, <3>3
    <2>3. CASE m.type = "Audio"
      <3>1. Audio(tg, c) \in T
        BY DEF TalkOn
      <3>2. \A r : After(r, Audio(tg, c), tg) = After(r, m, tg)
        BY <1>1, <2>3 DEF After, IsClaim, Says, Audio
      <3>3. msgs[q] = IF Relays(n, tg) /\ q # p THEN OnLocalAudio(n, q, tg, c, ls) ELSE <<>>
        BY <1>1, <2>3
      <3> QED BY <1>3, <3>1, <3>2, <3>3
    <2> QED BY <2>1, <2>2, <2>3
  <1>5. PICK k \in T : /\ msgs[q] = IF Relays(n, tg) /\ q # p /\ Goes(n, q, tg, ls)
                                      THEN <<k>> ELSE <<>>
                       /\ \A r : After(r, k, tg) = After(r, m, tg)
    BY <1>4
  <1> HIDE DEF T
  <1>6. <<k>> \in Seq(T) /\ <<>> \in Seq(T)
    BY OneMessage, NoMessage
  <1>7. msgs[q] \in Seq(T)
    BY <1>5, <1>6
  <1>8. ASSUME q # p, RelaysIn(sc, n, tg), Goes(n, q, tg, ls), NEW r
        PROVE  LeadsTo(msgs[q], tg, r, After(r, m, tg))
    BY <1>2, <1>5, <1>8, LeadsByOne
  <1> QED BY <1>1, <1>2, <1>5, <1>7, <1>8 DEF T

\* A talk message is either refused, which only a reflector that does not accept
\* the TG from that peer may do, or its claim is held and relayed.
LEMMA Heard ==
    ASSUME TypeInv, Plain(sc), LinksUp, NEW n \in Nodes, NEW p \in Peers(n), NEW m \in Messages,
           m.type # "TgInterest", talker[n][m.tg] = None, Handle(n, p, m)
    PROVE  \E c \in Nodes : \E ls, msgs :
               Response(n, p, m, c, ls, msgs) /\ (Refused(n, p, m) \/ Heeded(n, p, m, ls, msgs))
  <1>1. PICK tg \in TGs : tg = m.tg
    BY DEF Messages
  <1>2. /\ m.type \in {"TalkerStart", "TalkerStop", "Audio"}
        /\ m.type # "TalkerStop" => m.callsign \in Nodes
        /\ lk[n] \in [Peers(n) -> LinkState] /\ p \in Nodes
        /\ talker \in [Nodes -> [TGs -> Nodes \cup {None}]]
        /\ trunkTalker \in [Nodes -> [TGs -> Nodes \cup {None}]]
        /\ \A q \in Peers(n) : lk[n][q].yielded = {}
        /\ lk = [a \in Nodes |-> lk[a]]
    BY PeersAreNodes DEF Messages, TypeInv, TypeOK, LinksUp
  <1>3. LocalTG(n, p, m) = tg /\ DeliverTG(n, tg) = tg /\ talker[n][tg] = None
    BY <1>1, PlainTerms DEF LocalTG
  <1>4. AcceptsIn(sc, n, p, tg) => Accepts(n, p, tg)
    BY PlainTerms
  <1> DEFINE nothing == [q \in Peers(n) |-> <<>>]
  <1>5. \A q \in Peers(n) : \A G : nothing[q] = <<>> /\ nothing[q] \in Seq(G)
    BY NoMessage
  <1> HIDE DEF nothing
  <1>6. ASSUME SendAfter(n, p, nothing), UNCHANGED <<talker, lk>>
        PROVE  Response(n, p, m, n, lk[n], nothing)
    BY <1>2, <1>5, <1>6 DEF Response
  <1>7. ASSUME NEW c \in Nodes, NEW ls, NEW msgs, RelaysThat(n, p, m, c, ls, msgs),
               SendAfter(n, p, msgs), talker' = talker, lk' = [lk EXCEPT ![n] = ls],
               trunkTalker' = [trunkTalker EXCEPT ![n][tg] = After(trunkTalker[n][tg], m, tg)],
               \A q \in Peers(n) :
                   /\ ls[q].lastSent = lk[n][q].lastSent /\ ls[q].yielded = {}
                   /\ lk[n][q].interested \subseteq ls[q].interested
                   /\ ls[q].interested \subseteq
                          lk[n][q].interested \cup (IF q = p THEN {tg} ELSE {})
        PROVE  Response(n, p, m, c, ls, msgs) /\ Heeded(n, p, m, ls, msgs)
    <2>1. Response(n, p, m, c, ls, msgs)
      BY <1>1, <1>7 DEF Response, RelaysThat
    <2>2. Heeded(n, p, m, ls, msgs)
      BY <1>1, <1>7 DEF Heeded, RelaysThat
    <2> QED BY <2>1, <2>2
  <1>8. CASE ~Accepts(n, p, tg)
    <2>1. SendAfter(n, p, nothing) /\ UNCHANGED <<talker, trunkTalker, lk>>
      BY <1>1, <1>8 DEF Handle, Refuse, nothing
    <2> QED BY <1>1, <1>4, <1>6, <1>8, <2>1 DEF Refused
  <1>9. CASE Accepts(n, p, tg) /\ m.type = "TalkerStart"
    <2> DEFINE wire == LocalTG(n, p, m)
               deliver == DeliverTG(n, wire)
               yields == talker[n][deliver] # None
               yielding == IF yields THEN [lk[n] EXCEPT ![p].yielded = @ \cup {deliver}]
                           ELSE lk[n]
               after == [yielding EXCEPT ![p].active = @ \cup {wire},
                                         ![p].interested = @ \cup {wire}]
               starts == [q \in Peers(n) |-> OnLocalTalkerStart(n, q, wire, m.callsign, after)]
               relayed == Relay(n, p, wire, starts)
               sent == [q \in Peers(n) |->
                   (IF yields THEN OnLocalTalkerStop(n, q, deliver, yielding) ELSE <<>>)
                       \o relayed[q]]
    <2>1. AcceptStart(n, p, m)
      BY <1>1, <1>3, <1>9 DEF Handle, IgnoreStart
    <2>2. /\ talker' = [talker EXCEPT ![n][deliver] = None]
          /\ trunkTalker' = [trunkTalker EXCEPT ![n][deliver] = m.callsign]
          /\ lk' = [lk EXCEPT ![n] = after] /\ SendAfter(n, p, sent)
      BY <2>1 DEF AcceptStart
    <2>3. wire = tg /\ deliver = tg /\ ~yields
      BY <1>3
    <2> HIDE DEF wire, deliver
    <2>4. yielding = lk[n]
      BY <2>3
    <2> HIDE DEF yielding, yields
    <2>5. \A q \in Peers(n) :
             /\ after[q].lastSent = lk[n][q].lastSent /\ after[q].yielded = {}
             /\ after[q].interested = lk[n][q].interested \cup (IF q = p THEN {tg} ELSE {})
      BY <1>2, <2>3, <2>4 DEF LinkState
    <2> HIDE DEF after
    <2>6. ASSUME NEW q \in Peers(n)
          PROVE  sent[q] = IF Relays(n, tg) /\ q # p
                             THEN OnLocalTalkerStart(n, q, tg, m.callsign, after) ELSE <<>>
      <3>1. starts[q] = OnLocalTalkerStart(n, q, tg, m.callsign, after)
        BY <2>3
      <3>2. starts[q] = <<>> \/ starts[q] = <<TalkerStart(Wire(n, q, tg), m.callsign)>>
        BY <3>1 DEF OnLocalTalkerStart
      <3> HIDE DEF starts
      <3>3. relayed[q] = IF Relays(n, tg) /\ q # p THEN starts[q] ELSE <<>>
        BY <2>3 DEF Relay
      <3> HIDE DEF relayed
      <3>4. sent[q] = <<>> \o relayed[q]
        BY <2>3
      <3> HIDE DEF sent
      <3>5. \A x : <<>> \o <<x>> = <<x>>
        OBVIOUS
      <3>6. <<>> \o <<>> = <<>>
        OBVIOUS
      <3> QED BY <3>1, <3>2, <3>3, <3>4, <3>5, <3>6
    <2> HIDE DEF sent
    <2>7. PICK c \in Nodes : c = m.callsign
      BY <1>2, <1>9
    <2>8. RelaysThat(n, p, m, c, after, sent)
      <3>1. \A q \in Peers(n) : after[q].yielded = {}
        BY <2>5
      <3>2. \A q \in Peers(n) : sent[q] = IF Relays(n, m.tg) /\ q # p
                THEN OnLocalTalkerStart(n, q, m.tg, c, after) ELSE <<>>
        BY <1>1, <2>6, <2>7
      <3> QED BY <1>1, <1>9, <2>7, <3>1, <3>2, RelaySays
    <2>9. After(trunkTalker[n][tg], m, tg) = c
      BY <1>1, <1>9, <2>7 DEF After, IsClaim, Says
    <2>10. talker' = talker
      BY <1>2, <1>3, <2>2, <2>3
    <2>11. trunkTalker' = [trunkTalker EXCEPT ![n][tg] = After(trunkTalker[n][tg], m, tg)]
      BY <2>2, <2>3, <2>7, <2>9
    <2>12. \A q \in Peers(n) :
               /\ after[q].lastSent = lk[n][q].lastSent /\ after[q].yielded = {}
               /\ lk[n][q].interested \subseteq after[q].interested
               /\ after[q].interested \subseteq
                      lk[n][q].interested \cup (IF q = p THEN {tg} ELSE {})
      BY <2>5
    <2>13. Response(n, p, m, c, after, sent) /\ Heeded(n, p, m, after, sent)
      BY <1>7, <2>2, <2>8, <2>10, <2>11, <2>12
    <2> QED BY <2>13
  <1>10. CASE Accepts(n, p, tg) /\ m.type = "TalkerStop"
    <2> DEFINE wire == LocalTG(n, p, m)
               deliver == DeliverTG(n, wire)
               after == [lk[n] EXCEPT ![p].yielded = @ \ {deliver}, ![p].active = @ \ {wire}]
               stops == [q \in Peers(n) |-> OnLocalTalkerStop(n, q, wire, after)]
               sent == Relay(n, p, wire, stops)
    <2>1. HandleStop(n, p, m)
      BY <1>1, <1>10 DEF Handle
    <2>2. /\ talker' = talker
          /\ trunkTalker' = [trunkTalker EXCEPT ![n][deliver] = None]
          /\ lk' = [lk EXCEPT ![n] = after] /\ SendAfter(n, p, sent)
      BY <2>1 DEF HandleStop
    <2>3. wire = tg /\ deliver = tg
      BY <1>3
    <2> HIDE DEF wire, deliver
    <2>5. \A q \in Peers(n) :
             /\ after[q].lastSent = lk[n][q].lastSent /\ after[q].yielded = {}
             /\ after[q].interested = lk[n][q].interested
      BY <1>2, <2>3 DEF LinkState
    <2> HIDE DEF after
    <2>6. \A q \in Peers(n) : sent[q] = IF Relays(n, tg) /\ q # p
                                          THEN OnLocalTalkerStop(n, q, tg, after) ELSE <<>>
      BY <2>3 DEF Relay
    <2> HIDE DEF sent
    <2>8. RelaysThat(n, p, m, n, after, sent)
      <3>1. \A q \in Peers(n) : after[q].yielded = {}
        BY <2>5
      <3>2. \A q \in Peers(n) : sent[q] = IF Relays(n, m.tg) /\ q # p
                THEN OnLocalTalkerStop(n, q, m.tg, after) ELSE <<>>
        BY <1>1, <2>6
      <3> QED BY <1>1, <1>10, <3>1, <3>2, RelaySays
    <2>9. After(trunkTalker[n][tg], m, tg) = None
      BY <1>1, <1>10 DEF After, IsClaim, Says
    <2>10. trunkTalker' = [trunkTalker EXCEPT ![n][tg] = After(trunkTalker[n][tg], m, tg)]
      BY <2>2, <2>3, <2>9
    <2>11. \A q \in Peers(n) :
               /\ after[q].lastSent = lk[n][q].lastSent /\ after[q].yielded = {}
               /\ lk[n][q].interested \subseteq after[q].interested
               /\ after[q].interested \subseteq
                      lk[n][q].interested \cup (IF q = p THEN {tg} ELSE {})
      BY <2>5
    <2>12. Response(n, p, m, n, after, sent) /\ Heeded(n, p, m, after, sent)
      BY <1>7, <2>2, <2>8, <2>10, <2>11
    <2> QED BY <2>12
  <1>11. CASE Accepts(n, p, tg) /\ m.type = "Audio"
    <2>1. HandleAudio(n, p, m)
      BY <1>1, <1>11 DEF Handle
    <2>2. \A r : After(r, m, tg) = r
      BY <1>11 DEF After, IsClaim
    <2>3. CASE tg \notin lk[n][p].active
      <3>1. SendAfter(n, p, nothing) /\ UNCHANGED <<talker, trunkTalker, lk>>
        BY <1>3, <2>1, <2>3 DEF HandleAudio, nothing
      <3>2. trunkTalker' = [trunkTalker EXCEPT ![n][tg] = trunkTalker[n][tg]]
        BY <1>2, <3>1
      <3>3. \A q \in Peers(n) : LeadsTo(nothing[q], tg, trunkTalker[n][tg], trunkTalker[n][tg])
        BY <1>5, LeadsNowhere
      <3>4. Heeded(n, p, m, lk[n], nothing)
        BY <1>1, <2>2, <3>2, <3>3 DEF Heeded
      <3> QED BY <1>6, <3>1, <3>4
    <2>4. CASE tg \in lk[n][p].active
      <3> DEFINE wire == LocalTG(n, p, m)
                 after == [lk[n] EXCEPT ![p].interested = @ \cup {wire}]
                 audio == [q \in Peers(n) |-> OnLocalAudio(n, q, wire, m.callsign, after)]
                 sent == Relay(n, p, wire, audio)
      <3>1. wire = tg
        BY <1>3
      <3>2. /\ UNCHANGED <<talker, trunkTalker>>
            /\ lk' = [lk EXCEPT ![n] = after] /\ SendAfter(n, p, sent)
        BY <2>1, <2>4, <3>1 DEF HandleAudio
      <3> HIDE DEF wire
      <3>3. \A q \in Peers(n) :
               /\ after[q].lastSent = lk[n][q].lastSent /\ after[q].yielded = {}
               /\ after[q].interested = lk[n][q].interested \cup (IF q = p THEN {tg} ELSE {})
        BY <1>2, <3>1 DEF LinkState
      <3> HIDE DEF after
      <3>4. \A q \in Peers(n) : sent[q] = IF Relays(n, tg) /\ q # p
                                            THEN OnLocalAudio(n, q, tg, m.callsign, after) ELSE <<>>
        BY <3>1 DEF Relay
      <3> HIDE DEF sent
      <3>5. PICK c \in Nodes : c = m.callsign
        BY <1>2, <1>11
      <3>6. RelaysThat(n, p, m, c, after, sent)
        <4>1. \A q \in Peers(n) : after[q].yielded = {}
          BY <3>3
        <4>2. \A q \in Peers(n) : sent[q] = IF Relays(n, m.tg) /\ q # p
                  THEN OnLocalAudio(n, q, m.tg, c, after) ELSE <<>>
          BY <1>1, <3>4, <3>5
        <4> QED BY <1>1, <1>11, <3>5, <4>1, <4>2, RelaySays
      <3>7. trunkTalker' = [trunkTalker EXCEPT ![n][tg] = After(trunkTalker[n][tg], m, tg)]
        BY <1>2, <2>2, <3>2
      <3>8. \A q \in Peers(n) :
                 /\ after[q].lastSent = lk[n][q].lastSent /\ after[q].yielded = {}
                 /\ lk[n][q].interested \subseteq after[q].interested
                 /\ after[q].interested \subseteq
                        lk[n][q].interested \cup (IF q = p THEN {tg} ELSE {})
        BY <3>3
      <3>9. Response(n, p, m, c, after, sent) /\ Heeded(n, p, m, after, sent)
        BY <1>7, <3>2, <3>6, <3>7, <3>8
      <3> QED BY <3>9
    <2> QED BY <2>3, <2>4
  <1> QED BY <1>2, <1>8, <1>9, <1>10, <1>11

\* A message about a TG comes along its tree, and is passed on along it.
LEMMA TalkReceived ==
    ASSUME TypeInv, Settled, \A t \in TGs : Following(t),
           NEW n \in Nodes, NEW p \in Peers(n), Receive(n, p),
           NEW m \in Messages, m = Head(chan[p][n]), m.type # "TgInterest"
    PROVE  Settled' /\ \A t \in TGs : Following(t)'
  <1>0. /\ LinksUp /\ InterestInv /\ OwnTalkers /\ Routed(sc) /\ Plain(sc)
        /\ listening = sc.listening /\ None \notin Nodes
        /\ p \in Nodes /\ p # n /\ n \in Peers(p)
        /\ \A a \in Nodes : \A b \in Peers(a) : \A t \in lk[a][b].interested : MayPass(sc, a, b, t)
        /\ lk = [a \in Nodes |-> lk[a]]
    BY NoneAssumption, PeersAreNodes DEF Settled, Routed, InterestInv, TypeInv, TypeOK
  <1>1. PICK tg \in TGs : tg = m.tg
    BY DEF Messages
  <1>2. /\ UNCHANGED <<sc, listening, links, up>> /\ Handle(n, p, m) /\ chan[p][n] # <<>>
    BY DEF Receive
  <1>3. IsTalk(m, tg)
    BY <1>1 DEF IsTalk
  <1>4. MayPass(sc, n, p, tg)
    <2>1. m \in Telling(sc, p, n)
      BY <1>0, <1>2, Queues DEF InterestInv
    <2> QED BY <1>1, <2>1 DEF Telling, MayPass
  <1>5. FollowedSomehow(tg)
    <2>1. ASSUME Silent(tg) PROVE FALSE
      <3>1. m \in Silence(tg)
        BY <1>0, <1>2, <2>1, Queues DEF Silent
      <3> QED BY <1>3, <3>1 DEF Silence
    <2> QED BY <2>1 DEF Following
  <1>6. PICK span \in SUBSET Nodes :
            /\ Spans(sc, tg, span) /\ Asked(tg, span)
            /\ \E c \in Listeners(sc, tg) : \E hop \in [Nodes -> Nodes \cup {None}] :
                  Reaches(sc, tg, span, c, hop) /\ Followed(tg, span, c, hop)
    BY <1>5 DEF FollowedSomehow
  <1>7. PICK c \in Listeners(sc, tg) : \E hop \in [Nodes -> Nodes \cup {None}] :
                  Reaches(sc, tg, span, c, hop) /\ Followed(tg, span, c, hop)
    BY <1>6
  <1>8. PICK hop \in [Nodes -> Nodes \cup {None}] :
                  Reaches(sc, tg, span, c, hop) /\ Followed(tg, span, c, hop)
    BY <1>7
  <1>9. hop[n] = p /\ c \in Nodes /\ c \in span
    <2>1. m \in Along(p, n, tg, hop)
      BY <1>0, <1>2, <1>8, Queues DEF Followed
    <2> QED BY <1>3, <1>6, <2>1 DEF Along, Listeners, Spans
  <1>10. n # c /\ talker[n][tg] = None
    <2>1. hop[c] = None
      BY <1>8 DEF Reaches
    <2> QED BY <1>0, <1>8, <1>9, <2>1 DEF Followed
  <1>11. PICK x \in Nodes : \E ls, msgs :
             Response(n, p, m, x, ls, msgs) /\ (Refused(n, p, m) \/ Heeded(n, p, m, ls, msgs))
    BY <1>0, <1>1, <1>2, <1>10, Heard
  <1>12. PICK ls, msgs :
             Response(n, p, m, x, ls, msgs) /\ (Refused(n, p, m) \/ Heeded(n, p, m, ls, msgs))
    BY <1>11
  <1>13. /\ SendAfter(n, p, msgs) /\ talker' = talker
         /\ lk' = [lk EXCEPT ![n] = ls]
         /\ \A q \in Peers(n) :
               /\ ls[q].lastSent = lk[n][q].lastSent /\ ls[q].yielded = {}
               /\ lk[n][q].interested \subseteq ls[q].interested
               /\ ls[q].interested \subseteq lk[n][q].interested \cup (IF q = p THEN {tg} ELSE {})
               /\ msgs[q] \in Seq(TalkOn(tg, x))
               /\ msgs[q] # <<>> => RelaysIn(sc, n, tg) /\ q # p /\ Goes(n, q, tg, ls)
    BY <1>1, <1>12 DEF Response
  <1> DEFINE r == trunkTalker[n][tg]
             v == After(r, m, tg)
  <1>14. \/ ~AcceptsIn(sc, n, p, tg) /\ trunkTalker' = trunkTalker
         \/ /\ trunkTalker' = [trunkTalker EXCEPT ![n][tg] = v]
            /\ \A q \in Peers(n) \ {p} : RelaysIn(sc, n, tg) /\ Goes(n, q, tg, ls) =>
                  LeadsTo(msgs[q], tg, r, v)
    BY <1>1, <1>12 DEF Refused, Heeded
  <1>15. /\ \A a \in Nodes : \A t \in TGs \ {tg} : trunkTalker'[a][t] = trunkTalker[a][t]
         /\ \A a \in Nodes \ {n} : trunkTalker'[a] = trunkTalker[a]
         /\ AcceptsIn(sc, n, p, tg) => trunkTalker'[n][tg] = v
    <2>1. trunkTalker \in [Nodes -> [TGs -> Nodes \cup {None}]]
      BY DEF TypeInv, TypeOK
    <2>2. \/ ~AcceptsIn(sc, n, p, tg) /\ trunkTalker' = trunkTalker
          \/ trunkTalker' = [trunkTalker EXCEPT ![n][tg] = v]
      BY <1>14
    <2> HIDE DEF v
    <2> QED BY <2>1, <2>2
  <1> HIDE DEF r, v
  <1>16. \A a \in Nodes : \A b \in Peers(a) :
               /\ lk'[a][b].lastSent = lk[a][b].lastSent
               /\ lk[a][b].interested \subseteq lk'[a][b].interested
               /\ lk[a][b].yielded = {} => lk'[a][b].yielded = {}
               /\ \A t \in lk'[a][b].interested : MayPass(sc, a, b, t)
    <2>1. ASSUME NEW q \in Peers(n), NEW t \in ls[q].interested PROVE MayPass(sc, n, q, t)
      BY <1>0, <1>4, <1>13
    <2> QED BY <1>0, <1>13, <2>1
  <1>17. InterestInv' /\ \A t \in TGs \ {tg} : Following(t)'
    <2>1. SaysOn(n, tg, x, ls, msgs)
      BY <1>0, <1>4, <1>13 DEF SaysOn
    <2>2. \A a \in Nodes : a = p /\ n \in Peers(a) =>
               chan[a][n] # <<>> /\ IsTalk(Head(chan[a][n]), tg)
      BY <1>2, <1>3
    <2>3. \A a \in Nodes : \A t \in TGs \ {tg} : /\ talker'[a][t] = talker[a][t]
                                                  /\ trunkTalker'[a][t] = trunkTalker[a][t]
      BY <1>13, <1>15
    <2>4. p \in Nodes \cup {None} /\ UNCHANGED sc /\ SendAfter(n, p, msgs)
      BY <1>0, <1>2, <1>13
    <2>5. \A a \in Nodes : \A b \in Peers(a) :
               /\ lk'[a][b].lastSent = lk[a][b].lastSent
               /\ lk[a][b].interested \subseteq lk'[a][b].interested
               /\ \A t \in lk'[a][b].interested : MayPass(sc, a, b, t)
      BY <1>16
    <2> QED BY <2>1, <2>2, <2>3, <2>4, <2>5, SpeakStep
  <1>18. Followed(tg, span, c, hop)'
    <2>1. ASSUME NEW b \in Peers(n) PROVE msgs[b] \in Seq(Along(n, b, tg, hop))
      <3>1. CASE msgs[b] = <<>>
        BY <3>1, NoMessage
      <3>2. CASE msgs[b] # <<>>
        <4>1. RelaysIn(sc, n, tg) /\ b # p /\ Goes(n, b, tg, ls)
          BY <1>13, <3>2
        <4>2. tg \in ls[b].interested => MayPass(sc, n, b, tg)
          BY <1>0, <1>13, <4>1
        <4>3. hop[b] = n
          BY <1>8, <1>9, <4>1, <4>2, GoesAlong
        <4>4. TalkOn(tg, x) \subseteq Along(n, b, tg, hop)
          BY <4>3, TalkKinds DEF Along
        <4> QED BY <1>13, <4>4, WiderSeqs
      <3> QED BY <3>1, <3>2
    <2>2. n \in span => AcceptsIn(sc, n, p, tg) /\ View(n, c, tg)' = v /\ View(n, c, tg) = r
      <3>1. n \in span => AcceptsIn(sc, n, p, tg)
        BY <1>8, <1>9, <1>10 DEF Reaches
      <3> QED BY <1>10, <1>15, <3>1 DEF View, r
    <2>3. ASSUME NEW b \in Peers(n), b \in span \ {c}, hop[b] = n
          PROVE  LeadsTo(msgs[b], tg, View(n, c, tg), View(n, c, tg)')
      <3>1. n \in span /\ RelaysIn(sc, n, tg)
        BY <1>8, <1>10, <2>3 DEF Reaches
      <3>2. b # p
        BY <1>8, <1>9, <2>3, NoReturn
      <3>3. Goes(n, b, tg, ls)
        <4>1. tg \in lk[hop[b]][b].interested => tg \in ls[b].interested
          BY <1>13, <2>3
        <4> QED BY <1>6, <1>8, <2>3, <4>1, GoesEverywhere
      <3> QED BY <1>14, <2>2, <3>1, <3>2, <3>3
    <2>4. \A a \in Nodes : a = p /\ n \in Peers(a) => chan[a][n] # <<>>
      BY <1>2
    <2>5. \A a \in Nodes \ {n} : /\ talker'[a][tg] = talker[a][tg]
                                 /\ trunkTalker'[a][tg] = trunkTalker[a][tg]
      BY <1>13, <1>15
    <2>6. n \in span \ {c} =>
             View(n, c, tg)' = IF p = hop[n]
                                 THEN After(View(n, c, tg), Head(chan[hop[n]][n]), tg)
                                 ELSE View(n, c, tg)
      BY <1>9, <2>2 DEF v
    <2>7. talker'[n][tg] = None
      BY <1>10, <1>13
    <2> QED BY <1>0, <1>2, <1>8, <1>9, <1>10, <1>13, <2>1, <2>3, <2>4, <2>5, <2>6, <2>7, FollowedStep
  <1>19. Following(tg)'
    <2>1. Asked(tg, span)'
      BY <1>2, <1>6, <1>16, AskedStep
    <2>2. Spans(sc', tg, span) /\ c \in Listeners(sc', tg) /\ Reaches(sc', tg, span, c, hop)
      BY <1>2, <1>6, <1>7, <1>8
    <2> QED BY <1>18, <2>1, <2>2 DEF Following, FollowedSomehow
  <1>20. Settled'
    <2>1. LinksUp'
      BY <1>0, <1>2, <1>16 DEF LinksUp, Peers
    <2>2. OwnTalkers'
      BY <1>0, <1>13 DEF OwnTalkers
    <2> QED BY <1>0, <1>2, <1>17, <2>1, <2>2 DEF Settled
  <1> QED BY <1>17, <1>19, <1>20

LEMMA InterestReceived ==
    ASSUME TypeInv, Settled, \A t \in TGs : Following(t),
           NEW n \in Nodes, NEW p \in Peers(n), Receive(n, p),
           NEW m \in Messages, m = Head(chan[p][n]), m.type = "TgInterest"
    PROVE  Settled' /\ \A t \in TGs : Following(t)'
  <1>0. /\ LinksUp /\ InterestInv /\ OwnTalkers /\ Routed(sc) /\ Plain(sc)
        /\ listening = sc.listening
        /\ p \in Nodes /\ n \in Peers(p)
        /\ \A a \in Nodes : lk[a] \in [Peers(a) -> LinkState]
        /\ lk = [a \in Nodes |-> lk[a]]
    BY PeersAreNodes DEF Settled, Routed, TypeInv, TypeOK
  <1>1. /\ UNCHANGED <<sc, listening, links, up>> /\ HandleTgInterest(n, p, m)
        /\ chan[p][n] # <<>>
    BY DEF Receive, Handle
  <1> DEFINE nothing == [q \in Peers(n) |-> <<>>]
             new == {Translate(Config[n].link[p].mapIn, tg) : tg \in m.tgs}
  <1>2. /\ lk' = [lk EXCEPT ![n][p].interested = @ \cup new]
        /\ SendAfter(n, p, nothing) /\ UNCHANGED <<talker, trunkTalker>>
    BY <1>1 DEF HandleTgInterest
  <1>3. new = m.tgs
    <2>1. m.tgs \subseteq TGs
      BY DEF Messages
    <2> QED BY <1>0, <2>1, PlainTerms
  <1>4. \A t \in m.tgs : MayPass(sc, n, p, t)
    <2>1. m \in Telling(sc, p, n)
      BY <1>0, <1>1, Queues DEF InterestInv
    <2> QED BY <2>1 DEF Telling, MayPass
  <1>5. \A q \in Peers(n) : \A G : nothing[q] \in Seq(G)
    BY NoMessage
  <1> HIDE DEF nothing, new
  <1>6. \A a \in Nodes : \A b \in Peers(a) :
               /\ lk'[a][b].lastSent = lk[a][b].lastSent
               /\ lk'[a][b].yielded = lk[a][b].yielded
               /\ lk'[a][b].interested = lk[a][b].interested \cup
                      (IF a = n /\ b = p THEN m.tgs ELSE {})
    BY <1>0, <1>2, <1>3 DEF LinkState
  <1>7. \A a \in Nodes : \A b \in Peers(a) :
               /\ lk[a][b].interested \subseteq lk'[a][b].interested
               /\ \A t \in lk'[a][b].interested : MayPass(sc, a, b, t)
    BY <1>0, <1>4, <1>6 DEF InterestInv
  <1>8. InterestInv'
    <2>1. \A a \in Nodes : a = p /\ n \in Peers(a) => chan[a][n] # <<>>
      BY <1>1
    <2>2. \A a \in Nodes : a = p /\ n \in Peers(a) /\ Head(chan[a][n]).type = "TgInterest" =>
               Head(chan[a][n]).tgs \subseteq lk'[n][a].interested
      BY <1>6
    <2> QED BY <1>0, <1>1, <1>2, <1>5, <1>6, <1>7, <2>1, <2>2, InterestStep
  <1>9. ASSUME NEW t \in TGs PROVE Following(t)'
    <2>1. \A a \in Nodes : a = p /\ n \in Peers(a) =>
               chan[a][n] # <<>> /\ ~IsTalk(Head(chan[a][n]), t)
      BY <1>1 DEF IsTalk
    <2>2. \A span \in SUBSET Nodes : Asks(sc, t, span) /\ Asked(t, span) => Asked(t, span)'
      BY <1>1, <1>6, <1>7, AskedStep
    <2> QED BY <1>0, <1>1, <1>2, <1>5, <2>1, <2>2, OtherTG
  <1>10. Settled'
    <2>1. LinksUp'
      BY <1>0, <1>1, <1>6 DEF LinksUp, Peers
    <2>2. OwnTalkers'
      BY <1>0, <1>2 DEF OwnTalkers
    <2> QED BY <1>0, <1>1, <1>8, <2>1, <2>2 DEF Settled
  <1> QED BY <1>9, <1>10

\* Who has asked for a TG has reason to go on asking.
LEMMA AdvertiseFollowed ==
    ASSUME TypeInv, Settled, \A t \in TGs : Following(t),
           NEW n \in Nodes, NEW p \in Peers(n), Advertise(n, p)
    PROVE  Settled' /\ \A t \in TGs : Following(t)'
  <1> DEFINE out == OutgoingInterest(n, p)
             wire == {Translate(Config[n].link[p].mapOut, tg) : tg \in out}
             msgs == [q \in Peers(n) |-> IF q # p THEN <<>> ELSE <<TgInterest(wire)>>]
  <1>0. /\ LinksUp /\ InterestInv /\ OwnTalkers /\ Routed(sc) /\ Plain(sc)
        /\ listening = sc.listening /\ None \notin Nodes
        /\ p \in Nodes /\ n \in Peers(p)
        /\ \A a \in Nodes : lk[a] \in [Peers(a) -> LinkState]
        /\ lk = [a \in Nodes |-> lk[a]]
    BY NoneAssumption, PeersAreNodes DEF Settled, Routed, TypeInv, TypeOK
  <1>1. /\ lk' = [lk EXCEPT ![n][p].lastSent = out] /\ SendAfter(n, None, msgs)
        /\ UNCHANGED <<sc, talker, trunkTalker, listening, links, up>>
    BY DEF Advertise
  <1>2. out \subseteq TGs
    BY <1>0 DEF OutgoingInterest, TypeInv, TypeOK, LinkState
  <1>3. \A t \in out : NextHop(sc, n, p, t)
    BY <1>0, <1>2, PlainTerms
  <1>4. wire = out
    BY <1>0, <1>2, PlainTerms
  <1> DEFINE m == TgInterest(out)
  <1>5. /\ m \in Messages /\ m \in Telling(sc, n, p) /\ m.type = "TgInterest" /\ m.tgs = out
    BY <1>2, <1>3 DEF TgInterest, Messages, Telling
  <1>6. \A q \in Peers(n) : msgs[q] = IF q # p THEN <<>> ELSE <<m>>
    BY <1>4
  <1> HIDE DEF out, wire, msgs, m
  <1>7. \A a \in Nodes : a # None
    BY <1>0
  <1>8. ASSUME NEW G, m \in G PROVE \A q \in Peers(n) : msgs[q] \in Seq(G)
    <2>1. <<m>> \in Seq(G) /\ <<>> \in Seq(G)
      BY <1>8, OneMessage, NoMessage
    <2> QED BY <1>6, <2>1
  <1>9. \A a \in Nodes : \A b \in Peers(a) :
               /\ lk'[a][b].lastSent = IF a = n /\ b = p THEN out ELSE lk[a][b].lastSent
               /\ lk'[a][b].yielded = lk[a][b].yielded
               /\ lk'[a][b].interested = lk[a][b].interested
    BY <1>0, <1>1 DEF LinkState
  <1>10. \A a \in Nodes : \A b \in Peers(a) : chan'[a][b] \in Seq(Telling(sc, a, b))
    <2>1. \A q \in Peers(n) : msgs[q] \in Seq(Telling(sc, n, q))
      <3>1. <<m>> \in Seq(Telling(sc, n, p))
        BY <1>5, OneMessage
      <3> QED BY <1>6, <3>1, NoMessage
    <2> QED BY <1>0, <1>1, <1>7, <2>1, SendTells
  <1>11. ASSUME NEW a \in Nodes, NEW b \in Peers(a), NEW t \in lk'[a][b].lastSent
         PROVE  NextHop(sc, a, b, t) /\ (t \in lk'[b][a].interested \/ Announced(chan'[a][b], t))
    <2>1. b \in Nodes /\ a \in Peers(b) /\ chan[a][b] \in Seq(Messages)
      BY PeersAreNodes DEF TypeInv, TypeOK
    <2>2. chan'[a][b] = IF a = n THEN chan[n][b] \o msgs[b] ELSE chan[a][b]
      BY <1>0, <1>1, <1>7, ChanAfter
    <2>3. CASE a = n /\ b = p
      <3>1. t \in out /\ chan'[a][b] = chan[a][b] \o <<m>>
        BY <1>6, <1>9, <2>2, <2>3
      <3> DEFINE i == Len(chan[a][b]) + 1
      <3>2. i \in DOMAIN (chan[a][b] \o <<m>>) /\ (chan[a][b] \o <<m>>)[i] = m
        BY <2>1
      <3> HIDE DEF i
      <3>3. Announced(chan'[a][b], t)
        BY <1>5, <3>1, <3>2 DEF Announced
      <3> QED BY <1>3, <2>3, <3>1, <3>3
    <2>4. CASE ~(a = n /\ b = p)
      <3>1. NextHop(sc, a, b, t) /\ (t \in lk[b][a].interested \/ Announced(chan[a][b], t))
        BY <1>0, <1>9, <2>4 DEF InterestInv
      <3>2. chan'[a][b] = chan[a][b]
        <4>1. CASE a # n
          BY <2>2, <4>1
        <4>2. CASE a = n
          <5>1. msgs[b] = <<>>
            BY <1>6, <2>4, <4>2
          <5>2. chan[a][b] \o <<>> = chan[a][b]
            BY <2>1
          <5> QED BY <2>2, <4>2, <5>1, <5>2
        <4> QED BY <4>1, <4>2
      <3> QED BY <1>9, <2>1, <3>1, <3>2
    <2> QED BY <2>3, <2>4
  <1>12. InterestInv'
    BY <1>0, <1>1, <1>9, <1>10, <1>11 DEF InterestInv, Peers
  <1>13. ASSUME NEW t \in TGs PROVE Following(t)'
    <2>1. m \in Silence(t)
      BY <1>5 DEF Silence, IsTalk
    <2>2. ASSUME NEW span \in SUBSET Nodes, Asks(sc, t, span), Asked(t, span)
          PROVE  Asked(t, span)'
      <3>1. ASSUME n \in span, NextHop(sc, n, p, t) PROVE t \in out
        <4>1. HasReason(sc, t, n, span)
          BY <2>2, <3>1, AllHaveReason
        <4>2. ASSUME NEW q \in span \cap Peers(n), NextHop(sc, q, n, t)
              PROVE  t \in lk[n][q].interested
          <5>1. n \in Peers(q)
            BY PeersAreNodes DEF TypeInv, TypeOK
          <5> QED BY <2>2, <4>2, <5>1 DEF Asked
        <4> QED BY <1>0, <3>1, <4>1, <4>2, ReasonAsks DEF out
      <3>2. \A a \in span : \A b \in Peers(a) : b \in Nodes /\ a \in Peers(b) /\ a \in Nodes
        BY PeersAreNodes DEF TypeInv, TypeOK
      <3> QED BY <1>1, <1>9, <2>2, <3>1, <3>2 DEF Asked, Peers
    <2>3. \A q \in Peers(n) : msgs[q] \in Seq(Silence(t))
      BY <1>8, <2>1
    <2>4. \A a \in Nodes : a = None /\ n \in Peers(a) =>
              chan[a][n] # <<>> /\ ~IsTalk(Head(chan[a][n]), t)
      BY <1>7
    <2> QED BY <1>0, <1>1, <2>2, <2>3, <2>4, OtherTG
  <1>14. Settled'
    <2>1. LinksUp'
      BY <1>0, <1>1, <1>9 DEF LinksUp, Peers
    <2>2. OwnTalkers'
      BY <1>0, <1>1 DEF OwnTalkers
    <2> QED BY <1>0, <1>1, <1>12, <2>1, <2>2 DEF Settled
  <1> QED BY <1>13, <1>14

\* An interest that was announced and not taken back is renewed.
LEMMA ExpireFollowed ==
    ASSUME TypeInv, Settled, \A t \in TGs : Following(t),
           NEW n \in Nodes, NEW p \in Peers(n), NEW tg \in TGs, ExpireInterest(n, p, tg)
    PROVE  Settled' /\ \A t \in TGs : Following(t)'
  <1>0. /\ LinksUp /\ InterestInv /\ OwnTalkers /\ Routed(sc) /\ Plain(sc)
        /\ listening = sc.listening
        /\ p \in Nodes /\ n \in Peers(p)
        /\ \A a \in Nodes : lk[a] \in [Peers(a) -> LinkState]
        /\ lk = [a \in Nodes |-> lk[a]]
    BY PeersAreNodes DEF Settled, Routed, TypeInv, TypeOK
  <1>1. /\ lk' = [lk EXCEPT ![n][p].interested = @ \ {tg}]
        /\ UNCHANGED <<sc, talker, trunkTalker, listening, links, up, chan>>
    BY DEF ExpireInterest
  <1>2. tg \notin lk[p][n].lastSent
    <2>1. Translate(Config[n].link[p].mapIn, Translate(Config[p].link[n].mapOut, tg)) = tg
      BY <1>0, PlainTerms
    <2> QED BY <2>1 DEF ExpireInterest
  <1>3. \A a \in Nodes : \A b \in Peers(a) :
               /\ lk'[a][b].lastSent = lk[a][b].lastSent
               /\ lk'[a][b].yielded = lk[a][b].yielded
               /\ lk'[a][b].interested =
                      lk[a][b].interested \ (IF a = n /\ b = p THEN {tg} ELSE {})
    BY <1>0, <1>1 DEF LinkState
  <1>4. ASSUME NEW a \in Nodes, NEW b \in Peers(a)
        PROVE  /\ b \in Nodes /\ a \in Peers(b)
               /\ \A t \in lk[a][b].lastSent :
                     t \in lk[b][a].interested => t \in lk'[b][a].interested
    <2>1. b \in Nodes /\ a \in Peers(b)
      BY PeersAreNodes DEF TypeInv, TypeOK
    <2> QED BY <1>2, <1>3, <2>1
  <1>5. InterestInv'
    <2>1. ASSUME NEW a \in Nodes, NEW b \in Peers(a)
          PROVE  /\ chan[a][b] \in Seq(Telling(sc, a, b))
                 /\ \A t \in lk'[a][b].lastSent :
                       /\ NextHop(sc, a, b, t)
                       /\ t \in lk'[b][a].interested \/ Announced(chan[a][b], t)
                 /\ \A t \in lk'[a][b].interested : MayPass(sc, a, b, t)
      <3>1. /\ chan[a][b] \in Seq(Telling(sc, a, b))
            /\ \A t \in lk[a][b].lastSent :
                  NextHop(sc, a, b, t) /\ (t \in lk[b][a].interested \/ Announced(chan[a][b], t))
            /\ \A t \in lk[a][b].interested : MayPass(sc, a, b, t)
        BY <1>0 DEF InterestInv
      <3>2. lk'[a][b].lastSent = lk[a][b].lastSent
        BY <1>3
      <3>3. lk'[a][b].interested \subseteq lk[a][b].interested
        BY <1>3
      <3> QED BY <1>4, <3>1, <3>2, <3>3
    <2> QED BY <1>1, <2>1 DEF InterestInv, Peers
  <1>6. ASSUME NEW t \in TGs PROVE Following(t)'
    <2>1. CASE Silent(t)
      BY <1>1, <2>1 DEF Following, Silent, Peers
    <2>2. ASSUME NEW span \in SUBSET Nodes, Asked(t, span) PROVE Asked(t, span)'
      BY <1>1, <1>3, <1>4, <2>2 DEF Asked, Peers
    <2>3. ASSUME NEW span, NEW c, NEW hop, Followed(t, span, c, hop)
          PROVE  Followed(t, span, c, hop)'
      BY <1>1, <2>3 DEF Followed, Peers, View
    <2>4. CASE FollowedSomehow(t)
      BY <1>1, <2>2, <2>3, <2>4 DEF Following, FollowedSomehow
    <2> QED BY <2>1, <2>4 DEF Following
  <1>7. Settled'
    <2>1. LinksUp'
      BY <1>0, <1>1, <1>3 DEF LinksUp, Peers
    <2>2. OwnTalkers'
      BY <1>0, <1>1 DEF OwnTalkers
    <2> QED BY <1>0, <1>1, <1>5, <2>1, <2>2 DEF Settled
  <1> QED BY <1>6, <1>7

LEMMA StillFollowed ==
    ASSUME Settled, \A t \in TGs : Following(t), UNCHANGED vars
    PROVE  Settled' /\ \A t \in TGs : Following(t)'
  <1>1. UNCHANGED <<sc, talker, trunkTalker, lk, listening, links, up, chan>>
    BY DEF vars
  <1>2. Settled'
    BY <1>1 DEF Settled, LinksUp, InterestInv, OwnTalkers, Peers
  <1>3. ASSUME NEW t \in TGs, NEW span, Asked(t, span) PROVE Asked(t, span)'
    BY <1>1, <1>3 DEF Asked, Peers
  <1>4. ASSUME NEW t \in TGs, NEW span, NEW c, NEW hop, Followed(t, span, c, hop)
        PROVE  Followed(t, span, c, hop)'
    BY <1>1, <1>4 DEF Followed, Peers, View
  <1>5. \A t \in TGs : Silent(t) => Silent(t)'
    BY <1>1 DEF Silent, Peers
  <1> QED BY <1>1, <1>2, <1>3, <1>4, <1>5 DEF Following, FollowedSomehow

\* No link is lost before losses says so, and none is removed.
LEMMA FollowNext ==
    ASSUME TypeInv, FollowInv, [Next]_vars
    PROVE  FollowInv'
  <1>1. losses \in Nat
    BY ScenariosAssumption DEF TypeInv, TypeOK
  <1> SUFFICES ASSUME sc'.patient, losses' = 0 PROVE Settled' /\ \A t \in TGs : Following(t)'
    BY DEF FollowInv
  <1>2. ASSUME sc' = sc, losses' = losses
        PROVE  /\ sc.patient /\ losses = 0 /\ Settled /\ Plain(sc) /\ LinksUp
               /\ \A t \in TGs : Following(t)
    BY <1>2 DEF FollowInv, Settled, Routed
  <1>3. CASE UNCHANGED vars
    BY <1>2, <1>3, StillFollowed DEF vars, counts
  <1>4. ASSUME NEW n \in Nodes, NEW tg \in TGs,
               Key(n, tg) \/ Talk(n, tg) \/ Unkey(n, tg) \/ Tune(n, tg)
        PROVE  Settled' /\ \A t \in TGs : Following(t)'
    <2>1. sc' = sc /\ losses' = losses
      BY <1>4 DEF Key, Talk, Unkey, Tune, counts
    <2>2. ~Tune(n, tg)
      BY <1>2, <2>1 DEF Tune, Plain
    <2> QED BY <1>2, <1>4, <2>1, <2>2, ClientFollowed
  <1>5. ASSUME NEW n \in Nodes, NEW p \in Peers(n), Receive(n, p)
        PROVE  Settled' /\ \A t \in TGs : Following(t)'
    <2>1. sc' = sc /\ losses' = losses
      BY <1>5 DEF Receive, counts
    <2>2. PICK m \in Messages : m = Head(chan[p][n])
      <3>1. p \in Nodes /\ n \in Peers(p)
        BY PeersAreNodes DEF TypeInv, TypeOK
      <3> QED BY <1>5, <3>1, Queues DEF Receive, TypeInv, TypeOK
    <2> QED BY <1>2, <1>5, <2>1, <2>2, TalkReceived, InterestReceived
  <1>6. ASSUME NEW n \in Nodes, NEW p \in Peers(n),
               Advertise(n, p) \/ \E tg \in TGs : ExpireInterest(n, p, tg)
        PROVE  Settled' /\ \A t \in TGs : Following(t)'
    <2>1. sc' = sc /\ losses' = losses
      BY <1>6 DEF Advertise, ExpireInterest, counts
    <2> QED BY <1>2, <1>6, <2>1, AdvertiseFollowed, ExpireFollowed
  <1>7. ASSUME NEW n \in Nodes, NEW p \in Peers(n),
               LoseLink(n, p) \/ RestoreLink(n, p) \/ RemoveTrunkLink(n, p)
        PROVE  FALSE
    <2>1. p \in Nodes /\ n \in Peers(p)
      BY PeersAreNodes DEF TypeInv, TypeOK
    <2>2. CASE LoseLink(n, p)
      <3>1. sc' = sc /\ losses' = losses
        BY <1>1, <2>2 DEF LoseLink
      <3>2. up[p][n]
        BY <1>2, <2>1, <3>1 DEF LinksUp
      <3> QED BY <1>1, <2>2, <3>1, <3>2 DEF LoseLink
    <2>3. CASE RestoreLink(n, p)
      <3>1. sc' = sc /\ losses' = losses /\ ~up[n][p]
        BY <2>3 DEF RestoreLink, counts
      <3> QED BY <1>2, <3>1 DEF LinksUp
    <2>4. CASE RemoveTrunkLink(n, p)
      <3>1. sc' = sc /\ losses' = losses /\ <<n, p>> \in sc.removals
        BY <2>4 DEF RemoveTrunkLink, counts
      <3> QED BY <1>2, <3>1 DEF Plain
    <2> QED BY <1>7, <2>2, <2>3, <2>4
  <1> QED BY <1>3, <1>4, <1>5, <1>6, <1>7 DEF Next, ClientStep, LinkStep

LEMMA FollowInit ==
    ASSUME \A s \in Scenarios : s.patient => Routed(s), Init
    PROVE  FollowInv
  <1> SUFFICES ASSUME sc.patient PROVE Settled /\ \A t \in TGs : Following(t)
    BY DEF FollowInv
  <1>1. Routed(sc) /\ listening = sc.listening
    BY DEF Init
  <1>2. /\ \A n \in Nodes : links[n] = Peers(n)
        /\ \A n \in Nodes : \A p \in Peers(n) :
              up[n][p] /\ lk[n][p] = Fresh /\ chan[n][p] = <<>>
        /\ \A n \in Nodes : \A tg \in TGs : talker[n][tg] = None /\ trunkTalker[n][tg] = None
    BY DEF Init
  <1>3. LinksUp
    BY <1>2 DEF LinksUp, Fresh
  <1>4. InterestInv
    <2>1. Fresh.lastSent = {} /\ Fresh.interested = {}
      BY DEF Fresh
    <2>2. \A n \in Nodes : \A p \in Peers(n) : chan[n][p] \in Seq(Telling(sc, n, p))
      BY <1>2, NoMessage
    <2> QED BY <1>2, <2>1, <2>2 DEF InterestInv
  <1>5. \A t \in TGs : Silent(t)
    BY <1>2, NoMessage DEF Silent
  <1> QED BY <1>1, <1>2, <1>3, <1>4, <1>5 DEF Settled, OwnTalkers, Following

\* In a mesh whose prefixes agree on one tree of reflectors for every TG, each
\* client that listens hears a talker that met no other, and after the talk
\* nobody (TrunkMesh!ListenersFollow; docs/PEER_PROTOCOL.md).
THEOREM RoutedMeansFollowed ==
    (\A s \in Scenarios : s.patient => Routed(s)) => (Spec => []ListenersFollow)
  <1> SUFFICES ASSUME \A s \in Scenarios : s.patient => Routed(s)
               PROVE  Spec => []ListenersFollow
    OBVIOUS
  <1>1. Init => TypeInv /\ FollowInv
    BY TypeInvInit, FollowInit
  <1>2. TypeInv /\ FollowInv /\ [Next]_vars => (TypeInv /\ FollowInv)'
    BY TypeInvNext, FollowNext
  <1>3. TypeInv /\ FollowInv => ListenersFollow
    BY FollowMeans
  <1> QED BY <1>1, <1>2, <1>3, PTL DEF Spec

\* In a full mesh there are two ways for a TG to be carried: by its one owner,
\* or as a cluster TG that no prefix claims.
Carried(s, tg) ==
    \/ /\ \E o \in Nodes : Owns(s, o, tg)
       /\ \A n \in Nodes : tg \notin s.config[n].cluster
    \/ /\ Claims(AllOwned(s), tg) = {}
       /\ \A n \in Nodes : tg \in s.config[n].cluster

LEMMA MeshHops ==
    ASSUME NEW s, FullMesh(s), NEW n \in Nodes, NEW tg
    PROVE  /\ PeersIn(s, n) = Nodes \ {n}
           /\ \A p \in Nodes \ {n} : NextHop(s, n, p, tg) <=> Owns(s, p, tg)
           /\ RelaysIn(s, n, tg) <=>
                 \/ Owns(s, n, tg)
                 \/ tg \notin s.config[n].cluster /\ Claims(AllOwned(s), tg) # {}
           /\ \A p \in Nodes \ {n} :
                 tg \in s.config[n].cluster \/ Claims(AllOwned(s), tg) # {} => AcceptsIn(s, n, p, tg)
  <1>1. PeersIn(s, n) = Nodes \ {n}
    BY DEF FullMesh
  <1>2. PrefixesIn(s, n) = AllOwned(s)
    <2>1. \A q \in Nodes \ {n} :
             s.config[n].link[q].remote \cup s.config[n].link[q].routable = s.config[q].local
      BY DEF FullMesh
    <2> QED BY <1>1, <2>1 DEF PrefixesIn, AllOwned
  <1>3. ASSUME NEW p \in Nodes \ {n} PROVE NextHop(s, n, p, tg) <=> Owns(s, p, tg)
    <2> DEFINE link == s.config[n].link[p]
    <2>1. link.remote = s.config[p].local /\ link.routable = {} /\ ~link.wildcard
      BY DEF FullMesh
    <2>2. Claims(link.remote \cup link.routable, tg) = Claims(s.config[p].local, tg)
      BY <2>1
    <2> HIDE DEF link
    <2>3. IsSharedTG(link, AllOwned(s), tg) <=> IsLocalTG(s.config[p].local, AllOwned(s), tg)
      BY <2>1, <2>2 DEF IsSharedTG, IsLocalTG
    <2> QED BY <1>2, <2>3 DEF NextHop, Owns, link
  <1>4. RelaysIn(s, n, tg) <=>
                 \/ Owns(s, n, tg)
                 \/ tg \notin s.config[n].cluster /\ Claims(AllOwned(s), tg) # {}
    BY <1>2 DEF RelaysIn, ShouldRelayInbound, Owns, HasPrefixRoute
  <1>5. ASSUME NEW p \in Nodes \ {n}
        PROVE  tg \in s.config[n].cluster \/ Claims(AllOwned(s), tg) # {} => AcceptsIn(s, n, p, tg)
    BY <1>2 DEF AcceptsIn, HasPrefixRoute
  <1> QED BY <1>1, <1>3, <1>4, <1>5

\* Everybody asks the owner, who hears the talker and tells the others.
LEMMA OwnerSpans ==
    ASSUME NEW s, FullMesh(s), NEW tg, NEW o \in Nodes, Owns(s, o, tg),
           \A n \in Nodes : tg \notin s.config[n].cluster
    PROVE  Spans(s, tg, Listeners(s, tg) \cup {o})
  <1> DEFINE span == Listeners(s, tg) \cup {o}
  <1>1. \A n \in Nodes : PeersIn(s, n) = Nodes \ {n}
    BY MeshHops
  <1>2. \A n \in Nodes : \A p \in Nodes \ {n} : NextHop(s, n, p, tg) <=> p = o
    BY MeshHops, OneOwner
  <1>3. \A n \in Nodes : /\ RelaysIn(s, n, tg)
                         /\ \A p \in Nodes \ {n} : AcceptsIn(s, n, p, tg)
    <2>1. Claims(AllOwned(s), tg) # {}
      BY DEF Owns, IsLocalTG, Claims, AllOwned
    <2> QED BY <2>1, MeshHops
  <1>4. span \subseteq Nodes
    BY DEF Listeners
  <1>5. Asks(s, tg, span)
    <2>1. \A n \in span : \A asking : HasReason(s, tg, n, asking)
      BY <1>1, <1>2, <1>4 DEF HasReason, Listeners
    <2> QED BY <2>1 DEF Asks
  <1>6. ASSUME NEW c \in Listeners(s, tg)
        PROVE  \E hop \in [Nodes -> Nodes \cup {None}] : Reaches(s, tg, span, c, hop)
    <2>1. c \in Nodes /\ c \in span /\ o \in span
      BY DEF Listeners
    <2> DEFINE hop == [n \in Nodes |-> IF n = c THEN None ELSE IF n = o THEN c ELSE o]
    <2>2. /\ hop \in [Nodes -> Nodes \cup {None}] /\ hop[c] = None
          /\ \A n \in Nodes \ {c} : hop[n] = IF n = o THEN c ELSE o
      BY <2>1
    <2> HIDE DEF hop, span
    <2>3. ASSUME NEW n \in Nodes, NEW p \in PeersIn(s, n), MayPass(s, n, p, tg), p # hop[n]
          PROVE  hop[p] = n
      <3>1. p \in Nodes \ {n} /\ (p = o \/ n = o)
        BY <1>1, <1>2, <2>3 DEF MayPass
      <3>2. CASE n = c
        BY <2>1, <2>2, <3>1, <3>2
      <3>3. CASE n # c
        BY <2>1, <2>2, <2>3, <3>1, <3>3
      <3> QED BY <3>2, <3>3
    <2>4. ASSUME NEW n \in span \ {c}
          PROVE  /\ hop[n] \in span \cap PeersIn(s, n)
                 /\ AcceptsIn(s, n, hop[n], tg) /\ RelaysIn(s, hop[n], tg)
                 /\ NextHop(s, hop[n], n, tg) \/ NextHop(s, n, hop[n], tg)
      <3>1. n \in Nodes /\ hop[n] \in span /\ hop[n] \in Nodes \ {n} /\ (n = o \/ hop[n] = o)
        BY <1>4, <2>1, <2>2
      <3> QED BY <1>1, <1>2, <1>3, <3>1
    <2>5. ASSUME NEW heard \in SUBSET span, c \in heard,
                 \A n \in span \ {c} : hop[n] \in heard => n \in heard
          PROVE  heard = span
      <3>1. o \in heard
        BY <1>4, <2>1, <2>2, <2>5
      <3>2. \A n \in span : n \in heard
        BY <1>4, <2>1, <2>2, <2>5, <3>1
      <3> QED BY <3>2
    <2>6. Reaches(s, tg, span, c, hop)
      BY <2>2, <2>3, <2>4, <2>5 DEF Reaches
    <2> QED BY <2>2, <2>6
  <1> QED BY <1>5, <1>6 DEF Spans

\* The talker tells everybody, and nobody relays.
LEMMA ClusterSpans ==
    ASSUME NEW s, FullMesh(s), NEW tg, Claims(AllOwned(s), tg) = {},
           \A n \in Nodes : tg \in s.config[n].cluster
    PROVE  Spans(s, tg, Nodes)
  <1>1. \A n \in Nodes : PeersIn(s, n) = Nodes \ {n}
    BY MeshHops
  <1>2. \A n \in Nodes : ~Owns(s, n, tg)
    BY DEF Owns, IsLocalTG, Claims, AllOwned
  <1>3. \A n \in Nodes : /\ ~RelaysIn(s, n, tg)
                         /\ \A p \in Nodes \ {n} : AcceptsIn(s, n, p, tg) /\ ~NextHop(s, n, p, tg)
    BY <1>2, MeshHops
  <1>4. Asks(s, tg, Nodes)
    <2>1. \A n \in Nodes : \A asking : HasReason(s, tg, n, asking)
      BY <1>1, <1>3 DEF HasReason
    <2> QED BY <2>1 DEF Asks
  <1>5. ASSUME NEW c \in Listeners(s, tg)
        PROVE  \E hop \in [Nodes -> Nodes \cup {None}] : Reaches(s, tg, Nodes, c, hop)
    <2>1. c \in Nodes
      BY DEF Listeners
    <2> DEFINE hop == [n \in Nodes |-> IF n = c THEN None ELSE c]
    <2>2. /\ hop \in [Nodes -> Nodes \cup {None}] /\ hop[c] = None
          /\ \A n \in Nodes \ {c} : hop[n] = c
      BY <2>1
    <2> HIDE DEF hop
    <2>3. Reaches(s, tg, Nodes, c, hop)
      BY <1>1, <1>3, <2>1, <2>2 DEF Reaches
    <2> QED BY <2>2, <2>3
  <1> QED BY <1>4, <1>5 DEF Spans, Listeners

LEMMA FullMeshesAreRouted ==
    ASSUME NEW s \in Scenarios, FullMesh(s), Plain(s),
           \A tg \in TGs : Listeners(s, tg) # {} => Carried(s, tg)
    PROVE  Routed(s)
  <1> SUFFICES ASSUME NEW tg \in TGs PROVE \E span \in SUBSET Nodes : Spans(s, tg, span)
    BY DEF Routed
  <1>1. CASE Listeners(s, tg) = {}
    <2>1. Spans(s, tg, {})
      BY <1>1 DEF Spans, Asks
    <2> QED BY <2>1
  <1>2. ASSUME NEW o \in Nodes, Owns(s, o, tg), \A n \in Nodes : tg \notin s.config[n].cluster
        PROVE  \E span \in SUBSET Nodes : Spans(s, tg, span)
    <2>1. Listeners(s, tg) \cup {o} \subseteq Nodes
      BY DEF Listeners
    <2> QED BY <1>2, <2>1, OwnerSpans
  <1>3. CASE Claims(AllOwned(s), tg) = {} /\ \A n \in Nodes : tg \in s.config[n].cluster
    BY <1>3, ClusterSpans
  <1> QED BY <1>1, <1>2, <1>3 DEF Carried

\* In a full mesh of any size the prefixes agree so on their own, if each TG
\* that somebody listens to has an owner or is a cluster TG, and not both.
THEOREM FullMeshesFollow ==
    (\A s \in Scenarios : s.patient =>
        FullMesh(s) /\ Plain(s) /\ \A tg \in TGs : Listeners(s, tg) # {} => Carried(s, tg))
    => (Spec => []ListenersFollow)
  <1> SUFFICES ASSUME \A s \in Scenarios : s.patient =>
                         /\ FullMesh(s) /\ Plain(s)
                         /\ \A tg \in TGs : Listeners(s, tg) # {} => Carried(s, tg)
               PROVE  Spec => []ListenersFollow
    OBVIOUS
  <1>1. \A s \in Scenarios : s.patient => Routed(s)
    BY FullMeshesAreRouted
  <1> QED BY <1>1, RoutedMeansFollowed
=============================================================================
