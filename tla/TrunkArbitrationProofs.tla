----------------------- MODULE TrunkArbitrationProofs -----------------------
(***************************************************************************)
(* Proofs about TrunkArbitration, for every set of talk groups and clients *)
(* and every pair of priorities.                                           *)
(***************************************************************************)
EXTENDS TrunkArbitration, TrunkTalkerProofs

LEMMA SendType ==
    ASSUME TypeOK, NEW n \in Nodes, NEW msgs \in Seq(TalkMsgs), Send(n, msgs)
    PROVE  chan' \in [Nodes -> Seq(TalkMsgs)]
  <1>1. chan[n] \o msgs \in Seq(TalkMsgs)
    BY ConcatProperties DEF TypeOK
  <1> QED BY <1>1 DEF TypeOK, Send

\* The next message of a channel is a talk message, and what is left is a
\* channel.
LEMMA HeadType ==
    ASSUME TypeOK, NEW p \in Nodes, chan[p] # <<>>
    PROVE  Head(chan[p]) \in TalkMsgs /\ Tail(chan[p]) \in Seq(TalkMsgs)
  BY HeadTailProperties DEF TypeOK

-----------------------------------------------------------------------------
(* The invariants of the nodes.                                            *)

Inv == TypeOK /\ TalkInv

LEMMA InvInit == Init => Inv
  <1>1. TalkInit => TalkTypeOK
    BY TalkInvInit DEF TalkInv
  <1>2. Init => TypeOK
    BY <1>1 DEF Init, TypeOK
  <1> QED BY <1>2, TalkInvInit DEF Init, Inv

LEMMA InvNext == Inv /\ [Next]_vars => Inv'
  <1> SUFFICES ASSUME Inv, [Next]_vars PROVE Inv'
    OBVIOUS
  <1>t. TypeOK /\ TalkInv
    BY DEF Inv
  <1>0. ASSUME TalkInv', chan' \in [Nodes -> Seq(TalkMsgs)] PROVE Inv'
    BY <1>0 DEF Inv, TalkInv, TypeOK
  <1>1. ASSUME NEW n \in Nodes, NEW tg \in TGs, NEW c \in Callsigns[n],
               ClientKeys(n, tg, c)
        PROVE  Inv'
    BY <1>0, <1>1, <1>t, CallsignType, KeyKeeps, MessageTypes, SendType
       DEF ClientKeys
  <1>2. ASSUME NEW n \in Nodes, NEW tg \in TGs, ClientTalks(n, tg) PROVE Inv'
    <2>1. talker[n][tg] \in AllCallsigns
      BY <1>2, <1>t DEF ClientTalks, Talk, TypeOK, TalkTypeOK
    <2> QED BY <1>0, <1>2, <1>t, <2>1, UnchangedKeeps, MessageTypes, SendType
            DEF ClientTalks, Talk, TalkSends
  <1>3. ASSUME NEW n \in Nodes, NEW tg \in TGs, Unkey(n, tg),
               \/ Send(n, UnkeySends(n, tg))
               \/ Send(n, DropSends(n, tg))
               \/ UNCHANGED chan
        PROVE  Inv'
    <2>1. UnkeySends(n, tg) \in Seq(TalkMsgs) /\ DropSends(n, tg) \in Seq(TalkMsgs)
      <3>1. talker[n][tg] \in AllCallsigns
        BY <1>3, <1>t DEF Unkey, TypeOK, TalkTypeOK
      <3> QED BY <3>1, MessageTypes DEF DropSends
    <2>2. chan' \in [Nodes -> Seq(TalkMsgs)]
      BY <1>3, <1>t, <2>1, SendType DEF TypeOK
    <2> QED BY <1>0, <1>3, <1>t, <2>2, UnkeyKeeps
  <1>4. ASSUME NEW n \in Nodes, Receive(n) PROVE Inv'
    <2>1. Peer(n) \in Nodes
      BY PeerType
    <2>2. /\ Head(chan[Peer(n)]) \in TalkMsgs
          /\ Tail(chan[Peer(n)]) \in Seq(TalkMsgs)
      BY <1>4, <1>t, <2>1, HeadType DEF Receive
    <2>3. TalkInv'
      BY <1>4, <1>t, <2>2, HandleKeeps DEF Receive
    <2>4. chan' \in [Nodes -> Seq(TalkMsgs)]
      BY <1>4, <1>t, <2>1, <2>2 DEF Receive, TypeOK
    <2> QED BY <1>0, <2>3, <2>4
  <1>5. ASSUME UNCHANGED vars PROVE Inv'
    BY <1>0, <1>5, <1>t, UnchangedKeeps DEF vars, TypeOK
  <1> QED
    BY <1>1, <1>2, <1>3, <1>4, <1>5
       DEF Next, ClientStep, ClientUnkeys, ClientDropped, ClientSelectsAway

LEMMA InvHolds == Spec => []Inv
  BY InvInit, InvNext, PTL DEF Spec

\* Every variable keeps its type; the channels carry only messages a client
\* action sends.
THEOREM TypeCorrect == Spec => []TypeOK
  BY InvHolds, PTL DEF Inv

\* A reflector never has a local and a remote talker on a talk group.
THEOREM OneTalker == Spec => []OneTalkerPerNode
  BY InvHolds, PTL DEF Inv, TalkInv

\* The peer's audio is played exactly where its talker is announced, and no local
\* talker's audio is held back for a claim that is over.
THEOREM RecordsAgree == Spec => []TalkerRecordsAgree
  BY InvHolds, PTL DEF Inv, TalkInv, TalkerRecordsAgree

-----------------------------------------------------------------------------
(* What the other end will have recorded when it has read what is in flight. *)

\* A start or a stop for tg: the talker it announces is its callsign, None in a
\* stop.
Claims(m, tg) == m.type \in {"TalkerStart", "TalkerStop"} /\ m.tg = tg

\* Reading the first k messages of q leads from the recorded talker r to t, or,
\* if none of them is a claim, leaves r, which is in R.
Leads(q, k, tg, r, R, t) ==
    \/ r \in R /\ \A i \in 1..k : ~Claims(q[i], tg)
    \/ \E i \in 1..k : /\ Claims(q[i], tg) /\ q[i].callsign = t
                       /\ \A j \in (i + 1)..k : ~Claims(q[j], tg)

LEMMA LeadsByClaim ==
    ASSUME NEW q, NEW k \in Nat \ {0}, NEW tg, NEW r, NEW R, Claims(q[k], tg)
    PROVE  Leads(q, k, tg, r, R, q[k].callsign)
  BY DEF Leads

LEMMA LeadsOn ==
    ASSUME NEW q, NEW k \in Nat, NEW e \in Nat, k <= e, NEW tg, NEW r, NEW R, NEW t,
           Leads(q, k, tg, r, R, t), \A i \in (k + 1)..e : ~Claims(q[i], tg)
    PROVE  Leads(q, e, tg, r, R, t)
  <1>1. CASE r \in R /\ \A i \in 1..k : ~Claims(q[i], tg)
    <2>1. \A i \in 1..e : i \in 1..k \/ i \in (k + 1)..e
      OBVIOUS
    <2> QED BY <1>1, <2>1 DEF Leads
  <1>2. ASSUME NEW i \in 1..k, Claims(q[i], tg), q[i].callsign = t,
               \A j \in (i + 1)..k : ~Claims(q[j], tg)
        PROVE  Leads(q, e, tg, r, R, t)
    <2>1. i \in 1..e /\ \A j \in (i + 1)..e : j \in (i + 1)..k \/ j \in (k + 1)..e
      OBVIOUS
    <2> QED BY <1>2, <2>1 DEF Leads
  <1> QED BY <1>1, <1>2 DEF Leads

\* What is written later does not matter.
LEMMA LeadsInPrefix ==
    ASSUME NEW q \in Seq(TalkMsgs), NEW msgs \in Seq(TalkMsgs), NEW k \in 0..Len(q),
           NEW tg, NEW r, NEW R, NEW t, Leads(q, k, tg, r, R, t)
    PROVE  Leads(q \o msgs, k, tg, r, R, t)
  <1> DEFINE all == q \o msgs
  <1>1. \A i \in 1..Len(q) : all[i] = q[i]
    OBVIOUS
  <1>2. \A i \in 1..k : i \in 1..Len(q)
    OBVIOUS
  <1>3. \A i \in 1..k : \A j \in (i + 1)..k : j \in 1..k
    OBVIOUS
  <1> HIDE DEF all
  <1>4. Leads(all, k, tg, r, R, t)
    BY <1>1, <1>2, <1>3 DEF Leads
  <1> QED BY <1>4 DEF all

\* When the first message has been read the record is r2.
LEMMA LeadsAfterRead ==
    ASSUME NEW q \in Seq(TalkMsgs), q # <<>>, NEW k \in 1..Len(q),
           NEW tg, NEW r, NEW R, NEW t, NEW r2, Leads(q, k, tg, r, R, t),
           IF Claims(Head(q), tg) THEN Head(q).callsign = t => r2 \in R ELSE r2 = r
    PROVE  Leads(Tail(q), k - 1, tg, r2, R, t)
  <1> DEFINE rest == Tail(q)
  <1>1. /\ \A i \in 1..(k - 1) : rest[i] = q[i + 1] /\ i + 1 \in 2..k
        /\ Head(q) = q[1]
    BY HeadTailProperties
  <1> HIDE DEF rest
  <1>2. CASE r \in R /\ \A i \in 1..k : ~Claims(q[i], tg)
    <2>1. r2 = r
      BY <1>1, <1>2
    <2> QED BY <1>1, <1>2, <2>1 DEF Leads, rest
  <1>3. ASSUME NEW i \in 1..k, Claims(q[i], tg), q[i].callsign = t,
               \A j \in (i + 1)..k : ~Claims(q[j], tg)
        PROVE  Leads(rest, k - 1, tg, r2, R, t)
    <2>1. \A j \in i..(k - 1) : ~Claims(rest[j], tg)
      <3> SUFFICES ASSUME NEW j \in i..(k - 1) PROVE ~Claims(rest[j], tg)
        OBVIOUS
      <3>1. j \in 1..(k - 1) /\ j + 1 \in (i + 1)..k
        OBVIOUS
      <3> QED BY <1>1, <1>3, <3>1
    <2>2. CASE i = 1
      BY <1>1, <1>3, <2>1, <2>2 DEF Leads
    <2>3. CASE i # 1
      <3>1. /\ i - 1 \in 1..(k - 1)
            /\ rest[i - 1] = q[i]
            /\ (i - 1) + 1 = i
        BY <1>1, <2>3
      <3> QED BY <1>3, <2>1, <3>1 DEF Leads
    <2> QED BY <2>2, <2>3
  <1> QED BY <1>2, <1>3 DEF Leads, rest

-----------------------------------------------------------------------------
(* What a client action writes, and what reading a message does.            *)

ClientMoves(n, tg) ==
    \/ \E c \in Callsigns[n] : ClientKeys(n, tg, c)
    \/ ClientTalks(n, tg)
    \/ ClientUnkeys(n, tg)
    \/ ClientDropped(n, tg)
    \/ ClientSelectsAway(n, tg)

\* Messages msgs of n about tg: the talker, if there is one, is announced or
\* goes on, and only his audio is sent.
Writes(n, tg, msgs) ==
    /\ msgs \in Seq(TalkMsgs)
    /\ chan' = [chan EXCEPT ![n] = @ \o msgs]
    /\ UNCHANGED <<trunkTalker, yielded>>
    /\ talker'[n][tg] \in AllCallsigns \cup {None}
    /\ talker' = [talker EXCEPT ![n][tg] = talker'[n][tg]]
    /\ \A i \in 1..Len(msgs) : msgs[i].tg = tg
    /\ \A i \in 2..Len(msgs) : msgs[i].type \notin {"TalkerStart", "TalkerStop"}
    /\ \A i \in 1..Len(msgs) :
           /\ msgs[i].type = "Audio" => msgs[i].callsign = talker'[n][tg]
           /\ msgs[i].type \in {"TalkerStart", "TalkerStop"} => msgs[i].callsign = talker'[n][tg]
           /\ msgs[i].type \in {"TalkerStart", "Audio"} => talker'[n][tg] # None
    /\ \/ msgs # <<>> /\ msgs[1].type \in {"TalkerStart", "TalkerStop"}
       \/ talker'[n][tg] = talker[n][tg]
       \/ talker'[n][tg] = None /\ (n \in Selectors \/ tg \in yielded[n])

\* Sequences of at most two messages, of which the second is no claim.
LEMMA ShortWrites ==
    ASSUME Inv, NEW n \in Nodes, NEW tg \in TGs, NEW msgs \in Seq(TalkMsgs),
           NEW c \in AllCallsigns \cup {None},
           chan' = [chan EXCEPT ![n] = @ \o msgs],
           UNCHANGED <<trunkTalker, yielded>>,
           talker' = [talker EXCEPT ![n][tg] = c],
           Len(msgs) <= 2,
           \A i \in 1..Len(msgs) :
               /\ msgs[i].tg = tg
               /\ msgs[i].type \in {"TalkerStart", "TalkerStop"} => i = 1
               /\ msgs[i].type # "Flush" => msgs[i].callsign = c
               /\ msgs[i].type \in {"TalkerStart", "Audio"} => c # None,
           \/ msgs # <<>> /\ msgs[1].type \in {"TalkerStart", "TalkerStop"}
           \/ c = talker[n][tg]
           \/ c = None /\ (n \in Selectors \/ tg \in yielded[n])
    PROVE  Writes(n, tg, msgs)
  <1>1. talker'[n][tg] = c
    BY DEF Inv, TypeOK, TalkTypeOK
  <1>2. /\ talker'[n][tg] \in AllCallsigns \cup {None}
        /\ talker' = [talker EXCEPT ![n][tg] = talker'[n][tg]]
    BY <1>1
  <1>3. \A i \in 2..Len(msgs) : i \in 1..Len(msgs) /\ i # 1
    OBVIOUS
  <1>4. \A i \in 1..Len(msgs) :
           /\ msgs[i].type = "Audio" => msgs[i].callsign = talker'[n][tg]
           /\ msgs[i].type \in {"TalkerStart", "TalkerStop"} => msgs[i].callsign = talker'[n][tg]
           /\ msgs[i].type \in {"TalkerStart", "Audio"} => talker'[n][tg] # None
    BY <1>1
  <1>5. \/ msgs # <<>> /\ msgs[1].type \in {"TalkerStart", "TalkerStop"}
        \/ talker'[n][tg] = talker[n][tg]
        \/ talker'[n][tg] = None /\ (n \in Selectors \/ tg \in yielded[n])
    BY <1>1
  <1> QED BY <1>2, <1>3, <1>4, <1>5 DEF Writes

LEMMA ClientWrites ==
    ASSUME Inv, NEW n \in Nodes, NEW tg \in TGs, ClientMoves(n, tg)
    PROVE  \E msgs : Writes(n, tg, msgs)
  <1>t. /\ talker \in [Nodes -> [TGs -> AllCallsigns \cup {None}]]
        /\ chan \in [Nodes -> Seq(TalkMsgs)]
    BY DEF Inv, TypeOK, TalkTypeOK
  <1>1. ASSUME NEW c \in Callsigns[n], ClientKeys(n, tg, c)
        PROVE  \E msgs : Writes(n, tg, msgs)
    <2>1. /\ c \in AllCallsigns /\ c # None
          /\ talker' = [talker EXCEPT ![n][tg] = c] /\ talker'[n][tg] = c
          /\ UNCHANGED <<trunkTalker, yielded>>
          /\ Send(n, KeySends(n, tg, c))
      BY <1>t, <1>1, CallsignType, CallsignsAssumption DEF ClientKeys, Key
    <2>2. KeySends(n, tg, c) \in Seq(TalkMsgs)
      BY <2>1, MessageTypes
    <2>3. /\ Len(KeySends(n, tg, c)) = 1 \/ Len(KeySends(n, tg, c)) = 2
          /\ KeySends(n, tg, c)[1] = TalkerStart(tg, c)
          /\ Len(KeySends(n, tg, c)) = 2 => KeySends(n, tg, c)[2] = Audio(tg, c)
      <3>1. TalkerStart(tg, c) \in TalkMsgs /\ Audio(tg, c) \in TalkMsgs
        BY <2>1 DEF TalkerStart, Audio, TalkMsgs
      <3> DEFINE a == TalkerStart(tg, c)
                 b == Audio(tg, c)
      <3>2. a \in TalkMsgs /\ b \in TalkMsgs
        BY <3>1
      <3>3. KeySends(n, tg, c) = <<a>> \o <<>> \/ KeySends(n, tg, c) = <<a>> \o <<b>>
        BY DEF KeySends, AudioMsgs
      <3> HIDE DEF a, b
      <3>4. /\ <<a>> \in Seq(TalkMsgs) /\ <<b>> \in Seq(TalkMsgs)
            /\ Len(<<a>>) = 1 /\ <<a>>[1] = a /\ Len(<<b>>) = 1 /\ <<b>>[1] = b
        BY <3>2
      <3>5. /\ Len(<<a>> \o <<b>>) = 2
            /\ (<<a>> \o <<b>>)[1] = a /\ (<<a>> \o <<b>>)[2] = b
        BY <3>4, ConcatProperties
      <3>6. <<a>> \o <<>> = <<a>>
        BY <3>4, ConcatEmptySeq
      <3> DEFINE msgs == KeySends(n, tg, c)
      <3>7. (Len(msgs) = 1 \/ Len(msgs) = 2) /\ msgs[1] = a /\ (Len(msgs) = 2 => msgs[2] = b)
        <4>1. CASE msgs = <<a>>
          <5> HIDE DEF msgs
          <5> QED BY <3>4, <4>1
        <4>2. CASE msgs = <<a>> \o <<b>>
          <5> HIDE DEF msgs
          <5> QED BY <3>5, <4>2
        <4> QED BY <3>3, <3>6, <4>1, <4>2
      <3> QED BY <3>7 DEF a, b
    <2>4. ASSUME NEW msgs \in Seq(TalkMsgs), Send(n, msgs), Len(msgs) = 1 \/ Len(msgs) = 2,
                 msgs[1] = TalkerStart(tg, c),
                 Len(msgs) = 2 => msgs[2] = Audio(tg, c)
          PROVE  Writes(n, tg, msgs)
      <3>1. /\ Len(msgs) <= 2 /\ msgs # <<>> /\ msgs[1] = TalkerStart(tg, c)
            /\ \A i \in 1..Len(msgs) : i = 1 \/ msgs[i] = Audio(tg, c)
        <4>1. CASE Len(msgs) = 1
          <5>1. Len(msgs) <= 2 /\ msgs # <<>>
            BY <4>1
          <5>2. \A i \in 1..Len(msgs) : i = 1
            BY <4>1
          <5> QED BY <2>4, <5>1, <5>2
        <4>2. CASE Len(msgs) = 2
          BY <2>4, <4>2
        <4> QED BY <2>4, <4>1, <4>2
      <3>2. \A i \in 1..Len(msgs) :
               /\ msgs[i].tg = tg
               /\ msgs[i].type \in {"TalkerStart", "TalkerStop"} => i = 1
               /\ msgs[i].type # "Flush" => msgs[i].callsign = c
               /\ msgs[i].type \in {"TalkerStart", "Audio"} => c # None
        BY <2>1, <3>1 DEF TalkerStart, Audio
      <3>3. msgs[1].type = "TalkerStart"
        BY <3>1 DEF TalkerStart
      <3>4. chan' = [chan EXCEPT ![n] = @ \o msgs]
        BY <2>4 DEF Send
      <3> QED BY <2>1, <3>1, <3>2, <3>3, <3>4, ShortWrites
    <2> QED BY <2>1, <2>2, <2>3, <2>4
  <1>2. ASSUME ClientTalks(n, tg) PROVE \E msgs : Writes(n, tg, msgs)
    <2> DEFINE c == talker[n][tg]
    <2>1. /\ c \in AllCallsigns /\ c # None
          /\ UNCHANGED <<talker, trunkTalker, yielded>>
          /\ Send(n, AudioMsgs(n, tg, c))
      BY <1>t, <1>2 DEF ClientTalks, Talk, TalkSends, talkState
    <2>2. AudioMsgs(n, tg, c) \in Seq(TalkMsgs)
      BY <2>1, MessageTypes
    <2>3. AudioMsgs(n, tg, c) = <<>> \/ AudioMsgs(n, tg, c) = <<Audio(tg, c)>>
      BY DEF AudioMsgs
    <2>4. talker' = [talker EXCEPT ![n][tg] = talker'[n][tg]] /\ talker'[n][tg] = c
      BY <1>t, <2>1
    <2> HIDE DEF c
    <2>5. ASSUME NEW msgs \in Seq(TalkMsgs), Send(n, msgs),
                 msgs = <<>> \/ msgs = <<Audio(tg, c)>>
          PROVE  Writes(n, tg, msgs)
      <3>1. Len(msgs) <= 2 /\ \A i \in 1..Len(msgs) : msgs[i] = Audio(tg, c)
        BY <2>5
      <3>2. talker' = [talker EXCEPT ![n][tg] = c]
        BY <2>4
      <3>3. UNCHANGED <<trunkTalker, yielded>> /\ c = talker[n][tg]
        BY <2>1 DEF c
      <3>4. \A i \in 1..Len(msgs) :
               /\ msgs[i].tg = tg /\ msgs[i].type = "Audio" /\ msgs[i].callsign = c
        BY <3>1 DEF Audio
      <3>5. chan' = [chan EXCEPT ![n] = @ \o msgs]
        BY <2>5 DEF Send
      <3> QED BY <2>1, <3>1, <3>2, <3>3, <3>4, <3>5, ShortWrites
    <2> QED BY <2>1, <2>2, <2>3, <2>5
  <1>3. ASSUME Unkey(n, tg),
               \/ Send(n, UnkeySends(n, tg)) \/ Send(n, DropSends(n, tg))
               \/ n \in Selectors /\ UNCHANGED chan
        PROVE  \E msgs : Writes(n, tg, msgs)
    <2>1. /\ talker' = [talker EXCEPT ![n][tg] = None] /\ talker'[n][tg] = None
          /\ UNCHANGED <<trunkTalker, yielded>>
      BY <1>t, <1>3 DEF Unkey
    <2>2. PICK msgs \in Seq(TalkMsgs) :
            /\ chan' = [chan EXCEPT ![n] = @ \o msgs]
            /\ \/ msgs = <<TalkerStop(tg)>> \/ msgs = <<TalkerStop(tg), Flush(tg)>>
               \/ (tg \in yielded[n] \/ n \in Selectors) /\ (msgs = <<>> \/ msgs = <<Flush(tg)>>)
      <3>1. /\ TalkerStop(tg) \in TalkMsgs /\ Flush(tg) \in TalkMsgs
            /\ UnkeySends(n, tg) = DropSends(n, tg) \o <<Flush(tg)>>
            /\ DropSends(n, tg) = IF tg \in yielded[n] THEN <<>> ELSE <<TalkerStop(tg)>>
        BY DEF TalkerStop, Flush, TalkMsgs, UnkeySends, DropSends, StopMsgs
      <3>2. CASE Send(n, UnkeySends(n, tg))
        <4>1. /\ UnkeySends(n, tg) \in Seq(TalkMsgs)
              /\ UnkeySends(n, tg) = IF tg \in yielded[n] THEN <<Flush(tg)>>
                                     ELSE <<TalkerStop(tg), Flush(tg)>>
          BY <3>1
        <4> QED BY <3>2, <4>1 DEF Send
      <3>3. CASE Send(n, DropSends(n, tg))
        <4>1. DropSends(n, tg) \in Seq(TalkMsgs)
          BY <3>1
        <4> QED BY <3>1, <3>3, <4>1 DEF Send
      <3>4. CASE n \in Selectors /\ UNCHANGED chan
        <4>1. chan[n] \o <<>> = chan[n]
          BY <1>t, ConcatEmptySeq
        <4>2. chan' = [chan EXCEPT ![n] = @ \o <<>>]
          BY <1>t, <3>4, <4>1
        <4>3. <<>> \in Seq(TalkMsgs)
          OBVIOUS
        <4> QED BY <3>4, <4>2, <4>3
      <3> QED BY <1>3, <3>2, <3>3, <3>4
    <2>3. Writes(n, tg, msgs)
      <3>1. /\ Len(msgs) <= 2
            /\ \A i \in 1..Len(msgs) :
                  (i = 1 /\ msgs[i] = TalkerStop(tg)) \/ msgs[i] = Flush(tg)
            /\ (msgs # <<>> /\ msgs[1] = TalkerStop(tg)) \/ tg \in yielded[n] \/ n \in Selectors
        <4>1. CASE msgs = <<TalkerStop(tg)>>
          BY <4>1
        <4>2. CASE msgs = <<TalkerStop(tg), Flush(tg)>>
          BY <4>2
        <4>3. CASE msgs = <<>>
          BY <2>2, <4>3 DEF TalkerStop
        <4>4. CASE msgs = <<Flush(tg)>>
          BY <2>2, <4>4 DEF TalkerStop, Flush
        <4> QED BY <2>2, <4>1, <4>2, <4>3, <4>4
      <3>2. \A i \in 1..Len(msgs) :
               /\ msgs[i].tg = tg
               /\ msgs[i].type \in {"TalkerStart", "TalkerStop"} => i = 1
               /\ msgs[i].type # "Flush" => msgs[i].callsign = None
               /\ msgs[i].type \notin {"TalkerStart", "Audio"}
        BY <3>1 DEF TalkerStop, Flush
      <3>3. msgs[1] = TalkerStop(tg) => msgs[1].type = "TalkerStop"
        BY DEF TalkerStop
      <3> QED BY <2>1, <2>2, <3>1, <3>2, <3>3, ShortWrites
    <2> QED BY <2>3
  <1> QED BY <1>1, <1>2, <1>3
          DEF ClientMoves, ClientUnkeys, ClientDropped, ClientSelectsAway

\* What reading the head of the peer's channel changes.
LEMMA ReadEffect ==
    ASSUME Inv, NEW n \in Nodes, NEW l \in Nodes, l = Peer(n), Receive(l)
    PROVE  LET m == Head(chan[n])
           IN  /\ Peer(l) = n /\ l # n
               /\ m \in TalkMsgs /\ chan[n] \in Seq(TalkMsgs) /\ chan[n] # <<>>
               /\ chan'[n] = Tail(chan[n]) /\ chan'[l] = chan[l]
               /\ trunkTalker'[n] = trunkTalker[n] /\ talker'[n] = talker[n]
               /\ yielded'[n] = yielded[n]
               /\ Wins(l) => yielded'[l] \subseteq yielded[l] /\ talker'[l] = talker[l]
               /\ \A tg \in TGs :
                    /\ talker'[l][tg] \in {talker[l][tg], None}
                    /\ ~Claims(m, tg) => trunkTalker'[l][tg] = trunkTalker[l][tg]
                    /\ Claims(m, tg) =>
                         \/ /\ trunkTalker'[l][tg] = m.callsign
                            /\ m.type = "TalkerStart" => talker'[l][tg] = None
                         \/ /\ Wins(l) /\ m.type = "TalkerStart"
                            /\ talker[l][tg] # None
                            /\ trunkTalker[l][tg] = None /\ trunkTalker'[l][tg] = None
  <1> DEFINE m == Head(chan[n])
  <1>1. /\ Peer(l) = n /\ l # n
        /\ m \in TalkMsgs /\ chan[n] \in Seq(TalkMsgs) /\ chan[n] # <<>>
        /\ chan'[n] = Tail(chan[n]) /\ chan'[l] = chan[l]
        /\ Handle(l, m, Wins(l))
    <2>1. Peer(l) = n /\ l # n
      BY NodesAssumption DEF Nodes, Peer
    <2> QED BY <2>1, HeadType DEF Inv, TypeOK, Receive
  <1>2. m.tg \in TGs
    BY <1>1 DEF TalkMsgs
  <1> HIDE DEF m
  <1>3. trunkTalker'[n] = trunkTalker[n] /\ talker'[n] = talker[n] /\ yielded'[n] = yielded[n]
    BY <1>1 DEF Handle, IgnoreStart, AcceptStart, HandleStop, talkState,
                Inv, TypeOK, TalkTypeOK
  <1>4. CASE m.type = "TalkerStart" /\ IgnoreStart(l, m, Wins(l))
    <2>1. \A tg \in TGs : talker[l][tg] = None \/ trunkTalker[l][tg] = None
      BY DEF Inv, TalkInv, OneTalkerPerNode
    <2> QED BY <1>1, <1>2, <1>3, <1>4, <2>1 DEF IgnoreStart, talkState, Claims, m
  <1>5. CASE m.type = "TalkerStart" /\ AcceptStart(l, m, Wins(l))
    <2>1. Wins(l) => talker'[l] = talker[l] /\ yielded'[l] \subseteq yielded[l]
      BY <1>2, <1>5 DEF AcceptStart, Inv, TypeOK, TalkTypeOK
    <2>2. \A tg \in TGs :
            /\ talker'[l][tg] = IF tg = m.tg THEN None ELSE talker[l][tg]
            /\ trunkTalker'[l][tg] = IF tg = m.tg THEN m.callsign ELSE trunkTalker[l][tg]
      BY <1>2, <1>5 DEF AcceptStart, Inv, TypeOK, TalkTypeOK
    <2> QED BY <1>1, <1>2, <1>3, <1>5, <2>1, <2>2 DEF Claims, m
  <1>6. CASE m.type = "TalkerStop" /\ HandleStop(l, m)
    <2>1. talker'[l] = talker[l] /\ yielded'[l] \subseteq yielded[l]
      BY <1>2, <1>6 DEF HandleStop, Inv, TypeOK, TalkTypeOK
    <2>2. m.callsign = None
      BY <1>1, <1>6 DEF TalkMsgs
    <2>3. \A tg \in TGs :
            trunkTalker'[l][tg] = IF tg = m.tg THEN None ELSE trunkTalker[l][tg]
      BY <1>2, <1>6 DEF HandleStop, Inv, TypeOK, TalkTypeOK
    <2> QED BY <1>1, <1>2, <1>3, <1>6, <2>1, <2>2, <2>3 DEF Claims, m
  <1>7. CASE m.type \in {"Audio", "Flush"} /\ UNCHANGED talkState
    BY <1>1, <1>3, <1>7 DEF talkState, Claims, m
  <1> QED BY <1>1, <1>4, <1>5, <1>6, <1>7 DEF Handle, m

\* After a client action of n the talker of its TG is what the queue leads to,
\* wherever something was written, if it was before a claim was needed.
LEMMA ClientLeads ==
    ASSUME Inv, NEW n \in Nodes, NEW tg \in TGs, NEW msgs, Writes(n, tg, msgs),
           NEW r, NEW R,
           \/ msgs # <<>> /\ msgs[1].type \in {"TalkerStart", "TalkerStop"}
           \/ Leads(chan[n], Len(chan[n]), tg, r, R, talker'[n][tg]),
           NEW k \in Len(chan[n])..Len(chan'[n]),
           k = Len(chan[n]) => msgs = <<>>
    PROVE  Leads(chan'[n], k, tg, r, R, talker'[n][tg])
  <1> DEFINE q == chan[n]
             all == chan'[n]
             t == talker'[n][tg]
  <1>1. /\ q \in Seq(TalkMsgs) /\ msgs \in Seq(TalkMsgs) /\ all = q \o msgs
    BY DEF Writes, Inv, TypeOK
  <1>2. /\ Len(q) \in Nat /\ Len(all) = Len(q) + Len(msgs) /\ Len(msgs) \in Nat
        /\ \A i \in 1..Len(msgs) : all[Len(q) + i] = msgs[i]
    BY <1>1
  <1>3. \A i \in (Len(q) + 2)..k : ~Claims(all[i], tg)
    <2> SUFFICES ASSUME NEW i \in (Len(q) + 2)..k PROVE ~Claims(all[i], tg)
      OBVIOUS
    <2>1. i - Len(q) \in 2..Len(msgs) /\ i - Len(q) \in 1..Len(msgs)
          /\ i = Len(q) + (i - Len(q))
      BY <1>2
    <2>2. all[i] = msgs[i - Len(q)]
      BY <1>2, <2>1
    <2> QED BY <2>1, <2>2 DEF Writes, Claims
  <1>4. CASE msgs # <<>> /\ msgs[1].type \in {"TalkerStart", "TalkerStop"}
    <2>1. 1 \in 1..Len(msgs)
      BY <1>1, <1>4
    <2>2. all[Len(q) + 1] = msgs[1]
      BY <1>2, <2>1
    <2>3. Claims(msgs[1], tg) /\ msgs[1].callsign = t
      BY <1>4, <2>1 DEF Writes, Claims
    <2> HIDE DEF q, all, t
    <2>4. PICK f \in Nat \ {0} : f = Len(q) + 1
      BY <1>2
    <2>5. Claims(all[f], tg) /\ all[f].callsign = t
      BY <2>2, <2>3, <2>4
    <2>6. Leads(all, f, tg, r, R, t)
      BY <2>5, LeadsByClaim
    <2>7. /\ k \in Nat /\ f <= k
          /\ \A i \in (f + 1)..k : ~Claims(all[i], tg)
      <3>1. k \in Nat /\ k # Len(q)
        BY <1>2, <1>4 DEF q, all
      <3> QED BY <1>2, <1>3, <2>4, <3>1 DEF q, all
    <2>8. Leads(all, k, tg, r, R, t)
      BY <2>6, <2>7, LeadsOn
    <2> QED BY <2>8 DEF all, t
  <1>5. CASE /\ ~(msgs # <<>> /\ msgs[1].type \in {"TalkerStart", "TalkerStop"})
             /\ Leads(q, Len(q), tg, r, R, t)
    <2>1. Leads(all, Len(q), tg, r, R, t)
      <3> HIDE DEF q, all, t
      <3>1. Len(q) \in 0..Len(q)
        BY <1>2
      <3> QED BY <1>1, <1>5, <3>1, LeadsInPrefix
    <2>2. \A i \in (Len(q) + 1)..k : ~Claims(all[i], tg)
      <3> SUFFICES ASSUME NEW i \in (Len(q) + 1)..k PROVE ~Claims(all[i], tg)
        OBVIOUS
      <3>1. CASE i = Len(q) + 1
        <4>1. 1 \in 1..Len(msgs) /\ msgs # <<>>
          BY <1>1, <1>2, <3>1
        <4>2. all[i] = msgs[1]
          BY <1>2, <3>1, <4>1
        <4> QED BY <1>5, <4>1, <4>2 DEF Claims
      <3>2. CASE i # Len(q) + 1
        BY <1>2, <1>3, <3>2
      <3> QED BY <3>1, <3>2
    <2>3. k \in Nat /\ Len(q) <= k
      BY <1>2
    <2> HIDE DEF q, all, t
    <2>4. Leads(all, k, tg, r, R, t)
      BY <1>2, <2>1, <2>2, <2>3, LeadsOn
    <2> QED BY <2>4 DEF all, t
  <1> QED BY <1>4, <1>5

\* What a client action writes about one TG leaves the others alone.
LEMMA OtherLeads ==
    ASSUME Inv, NEW n \in Nodes, NEW tg \in TGs, NEW msgs, Writes(n, tg, msgs),
           NEW r, NEW R, NEW t, NEW tg2, tg2 # tg,
           Leads(chan[n], Len(chan[n]), tg2, r, R, t)
    PROVE  Leads(chan'[n], Len(chan'[n]), tg2, r, R, t)
  <1> DEFINE q == chan[n]
             all == chan'[n]
  <1>1. /\ q \in Seq(TalkMsgs) /\ msgs \in Seq(TalkMsgs) /\ all = q \o msgs
    BY DEF Writes, Inv, TypeOK
  <1>2. /\ Len(q) \in Nat /\ Len(all) = Len(q) + Len(msgs) /\ Len(msgs) \in Nat
        /\ \A i \in 1..Len(msgs) : all[Len(q) + i] = msgs[i]
    BY <1>1
  <1>3. \A i \in (Len(q) + 1)..Len(all) : ~Claims(all[i], tg2)
    <2> SUFFICES ASSUME NEW i \in (Len(q) + 1)..Len(all) PROVE ~Claims(all[i], tg2)
      OBVIOUS
    <2>1. i - Len(q) \in 1..Len(msgs) /\ i = Len(q) + (i - Len(q))
      BY <1>2
    <2>2. all[i] = msgs[i - Len(q)]
      BY <1>2, <2>1
    <2> QED BY <2>1, <2>2 DEF Writes, Claims
  <1> HIDE DEF q, all
  <1>4. Leads(all, Len(q), tg2, r, R, t)
    <2>1. Len(q) \in 0..Len(q)
      BY <1>2
    <2> QED BY <1>1, <2>1, LeadsInPrefix DEF q
  <1>5. Leads(all, Len(all), tg2, r, R, t)
    <2>1. Len(all) \in Nat /\ Len(q) <= Len(all)
      BY <1>2
    <2> QED BY <1>2, <1>3, <1>4, <2>1, LeadsOn
  <1> QED BY <1>5 DEF all

\* A client action of one end leaves everything of the other alone.
LEMMA OtherEnd ==
    ASSUME Inv, NEW n \in Nodes, NEW tg \in TGs, NEW msgs, Writes(n, tg, msgs)
    PROVE  \A l \in Nodes \ {n} : talker'[l] = talker[l] /\ chan'[l] = chan[l]
  BY DEF Writes, Inv, TypeOK, TalkTypeOK

-----------------------------------------------------------------------------
(* The voice that arrives is that of the talker announced before it.        *)

Sent(n, tg) ==
    /\ \A i \in 1..Len(chan[n]) :
         chan[n][i].type = "Audio" /\ chan[n][i].tg = tg =>
           Leads(chan[n], i, tg, trunkTalker[Peer(n)][tg],
                 {None, chan[n][i].callsign}, chan[n][i].callsign)
    /\ talker[n][tg] # None =>
           Leads(chan[n], Len(chan[n]), tg, trunkTalker[Peer(n)][tg],
                 {None, talker[n][tg]}, talker[n][tg])

SentInv == \A n \in Nodes, tg \in TGs : Sent(n, tg)

LEMMA SentInit == Init => SentInv
  BY DEF Init, TalkInit, SentInv, Sent

LEMMA SentByClient ==
    ASSUME Inv, NEW n \in Nodes, NEW tg \in TGs, NEW msgs, Writes(n, tg, msgs),
           NEW tg2 \in TGs, Sent(n, tg2)
    PROVE  Sent(n, tg2)'
  <1> DEFINE q == chan[n]
             all == chan'[n]
             t == talker'[n][tg2]
             r == trunkTalker[Peer(n)][tg2]
  <1>1. /\ q \in Seq(TalkMsgs) /\ msgs \in Seq(TalkMsgs) /\ all = q \o msgs
        /\ trunkTalker' = trunkTalker
    BY DEF Writes, Inv, TypeOK
  <1>2. /\ Len(q) \in Nat /\ Len(all) = Len(q) + Len(msgs) /\ Len(msgs) \in Nat
        /\ \A i \in 1..Len(q) : all[i] = q[i]
        /\ \A i \in 1..Len(msgs) : all[Len(q) + i] = msgs[i]
    BY <1>1
  <1>3. tg2 # tg => t = talker[n][tg2]
    BY DEF Writes, Inv, TypeOK, TalkTypeOK
  <1>4. ASSUME tg2 = tg, t # None, NEW k \in Len(q)..Len(all), k = Len(q) => msgs = <<>>
        PROVE  Leads(all, k, tg2, r, {None, t}, t)
    <2>1. \/ msgs # <<>> /\ msgs[1].type \in {"TalkerStart", "TalkerStop"}
          \/ Leads(q, Len(q), tg, r, {None, t}, t)
      BY <1>4 DEF Writes, Sent
    <2> QED BY <1>4, <2>1, ClientLeads
  <1>5. ASSUME t # None PROVE Leads(all, Len(all), tg2, r, {None, t}, t)
    <2>1. CASE tg2 = tg
      <3>1. Len(all) \in Len(q)..Len(all) /\ (Len(all) = Len(q) => msgs = <<>>)
        BY <1>1, <1>2
      <3> QED BY <1>4, <1>5, <2>1, <3>1
    <2>2. CASE tg2 # tg
      BY <1>3, <1>5, <2>2, OtherLeads DEF Sent
    <2> QED BY <2>1, <2>2
  <1>6. ASSUME NEW i \in 1..Len(all), all[i].type = "Audio", all[i].tg = tg2
        PROVE  Leads(all, i, tg2, r, {None, all[i].callsign}, all[i].callsign)
    <2>1. CASE i \in 1..Len(q)
      <3>1. /\ all[i] = q[i] /\ i \in 0..Len(q)
        BY <1>2, <2>1
      <3>2. Leads(q, i, tg2, r, {None, q[i].callsign}, q[i].callsign)
        BY <1>6, <2>1, <3>1 DEF Sent
      <3> HIDE DEF q, all, r
      <3> QED BY <1>1, <3>1, <3>2, LeadsInPrefix
    <2>2. CASE i \notin 1..Len(q)
      <3>1. /\ i - Len(q) \in 1..Len(msgs) /\ i = Len(q) + (i - Len(q))
            /\ i \in Len(q)..Len(all) /\ i # Len(q)
        BY <1>2, <2>2
      <3>2. all[i] = msgs[i - Len(q)]
        BY <1>2, <3>1
      <3>3. tg2 = tg /\ all[i].callsign = t /\ t # None
        BY <1>6, <3>1, <3>2 DEF Writes
      <3> QED BY <1>4, <3>1, <3>3
    <2> QED BY <2>1, <2>2
  <1> QED BY <1>1, <1>5, <1>6 DEF Sent

LEMMA SentRead ==
    ASSUME Inv, NEW n \in Nodes, NEW l \in Nodes, l = Peer(n), Receive(l),
           NEW tg \in TGs, Sent(n, tg)
    PROVE  Sent(n, tg)'
  <1> DEFINE q == chan[n]
             rest == chan'[n]
             r == trunkTalker[l][tg]
             r2 == trunkTalker'[l][tg]
  <1>1. /\ q \in Seq(TalkMsgs) /\ q # <<>> /\ rest = Tail(q)
        /\ talker'[n] = talker[n]
        /\ Claims(Head(q), tg) => r2 \in {None, Head(q).callsign}
        /\ ~Claims(Head(q), tg) => r2 = r
    BY ReadEffect
  <1>2. /\ Len(q) \in Nat \ {0} /\ Len(rest) = Len(q) - 1
        /\ \A i \in 1..Len(rest) : rest[i] = q[i + 1]
    BY <1>1, HeadTailProperties
  <1>3. ASSUME NEW k \in 1..Len(q), NEW t, Leads(q, k, tg, r, {None, t}, t)
        PROVE  Leads(rest, k - 1, tg, r2, {None, t}, t)
    <2>1. IF Claims(Head(q), tg) THEN Head(q).callsign = t => r2 \in {None, t} ELSE r2 = r
      BY <1>1
    <2> HIDE DEF q, rest, r, r2
    <2> QED BY <1>1, <1>3, <2>1, LeadsAfterRead
  <1>4. ASSUME talker'[n][tg] # None
        PROVE  Leads(rest, Len(rest), tg, r2, {None, talker'[n][tg]}, talker'[n][tg])
    <2>1. Leads(q, Len(q), tg, r, {None, talker[n][tg]}, talker[n][tg])
      BY <1>1, <1>4 DEF Sent
    <2> QED BY <1>1, <1>2, <1>3, <2>1
  <1>5. ASSUME NEW i \in 1..Len(rest), rest[i].type = "Audio", rest[i].tg = tg
        PROVE  Leads(rest, i, tg, r2, {None, rest[i].callsign}, rest[i].callsign)
    <2>1. i + 1 \in 1..Len(q) /\ (i + 1) - 1 = i /\ rest[i] = q[i + 1]
      BY <1>2
    <2>2. Leads(q, i + 1, tg, r, {None, rest[i].callsign}, rest[i].callsign)
      BY <1>5, <2>1 DEF Sent
    <2>3. Leads(rest, (i + 1) - 1, tg, r2, {None, rest[i].callsign}, rest[i].callsign)
      BY <1>3, <2>1, <2>2
    <2> QED BY <2>1, <2>3
  <1> QED BY <1>4, <1>5 DEF Sent

LEMMA SentNext == Inv /\ SentInv /\ [Next]_vars => SentInv'
  <1> SUFFICES ASSUME Inv, SentInv, [Next]_vars, NEW n \in Nodes, NEW tg \in TGs
               PROVE  Sent(n, tg)'
    BY DEF SentInv
  <1>1. Sent(n, tg)
    BY DEF SentInv
  <1>2. ASSUME NEW k \in Nodes, NEW tg0 \in TGs, ClientMoves(k, tg0) PROVE Sent(n, tg)'
    <2>1. PICK msgs : Writes(k, tg0, msgs)
      BY <1>2, ClientWrites
    <2>2. CASE k = n
      BY <1>1, <2>1, <2>2, SentByClient
    <2>3. CASE k # n
      <3>1. talker'[n] = talker[n] /\ chan'[n] = chan[n] /\ trunkTalker' = trunkTalker
        BY <2>1, <2>3, OtherEnd DEF Writes
      <3> QED BY <1>1, <3>1 DEF Sent
    <2> QED BY <2>2, <2>3
  <1>3. ASSUME NEW k \in Nodes, Receive(k) PROVE Sent(n, tg)'
    <2>1. CASE k = Peer(n)
      BY <1>1, <1>3, <2>1, SentRead
    <2>2. CASE k # Peer(n)
      <3>1. k = n /\ Peer(Peer(n)) = n /\ Peer(n) \in Nodes
        BY <2>2, NodesAssumption DEF Nodes, Peer
      <3>2. /\ trunkTalker'[Peer(n)] = trunkTalker[Peer(n)] /\ chan'[n] = chan[n]
            /\ talker'[n][tg] \in {talker[n][tg], None}
        BY <1>3, <3>1, ReadEffect
      <3> QED BY <1>1, <3>2 DEF Sent
    <2> QED BY <2>1, <2>2
  <1>4. ASSUME UNCHANGED vars PROVE Sent(n, tg)'
    BY <1>1, <1>4 DEF vars, talkState, Sent
  <1> QED BY <1>2, <1>3, <1>4 DEF Next, ClientStep, ClientMoves

\* What a client hears on a TG is the voice of the talker he is told of,
\* whatever crosses on the trunk.
THEOREM VoiceAnnounced == Spec => []VoiceIsAnnounced
  <1>1. Inv /\ SentInv => VoiceIsAnnounced
    <2> SUFFICES ASSUME Inv, SentInv, NEW n \in Nodes, chan[n] # <<>>,
                        Plays(Peer(n), Head(chan[n]))
                 PROVE  trunkTalker[Peer(n)][Head(chan[n]).tg] = Head(chan[n]).callsign
      BY DEF VoiceIsAnnounced
    <2> DEFINE m == Head(chan[n])
               r == trunkTalker[Peer(n)][m.tg]
    <2>1. m \in TalkMsgs /\ chan[n] \in Seq(TalkMsgs)
      BY HeadType DEF Inv, TypeOK
    <2>2. m.tg \in TGs /\ m.type = "Audio" /\ m = chan[n][1] /\ 1 \in 1..Len(chan[n])
      BY <2>1 DEF Plays, TalkMsgs
    <2>3. r # None
      BY <2>2, PeerType DEF Plays, Inv, TalkInv, AudioGateMatchesTalker
    <2>4. Leads(chan[n], 1, m.tg, r, {None, m.callsign}, m.callsign)
      BY <2>2 DEF SentInv, Sent
    <2>5. \A i \in 1..1 : ~Claims(chan[n][i], m.tg)
      BY <2>2 DEF Claims
    <2> QED BY <2>3, <2>4, <2>5 DEF Leads
  <1>2. Spec => []SentInv
    BY SentInit, SentNext, InvHolds, PTL DEF Spec
  <1> QED BY <1>1, <1>2, InvHolds, PTL

-----------------------------------------------------------------------------
(* The end with the lower nonce is followed, and the other end's talker is   *)
(* followed too unless a claim that ends it is on its way.                   *)

\* The winner never yields, and the other end is led to its talker; of a TG
\* without one that holds unless a talker may have left it unannounced.
Followed(n) ==
    \A tg \in TGs :
        /\ tg \notin yielded[n]
        /\ talker[n][tg] # None \/ n \notin Selectors =>
             Leads(chan[n], Len(chan[n]), tg, trunkTalker[Peer(n)][tg],
                   {talker[n][tg]}, talker[n][tg])

Resolved(l) ==
    \A tg \in TGs :
        talker[l][tg] # None =>
            \/ Leads(chan[l], Len(chan[l]), tg, trunkTalker[Peer(l)][tg],
                     {talker[l][tg]}, talker[l][tg])
            \/ \E i \in 1..Len(chan[Peer(l)]) :
                  chan[Peer(l)][i].type = "TalkerStart" /\ chan[Peer(l)][i].tg = tg

FollowInv ==
    Distinct => \A n \in Nodes : Wins(n) => Followed(n) /\ Resolved(Peer(n))

LEMMA FollowInit == Init => FollowInv
  BY PeerType DEF Init, TalkInit, FollowInv, Followed, Resolved, Leads

LEMMA LoserLoses ==
    ASSUME Distinct, NEW n \in Nodes, Wins(n)
    PROVE  ~Wins(Peer(n)) /\ Peer(Peer(n)) = n /\ Peer(n) \in Nodes /\ Peer(n) # n
  BY NodesAssumption, PriorityAssumption DEF Distinct, Wins, Peer, Nodes

\* What an action of n's own client writes keeps the other end led to its
\* talker of any TG.
LEMMA LedByClient ==
    ASSUME Inv, NEW n \in Nodes, NEW tg \in TGs, NEW msgs, Writes(n, tg, msgs),
           NEW tg2 \in TGs, NEW r,
           talker'[n][tg2] = None => n \notin Selectors /\ tg2 \notin yielded[n],
           talker'[n][tg2] = talker[n][tg2] =>
             Leads(chan[n], Len(chan[n]), tg2, r, {talker[n][tg2]}, talker[n][tg2])
    PROVE  Leads(chan'[n], Len(chan'[n]), tg2, r, {talker'[n][tg2]}, talker'[n][tg2])
  <1> DEFINE t == talker'[n][tg2]
  <1>1. CASE tg2 = tg
    <2>1. \/ msgs # <<>> /\ msgs[1].type \in {"TalkerStart", "TalkerStop"}
          \/ Leads(chan[n], Len(chan[n]), tg, r, {t}, t)
      BY <1>1 DEF Writes
    <2>2. /\ Len(chan'[n]) \in Len(chan[n])..Len(chan'[n])
          /\ Len(chan'[n]) = Len(chan[n]) => msgs = <<>>
      <3>1. /\ chan[n] \in Seq(TalkMsgs) /\ msgs \in Seq(TalkMsgs)
            /\ chan'[n] = chan[n] \o msgs
        BY DEF Writes, Inv, TypeOK
      <3>2. /\ Len(chan[n]) \in Nat /\ Len(msgs) \in Nat
            /\ Len(chan'[n]) = Len(chan[n]) + Len(msgs)
            /\ Len(msgs) = 0 => msgs = <<>>
        BY <3>1
      <3> QED BY <3>2
    <2> QED BY <1>1, <2>1, <2>2, ClientLeads
  <1>2. CASE tg2 # tg
    <2>1. talker'[n][tg2] = talker[n][tg2]
      BY <1>2 DEF Writes, Inv, TypeOK, TalkTypeOK
    <2> QED BY <1>2, <2>1, OtherLeads
  <1> QED BY <1>1, <1>2

LEMMA WinnerClient ==
    ASSUME Inv, Distinct, NEW n \in Nodes, Wins(n), Followed(n), Resolved(Peer(n)),
           NEW tg \in TGs, NEW msgs, Writes(n, tg, msgs)
    PROVE  Followed(n)' /\ Resolved(Peer(n))'
  <1> DEFINE l == Peer(n)
  <1>1. /\ l \in Nodes \ {n} /\ Peer(l) = n
        /\ talker'[l] = talker[l] /\ chan'[l] = chan[l]
        /\ trunkTalker' = trunkTalker /\ yielded' = yielded
    BY LoserLoses, OtherEnd DEF Writes
  <1>2. ASSUME NEW tg2 \in TGs, talker'[n][tg2] # None \/ n \notin Selectors
        PROVE  Leads(chan'[n], Len(chan'[n]), tg2, trunkTalker'[l][tg2],
                     {talker'[n][tg2]}, talker'[n][tg2])
    <2>1. tg2 \notin yielded[n]
      BY DEF Followed
    <2>2. talker'[n][tg2] = talker[n][tg2] =>
            Leads(chan[n], Len(chan[n]), tg2, trunkTalker[l][tg2],
                  {talker[n][tg2]}, talker[n][tg2])
      BY <1>2 DEF Followed
    <2> QED BY <1>1, <1>2, <2>1, <2>2, LedByClient
  <1>3. Followed(n)'
    BY <1>1, <1>2 DEF Followed
  <1>4. Resolved(l)'
    <2>1. \A i \in 1..Len(chan[n]) : i \in 1..Len(chan'[n]) /\ chan'[n][i] = chan[n][i]
      <3>1. /\ chan[n] \in Seq(TalkMsgs) /\ msgs \in Seq(TalkMsgs)
            /\ chan'[n] = chan[n] \o msgs
        BY DEF Writes, Inv, TypeOK
      <3> QED BY <3>1
    <2>2. ASSUME NEW tg2 \in TGs, talker'[l][tg2] # None
          PROVE  \/ Leads(chan'[l], Len(chan'[l]), tg2, trunkTalker'[n][tg2],
                          {talker'[l][tg2]}, talker'[l][tg2])
                 \/ \E i \in 1..Len(chan'[n]) :
                       chan'[n][i].type = "TalkerStart" /\ chan'[n][i].tg = tg2
      <3>1. \/ Leads(chan[l], Len(chan[l]), tg2, trunkTalker[n][tg2],
                     {talker[l][tg2]}, talker[l][tg2])
            \/ \E i \in 1..Len(chan[n]) :
                  chan[n][i].type = "TalkerStart" /\ chan[n][i].tg = tg2
        BY <1>1, <2>2 DEF Resolved
      <3>2. CASE \E i \in 1..Len(chan[n]) :
                  chan[n][i].type = "TalkerStart" /\ chan[n][i].tg = tg2
        <4>1. PICK i \in 1..Len(chan[n]) :
                  chan[n][i].type = "TalkerStart" /\ chan[n][i].tg = tg2
          BY <3>2
        <4>2. i \in 1..Len(chan'[n]) /\ chan'[n][i] = chan[n][i]
          BY <2>1
        <4> QED BY <4>1, <4>2
      <3> QED BY <1>1, <3>1, <3>2
    <2>3. Peer(l) = n
      BY <1>1
    <2> QED BY <2>2, <2>3 DEF Resolved
  <1> QED BY <1>3, <1>4

LEMMA LoserClient ==
    ASSUME Inv, Distinct, NEW n \in Nodes, Wins(n), Followed(n), Resolved(Peer(n)),
           NEW tg \in TGs, NEW msgs, Writes(Peer(n), tg, msgs)
    PROVE  Followed(n)' /\ Resolved(Peer(n))'
  <1> DEFINE l == Peer(n)
  <1>1. /\ l \in Nodes \ {n} /\ Peer(l) = n
        /\ talker'[n] = talker[n] /\ chan'[n] = chan[n]
        /\ trunkTalker' = trunkTalker /\ yielded' = yielded
    <2>1. l \in Nodes /\ l # n /\ Peer(l) = n
      BY LoserLoses
    <2> QED BY <2>1, OtherEnd DEF Writes
  <1>2. Followed(n)'
    BY <1>1 DEF Followed
  <1>3. ASSUME NEW tg2 \in TGs, talker'[l][tg2] # None,
               ~ \E i \in 1..Len(chan[n]) :
                   chan[n][i].type = "TalkerStart" /\ chan[n][i].tg = tg2
        PROVE  Leads(chan'[l], Len(chan'[l]), tg2, trunkTalker[n][tg2],
                     {talker'[l][tg2]}, talker'[l][tg2])
    <2>1. talker'[l][tg2] = talker[l][tg2] =>
            Leads(chan[l], Len(chan[l]), tg2, trunkTalker[n][tg2],
                  {talker[l][tg2]}, talker[l][tg2])
      BY <1>1, <1>3 DEF Resolved
    <2> QED BY <1>1, <1>3, <2>1, LedByClient
  <1>4. Resolved(l)'
    <2>1. Peer(l) = n /\ chan'[n] = chan[n] /\ trunkTalker' = trunkTalker
      BY <1>1
    <2>2. ASSUME NEW tg2 \in TGs, talker'[l][tg2] # None,
                 ~ \E i \in 1..Len(chan'[n]) :
                     chan'[n][i].type = "TalkerStart" /\ chan'[n][i].tg = tg2
          PROVE  Leads(chan'[l], Len(chan'[l]), tg2, trunkTalker'[n][tg2],
                       {talker'[l][tg2]}, talker'[l][tg2])
      BY <1>3, <2>1, <2>2
    <2> HIDE DEF l
    <2> QED BY <2>1, <2>2 DEF Resolved
  <1> QED BY <1>2, <1>4

\* The other end takes every claim of the winner, and drops its own talker for
\* it.
LEMMA LoserReads ==
    ASSUME Inv, Distinct, NEW n \in Nodes, Wins(n), Followed(n), Resolved(Peer(n)),
           Receive(Peer(n))
    PROVE  Followed(n)' /\ Resolved(Peer(n))'
  <1> DEFINE l == Peer(n)
             q == chan[n]
             m == Head(q)
  <1>1. l \in Nodes /\ l # n /\ Peer(l) = n /\ ~Wins(l)
    BY LoserLoses
  <1>2. /\ m \in TalkMsgs /\ q \in Seq(TalkMsgs) /\ q # <<>>
        /\ chan'[n] = Tail(q) /\ chan'[l] = chan[l]
        /\ trunkTalker'[n] = trunkTalker[n] /\ talker'[n] = talker[n]
        /\ yielded'[n] = yielded[n]
        /\ \A tg \in TGs :
             /\ talker'[l][tg] \in {talker[l][tg], None}
             /\ ~Claims(m, tg) => trunkTalker'[l][tg] = trunkTalker[l][tg]
             /\ Claims(m, tg) =>
                  /\ trunkTalker'[l][tg] = m.callsign
                  /\ m.type = "TalkerStart" => talker'[l][tg] = None
    BY <1>1, ReadEffect
  <1>3. /\ Len(q) \in Nat \ {0} /\ Len(chan'[n]) = Len(q) - 1 /\ m = q[1]
        /\ \A i \in 2..Len(q) : i - 1 \in 1..Len(chan'[n]) /\ chan'[n][i - 1] = q[i]
    <2>1. /\ Len(q) \in Nat \ {0} /\ Len(chan'[n]) = Len(q) - 1 /\ m = q[1]
          /\ \A i \in 1..Len(chan'[n]) : chan'[n][i] = q[i + 1]
      BY <1>2, HeadTailProperties
    <2>2. \A i \in 2..Len(q) : i - 1 \in 1..Len(chan'[n]) /\ (i - 1) + 1 = i
      BY <2>1
    <2> QED BY <2>1, <2>2
  <1>4. ASSUME NEW tg \in TGs, talker'[n][tg] # None \/ n \notin Selectors
        PROVE  Leads(chan'[n], Len(chan'[n]), tg, trunkTalker'[l][tg],
                     {talker'[n][tg]}, talker'[n][tg])
    <2> DEFINE t == talker[n][tg]
               r == trunkTalker[l][tg]
               r2 == trunkTalker'[l][tg]
    <2>1. Leads(q, Len(q), tg, r, {t}, t)
      BY <1>2, <1>4 DEF Followed
    <2>2. IF Claims(m, tg) THEN m.callsign = t => r2 \in {t} ELSE r2 = r
      BY <1>2
    <2>3. Leads(Tail(q), Len(q) - 1, tg, r2, {t}, t)
      <3>1. Len(q) \in 1..Len(q)
        BY <1>3
      <3> HIDE DEF q, t, r, r2
      <3> QED BY <1>2, <2>1, <2>2, <3>1, LeadsAfterRead
    <2> QED BY <1>2, <1>3, <2>3
  <1>5. Followed(n)'
    BY <1>2, <1>4 DEF Followed
  <1>6. ASSUME NEW tg \in TGs, talker'[l][tg] # None,
               NEW i \in 1..Len(q), q[i].type = "TalkerStart", q[i].tg = tg
        PROVE  \E j \in 1..Len(chan'[n]) :
                  chan'[n][j].type = "TalkerStart" /\ chan'[n][j].tg = tg
    <2>1. i # 1
      BY <1>2, <1>3, <1>6 DEF Claims
    <2>2. i \in 2..Len(q)
      BY <1>3, <2>1
    <2> QED BY <1>3, <1>6, <2>2
  <1>7. Resolved(l)'
    <2>1. \A tg \in TGs : talker'[l][tg] # None => talker'[l][tg] = talker[l][tg]
      BY <1>2
    <2>2. ASSUME NEW tg \in TGs, talker'[l][tg] # None,
                 ~ \E j \in 1..Len(chan'[n]) :
                     chan'[n][j].type = "TalkerStart" /\ chan'[n][j].tg = tg
          PROVE  Leads(chan'[l], Len(chan'[l]), tg, trunkTalker'[n][tg],
                       {talker'[l][tg]}, talker'[l][tg])
      <3>1. talker[l][tg] # None /\ Peer(l) = n
        BY <1>1, <2>1, <2>2
      <3>2. ~ \E i \in 1..Len(q) : q[i].type = "TalkerStart" /\ q[i].tg = tg
        BY <1>6, <2>2
      <3>3. Leads(chan[l], Len(chan[l]), tg, trunkTalker[n][tg],
                  {talker[l][tg]}, talker[l][tg])
        BY <3>1, <3>2 DEF Resolved
      <3> QED BY <1>2, <2>1, <2>2, <3>3
    <2>3. Peer(l) = n
      BY <1>1
    <2> HIDE DEF l
    <2> QED BY <2>2, <2>3 DEF Resolved
  <1> QED BY <1>5, <1>7

\* A claim the winner ignores is one against its own talker, and that talker's
\* claim is still on its way to the other end.
LEMMA WinnerReads ==
    ASSUME Inv, Distinct, NEW n \in Nodes, Wins(n), Followed(n), Resolved(Peer(n)),
           Receive(n)
    PROVE  Followed(n)' /\ Resolved(Peer(n))'
  <1> DEFINE l == Peer(n)
             q == chan[l]
             m == Head(q)
  <1>1. l \in Nodes /\ l # n /\ Peer(l) = n /\ n = Peer(l)
    BY LoserLoses
  <1>2. /\ m \in TalkMsgs /\ q \in Seq(TalkMsgs) /\ q # <<>>
        /\ chan'[l] = Tail(q) /\ chan'[n] = chan[n]
        /\ trunkTalker'[l] = trunkTalker[l] /\ talker'[l] = talker[l]
        /\ yielded'[n] \subseteq yielded[n] /\ talker'[n] = talker[n]
        /\ \A tg \in TGs :
             /\ ~Claims(m, tg) => trunkTalker'[n][tg] = trunkTalker[n][tg]
             /\ Claims(m, tg) =>
                  \/ trunkTalker'[n][tg] = m.callsign
                  \/ talker[n][tg] # None
    BY <1>1, ReadEffect
  <1>3. Followed(n)'
    BY <1>2 DEF Followed
  <1>4. ASSUME NEW tg \in TGs, talker[l][tg] # None, talker[n][tg] # None
        PROVE  \E i \in 1..Len(chan[n]) :
                  chan[n][i].type = "TalkerStart" /\ chan[n][i].tg = tg
    <2>1. trunkTalker[l][tg] = None
      BY <1>1, <1>4 DEF Inv, TalkInv, OneTalkerPerNode
    <2>2. Leads(chan[n], Len(chan[n]), tg, trunkTalker[l][tg], {talker[n][tg]}, talker[n][tg])
      BY <1>4 DEF Followed
    <2>3. PICK i \in 1..Len(chan[n]) :
            Claims(chan[n][i], tg) /\ chan[n][i].callsign = talker[n][tg]
      BY <1>4, <2>1, <2>2 DEF Leads
    <2>4. chan[n][i] \in TalkMsgs
      BY DEF Inv, TypeOK
    <2>5. chan[n][i].type # "TalkerStop"
      BY <1>4, <2>3, <2>4 DEF TalkMsgs
    <2> QED BY <2>3, <2>5 DEF Claims
  <1>5. ASSUME NEW tg \in TGs, talker[l][tg] # None,
               Claims(m, tg) => trunkTalker'[n][tg] = m.callsign,
               Leads(q, Len(q), tg, trunkTalker[n][tg], {talker[l][tg]}, talker[l][tg])
        PROVE  Leads(chan'[l], Len(chan'[l]), tg, trunkTalker'[n][tg],
                     {talker[l][tg]}, talker[l][tg])
    <2> DEFINE t == talker[l][tg]
               r == trunkTalker[n][tg]
               r2 == trunkTalker'[n][tg]
    <2>1. Leads(q, Len(q), tg, r, {t}, t)
      BY <1>5
    <2>2. IF Claims(m, tg) THEN m.callsign = t => r2 \in {t} ELSE r2 = r
      BY <1>2, <1>5
    <2>3. Len(q) \in 1..Len(q) /\ Len(Tail(q)) = Len(q) - 1
      BY <1>2
    <2>4. Leads(Tail(q), Len(q) - 1, tg, r2, {t}, t)
      <3> HIDE DEF q, t, r, r2
      <3> QED BY <1>2, <2>1, <2>2, <2>3, LeadsAfterRead
    <2> QED BY <1>2, <2>3, <2>4
  <1>6. ASSUME NEW tg \in TGs, talker[l][tg] # None,
               ~ \E i \in 1..Len(chan[n]) :
                   chan[n][i].type = "TalkerStart" /\ chan[n][i].tg = tg
        PROVE  Leads(chan'[l], Len(chan'[l]), tg, trunkTalker'[n][tg],
                     {talker[l][tg]}, talker[l][tg])
    <2>1. talker[n][tg] = None
      BY <1>4, <1>6
    <2>2. Leads(q, Len(q), tg, trunkTalker[n][tg], {talker[l][tg]}, talker[l][tg])
      BY <1>1, <1>6 DEF Resolved
    <2> QED BY <1>2, <1>5, <1>6, <2>1, <2>2
  <1>7. Resolved(l)'
    <2>1. Peer(l) = n /\ chan'[n] = chan[n] /\ talker'[l] = talker[l]
      BY <1>1, <1>2
    <2>2. ASSUME NEW tg \in TGs, talker'[l][tg] # None,
                 ~ \E i \in 1..Len(chan'[n]) :
                     chan'[n][i].type = "TalkerStart" /\ chan'[n][i].tg = tg
          PROVE  Leads(chan'[l], Len(chan'[l]), tg, trunkTalker'[n][tg],
                       {talker'[l][tg]}, talker'[l][tg])
      BY <1>6, <2>1, <2>2
    <2> HIDE DEF l
    <2> QED BY <2>1, <2>2 DEF Resolved
  <1> QED BY <1>3, <1>7

LEMMA FollowNext == Inv /\ FollowInv /\ [Next]_vars => FollowInv'
  <1> SUFFICES ASSUME Inv, FollowInv, [Next]_vars, Distinct, NEW n \in Nodes, Wins(n)
               PROVE  Followed(n)' /\ Resolved(Peer(n))'
    BY DEF FollowInv, Distinct, Wins
  <1>1. Followed(n) /\ Resolved(Peer(n))
    BY DEF FollowInv
  <1>n. \A k \in Nodes : k = n \/ k = Peer(n)
    BY DEF Nodes, Peer
  <1>2. ASSUME NEW k \in Nodes, NEW tg \in TGs, ClientMoves(k, tg)
        PROVE  Followed(n)' /\ Resolved(Peer(n))'
    <2>1. PICK msgs : Writes(k, tg, msgs)
      BY <1>2, ClientWrites
    <2> QED BY <1>1, <1>n, <2>1, WinnerClient, LoserClient
  <1>3. ASSUME NEW k \in Nodes, Receive(k) PROVE Followed(n)' /\ Resolved(Peer(n))'
    BY <1>1, <1>n, <1>3, LoserReads, WinnerReads
  <1>4. ASSUME UNCHANGED vars PROVE Followed(n)' /\ Resolved(Peer(n))'
    BY <1>1, <1>4 DEF vars, talkState, Followed, Resolved
  <1> QED BY <1>2, <1>3, <1>4 DEF Next, ClientStep, ClientMoves

LEMMA FollowHolds == Spec => []FollowInv
  BY FollowInit, FollowNext, InvHolds, PTL DEF Spec

\* When the end with the lower nonce has nothing in flight, the other end has
\* recorded exactly its talkers.
THEOREM LoserFollows == Spec => []LoserFollowsWinner
  <1>1. FollowInv => LoserFollowsWinner
    <2> SUFFICES ASSUME FollowInv, Distinct,
                        NEW n \in Nodes \ Selectors, NEW tg \in TGs, Wins(n), chan[n] = <<>>
                 PROVE  trunkTalker[Peer(n)][tg] = talker[n][tg]
      BY DEF LoserFollowsWinner
    <2> QED BY DEF FollowInv, Followed, Leads
  <1> QED BY <1>1, FollowHolds, PTL

\* When nothing is in flight, every talker is recorded at the other end: two
\* claims that crossed have left one talker.
THEOREM AgreesAtRest == Spec => []AgreementAtRest
  <1>1. FollowInv => AgreementAtRest
    <2> SUFFICES ASSUME FollowInv, Distinct, \A k \in Nodes : chan[k] = <<>>,
                        NEW n \in Nodes, NEW tg \in TGs, talker[n][tg] # None
                 PROVE  trunkTalker[Peer(n)][tg] = talker[n][tg]
      BY DEF AgreementAtRest
    <2>1. CASE Wins(n)
      BY <2>1 DEF FollowInv, Followed, Leads
    <2>2. CASE ~Wins(n)
      <3>1. Wins(Peer(n)) /\ Peer(n) \in Nodes /\ Peer(Peer(n)) = n
        BY <2>2, NodesAssumption, PriorityAssumption DEF Distinct, Wins, Peer, Nodes
      <3>2. Resolved(n)
        BY <3>1 DEF FollowInv
      <3> QED BY <3>1, <3>2 DEF Resolved, Leads
    <2> QED BY <2>1, <2>2
  <1> QED BY <1>1, FollowHolds, PTL

-----------------------------------------------------------------------------
(* The arbitration implements TGFloor.                                      *)

LEMMA NextPasses == ASSUME Inv, Next PROVE \E n \in Nodes : FloorStep(n, Wins(n))
  <1>1. TalkInv
    BY DEF Inv
  <1>2. ASSUME NEW n \in Nodes, Receive(n) PROVE FloorStep(n, Wins(n))
    <2>1. Head(chan[Peer(n)]) \in TalkMsgs
      BY <1>2, PeerType, HeadType DEF Inv, Receive
    <2> QED BY <1>1, <1>2, <2>1, HandlePasses DEF Receive
  <1>3. CASE ClientStep
    <2>1. PICK n \in Nodes, tg \in TGs :
            \/ \E c \in Callsigns[n] : Key(n, tg, c)
            \/ Talk(n, tg)
            \/ Unkey(n, tg)
      BY <1>3 DEF ClientStep, ClientKeys, ClientTalks, ClientUnkeys, ClientDropped,
                  ClientSelectsAway
    <2>2. FloorStep(n, Wins(n))
      BY <1>1, <2>1, KeyPasses, UnkeyPasses, UnchangedPasses DEF Talk, talkState
    <2> QED BY <2>2
  <1> QED BY <1>2, <1>3 DEF Next

\* However claims cross, each reflector hands the floor on by the rules: to a
\* client when it is free, and from a client to the peer only at the end with
\* the higher nonce.
THEOREM ImplementsFloor == Spec => FloorSpec
  <1> DEFINE losers == {n \in Nodes : ~Wins(n)}
  <1>1. Init => Floor!Init
    BY FloorInit DEF Init, Floor!Init, Floor!Free
  <1>2. ASSUME Inv, Inv', [Next]_vars
        PROVE  Floor!Next \/ UNCHANGED floors
    <2>1. CASE Next
      <3>1. PICK n \in Nodes : FloorStep(n, Wins(n))
        BY <1>2, <2>1, NextPasses
      <3>2. PICK f \in [TGs -> FloorValues] :
                /\ \A tg \in TGs : Follows(floors[n][tg], f[tg], Wins(n))
                /\ floors' = [floors EXCEPT ![n] = f]
        BY <1>2, <3>1, FloorMoves DEF Inv
      <3>3. Floor!Move(n)
        BY <3>2 DEF Floor!Move, Floor!MayFollow, Follows, FloorValues,
                    Floor!Floors, Floor!Free, Floor!Client, Floor!Remote, Wins
      <3> QED BY <3>3 DEF Floor!Next
    <2>2. CASE UNCHANGED vars
      BY <2>2 DEF vars, talkState, floors, FloorOf
    <2> QED BY <1>2, <2>1, <2>2
  <1>3. Inv /\ Inv' /\ [Next]_vars => Floor!Next \/ UNCHANGED <<floors, losers>>
    <2>1. losers' = losers
      BY DEF Wins
    <2> QED BY <1>2, <2>1
  <1> QED BY <1>1, <1>3, InvHolds, PTL DEF Spec, FloorSpec, Floor!Spec, floors
=============================================================================
