--------------------------- MODULE TGHandlerProofs ---------------------------
(***************************************************************************)
(* Proofs about TGHandler, for every set of clients, talk groups and peers *)
(* and every value of the limits and timeouts.                             *)
(***************************************************************************)
EXTENDS TGHandler, FiniteSetTheorems, TLAPS

USE DEF NoTG

\* setTalkerForTG keeps the types of what it changes.
LEMMA SetTalkerType ==
    ASSUME TypeOK, NEW tg \in TGs, NEW new \in Clients \cup {None},
           SetTalkerForTG(tg, new)
    PROVE  /\ talker' \in [TGs -> Clients \cup {None}]
           /\ sqlTimeoutCnt' \in [TGs -> 0..SQL_TIMEOUT]
           /\ silence' \in [TGs -> 0..(TALKER_AUDIO_TIMEOUT + 1)]
           /\ onAir' \in [TGs -> SUBSET Clients]
           /\ heldFor' \in [TGs -> 0..SQL_TIMEOUT]
  <1>1. talker' \in [TGs -> Clients \cup {None}]
    BY DEF TypeOK, SetTalkerForTG
  <1>2. sqlTimeoutCnt' \in [TGs -> 0..SQL_TIMEOUT]
    BY LimitsAssumption DEF TypeOK, SetTalkerForTG
  <1>3. silence' \in [TGs -> 0..(TALKER_AUDIO_TIMEOUT + 1)]
    BY LimitsAssumption DEF TypeOK, SetTalkerForTG
  <1>4. onAir' \in [TGs -> SUBSET Clients]
    BY DEF TypeOK, SetTalkerForTG
  <1>5. heldFor' \in [TGs -> 0..SQL_TIMEOUT]
    BY LimitsAssumption DEF TypeOK, SetTalkerForTG
  <1> QED BY <1>1, <1>2, <1>3, <1>4, <1>5

\* So does removeClientP.
LEMMA RemoveClientType ==
    ASSUME TypeOK, NEW c \in Clients, NEW tg \in TGs, RemoveClientP(c, tg)
    PROVE  /\ talker' \in [TGs -> Clients \cup {None}]
           /\ sqlTimeoutCnt' \in [TGs -> 0..SQL_TIMEOUT]
           /\ silence' \in [TGs -> 0..(TALKER_AUDIO_TIMEOUT + 1)]
           /\ onAir' \in [TGs -> SUBSET Clients]
           /\ heldFor' \in [TGs -> 0..SQL_TIMEOUT]
  <1>1. talker' \in [TGs -> Clients \cup {None}]
    BY DEF TypeOK, RemoveClientP
  <1>2. sqlTimeoutCnt' \in [TGs -> 0..SQL_TIMEOUT]
    <2> DEFINE P == tg \in ActiveTGsWithout(c)
    <2>1. sqlTimeoutCnt' = [sqlTimeoutCnt EXCEPT ![tg] =
                              IF P THEN sqlTimeoutCnt[tg] ELSE 0]
      BY DEF RemoveClientP
    <2> HIDE DEF P
    <2> QED BY <2>1, LimitsAssumption DEF TypeOK
  <1>3. silence' \in [TGs -> 0..(TALKER_AUDIO_TIMEOUT + 1)]
    BY LimitsAssumption DEF TypeOK, RemoveClientP
  <1>4. onAir' \in [TGs -> SUBSET Clients]
    BY DEF TypeOK, RemoveClientP
  <1>5. heldFor' \in [TGs -> 0..SQL_TIMEOUT]
    BY LimitsAssumption DEF TypeOK, RemoveClientP
  <1> QED BY <1>1, <1>2, <1>3, <1>4, <1>5

-----------------------------------------------------------------------------
(* Type correctness.                                                       *)

LEMMA TypeInit == Init => TypeOK
  BY LimitsAssumption DEF Init, TypeOK

LEMMA TypeNext == TypeOK /\ [Next]_vars => TypeOK'
  <1> SUFFICES ASSUME TypeOK, [Next]_vars PROVE TypeOK'
    OBVIOUS
  <1>1. ASSUME NEW c \in Clients, Authenticate(c) PROVE TypeOK'
    BY <1>1 DEF Authenticate, TypeOK, floor, blocks, remote
  <1>2. ASSUME NEW c \in Clients, NEW tg \in TGs \cup {NoTG}, SelectTG(c, tg)
        PROVE  TypeOK'
    <2> DEFINE granted == IF MaySwitchTo(c, tg) THEN tg ELSE NoTG
    <2>1. granted \in TGs \cup {NoTG}
      OBVIOUS
    <2>2. /\ clientTg' = [clientTg EXCEPT ![c] = granted]
          /\ currentTg' = [currentTg EXCEPT ![c] = granted]
          /\ UNCHANGED <<connected, blocks, remote>>
          /\ IF clientTg[c] = NoTG THEN UNCHANGED floor
                                   ELSE RemoveClientP(c, clientTg[c])
      BY <1>2 DEF SelectTG
    <2> HIDE DEF granted
    <2>3. /\ clientTg' \in [Clients -> TGs \cup {NoTG}]
          /\ currentTg' \in [Clients -> TGs \cup {NoTG}]
      BY <2>1, <2>2 DEF TypeOK
    <2>4. /\ talker' \in [TGs -> Clients \cup {None}]
          /\ sqlTimeoutCnt' \in [TGs -> 0..SQL_TIMEOUT]
          /\ silence' \in [TGs -> 0..(TALKER_AUDIO_TIMEOUT + 1)]
          /\ onAir' \in [TGs -> SUBSET Clients]
          /\ heldFor' \in [TGs -> 0..SQL_TIMEOUT]
      <3>1. CASE clientTg[c] = NoTG
        BY <3>1, <2>2 DEF TypeOK, floor
      <3>2. CASE clientTg[c] # NoTG
        <4>1. clientTg[c] \in TGs
          BY <3>2 DEF TypeOK
        <4> QED BY <3>2, <4>1, <2>2, RemoveClientType
      <3> QED BY <3>1, <3>2
    <2> QED BY <2>2, <2>3, <2>4 DEF TypeOK, blocks, remote
  <1>3. ASSUME NEW c \in Clients, Disconnect(c) PROVE TypeOK'
    <2>1. /\ talker' \in [TGs -> Clients \cup {None}]
          /\ sqlTimeoutCnt' \in [TGs -> 0..SQL_TIMEOUT]
          /\ silence' \in [TGs -> 0..(TALKER_AUDIO_TIMEOUT + 1)]
          /\ onAir' \in [TGs -> SUBSET Clients]
          /\ heldFor' \in [TGs -> 0..SQL_TIMEOUT]
      <3>1. CASE clientTg[c] = NoTG
        BY <1>3, <3>1 DEF Disconnect, TypeOK, floor
      <3>2. CASE clientTg[c] # NoTG /\ talker[clientTg[c]] = c
        <4>1. clientTg[c] \in TGs /\ SetTalkerForTG(clientTg[c], None)
          BY <1>3, <3>2 DEF TypeOK, Disconnect
        <4> QED BY <4>1, SetTalkerType
      <3>3. CASE clientTg[c] # NoTG /\ talker[clientTg[c]] # c
        <4>1. clientTg[c] \in TGs /\ RemoveClientP(c, clientTg[c])
          BY <1>3, <3>3 DEF TypeOK, Disconnect
        <4> QED BY <4>1, RemoveClientType
      <3> QED BY <3>1, <3>2, <3>3
    <2>2. /\ connected' \in SUBSET Clients
          /\ clientTg' \in [Clients -> TGs \cup {NoTG}]
          /\ currentTg' \in [Clients -> TGs \cup {NoTG}]
          /\ blocktime' \in [Clients -> Nat]
          /\ remaining' \in [Clients -> Nat]
          /\ quiet' \in [Clients -> Nat]
      BY <1>3 DEF Disconnect, TypeOK
    <2> QED BY <1>3, <2>1, <2>2 DEF Disconnect, TypeOK, remote
  <1>4. ASSUME NEW c \in Clients, AudioBlocked(c) PROVE TypeOK'
    BY <1>4 DEF AudioBlocked, TypeOK, selection, floor, remote
  <1>5. ASSUME NEW c \in Clients, AudioTakesTG(c) PROVE TypeOK'
    <2>1. clientTg[c] \in TGs /\ SetTalkerForTG(clientTg[c], c)
      BY <1>5 DEF TypeOK, AudioTakesTG
    <2> QED BY <1>5, <2>1, SetTalkerType
            DEF AudioTakesTG, TypeOK, selection, blocks, remote
  <1>6. ASSUME NEW c \in Clients, AudioContinues(c) PROVE TypeOK'
    BY <1>6, LimitsAssumption
       DEF AudioContinues, TypeOK, selection, blocks, remote
  <1>7. ASSUME NEW c \in Clients, Flush(c) PROVE TypeOK'
    <2>1. clientTg[c] \in TGs /\ SetTalkerForTG(clientTg[c], None)
      BY <1>7 DEF TypeOK, Flush
    <2> QED BY <1>7, <2>1, SetTalkerType
            DEF Flush, TypeOK, selection, blocks, remote
  <1>8. ASSUME NEW c \in Clients, Heartbeat(c) PROVE TypeOK'
    <2>1. /\ blocktime' \in [Clients -> Nat]
          /\ remaining' \in [Clients -> Nat]
          /\ quiet' \in [Clients -> Nat]
      BY <1>8 DEF Heartbeat, TypeOK
    <2> QED BY <1>8, <2>1 DEF Heartbeat, TypeOK, selection, floor, remote
  <1>9. ASSUME NEW c \in Clients, NEW n \in PtyBlocktimes, PtyBlock(c, n)
        PROVE  TypeOK'
    BY <1>9, LimitsAssumption DEF PtyBlock, TypeOK, selection, floor, remote
  <1>10. ASSUME CheckTimers PROVE TypeOK'
    <2>1. talker' \in [TGs -> Clients \cup {None}]
      BY <1>10 DEF CheckTimers, TypeOK
    <2>2. sqlTimeoutCnt' \in [TGs -> 0..SQL_TIMEOUT]
      BY <1>10, LimitsAssumption DEF CheckTimers, Later, TypeOK
    <2>3. silence' \in [TGs -> 0..(TALKER_AUDIO_TIMEOUT + 1)]
      BY <1>10, LimitsAssumption DEF CheckTimers, Later, TypeOK, Silent
    <2>4. onAir' \in [TGs -> SUBSET Clients]
      BY <1>10 DEF CheckTimers, TypeOK
    <2>5. /\ blocktime' \in [Clients -> Nat]
          /\ remaining' \in [Clients -> Nat]
          /\ quiet' \in [Clients -> Nat]
      BY <1>10, LimitsAssumption DEF CheckTimers, TypeOK
    <2>6. heldFor' \in [TGs -> 0..SQL_TIMEOUT]
      BY <1>10, LimitsAssumption DEF CheckTimers, TypeOK
    <2> QED BY <1>10, <2>1, <2>2, <2>3, <2>4, <2>5, <2>6
            DEF CheckTimers, TypeOK, selection, remote
  <1>11. ASSUME NEW tg \in TGs, YieldTG(tg) PROVE TypeOK'
    BY <1>11, SetTalkerType DEF YieldTG, TypeOK, selection, blocks, remote
  <1>12. ASSUME NEW tg \in TGs, NEW cs \in RemoteCallsigns, NEW p \in Peers,
                SetTrunkTalkerForTGViaPeer(tg, cs, p)
         PROVE  TypeOK'
    <2>1. /\ trunkPeer' \in [TGs -> Peers \cup {None}]
          /\ \/ trunkTalker' = trunkTalker
             \/ trunkTalker' = [trunkTalker EXCEPT ![tg] = cs]
          /\ UNCHANGED <<selection, floor, blocks>>
      BY <1>12 DEF SetTrunkTalkerForTGViaPeer, TypeOK
    <2>2. trunkTalker' \in [TGs -> RemoteCallsigns \cup {None}]
      BY <2>1 DEF TypeOK
    <2> QED BY <2>1, <2>2 DEF TypeOK, selection, floor, blocks
  <1>13. ASSUME NEW tg \in TGs, ClearTrunkTalkerForTG(tg) PROVE TypeOK'
    BY <1>13 DEF ClearTrunkTalkerForTG, TypeOK, selection, floor, blocks
  <1>14. ASSUME ClearAllTrunkTalkers PROVE TypeOK'
    BY <1>14 DEF ClearAllTrunkTalkers, TypeOK, selection, floor, blocks
  <1>15. ASSUME UNCHANGED vars PROVE TypeOK'
    BY <1>15 DEF vars, TypeOK, selection, floor, blocks, remote
  <1> QED
    BY <1>1, <1>2, <1>3, <1>4, <1>5, <1>6, <1>7, <1>8, <1>9, <1>10, <1>11,
       <1>12, <1>13, <1>14, <1>15 DEF Next, ClientStep, LinkStep

\* Every variable keeps its type.
THEOREM TypeCorrect == Spec => []TypeOK
  BY TypeInit, TypeNext, PTL DEF Spec

-----------------------------------------------------------------------------
(* Who talks, and what each client is a member of.                         *)

\* BlockEndsAfterSilence is kept by counting: the seconds a blocked client has
\* been quiet and those that remain make up its blocking time.
BlockCounts ==
    \A c \in Clients : blocktime[c] > 0 => quiet[c] + remaining[c] = blocktime[c]

\* CutOffIsDue is kept by counting too: the ticks a talker has held its TG for
\* and those its counter still gives it make up the squelch timeout.
HoldCounts ==
    \A tg \in TGs :
        talker[tg] # None => sqlTimeoutCnt[tg] + heldFor[tg] = SQL_TIMEOUT

IInv ==
    /\ TypeOK
    /\ TalkerIsMember
    /\ SelectionAgrees
    /\ MembershipAllowed
    /\ BlockCounts
    /\ HoldCounts

LEMMA InvInit == Init => IInv
  <1> SUFFICES ASSUME Init PROVE IInv
    OBVIOUS
  <1>1. {clientTg[c] : c \in Clients} \ {NoTG} = {}
    BY DEF Init
  <1>2. MembershipAllowed
    BY <1>1, FS_EmptySet, LimitsAssumption DEF Init, MembershipAllowed
  <1> QED
    BY <1>2, TypeInit DEF Init, IInv, TalkerIsMember, SelectionAgrees, BlockCounts,
                            HoldCounts

\* Losing the talker of a TG leaves no other TG with a different talker.
LEMMA TalkerMemberNext == IInv /\ [Next]_vars => TalkerIsMember'
  <1> SUFFICES ASSUME IInv, [Next]_vars PROVE TalkerIsMember'
    OBVIOUS
  <1> USE DEF TalkerIsMember
  <1>t. TypeOK
    BY DEF IInv
  <1>1. ASSUME NEW c \in Clients, Authenticate(c) PROVE TalkerIsMember'
    BY <1>1, <1>t DEF Authenticate, IInv, floor
  <1>2. ASSUME NEW c \in Clients, NEW tg \in TGs \cup {NoTG}, SelectTG(c, tg)
        PROVE  TalkerIsMember'
    <2> DEFINE granted == IF MaySwitchTo(c, tg) THEN tg ELSE NoTG
    <2>1. /\ clientTg' = [clientTg EXCEPT ![c] = granted]
          /\ UNCHANGED connected
          /\ IF clientTg[c] = NoTG THEN UNCHANGED floor
                                   ELSE RemoveClientP(c, clientTg[c])
      BY <1>2 DEF SelectTG
    <2> HIDE DEF granted
    <2>2. \A g \in TGs : talker'[g] = IF talker[g] = c THEN None ELSE talker[g]
      <3>1. CASE clientTg[c] = NoTG
        BY <3>1, <2>1, <1>t, TGsAssumption DEF IInv, floor
      <3>2. CASE clientTg[c] # NoTG
        BY <3>2, <2>1, <1>t DEF IInv, TypeOK, RemoveClientP
      <3> QED BY <3>1, <3>2
    <2> QED BY <2>1, <2>2, <1>t DEF IInv, TypeOK
  <1>3. ASSUME NEW c \in Clients, Disconnect(c) PROVE TalkerIsMember'
    <2>1. \A g \in TGs : talker'[g] = IF talker[g] = c THEN None ELSE talker[g]
      <3>1. CASE clientTg[c] = NoTG
        BY <3>1, <1>3, <1>t, TGsAssumption DEF IInv, Disconnect, floor
      <3>2. CASE clientTg[c] # NoTG
        BY <3>2, <1>3, <1>t
           DEF IInv, TypeOK, Disconnect, RemoveClientP, SetTalkerForTG
      <3> QED BY <3>1, <3>2
    <2> QED BY <2>1, <1>3, <1>t DEF IInv, TypeOK, Disconnect
  <1>4. ASSUME NEW c \in Clients, AudioBlocked(c) PROVE TalkerIsMember'
    BY <1>4 DEF IInv, AudioBlocked, selection, floor
  <1>5. ASSUME NEW c \in Clients, AudioTakesTG(c) PROVE TalkerIsMember'
    BY <1>5, <1>t DEF IInv, TypeOK, AudioTakesTG, SetTalkerForTG, selection
  <1>6. ASSUME NEW c \in Clients, AudioContinues(c) PROVE TalkerIsMember'
    BY <1>6 DEF IInv, AudioContinues, selection
  <1>7. ASSUME NEW c \in Clients, Flush(c) PROVE TalkerIsMember'
    BY <1>7, <1>t DEF IInv, TypeOK, Flush, SetTalkerForTG, selection
  <1>8. ASSUME NEW c \in Clients, Heartbeat(c) PROVE TalkerIsMember'
    BY <1>8 DEF IInv, Heartbeat, selection, floor
  <1>9. ASSUME NEW c \in Clients, NEW n \in PtyBlocktimes, PtyBlock(c, n)
        PROVE  TalkerIsMember'
    BY <1>9 DEF IInv, PtyBlock, selection, floor
  <1>10. ASSUME CheckTimers PROVE TalkerIsMember'
    BY <1>10, <1>t DEF IInv, TypeOK, CheckTimers, selection
  <1>11. ASSUME NEW tg \in TGs, YieldTG(tg) PROVE TalkerIsMember'
    BY <1>11, <1>t DEF IInv, TypeOK, YieldTG, SetTalkerForTG, selection
  <1>12. ASSUME NEW tg \in TGs, NEW cs \in RemoteCallsigns, NEW p \in Peers,
                SetTrunkTalkerForTGViaPeer(tg, cs, p)
         PROVE  TalkerIsMember'
    BY <1>12 DEF IInv, SetTrunkTalkerForTGViaPeer, selection, floor
  <1>13. ASSUME NEW tg \in TGs, ClearTrunkTalkerForTG(tg) PROVE TalkerIsMember'
    BY <1>13 DEF IInv, ClearTrunkTalkerForTG, selection, floor
  <1>14. ASSUME ClearAllTrunkTalkers PROVE TalkerIsMember'
    BY <1>14 DEF IInv, ClearAllTrunkTalkers, selection, floor
  <1>15. ASSUME UNCHANGED vars PROVE TalkerIsMember'
    BY <1>15 DEF IInv, vars, selection, floor
  <1> QED
    BY <1>1, <1>2, <1>3, <1>4, <1>5, <1>6, <1>7, <1>8, <1>9, <1>10, <1>11,
       <1>12, <1>13, <1>14, <1>15 DEF Next, ClientStep, LinkStep

\* Only a selection and a disconnect change what a client is a member of, and
\* both change the two records alike.
LEMMA SelectionNext == IInv /\ [Next]_vars => SelectionAgrees'
  <1> SUFFICES ASSUME IInv, [Next]_vars PROVE SelectionAgrees'
    OBVIOUS
  <1> USE DEF SelectionAgrees
  <1>1. ASSUME NEW c \in Clients, NEW tg \in TGs \cup {NoTG}, SelectTG(c, tg)
        PROVE  SelectionAgrees'
    <2> DEFINE granted == IF MaySwitchTo(c, tg) THEN tg ELSE NoTG
    <2>1. /\ clientTg' = [clientTg EXCEPT ![c] = granted]
          /\ currentTg' = [currentTg EXCEPT ![c] = granted]
      BY <1>1 DEF SelectTG
    <2> HIDE DEF granted
    <2> QED BY <2>1 DEF IInv, TypeOK
  <1>2. ASSUME NEW c \in Clients, Disconnect(c) PROVE SelectionAgrees'
    BY <1>2 DEF Disconnect, IInv, TypeOK
  <1>3. ASSUME UNCHANGED <<clientTg, currentTg>> PROVE SelectionAgrees'
    BY <1>3 DEF IInv
  <1> QED
    BY <1>1, <1>2, <1>3
       DEF Next, ClientStep, LinkStep, vars, selection, Authenticate,
           AudioBlocked, AudioTakesTG, AudioContinues, Flush, Heartbeat,
           PtyBlock, CheckTimers, YieldTG, SetTrunkTalkerForTGViaPeer,
           ClearTrunkTalkerForTG, ClearAllTrunkTalkers

\* A client gets the TG it selects only if it may use it and there is room; the
\* TGs in use are then those of the other clients and that one.
LEMMA MembershipNext == IInv /\ [Next]_vars => MembershipAllowed'
  <1> SUFFICES ASSUME IInv, [Next]_vars PROVE MembershipAllowed'
    OBVIOUS
  <1> DEFINE InUse == {clientTg[c] : c \in Clients} \ {NoTG}
  <1>1. /\ TypeOK
        /\ \A c \in Clients : clientTg[c] # NoTG => clientTg[c] \in MayUse[c]
        /\ Cardinality(InUse) <= MAX_ACTIVE_TGS
    BY DEF IInv, MembershipAllowed
  <1>2. IsFiniteSet(InUse)
    <2> DEFINE Selected == {clientTg[c] : c \in Clients}
    <2>1. clientTg \in Surjection(Clients, Selected)
      BY <1>1 DEF TypeOK, Surjection
    <2>2. IsFiniteSet(Selected)
      BY <2>1, ClientsAssumption, FS_Surjection
    <2> QED BY <2>2, FS_Subset
  <1>3. ASSUME NEW c \in Clients, NEW tg \in TGs \cup {NoTG},
               tg = NoTG \/ MaySwitchTo(c, tg),
               clientTg' = [clientTg EXCEPT ![c] = tg]
        PROVE  MembershipAllowed'
    <2> DEFINE Others == ActiveTGsWithout(c)
    <2>1. Others \subseteq InUse
      BY DEF ActiveTGsWithout
    <2>2. IsFiniteSet(Others) /\ Cardinality(Others) <= Cardinality(InUse)
      BY <1>2, <2>1, FS_Subset
    <2>3. Cardinality(InUse) \in Nat /\ Cardinality(Others) \in Nat
      BY <1>2, <2>2, FS_CardinalityType
    <2>4. InUse' = (Others \cup {tg}) \ {NoTG}
      BY <1>1, <1>3 DEF TypeOK, ActiveTGsWithout
    <2>5. Cardinality(InUse') <= MAX_ACTIVE_TGS
      <3>1. CASE tg = NoTG
        <4>1. InUse' = Others
          BY <2>4, <3>1 DEF ActiveTGsWithout
        <4> QED BY <4>1, <1>1, <2>2, <2>3, LimitsAssumption
      <3>2. CASE tg # NoTG /\ tg \in Others
        <4>1. InUse' = Others
          BY <2>4, <3>2 DEF ActiveTGsWithout
        <4> QED BY <4>1, <1>1, <2>2, <2>3, LimitsAssumption
      <3>3. CASE tg # NoTG /\ tg \notin Others
        <4>1. Cardinality(Others) < MAX_ACTIVE_TGS
          BY <1>3, <3>3 DEF MaySwitchTo
        <4>2. InUse' = Others \cup {tg}
          BY <2>4, <3>3 DEF ActiveTGsWithout
        <4>3. Cardinality(Others \cup {tg}) = Cardinality(Others) + 1
          BY <2>2, <3>3, FS_AddElement
        <4> QED BY <4>1, <4>2, <4>3, <2>3, LimitsAssumption
      <3> QED BY <3>1, <3>2, <3>3
    <2>6. \A d \in Clients : clientTg'[d] # NoTG => clientTg'[d] \in MayUse[d]
      BY <1>1, <1>3 DEF TypeOK, MaySwitchTo
    <2> QED BY <2>5, <2>6 DEF MembershipAllowed
  <1>4. ASSUME NEW c \in Clients, NEW tg \in TGs \cup {NoTG}, SelectTG(c, tg)
        PROVE  MembershipAllowed'
    <2>1. CASE MaySwitchTo(c, tg)
      <3>1. clientTg' = [clientTg EXCEPT ![c] = tg]
        BY <1>4, <2>1 DEF SelectTG
      <3> QED BY <2>1, <3>1, <1>3
    <2>2. CASE ~MaySwitchTo(c, tg)
      <3>1. clientTg' = [clientTg EXCEPT ![c] = NoTG]
        BY <1>4, <2>2 DEF SelectTG
      <3> QED BY <3>1, <1>3
    <2> QED BY <2>1, <2>2
  <1>5. ASSUME NEW c \in Clients, Disconnect(c) PROVE MembershipAllowed'
    BY <1>5, <1>3 DEF Disconnect
  <1>6. ASSUME UNCHANGED clientTg PROVE MembershipAllowed'
    BY <1>6 DEF IInv, MembershipAllowed
  <1> QED
    BY <1>4, <1>5, <1>6
       DEF Next, ClientStep, LinkStep, vars, selection, Authenticate,
           AudioBlocked, AudioTakesTG, AudioContinues, Flush, Heartbeat,
           PtyBlock, CheckTimers, YieldTG, SetTrunkTalkerForTGViaPeer,
           ClearTrunkTalkerForTG, ClearAllTrunkTalkers

\* Each heartbeat moves one second from what remains to what has been quiet;
\* audio and a new block start the count afresh.
LEMMA BlockCountsNext == IInv /\ [Next]_vars => BlockCounts'
  <1> SUFFICES ASSUME IInv, [Next]_vars PROVE BlockCounts'
    OBVIOUS
  <1> USE DEF BlockCounts
  <1>t. TypeOK /\ BlockCounts
    BY DEF IInv
  <1>1. ASSUME NEW c \in Clients, Disconnect(c) PROVE BlockCounts'
    BY <1>1, <1>t DEF Disconnect, TypeOK
  <1>2. ASSUME NEW c \in Clients, AudioBlocked(c) PROVE BlockCounts'
    BY <1>2, <1>t DEF AudioBlocked, TypeOK
  <1>3. ASSUME NEW c \in Clients, Heartbeat(c) PROVE BlockCounts'
    BY <1>3, <1>t DEF Heartbeat, TypeOK
  <1>4. ASSUME NEW c \in Clients, NEW n \in PtyBlocktimes, PtyBlock(c, n)
        PROVE  BlockCounts'
    BY <1>4, <1>t, LimitsAssumption DEF PtyBlock, TypeOK
  <1>5. ASSUME CheckTimers PROVE BlockCounts'
    BY <1>5, <1>t, LimitsAssumption DEF CheckTimers, TypeOK
  <1>6. ASSUME UNCHANGED blocks PROVE BlockCounts'
    BY <1>6, <1>t DEF blocks
  <1> QED
    BY <1>1, <1>2, <1>3, <1>4, <1>5, <1>6
       DEF Next, ClientStep, LinkStep, vars, Authenticate, SelectTG,
           AudioTakesTG, AudioContinues, Flush, YieldTG,
           SetTrunkTalkerForTGViaPeer, ClearTrunkTalkerForTG,
           ClearAllTrunkTalkers

\* A talker that takes a TG is given the whole squelch timeout, whatever count
\* was left there; each tick moves one from what is left to what has been held.
LEMMA HoldCountsNext == IInv /\ [Next]_vars => HoldCounts'
  <1> SUFFICES ASSUME IInv, [Next]_vars PROVE HoldCounts'
    OBVIOUS
  <1> USE DEF HoldCounts
  <1>t. TypeOK /\ HoldCounts
    BY DEF IInv
  <1>1. ASSUME NEW tg \in TGs, NEW new \in Clients \cup {None},
               SetTalkerForTG(tg, new)
        PROVE  HoldCounts'
    BY <1>1, <1>t, LimitsAssumption DEF SetTalkerForTG, TypeOK
  <1>2. ASSUME NEW c \in Clients, NEW tg \in TGs, clientTg[c] = tg,
               RemoveClientP(c, tg)
        PROVE  HoldCounts'
    <2> SUFFICES ASSUME NEW g \in TGs, talker'[g] # None
                 PROVE  sqlTimeoutCnt'[g] + heldFor'[g] = SQL_TIMEOUT
      OBVIOUS
    <2>1. talker[g] # None /\ talker'[g] = talker[g] /\ (g = tg => talker[g] # c)
      BY <1>2, <1>t DEF RemoveClientP, TypeOK
    <2>2. g = tg => tg \in ActiveTGsWithout(c)
      BY <1>2, <1>t, <2>1, ClientsAssumption, TGsAssumption
         DEF IInv, TalkerIsMember, TypeOK, ActiveTGsWithout
    <2> DEFINE P == tg \in ActiveTGsWithout(c)
    <2>3. /\ sqlTimeoutCnt' = [sqlTimeoutCnt EXCEPT ![tg] =
                                 IF P THEN sqlTimeoutCnt[tg] ELSE 0]
          /\ heldFor' = [heldFor EXCEPT ![tg] =
                           IF talker[tg] = c THEN 0 ELSE heldFor[tg]]
          /\ g = tg => P
      BY <1>2, <2>2 DEF RemoveClientP
    <2> HIDE DEF P
    <2> QED BY <2>1, <2>3, <1>t DEF TypeOK
  <1>3. ASSUME UNCHANGED <<talker, sqlTimeoutCnt, heldFor>> PROVE HoldCounts'
    BY <1>3, <1>t
  <1>4. ASSUME NEW c \in Clients, NEW tg \in TGs \cup {NoTG}, SelectTG(c, tg)
        PROVE  HoldCounts'
    BY <1>4, <1>t, <1>2, <1>3 DEF SelectTG, TypeOK, floor
  <1>5. ASSUME NEW c \in Clients, Disconnect(c) PROVE HoldCounts'
    BY <1>5, <1>t, <1>1, <1>2, <1>3 DEF Disconnect, TypeOK, floor
  <1>6. ASSUME NEW c \in Clients, AudioTakesTG(c) PROVE HoldCounts'
    BY <1>6, <1>t, <1>1 DEF AudioTakesTG, TypeOK
  <1>7. ASSUME NEW c \in Clients, Flush(c) PROVE HoldCounts'
    BY <1>7, <1>t, <1>1 DEF Flush, TypeOK
  <1>8. ASSUME CheckTimers PROVE HoldCounts'
    BY <1>8, <1>t, LimitsAssumption DEF CheckTimers, TypeOK
  <1>9. ASSUME NEW tg \in TGs, YieldTG(tg) PROVE HoldCounts'
    BY <1>9, <1>1 DEF YieldTG
  <1> HIDE DEF HoldCounts
  <1> QED
    BY <1>3, <1>4, <1>5, <1>6, <1>7, <1>8, <1>9
       DEF Next, ClientStep, LinkStep, vars, floor, Authenticate, AudioBlocked,
           AudioContinues, Heartbeat, PtyBlock, SetTrunkTalkerForTGViaPeer,
           ClearTrunkTalkerForTG, ClearAllTrunkTalkers

LEMMA InvNext == IInv /\ [Next]_vars => IInv'
  BY TypeNext, TalkerMemberNext, SelectionNext, MembershipNext,
     BlockCountsNext, HoldCountsNext DEF IInv

LEMMA InvHolds == Spec => []IInv
  BY InvInit, InvNext, PTL DEF Spec

\* The talker of a TG is a connected client and a member of that TG: no TG
\* change, disconnect, timeout or remote claim leaves a stale talker behind.
THEOREM TalkersAreMembers == Spec => []TalkerIsMember
  BY InvHolds, PTL DEF IInv

\* The TGHandler's record of a client's TG and the client's own agree; no client
\* is a member of a TG its ALLOW pattern excludes, and the TGs with members never
\* exceed the limit.
THEOREM MembershipsHold == Spec => []MembershipsAgree
  BY InvHolds, PTL DEF IInv, MembershipsAgree

\* A client is blocked by the squelch timeout only after it has itself held the
\* TG for all of it, and never when the audio timeout has already stopped it.
THEOREM CutOffsAreDue == Spec => []CutOffIsDue
  <1>1. IInv => CutOffIsDue
    BY NoneAssumption, LimitsAssumption
       DEF IInv, TypeOK, HoldCounts, CutOffIsDue, TalkedTooLong,
           CountAfterAudioTimeout, TalkerAfterAudioTimeout
  <1> QED BY <1>1, InvHolds, PTL

-----------------------------------------------------------------------------
(* Action properties.                                                      *)

\* Audio never ends a block; as many heartbeats as the block is long do.
THEOREM BlocksEndAfterSilence == Spec => BlockEndsAfterSilence
  <1> DEFINE Ends == \A c \in Clients :
                       Heartbeat(c) /\ blocktime'[c] = 0 => quiet[c] >= blocktime[c]
  <1>1. IInv /\ [Next]_vars => [Ends]_vars
    <2>1. IInv => Ends
      BY DEF IInv, TypeOK, BlockCounts, Heartbeat
    <2> QED BY <2>1
  <1> QED BY <1>1, InvHolds, PTL DEF Spec, BlockEndsAfterSilence
=============================================================================
