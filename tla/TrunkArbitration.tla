-------------------------- MODULE TrunkArbitration --------------------------
(***************************************************************************)
(* Talker arbitration between two reflectors over an established trunk:    *)
(* each end sends on its own connection, which is reliable and ordered.    *)
(* Clients key and unkey at any time, so both ends may claim a TG before   *)
(* either hears of the other.                                              *)
(***************************************************************************)
EXTENDS TrunkTalker

CONSTANTS
    Priority,   \* Priority[n]: the nonce n has sent in its MsgPeerHello
    Selectors,  \* ends whose talkers may select another TG without unkeying
    MaxQueue    \* bound: messages in flight when a client sends more

ASSUME PriorityAssumption == Priority \in [Nodes -> Nat]
ASSUME SelectorsAssumption == Selectors \subseteq Nodes
ASSUME MaxQueueAssumption == MaxQueue \in Nat

VARIABLE chan   \* chan[n]: the messages n has sent and its peer not yet read

vars == <<talkState, chan>>

TypeOK == TalkTypeOK /\ chan \in [Nodes -> Seq(TalkMsgs)]

Init == TalkInit /\ chan = [n \in Nodes |-> <<>>]

Send(n, msgs) == chan' = [chan EXCEPT ![n] = @ \o msgs]

-----------------------------------------------------------------------------
ClientKeys(n, tg, c) ==
    /\ Len(chan[n]) + 2 <= MaxQueue
    /\ Key(n, tg, c)
    /\ Send(n, KeySends(n, tg, c))

ClientTalks(n, tg) ==
    /\ Len(chan[n]) + 1 <= MaxQueue
    /\ Talk(n, tg)
    /\ Send(n, TalkSends(n, tg))

ClientUnkeys(n, tg) == Unkey(n, tg) /\ Send(n, UnkeySends(n, tg))

ClientDropped(n, tg) == Unkey(n, tg) /\ Send(n, DropSends(n, tg))

\* ReflectorClient::handleSelectTG of the talker: TGHandler::switchTo forgets
\* the talker without the talkerUpdated signal, so the peer is told nothing.
ClientSelectsAway(n, tg) ==
    /\ n \in Selectors
    /\ Unkey(n, tg)
    /\ UNCHANGED chan

\* Mutant: the peer's nonce is never stored.
WinsOverItself(n) == Priority[n] <= Priority[n]

\* The tie-break: the lower nonce wins; equal values let both ends win.
Wins(n) == Priority[n] <= Priority[Peer(n)]

Receive(n) ==
    LET from == Peer(n)
    IN  /\ chan[from] # <<>>
        /\ Handle(n, Head(chan[from]), Wins(n))
        /\ chan' = [chan EXCEPT ![from] = Tail(@)]

ClientStep ==
    \E n \in Nodes, tg \in TGs :
        \/ \E c \in Callsigns[n] : ClientKeys(n, tg, c)
        \/ ClientTalks(n, tg)
        \/ ClientUnkeys(n, tg)
        \/ ClientDropped(n, tg)
        \/ ClientSelectsAway(n, tg)

Next == ClientStep \/ \E n \in Nodes : Receive(n)

\* Each end's event loop reads what arrives.
Spec == Init /\ [][Next]_vars /\ \A n \in Nodes : WF_vars(Receive(n))

-----------------------------------------------------------------------------
(* Properties.                                                             *)

Distinct == Priority[NodeA] # Priority[NodeB]

\* Once every message has been read, the peer of a talking reflector carries
\* that very talker. In particular two simultaneous claims end with one talker
\* on both ends, provided the two nonces differ.
AgreementAtRest ==
    Distinct /\ (\A n \in Nodes : chan[n] = <<>>) =>
        \A n \in Nodes, tg \in TGs :
            talker[n][tg] # None => trunkTalker[Peer(n)][tg] = talker[n][tg]

\* The end with the lower nonce is followed exactly: when it has nothing in
\* flight, the other end carries its talker, or none if it has none.
LoserFollowsWinner ==
    Distinct =>
        \A n \in Nodes \ Selectors, tg \in TGs :
            Wins(n) /\ chan[n] = <<>> =>
                trunkTalker[Peer(n)][tg] = talker[n][tg]

\* The voice played on a TG is the voice of the talker announced there.
VoiceIsAnnounced ==
    \A n \in Nodes :
        chan[n] # <<>> /\ Plays(Peer(n), Head(chan[n])) =>
            trunkTalker[Peer(n)][Head(chan[n]).tg] = Head(chan[n]).callsign

\* Two reflectors that talk on the same TG at the same time do not go on doing
\* so: the end with the higher nonce yields.
ConflictEnds ==
    Distinct => \A tg \in TGs :
        talker[NodeA][tg] # None /\ talker[NodeB][tg] # None
            ~> talker[NodeA][tg] = None \/ talker[NodeB][tg] = None

Floor == INSTANCE TGFloor WITH
    Talkers <- AllCallsigns,
    floor <- floors,
    yielding <- {n \in Nodes : ~Wins(n)}

\* docs/PEER_PROTOCOL.md on talker arbitration: a remote conversation is never
\* interrupted by a local client, one local client never takes the TG from
\* another, and of two crossing claims only the end with the higher nonce gives
\* up its talker.
FloorSpec == Floor!Spec
=============================================================================
