------------------------------- MODULE TGFloor -------------------------------
(***************************************************************************)
(* What a trunk promises about the floor of a talk group, seen from one    *)
(* reflector at a time: the floor is free, a client has it or the peer has *)
(* it. Which reflectors give way when claims cross is settled between them *)
(* and may change, but never by a claim. Nothing is said of messages,      *)
(* connections or nonces. TrunkArbitration and TrunkLink implement it.     *)
(***************************************************************************)
CONSTANTS
    Nodes,      \* the reflectors
    TGs,        \* talk groups
    Talkers     \* callsigns

VARIABLES
    floor,      \* floor[n][tg]
    yielding    \* the reflectors that give way when claims cross

Free == [by |-> "nobody"]
Client(c) == [by |-> "client", talker |-> c]
Remote(c) == [by |-> "peer", talker |-> c]
Floors == {Free} \cup {Client(c) : c \in Talkers} \cup {Remote(c) : c \in Talkers}

Init ==
    /\ floor = [n \in Nodes |-> [tg \in TGs |-> Free]]
    /\ yielding \in SUBSET Nodes

\* A client takes a free floor only, never from another client or the peer.
\* The peer takes the floor from a client only where claims are given way to.
\* Whoever has the floor can lose it.
MayFollow(n, f, g) ==
    \/ g = f
    \/ g = Free
    \/ g.by = "client" /\ f = Free
    \/ g.by = "peer" /\ (f.by = "client" => n \in yielding)

\* The floor changes at one reflector, on any number of its TGs.
Move(n) ==
    /\ \E f \in [TGs -> Floors] :
         /\ \A tg \in TGs : MayFollow(n, floor[n][tg], f[tg])
         /\ floor' = [floor EXCEPT ![n] = f]
    /\ UNCHANGED yielding

\* A reflector finds out whether it is to give way; nobody gains or loses the
\* floor by it.
Settle(n) ==
    /\ yielding' \in {yielding \cup {n}, yielding \ {n}}
    /\ UNCHANGED floor

\* A reflector starts again, with all its floors free.
Restart(n) ==
    /\ floor' = [floor EXCEPT ![n] = [tg \in TGs |-> Free]]
    /\ yielding' \in {yielding \cup {n}, yielding \ {n}}

Next == \E n \in Nodes : Move(n) \/ Settle(n) \/ Restart(n)

Spec == Init /\ [][Next]_<<floor, yielding>>
=============================================================================
