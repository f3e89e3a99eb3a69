----------------------------- MODULE MCTrunkMesh -----------------------------
(* Small meshes for TLC. A owns the TGs that begin with 1, B with 2, C      *)
(* with 3; 15 is A's, 9 a cluster TG.                                       *)
EXTENDS TrunkMesh, TLC

CONSTANTS A, B, C

Own == A :> {<<1>>} @@ B :> {<<2>>} @@ C :> {<<3>>}
Fifteen == <<1, 5>>
Cluster9 == <<9>>
Four == <<4>>
MCTGs == {Fifteen, Four, Cluster9}

LinkTo(p, routable) ==
    [remote |-> Own[p], routable |-> routable, wildcard |-> FALSE,
     blacklist |-> {}, allow |-> {}, mapIn |-> <<>>, mapOut |-> <<>>]

NodeWith(n, cluster, peers, routable(_), route, deliver) ==
    [local |-> Own[n], cluster |-> cluster, route |-> route, deliver |-> deliver,
     link |-> [p \in peers |-> LinkTo(p, routable(p))]]

\* Every two reflectors have a trunk.
MeshConfig ==
    [n \in Nodes |-> NodeWith(n, {}, Nodes \ {n}, LAMBDA p : {}, <<>>, <<>>)]
ClusterConfig ==
    [n \in Nodes |-> NodeWith(n, {Cluster9}, Nodes \ {n}, LAMBDA p : {}, <<>>, <<>>)]

\* A - B - C, where B is a gateway.
ChainConfig ==
       A :> NodeWith(A, {}, {B}, LAMBDA p : Own[C], <<>>, <<>>)
    @@ B :> NodeWith(B, {}, {A, C}, LAMBDA p : {}, <<>>, <<>>)
    @@ C :> NodeWith(C, {}, {B}, LAMBDA p : Own[A], <<>>, <<>>)

\* The same, and B sends A whatever nobody owns.
DefaultRouteConfig ==
    [ChainConfig EXCEPT ![B].link[A].wildcard = TRUE]

OrderedPriority ==
       A :> (B :> 1 @@ C :> 1) @@ B :> (A :> 2 @@ C :> 2) @@ C :> (A :> 3 @@ B :> 3)

Everywhere(tgs) == [n \in Nodes |-> tgs]
Only(n, tgs) == [m \in Nodes |-> IF m = n THEN tgs ELSE {}]
AllBut(n, tgs) == [m \in Nodes |-> IF m = n THEN {} ELSE tgs]

Scenario(config, speaks, tuned) ==
    [config |-> config, priority |-> OrderedPriority, speaks |-> speaks,
     listening |-> tuned, tunes |-> Everywhere({}), maxTalks |-> 3,
     maxMoves |-> 0, maxLosses |-> 0, maxQueue |-> 1, expiry |-> FALSE,
     patient |-> FALSE, removals |-> {}]

\* Talkers behind a gateway, who may key at once.
Chain == Scenario(ChainConfig, AllBut(B, {Fifteen}), AllBut(B, {Fifteen}))

\* A cluster TG on a cycle of trunks, keyed at once.
Cluster ==
    [Scenario(ClusterConfig, Everywhere({Cluster9}), Everywhere({Cluster9}))
        EXCEPT !.maxTalks = 2]

\* The owner of 15 relays the others to one another: one talk after another.
Owner ==
    [Scenario(MeshConfig, Everywhere({Fifteen}), Everywhere({Fifteen}))
        EXCEPT !.patient = TRUE]

\* A gateway that sends what nobody owns by the default route.
EndsAndB == [AllBut(B, {Fifteen}) EXCEPT ![B] = {Four}]
DefaultRoute ==
    [Scenario(DefaultRouteConfig, EndsAndB, EndsAndB) EXCEPT !.patient = TRUE]

\* Listeners come and go behind the gateway, links are lost, interest expires,
\* and the gateway may remove its trunk.
Interest ==
    [Scenario(ChainConfig, Only(C, {Fifteen}), Everywhere({}))
        EXCEPT !.tunes = Only(C, {Fifteen}), !.maxTalks = 1, !.maxMoves = 2,
               !.maxLosses = 1, !.expiry = TRUE, !.removals = {<<B, C>>}]

\* The gateway loses the talker's trunk.
Gateway ==
    [Scenario(ChainConfig, Only(A, {Fifteen}), AllBut(B, {Fifteen}))
        EXCEPT !.maxTalks = 1, !.maxLosses = 1, !.maxQueue = 0, !.patient = TRUE]

MCScenarios == {Chain, Cluster, Owner, DefaultRoute, Interest}
MCGateway == {Gateway}

\* The hypotheses of two theorems on every mesh (TrunkMeshProofs), on these.
ASSUME NothingComesBack == \A s \in Scenarios : FullMesh(s) \/ TrunkTree(s)
ASSUME EverybodyIsReached == \A s \in Scenarios : s.patient => Routed(s)
=============================================================================
