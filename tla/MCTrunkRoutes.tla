---------------------------- MODULE MCTrunkRoutes ----------------------------
(* A reflector that owns 2, among peers that own 24, 3 and 31.              *)
EXTENDS TrunkRoutes

CONSTANTS F1, R1, R2

MCLocalPrefixes == {<<2>>}
MCRemote ==
    F1 :> {<<2, 4>>} @@ R1 :> {<<3>>} @@ R2 :> {<<3, 1>>}
Losses(sub, sync, write) == "sub" :> sub @@ "sync" :> sync @@ "write" :> write
SomeLosses == Losses(1, 2, 1)

MCNumbers == {<<8>>, <<9>>, <<2, 1>>, <<2, 3>>, <<2, 4>>}
MCRoutables == {{}, {<<3, 4>>, Star}}
MCTGs == {<<2>>, <<2, 4, 1>>, <<3, 2>>, <<3, 1, 5>>, <<3, 4, 1>>, <<5, 1>>}
=============================================================================
