------------------------- MODULE MCTrunkArbitration -------------------------
(* Small instances of TrunkArbitration for TLC.                            *)
EXTENDS TrunkArbitration, TLC

CONSTANTS A, B, a1, b1, b2

MCCallsigns == A :> {a1} @@ B :> {b1, b2}
MCPriority == A :> 1 @@ B :> 2
=============================================================================
