----------------------------- MODULE MCTrunkLink -----------------------------
(* Small instances of TrunkLink for TLC.                                   *)
EXTENDS TrunkLink, TLC

CONSTANTS A, B, a1, b1

MCCallsigns == A :> {a1} @@ B :> {b1}

\* Which end wins depends on what B draws, and B draws anew when it restarts.
MCNonces == A :> {2} @@ B :> {1, 3}
=============================================================================
