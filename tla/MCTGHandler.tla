---------------------------- MODULE MCTGHandler ----------------------------
(* Small instances of TGHandler for TLC.                                   *)
EXTENDS TGHandler, TLC

CONSTANTS c1, c2, p1, p2, r1, r2

\* c2 is refused TG 2 by its ALLOW pattern.
MCMayUse == [c \in Clients |-> IF c = c2 THEN {1} ELSE TGs]
=============================================================================
