----------------------------- MODULE MCSessions -----------------------------
(* A few nodes for TLC.                                                     *)
EXTENDS Sessions

CONSTANTS A, B, C1, C2

\* Two devices under one callsign, one of them with a certificate to come.
SameCallsign ==
    [nodes |-> {A, B}, callsign |-> [n \in Nodes |-> C1],
     version |-> [n \in Nodes |-> IF n = A THEN "v3" ELSE "v2"], stalls |-> {},
     maxSent |-> 0, maxFlight |-> 1, maxFailures |-> 2,
     faults |-> {"silence", "restart", "error", "renewal"}]

\* Two nodes behind a NAT that passes the port of one on to the other.
SharedPorts ==
    [nodes |-> {A, B}, callsign |-> [n \in Nodes |-> IF n = A THEN C1 ELSE C2],
     version |-> [n \in Nodes |-> "v3"], stalls |-> {},
     maxSent |-> 0, maxFlight |-> 1, maxFailures |-> 2,
     faults |-> {"rebind"}]

\* A node that stops in the handshake beside one that does not.
Stalling == [SameCallsign EXCEPT !.stalls = {B}, !.maxFailures = 1]

\* One node of each version whose datagrams are late, lost and repeated; those of
\* version 2 run through their numbers.
Numbers(version) ==
    [nodes |-> {A}, callsign |-> [n \in Nodes |-> C1],
     version |-> [n \in Nodes |-> version], stalls |-> {},
     maxSent |-> 6, maxFlight |-> 3, maxFailures |-> 3, faults |-> {"loss"}]

MCScenarios == {SameCallsign, SharedPorts, Stalling, Numbers("v2"), Numbers("v3")}
=============================================================================
