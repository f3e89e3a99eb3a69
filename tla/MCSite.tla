------------------------------- MODULE MCSite -------------------------------
(* Small sites for TLC: A and B are twins, S is a satellite of A.           *)
EXTENDS Site

CONSTANTS A, B, S

TwinLines == {Line("twin", A, B), Line("twin", B, A)}
SatelliteLine == Line("satellite", S, A)

\* Satellite and parent talk while the line fails and processes end.
WithSatellite ==
    [lines |-> {SatelliteLine}, trunk |-> {A}, maxTalks |-> 2, maxFailures |-> 2,
     maxQueue |-> 1, patient |-> FALSE]

\* Twins without talk: the two connections come and go.
Pair ==
    [lines |-> TwinLines, trunk |-> {}, maxTalks |-> 0, maxFailures |-> 2,
     maxQueue |-> 1, patient |-> FALSE]

\* All three, without failures.
Whole ==
    [lines |-> TwinLines \cup {SatelliteLine}, trunk |-> {A}, maxTalks |-> 1,
     maxFailures |-> 0, maxQueue |-> 1, patient |-> FALSE]

MCScenarios == {WithSatellite, Pair, Whole}
MCSatellite == {WithSatellite}
MCTwins == {[Pair EXCEPT !.maxTalks = 1, !.maxFailures = 1, !.patient = TRUE]}
=============================================================================
