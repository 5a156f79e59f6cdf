---------------------------- MODULE MCStatsStore ----------------------------
(* Three clients; p1 counts two things, p2 one *)
EXTENDS StatsStore

CONSTANTS p1, p2, p3, i1, i2, i3

TwoPlayers == [i \in Increment |-> IF i = i3 THEN p2 ELSE p1]
=============================================================================
