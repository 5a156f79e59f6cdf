--------------------------- MODULE MCUpdateFlood ---------------------------
(* Small overlays for TLC: a line a - b - c, and everybody with everybody *)
EXTENDS UpdateFlood

CONSTANTS a, b, c

Line == [n \in Node |-> IF n = b THEN Node \ {b} ELSE {b}]
Mesh == [n \in Node |-> Node \ {n}]

NoSkew  == [n \in Node |-> 0]
Skewed  == [n \in Node |-> IF n = b THEN 1 ELSE 0]

(* Three columns of the screen, 10 apart: a tank at speed 1 is believed to    *)
(* cover 10 in a tick                                                         *)
Field == {20, 30, 40}
Strip == {20, 30}
=============================================================================
