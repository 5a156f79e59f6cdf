---------------------------- MODULE MCClockSync ----------------------------
(* Raw clocks that are behind and ahead of the server's *)
EXTENDS ClockSync

CONSTANTS c1, c2, c3

Apart == [c \in Client |-> CASE c = c1 -> -3 [] c = c2 -> 4 [] c = c3 -> 0]
=============================================================================
