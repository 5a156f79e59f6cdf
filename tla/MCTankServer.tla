---------------------------- MODULE MCTankServer ----------------------------
(* Two or three clients for TLC *)
EXTENDS TankServer

CONSTANTS c1, c2, c3

(* It makes no difference which slot a goroutine has *)
SlotSymmetry == Permutations(Slot)

(* c1 and c2 choose the same display name *)
Clash == [c \in Client |-> IF c = c3 THEN "other" ELSE "same"]
Distinct == [c \in Client |-> CASE c = c1 -> "one" [] c = c2 -> "two"
                                 [] c = c3 -> "three"]
Names == {"one", "two", "three", "same", "other"}

Once     == [c \in Client |-> 1]
Restarts == [c \in Client |-> IF c = c1 THEN 2 ELSE 1]
=============================================================================
