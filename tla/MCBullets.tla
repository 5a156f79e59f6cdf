----------------------------- MODULE MCBullets -----------------------------
(* Four bullets for TLC: one to remove, one to skip, and two more to remove   *)
EXTENDS Bullets

CONSTANTS b1, b2, b3, b4
=============================================================================
