----------------------------- MODULE MCPeerNet -----------------------------
(* Three players, two of whom joined by way of a *)
EXTENDS PeerNet

CONSTANTS a, b, c

Star == [n \in Node |-> IF n = a THEN NoNode ELSE a]
=============================================================================
