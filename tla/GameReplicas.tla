---------------------------- MODULE GameReplicas ----------------------------
(* What the flood of updates promises, without channels, packets, clocks or   *)
(* histories: every player keeps a board, its records of the tanks it knows,  *)
(* and a board changes only because its player is told of an update that was  *)
(* issued, by the one who issued it or by one who was told of it before.      *)
EXTENDS Integers, SequencesExt

CONSTANTS
    Node,      \* the players
    NoNode     \* nobody, who causes the death of a peer that is gone

VARIABLES
    issued,    \* all updates so far, in the order in which they were issued
    told,      \* told[n]: the updates n has been told of, by number
    board      \* board[n]: player -> the time and position n has for it

vars == <<issued, told, board>>

Init ==
    /\ issued = <<>>
    /\ told = [n \in Node |-> {}]
    /\ board = [n \in Node |-> [p \in {} |-> [time |-> 0, pos |-> 0]]]

(* New updates; those there are keep their numbers *)
Publish ==
    /\ Len(issued') > Len(issued)
    /\ SubSeq(issued', 1, Len(issued)) = issued
    /\ UNCHANGED <<told, board>>

(* Who may be the first to tell of an update: its own player, or anybody if it*)
(* says that a peer is gone                                                   *)
Sources(u) == IF u.kind = "DEAD" /\ u.other = NoNode THEN Node ELSE {u.player}

(* The board of n once it is told of u: a tank of another is placed or moved, *)
(* never back in time, a shot is one of a tank on the board, a dead tank goes *)
Moves(n, u) ==
    /\ u.kind = "POSITION"
    /\ u.player \in DOMAIN board[n] \ {n} => board[n][u.player].time <= u.time
    /\ board' = [board EXCEPT
         ![n] = [p \in DOMAIN @ \cup {u.player} |->
                   IF p = u.player THEN [time |-> u.time, pos |-> u.pos] ELSE @[p]]]

Shoots(n, u) ==
    /\ u.kind = "FIRE"
    /\ u.player \in DOMAIN board[n] \cup {n}
    /\ UNCHANGED board

Dies(n, u) ==
    /\ u.kind = "DEAD"
    /\ board' = [board EXCEPT ![n] = [p \in DOMAIN @ \ {u.player} |-> @[p]]]

Tell(n) ==
    \E k \in DOMAIN issued :
      /\ n \in Sources(issued[k]) \/ \E m \in Node : k \in told[m]
      /\ told' = [told EXCEPT ![n] = @ \cup {k}]
      /\ Moves(n, issued[k]) \/ Shoots(n, issued[k]) \/ Dies(n, issued[k])
      /\ UNCHANGED issued

Next == Publish \/ \E n \in Node : Tell(n)

Spec == Init /\ [][Next]_vars
=============================================================================
