------------------------------ MODULE Bullets ------------------------------
(* The list of bullets on a player's screen. doUpdateBullets (client.go)      *)
(* ranges over the slice and removes from it, by append, the bullets that     *)
(* have left the window: range keeps the length the slice had when the frame  *)
(* began and reads the array behind it, where append moves the bullets up and *)
(* leaves the old last one in place. So the bullet after a removed one is     *)
(* skipped, the last one may be read more than once, and a bullets[:i] beyond *)
(* the slice makes it longer again.                                           *)
(*                                                                            *)
(* Where a bullet is, is how far it has to go until it leaves the window,     *)
(* which it does for good, since it flies straight on.                        *)
EXTENDS Integers, SequencesExt

CONSTANTS
    Bullet,    \* the bullets that may be fired
    Far,       \* bound on how far a bullet has to go
    MaxStep    \* bound on how far bullets fly in a frame

ASSUME BulletAssumption == Far \in Nat /\ MaxStep \in Nat \ {0}

VARIABLES
    array,    \* the array behind the slice, as far as range reads it
    size,     \* len(bullets)
    i,        \* where range is (counted from 1), or 0 outside of the loop
    dt,       \* how far bullets fly in this frame
    left,     \* left[b]: how far b has to go, 0 when it is outside
    fired,    \* the bullets fired so far
    alive,    \* the local player has not been hit
    moved     \* moved[b]: how often b was moved in this loop (history)

vars == <<array, size, i, dt, left, fired, alive, moved>>

Init ==
    /\ array = <<>> /\ size = 0
    /\ i = 0 /\ dt = 0
    /\ left = [b \in Bullet |-> 0]
    /\ fired = {}
    /\ alive = TRUE
    /\ moved = [b \in Bullet |-> 0]

(* FireBullet, or a shot of somebody else in doAcceptUpdates: append *)
Fire(b) ==
    /\ i = 0
    /\ b \notin fired
    /\ fired' = fired \cup {b}
    /\ \E d \in 0..Far : left' = [left EXCEPT ![b] = d]
    /\ array' = Append(SubSeq(array, 1, size), b)
    /\ size' = size + 1
    /\ moved' = [e \in Bullet |-> 0]
    /\ UNCHANGED <<i, dt, alive>>

(* A frame begins *)
StartFrame ==
    /\ i = 0
    /\ array' = SubSeq(array, 1, size)
    /\ i' = IF size = 0 THEN 0 ELSE 1
    /\ dt' \in 1..MaxStep
    /\ moved' = [b \in Bullet |-> 0]
    /\ UNCHANGED <<size, left, fired, alive>>

(* append(bullets[:i], bullets[i+1:]...) writes the array *)
Shifted ==
    [k \in DOMAIN array |-> IF i <= k /\ k < size THEN array[k + 1] ELSE array[k]]

(* Variants: the slice keeps its length; the last bullet is left in *)
KillUnshrunk ==
    \/ i < size /\ array' = Shifted /\ UNCHANGED size
    \/ i >= size /\ size' = i - 1 /\ UNCHANGED array
KillInside ==
    \/ i < size /\ array' = Shifted /\ size' = size - 1
    \/ i >= size /\ UNCHANGED <<array, size>>

(* The bullet that range is at is taken off the slice *)
Kill ==
    \/ i < size /\ array' = Shifted /\ size' = size - 1
    \/ i >= size /\ size' = i - 1 /\ UNCHANGED array

(* Variant: range goes back one after a bullet is taken off *)
NextBack ==
    i' = IF size' < size /\ i > 1 THEN i - 1
         ELSE IF i = Len(array) THEN 0 ELSE i + 1

(* Variant: range goes on beyond that length *)
NextPast == i' = IF i > Len(array) THEN 0 ELSE i + 1

(* range goes on to the length the slice had *)
NextIndex == i' = IF i = Len(array) THEN 0 ELSE i + 1

Flown(b) == IF dt < left[b] THEN left[b] - dt ELSE 0

(* One turn of the loop: move the bullet; take it off if it is outside, and   *)
(* else it may hit the local player                                           *)
UpdateBullet ==
    /\ i > 0
    /\ LET b == array[i]
       IN  /\ left' = [left EXCEPT ![b] = Flown(b)]
           /\ moved' = [moved EXCEPT ![b] = @ + 1]
           /\ \/ Flown(b) = 0 /\ Kill /\ UNCHANGED alive
              \/ Flown(b) > 0 /\ alive' \in {alive, FALSE} /\ UNCHANGED <<array, size>>
    /\ NextIndex
    /\ UNCHANGED <<dt, fired>>

Next ==
    \/ \E b \in Bullet : Fire(b)
    \/ StartFrame
    \/ UpdateBullet

Spec == Init /\ [][Next]_vars

(* The main loop draws frame after frame *)
FairSpec == Spec /\ WF_vars(StartFrame) /\ WF_vars(UpdateBullet)

-----------------------------------------------------------------------------
(* Properties                                                                 *)

(* Every variable keeps its type; range never reads beyond its array, and the *)
(* slice never grows beyond what range reads.                                 *)
TypeOK ==
    /\ array \in Seq(fired)
    /\ size \in 0..Len(array) /\ i \in 0..Len(array)
    /\ dt \in 0..MaxStep
    /\ left \in [Bullet -> 0..Far]
    /\ fired \in SUBSET Bullet
    /\ alive \in BOOLEAN
    /\ moved \in [Bullet -> Nat]

(* Although the loop removes from the slice it ranges over (client.go:298), a *)
(* bullet inside the window is neither lost nor doubled: only bullets that    *)
(* have left the window come back when bullets[:i] makes the slice longer.    *)
InFlightOnce ==
    \A b \in fired : left[b] > 0 =>
      \E k \in 1..size : /\ array[k] = b
                         /\ \A j \in 1..size : array[j] = b => j = k

(* A bullet inside the window that is moved twice in a loop, and  so flies    *)
(* faster than on other screens, is the last of the list.                     *)
OnlyLastRunsAhead ==
    \A b \in fired : left[b] > 0 /\ moved[b] > 1 => b = Last(array)

(* A bullet that is skipped is not skipped for ever: in the end it leaves the *)
(* window and the list.                                                       *)
BulletsVanish ==
    \A b \in Bullet :
      b \in fired ~> i = 0 /\ \A k \in 1..size : array[k] # b

=============================================================================
