--------------------------- MODULE BulletsProofs ---------------------------
(* The loop of doUpdateBullets keeps every bullet that is in the window, for  *)
(* lists of any length.                                                       *)
EXTENDS Bullets, TLAPS

(* The invariant adds to the properties what is behind the slice, copies of   *)
(* the last bullet alone, which ends the slice as long as range is inside it, *)
(* and that range has not moved what it has still to read, but for the last   *)
(* bullet and those that are outside.                                         *)
TailIsLast ==
    /\ \A k \in 1..Len(array) : k > size => array[k] = array[Len(array)]
    /\ i > 0 /\ i <= size => array[size] = array[Len(array)]

UnreadUnmoved ==
    i > 0 => \A k \in i..Len(array) :
      left[array[k]] > 0 /\ array[k] # array[Len(array)] => moved[array[k]] = 0

OnlyLastMoves ==
    \A b \in fired : left[b] > 0 /\ moved[b] > 1 => b = array[Len(array)]

IInv == TypeOK /\ TailIsLast /\ InFlightOnce /\ UnreadUnmoved /\ OnlyLastMoves

LEMMA InitIInv == Init => IInv
BY BulletAssumption
DEF Init, IInv, TypeOK, TailIsLast, InFlightOnce, UnreadUnmoved, OnlyLastMoves

(* What append writes: a list of the same length with the same last bullet *)
LEMMA ShiftedKeeps ==
    ASSUME TypeOK, i > 0, i < size
    PROVE  /\ Shifted \in Seq(fired)
           /\ Len(Shifted) = Len(array)
           /\ \A k \in 1..Len(array) :
                Shifted[k] = IF i <= k /\ k < size THEN array[k + 1] ELSE array[k]
           /\ Shifted[Len(array)] = array[Len(array)]
<1> DEFINE n == Len(array)
<1>1. array \in [1..n -> fired] /\ n \in Nat /\ size \in 0..n /\ i \in 0..n
  BY DEF TypeOK
<1>2. \A k \in 1..n : i <= k /\ k < size => k + 1 \in 1..n
  BY <1>1
<1>3. Shifted \in [1..n -> fired]
  BY <1>1, <1>2 DEF Shifted
<1>4. Shifted \in Seq(fired) /\ Len(Shifted) = n
  BY <1>1, <1>3
<1> QED
  BY <1>1, <1>2, <1>4 DEF Shifted

(* Taking the bullet of index i off keeps the others that are in the window,  *)
(* once each, and leaves copies of the last one behind.                       *)
LEMMA KillKeeps ==
    ASSUME IInv, i > 0, Kill
    PROVE  /\ array' \in Seq(fired) /\ Len(array') = Len(array)
           /\ size' \in 0..Len(array)
           /\ array'[Len(array)] = array[Len(array)]
           /\ \A k \in 1..Len(array) : k > size' => array'[k] = array[Len(array)]
           /\ i + 1 <= size' => array'[size'] = array[Len(array)]
           /\ \A k \in (i + 1)..Len(array) : \E j \in i..Len(array) : array'[k] = array[j]
           /\ \A b \in fired \ {array[i]} : left[b] > 0 =>
                \E k \in 1..size' : /\ array'[k] = b
                                    /\ \A j \in 1..size' : array'[j] = b => j = k
<1> DEFINE n   == Len(array)
           out == array[i]
<1>1. array \in [1..n -> fired] /\ n \in Nat /\ size \in 0..n /\ i \in 1..n
  BY DEF IInv, TypeOK
<1>2. \A b \in fired : left[b] > 0 =>
        \E k \in 1..size : array[k] = b /\ \A j \in 1..size : array[j] = b => j = k
  BY DEF IInv, InFlightOnce
<1>3. /\ \A k \in 1..n : k > size => array[k] = array[n]
      /\ i <= size => array[size] = array[n]
  BY DEF IInv, TailIsLast
<1>4. CASE i < size
  <2>1. array' = Shifted /\ size' = size - 1
    BY <1>1, <1>4 DEF Kill
  <2>2. /\ array' \in Seq(fired) /\ Len(array') = n
        /\ \A k \in 1..n :
             array'[k] = IF i <= k /\ k < size THEN array[k + 1] ELSE array[k]
        /\ array'[n] = array[n]
    BY <1>1, <1>4, <2>1, ShiftedKeeps DEF IInv
  <2>3. \A k \in 1..n : k > size' => array'[k] = array[n]
    <3> SUFFICES ASSUME NEW k \in 1..n, k > size - 1 PROVE array'[k] = array[n]
      BY <2>1
    <3>1. array'[k] = array[k]
      BY <1>1, <2>2
    <3>2. CASE k > size
      BY <1>3, <3>1, <3>2
    <3>3. CASE k = size
      BY <1>1, <1>3, <1>4, <3>1, <3>3
    <3> QED
      BY <1>1, <3>2, <3>3
  <2>4. \A k \in (i + 1)..n : \E j \in i..n : array'[k] = array[j]
    BY <1>1, <2>2
  <2>5. ASSUME NEW b \in fired \ {out}, left[b] > 0
        PROVE  \E k \in 1..size' : /\ array'[k] = b
                                   /\ \A j \in 1..size' : array'[j] = b => j = k
    <3>1. PICK k \in 1..size : array[k] = b /\ \A j \in 1..size : array[j] = b => j = k
      BY <1>2, <2>5
    <3>2. k # i
      BY <3>1
    <3>3. CASE k < i
      <4>1. k \in 1..size' /\ array'[k] = b
        BY <1>1, <1>4, <2>1, <2>2, <3>1, <3>3
      <4>2. ASSUME NEW j \in 1..size', array'[j] = b PROVE j = k
        <5>1. j \in 1..n /\ j + 1 \in 1..size /\ j \in 1..size
          BY <1>1, <2>1
        <5>2. CASE i <= j
          <6>1. array[j + 1] = b
            BY <1>1, <2>1, <2>2, <4>2, <5>1, <5>2
          <6> QED
            BY <1>1, <3>1, <3>3, <5>1, <5>2, <6>1
        <5>3. CASE j < i
          BY <1>1, <2>2, <3>1, <4>2, <5>1, <5>3
        <5> QED
          BY <1>1, <5>2, <5>3
      <4> QED
        BY <4>1, <4>2
    <3>4. CASE k > i
      <4>1. k - 1 \in 1..size' /\ array'[k - 1] = b
        BY <1>1, <1>4, <2>1, <2>2, <3>1, <3>4
      <4>2. ASSUME NEW j \in 1..size', array'[j] = b PROVE j = k - 1
        BY <1>1, <1>4, <2>1, <2>2, <3>1, <3>4, <4>2
      <4> QED
        BY <4>1, <4>2
    <3> QED
      BY <1>1, <3>2, <3>3, <3>4
  <2>6. i + 1 <= size' => array'[size'] = array[n]
    BY <1>1, <1>3, <1>4, <2>1, <2>2
  <2> QED
    BY <1>1, <1>4, <2>1, <2>2, <2>3, <2>4, <2>5, <2>6
<1>5. CASE i >= size
  <2>1. size' = i - 1 /\ array' = array
    BY <1>1, <1>5 DEF Kill
  <2>2. array[i] = array[n]
    BY <1>1, <1>3, <1>5
  <2>3. \A k \in 1..n : k > size' => array'[k] = array[n]
    BY <1>1, <1>3, <1>5, <2>1, <2>2
  <2>4. \A k \in (i + 1)..n : \E j \in i..n : array'[k] = array[j]
    BY <1>1, <2>1
  <2>5. ASSUME NEW b \in fired \ {out}, left[b] > 0
        PROVE  \E k \in 1..size' : /\ array'[k] = b
                                   /\ \A j \in 1..size' : array'[j] = b => j = k
    <3>1. PICK k \in 1..size : array[k] = b /\ \A j \in 1..size : array[j] = b => j = k
      BY <1>2, <2>5
    <3>2. k \in 1..size' /\ array'[k] = b
      BY <1>1, <1>5, <2>1, <3>1
    <3>3. ASSUME NEW j \in 1..size', array'[j] = b PROVE j = k
      <4>1. j \in 1..n /\ array[j] = b /\ b # array[n]
        BY <1>1, <2>1, <2>2, <3>3
      <4>2. j <= size
        BY <1>1, <1>3, <4>1
      <4> QED
        BY <1>1, <3>1, <4>1, <4>2
    <3> QED
      BY <3>2, <3>3
  <2> QED
    BY <1>1, <1>5, <2>1, <2>3, <2>4, <2>5 DEF IInv, TypeOK
<1> QED
  BY <1>1, <1>4, <1>5

LEMMA FireKeeps ==
    ASSUME IInv, NEW e \in Bullet, Fire(e)
    PROVE  IInv'
<1> DEFINE s == SubSeq(array, 1, size)
<1>1. /\ array \in Seq(fired) /\ size \in 0..Len(array) /\ Len(array) \in Nat
      /\ i = 0 /\ e \notin fired /\ size' = size + 1 /\ i' = 0
      /\ fired' = fired \cup {e} /\ moved' = [b \in Bullet |-> 0]
  BY DEF Fire, IInv, TypeOK
<1>2. /\ s \in Seq(fired) /\ Len(s) = size
      /\ \A k \in 1..size : s[k] = array[k]
  BY <1>1
<1>3. /\ array' \in Seq(fired') /\ Len(array') = size + 1
      /\ \A k \in 1..size : array'[k] = array[k] /\ array[k] \in fired
      /\ array'[size + 1] = e
  BY <1>1, <1>2 DEF Fire
<1>4. \A b \in fired : left'[b] = left[b]
  BY <1>1 DEF Fire, IInv, TypeOK
<1>5. TypeOK'
  BY <1>1, <1>3, BulletAssumption DEF Fire, IInv, TypeOK
<1>6. InFlightOnce'
  <2> SUFFICES ASSUME NEW b \in fired', left'[b] > 0
               PROVE  \E k \in 1..size' : /\ array'[k] = b
                                         /\ \A j \in 1..size' : array'[j] = b => j = k
    BY DEF InFlightOnce
  <2>1. CASE b = e
    <3>1. \A j \in 1..size' : array'[j] = e => j = size + 1
      BY <1>1, <1>3
    <3> QED
      BY <1>1, <1>3, <2>1, <3>1
  <2>2. CASE b \in fired
    <3>1. PICK k \in 1..size : array[k] = b /\ \A j \in 1..size : array[j] = b => j = k
      BY <1>4, <2>2 DEF IInv, InFlightOnce
    <3>2. \A j \in 1..size' : array'[j] = b => j = k
      BY <1>1, <1>3, <2>2, <3>1
    <3> QED
      BY <1>1, <1>3, <3>1, <3>2
  <2> QED
    BY <1>1, <2>1, <2>2
<1>7. TailIsLast' /\ UnreadUnmoved' /\ OnlyLastMoves'
  BY <1>1, <1>3, <1>5 DEF TailIsLast, UnreadUnmoved, OnlyLastMoves, TypeOK
<1> QED
  BY <1>5, <1>6, <1>7 DEF IInv

LEMMA StartFrameKeeps ==
    ASSUME IInv, StartFrame
    PROVE  IInv'
<1>1. /\ array \in Seq(fired) /\ size \in 0..Len(array) /\ Len(array) \in Nat
      /\ size' = size /\ fired' = fired /\ left' = left
      /\ moved' = [b \in Bullet |-> 0] /\ i' \in 0..size
  BY DEF StartFrame, IInv, TypeOK
<1>2. /\ array' \in Seq(fired) /\ Len(array') = size
      /\ \A k \in 1..size : array'[k] = array[k] /\ array'[k] \in fired
  BY <1>1 DEF StartFrame
<1>3. TypeOK'
  BY <1>1, <1>2 DEF StartFrame, IInv, TypeOK
<1>4. InFlightOnce'
  BY <1>1, <1>2 DEF IInv, InFlightOnce
<1>5. TailIsLast' /\ UnreadUnmoved' /\ OnlyLastMoves'
  BY <1>1, <1>2, <1>3 DEF TailIsLast, UnreadUnmoved, OnlyLastMoves, TypeOK
<1> QED
  BY <1>3, <1>4, <1>5 DEF IInv

LEMMA UpdateBulletKeeps ==
    ASSUME IInv, UpdateBullet
    PROVE  IInv'
<1> DEFINE n   == Len(array)
           out == array[i]
<1>1. /\ array \in [1..n -> fired] /\ n \in Nat /\ size \in 0..n /\ i \in 1..n
      /\ fired \subseteq Bullet /\ dt \in 0..MaxStep
      /\ left \in [Bullet -> 0..Far] /\ moved \in [Bullet -> Nat]
  BY DEF UpdateBullet, IInv, TypeOK
<1>2. out \in fired /\ out \in Bullet /\ fired' = fired /\ dt' = dt
  BY <1>1 DEF UpdateBullet
<1>3. /\ left' = [left EXCEPT ![out] = Flown(out)]
      /\ moved' = [moved EXCEPT ![out] = @ + 1]
  BY DEF UpdateBullet
<1>3a. i' = IF i = n THEN 0 ELSE i + 1
  BY DEF UpdateBullet, NextIndex
<1>3b. i' \in 0..n /\ (i' > 0 => i' = i + 1)
  <2> HIDE DEF n
  <2> QED
    BY <1>1, <1>3a
<1>4. Flown(out) \in 0..Far /\ Flown(out) <= left[out]
  BY <1>1, <1>2, BulletAssumption DEF Flown
<1>5. /\ \A b \in fired \ {out} : left'[b] = left[b] /\ moved'[b] = moved[b]
      /\ left'[out] = Flown(out) /\ moved'[out] = moved[out] + 1
  BY <1>1, <1>2, <1>3
<1>6. left' \in [Bullet -> 0..Far] /\ moved' \in [Bullet -> Nat] /\ i' \in 0..n
  BY <1>1, <1>2, <1>3, <1>4, <1>3b
<1>7. CASE Flown(out) = 0 /\ Kill /\ UNCHANGED alive
  <2>1. /\ array' \in Seq(fired) /\ Len(array') = n
        /\ size' \in 0..n
        /\ array'[n] = array[n]
        /\ \A k \in 1..n : k > size' => array'[k] = array[n]
        /\ i + 1 <= size' => array'[size'] = array[n]
        /\ \A k \in (i + 1)..n : \E j \in i..n : array'[k] = array[j]
        /\ \A b \in fired \ {out} : left[b] > 0 =>
             \E k \in 1..size' : /\ array'[k] = b
                                 /\ \A j \in 1..size' : array'[j] = b => j = k
    BY <1>1, <1>7, KillKeeps
  <2>2. TypeOK'
    BY <1>1, <1>2, <1>6, <1>7, <2>1 DEF IInv, TypeOK
  <2>3. TailIsLast'
    BY <1>1, <1>3b, <2>1 DEF TailIsLast
  <2>4. InFlightOnce'
    BY <1>2, <1>5, <1>7, <2>1 DEF InFlightOnce
  <2>5. UnreadUnmoved'
    <3> SUFFICES ASSUME i' > 0, NEW k \in (i')..n,
                        left'[array'[k]] > 0, array'[k] # array[n]
                 PROVE  moved'[array'[k]] = 0
      BY <2>1 DEF UnreadUnmoved
    <3>1. i' = i + 1
      BY <1>3b
    <3>2. PICK j \in i..n : array'[k] = array[j]
      BY <2>1, <3>1
    <3>3. array[j] \in fired \ {out}
      BY <1>1, <1>5, <1>7, <3>2
    <3>4. left[array[j]] > 0 /\ moved[array[j]] = moved'[array'[k]]
      BY <1>5, <3>2, <3>3
    <3> QED
      BY <1>1, <3>2, <3>4 DEF IInv, UnreadUnmoved
  <2>6. OnlyLastMoves'
    BY <1>2, <1>5, <1>7, <2>1 DEF IInv, OnlyLastMoves
  <2> QED
    BY <2>2, <2>3, <2>4, <2>5, <2>6 DEF IInv
<1>8. CASE Flown(out) > 0 /\ alive' \in {alive, FALSE} /\ UNCHANGED <<array, size>>
  <2>1. array' = array /\ size' = size /\ left[out] > 0
    BY <1>1, <1>2, <1>4, <1>8
  <2>2. TypeOK'
    BY <1>1, <1>2, <1>6, <1>8, <2>1 DEF IInv, TypeOK
  <2>3. \A b \in fired : left'[b] > 0 => left[b] > 0
    BY <1>5, <2>1
  <2>4. TailIsLast'
    BY <1>1, <1>3b, <2>1 DEF IInv, TailIsLast
  <2>5. InFlightOnce'
    BY <1>2, <2>1, <2>3 DEF IInv, InFlightOnce
  <2>6. \A k \in 1..n : array[k] = out /\ out # array[n] => k = i
    <3>1. PICK h \in 1..size : array[h] = out /\ \A j \in 1..size : array[j] = out => j = h
      BY <1>2, <2>1 DEF IInv, InFlightOnce
    <3>2. \A k \in 1..n : array[k] = out /\ out # array[n] => k <= size
      BY <1>1 DEF IInv, TailIsLast
    <3> QED
      BY <1>1, <3>1, <3>2
  <2>7. UnreadUnmoved'
    <3> SUFFICES ASSUME i' > 0, NEW k \in (i')..n,
                        left'[array[k]] > 0, array[k] # array[n]
                 PROVE  moved'[array[k]] = 0
      BY <2>1 DEF UnreadUnmoved
    <3>1. i' = i + 1 /\ k \in 1..n /\ k \in i..n /\ k # i
      BY <1>1, <1>3b
    <3>2. array[k] \in fired \ {out}
      BY <1>1, <2>6, <3>1
    <3> QED
      BY <1>1, <1>5, <3>1, <3>2 DEF IInv, UnreadUnmoved
  <2>8. OnlyLastMoves'
    <3> SUFFICES ASSUME NEW b \in fired, left'[b] > 0, moved'[b] > 1
                 PROVE  b = array[n]
      BY <1>2, <2>1 DEF OnlyLastMoves
    <3>1. CASE b # out
      BY <1>5, <3>1 DEF IInv, OnlyLastMoves
    <3>2. CASE b = out
      <4>1. moved[out] # 0
        BY <1>1, <1>2, <1>5, <3>2
      <4>2. i > 0 /\ i \in i..n
        BY <1>1
      <4>3. left[out] > 0 /\ out # array[n] => moved[out] = 0
        BY <4>2 DEF IInv, UnreadUnmoved
      <4> QED
        BY <2>1, <3>2, <4>1, <4>3
    <3> QED
      BY <3>1, <3>2
  <2> QED
    BY <2>2, <2>4, <2>5, <2>7, <2>8 DEF IInv
<1> QED
  BY <1>7, <1>8 DEF UpdateBullet

LEMMA NextIInv == IInv /\ [Next]_vars => IInv'
<1> SUFFICES ASSUME IInv, [Next]_vars PROVE IInv'
  OBVIOUS
<1>1. CASE \E b \in Bullet : Fire(b)
  BY <1>1, FireKeeps
<1>2. CASE StartFrame
  BY <1>2, StartFrameKeeps
<1>3. CASE UpdateBullet
  BY <1>3, UpdateBulletKeeps
<1>4. CASE UNCHANGED vars
  BY <1>4 DEF vars, IInv, TypeOK, TailIsLast, InFlightOnce, UnreadUnmoved,
              OnlyLastMoves
<1> QED
  BY <1>1, <1>2, <1>3, <1>4 DEF Next

LEMMA IInvHolds == Spec => []IInv
BY InitIInv, NextIInv, PTL DEF Spec

(* client.go:292-301: the loop and what it leaves behind keep their types, and*)
(* bullets[:i] never goes beyond the array.                                   *)
THEOREM LoopTyped == Spec => []TypeOK
<1>1. IInv => TypeOK
  BY DEF IInv
<1> QED
  BY <1>1, IInvHolds, PTL

(* client.go:295-301: for any number of bullets, anywhere, a bullet in the    *)
(* window is in the list, once.                                               *)
THEOREM InFlightKept == Spec => []InFlightOnce
<1>1. IInv => InFlightOnce
  BY DEF IInv
<1> QED
  BY <1>1, IInvHolds, PTL

(* client.go:293: whatever is removed in a loop, only the last bullet of the  *)
(* list may be moved more than once in it and still be in the window.         *)
THEOREM LastRunsAhead == Spec => []OnlyLastRunsAhead
<1>1. IInv => OnlyLastRunsAhead
  BY DEF IInv, OnlyLastMoves, OnlyLastRunsAhead, Last
<1> QED
  BY <1>1, IInvHolds, PTL
=============================================================================
