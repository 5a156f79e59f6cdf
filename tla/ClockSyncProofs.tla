-------------------------- MODULE ClockSyncProofs --------------------------
(* What a round of syncClocks does to the clocks, for any number of clients,  *)
(* any raw clocks and any bound on the delays.                                *)
EXTENDS ClockSync, TLAPS

-----------------------------------------------------------------------------
(* Go's division of integers yields an integer *)
LEMMA QuotType ==
    ASSUME NEW a \in Int, NEW n \in Nat \ {0}
    PROVE  Quot(a, n) \in Int
BY DEF Quot

(* The measurement is off by half a round trip at most *)
Measures(c, m) ==
    /\ Skew[c] + offset[c] - serverOffset - m <= HalfTrip
    /\ Skew[c] + offset[c] - serverOffset - m >= -HalfTrip

LEMMA MeasureError ==
    ASSUME TypeOK, NEW c \in Client, NEW d1 \in 0..MaxDelay, NEW d2 \in 0..MaxDelay
    PROVE  /\ ClientOffset(c, d1, d2) \in Int
           /\ Measures(c, ClientOffset(c, d1, d2))
<1> DEFINE e == (d1 + d2) \div 2 - d2
<1>1. /\ d1 \in Nat /\ d2 \in Nat /\ MaxDelay \in Nat
      /\ d1 <= MaxDelay /\ d2 <= MaxDelay
  BY SyncAssumption
<1>2. e \in Int /\ e <= (MaxDelay + 1) \div 2 /\ -e <= (MaxDelay + 1) \div 2
  BY <1>1
<1>3. Skew[c] \in Int /\ offset[c] \in Int /\ serverOffset \in Int
  BY SyncAssumption DEF TypeOK
<1>4. ClientOffset(c, d1, d2) = Skew[c] + offset[c] - serverOffset + e
  <2>1. d1 + d2 + serverOffset - serverOffset = d1 + d2
    BY <1>1, <1>3
  <2>2. Quot(d1 + d2 + serverOffset - serverOffset, 2) = (d1 + d2) \div 2
    BY <1>1, <2>1 DEF Quot
  <2> QED  BY <1>1, <1>3, <2>2 DEF ClientOffset
<1> HIDE DEF e
<1>5. HalfTrip = (MaxDelay + 1) \div 2 /\ HalfTrip \in Int
  BY <1>1 DEF HalfTrip
<1> QED  BY <1>2, <1>3, <1>4, <1>5 DEF Measures

-----------------------------------------------------------------------------
(* The inductive invariant: within a round, every client visited so far has a *)
(* measurement of the offset it still had; the second loop has replaced the   *)
(* offset of every client it has visited. What a finished round has done to a *)
(* clock follows, for whatever average: SetOffset replaces the offset that the*)
(* measurement included, so that the clock is ahead of the server's by minus  *)
(* the offset it had before.                                                  *)
RoundUndoesOffset ==
    \A c \in synced : /\ Difference(c) + before[c] <= HalfTrip
                      /\ Difference(c) + before[c] >= -HalfTrip

Measured(c) ==
    /\ Skew[c] + before[c] - serverOffset - measured[c] <= HalfTrip
    /\ Skew[c] + before[c] - serverOffset - measured[c] >= -HalfTrip

RoundInv ==
    /\ todo \subseteq connected
    /\ synced \subseteq connected
    /\ phase = "measuring" => \A c \in connected \ todo : Measured(c)
    /\ phase = "spreading" =>
         /\ \A c \in connected : Measured(c)
         /\ \A c \in connected \ todo : offset[c] = average - measured[c]
    /\ phase # "idle" => synced = {}
    /\ phase = "idle" => todo = {}
    /\ RoundUndoesOffset

IInv == TypeOK /\ RoundInv

LEMMA InitIInv == Init => IInv
BY SyncAssumption DEF Init, IInv, TypeOK, RoundInv, RoundUndoesOffset

(* The variables keep their types *)
LEMMA NextTypeOK == TypeOK /\ [Next]_vars => TypeOK'
<1> SUFFICES ASSUME TypeOK, [Next]_vars PROVE TypeOK'
  OBVIOUS
<1> USE DEF TypeOK, connVars, roundVars
<1>1. ASSUME NEW c \in Client, Connect(c) PROVE TypeOK'
  BY <1>1 DEF Connect
<1>2. ASSUME NEW c \in Client, Leave(c) \/ Fail(c) \/ Reconnect(c) PROVE TypeOK'
  BY <1>2 DEF Leave, Fail, Reconnect
<1>3. ASSUME NEW c \in Client, NEW d1 \in 0..MaxDelay, NEW d2 \in 0..MaxDelay,
             Measure(c, d1, d2)
      PROVE TypeOK'
  <2>1. ClientOffset(c, d1, d2) \in Int
    BY MeasureError
  <2> QED  BY <1>3, <2>1 DEF Measure
<1>4. ASSUME Average PROVE TypeOK'
  BY <1>4, QuotType DEF Average
<1>5. ASSUME NEW c \in Client, SetOffset(c) PROVE TypeOK'
  BY <1>5 DEF SetOffset
<1>6. ASSUME Finish PROVE TypeOK'
  BY <1>6 DEF Finish
<1>7. ASSUME StartRound PROVE TypeOK'
  BY <1>7 DEF StartRound
<1>8. CASE UNCHANGED vars
  BY <1>8 DEF vars
<1> QED  BY <1>1, <1>2, <1>3, <1>4, <1>5, <1>6, <1>7, <1>8 DEF Next

LEMMA NextRoundInv == IInv /\ [Next]_vars => RoundInv'
<1> SUFFICES ASSUME TypeOK, RoundInv, [Next]_vars PROVE RoundInv'
  BY DEF IInv
<1> USE DEF connVars, roundVars
<1>0. HalfTrip \in Int /\ Skew \in [Client -> Int]
  BY SyncAssumption DEF HalfTrip
<1>1. ASSUME NEW c \in Client, Connect(c) PROVE RoundInv'
  <2>1. /\ phase = "idle" /\ phase' = "idle" /\ todo' = todo
        /\ connected \subseteq connected' /\ synced' = synced /\ c \notin synced
        /\ offset' = [offset EXCEPT ![c] = 0]
        /\ UNCHANGED <<serverOffset, before>>
    BY <1>1 DEF Connect, RoundInv
  <2>2. \A d \in synced : Difference(d)' = Difference(d)
    BY <2>1 DEF TypeOK, Difference
  <2>3. RoundUndoesOffset'
    BY <2>1, <2>2 DEF RoundInv, RoundUndoesOffset, HalfTrip
  <2> QED  BY <2>1, <2>3 DEF RoundInv
<1>2. ASSUME NEW c \in Client, Leave(c) \/ Fail(c) \/ Reconnect(c)
      PROVE  RoundInv'
  <2>1. /\ phase = "idle" /\ phase' = "idle" /\ todo' = todo
        /\ synced' \subseteq synced /\ synced' \subseteq connected'
        /\ UNCHANGED <<offset, serverOffset, before>>
    BY <1>2 DEF Leave, Fail, Reconnect, RoundInv
  <2>2. RoundUndoesOffset'
    BY <2>1 DEF RoundInv, RoundUndoesOffset, Difference, HalfTrip
  <2> QED  BY <2>1, <2>2 DEF RoundInv
<1>3. ASSUME NEW c \in Client, NEW d1 \in 0..MaxDelay, NEW d2 \in 0..MaxDelay,
             Measure(c, d1, d2)
      PROVE RoundInv'
  <2>1. /\ ClientOffset(c, d1, d2) \in Int
        /\ Measures(c, ClientOffset(c, d1, d2))
    BY MeasureError
  <2>2. /\ measured' = [measured EXCEPT ![c] = ClientOffset(c, d1, d2)]
        /\ before' = [before EXCEPT ![c] = offset[c]]
        /\ todo' = todo \ {c}
        /\ phase = "measuring" /\ phase' = "measuring"
        /\ UNCHANGED <<connected, offset, serverOffset, synced>>
    BY <1>3 DEF Measure
  <2>3. Measured(c)'
    BY <2>1, <2>2 DEF TypeOK, Measures, Measured, HalfTrip
  <2>4. ASSUME NEW d \in connected \ todo, d # c PROVE Measured(d)'
    BY <2>2, <2>4 DEF TypeOK, RoundInv, Measured, HalfTrip
  <2>5. synced' = {}
    BY <2>2 DEF RoundInv
  <2> QED  BY <2>2, <2>3, <2>4, <2>5 DEF RoundInv, RoundUndoesOffset
<1>4. ASSUME Average PROVE RoundInv'
  BY <1>4 DEF Average, RoundInv, RoundUndoesOffset, Measured, HalfTrip
<1>5. ASSUME NEW c \in Client, SetOffset(c) PROVE RoundInv'
  <2>1. /\ phase = "spreading" /\ phase' = "spreading"
        /\ todo' = todo \ {c}
        /\ offset' = [offset EXCEPT ![c] = average - measured[c]]
        /\ UNCHANGED <<connected, serverOffset, measured, average, synced,
                       before>>
    BY <1>5 DEF SetOffset
  <2>2. \A d \in connected' : Measured(d)'
    BY <2>1 DEF RoundInv, Measured, HalfTrip
  <2>3. \A d \in (connected \ todo)' : offset'[d] = average' - measured'[d]
    BY <2>1 DEF TypeOK, RoundInv
  <2> QED  BY <2>1, <2>2, <2>3 DEF RoundInv, RoundUndoesOffset
<1>6. ASSUME Finish PROVE RoundInv'
  <2>1. /\ phase = "spreading" /\ todo = {} /\ phase' = "idle"
        /\ serverOffset' = serverOffset + average /\ synced' = connected
        /\ UNCHANGED <<connected, offset, todo, measured, before>>
    BY <1>6 DEF Finish
  <2>2. ASSUME NEW c \in synced'
        PROVE  /\ Difference(c)' + before'[c] <= HalfTrip
               /\ Difference(c)' + before'[c] >= -HalfTrip
    <3>1. c \in Client /\ c \in connected
      BY <2>1, <2>2 DEF TypeOK
    <3>2. Measured(c) /\ offset[c] = average - measured[c]
      BY <2>1, <3>1 DEF RoundInv
    <3>3. /\ Skew[c] \in Int /\ before[c] \in Int /\ measured[c] \in Int
          /\ serverOffset \in Int /\ average \in Int
      BY <1>0, <3>1 DEF TypeOK
    <3>4. Difference(c)' = Skew[c] - measured[c] - serverOffset
      BY <2>1, <3>2, <3>3 DEF Difference
    <3> QED  BY <1>0, <2>1, <3>2, <3>3, <3>4 DEF Measured
  <2>3. RoundUndoesOffset'
    BY <2>2 DEF RoundUndoesOffset, HalfTrip
  <2> QED  BY <2>1, <2>3 DEF RoundInv
<1>7. ASSUME StartRound PROVE RoundInv'
  BY <1>7 DEF StartRound, RoundInv, RoundUndoesOffset
<1>8. CASE UNCHANGED vars
  BY <1>8 DEF vars, RoundInv, RoundUndoesOffset, Difference, Measured, HalfTrip
<1> QED  BY <1>1, <1>2, <1>3, <1>4, <1>5, <1>6, <1>7, <1>8 DEF Next

(* syncClocks keeps its variables' types, and the divisor is never 0.         *)
THEOREM TypeCorrect == Spec => []TypeOK
<1>1. Init => TypeOK
  BY InitIInv DEF IInv
<1> QED  BY <1>1, NextTypeOK, PTL DEF Spec

(* A client's first round of syncClocks synchronises it with the server.      *)
THEOREM FirstRound == Spec => []FirstRoundSynchronises
<1>1. IInv /\ [Next]_vars => IInv'
  BY NextTypeOK, NextRoundInv DEF IInv
<1>2. ASSUME IInv PROVE FirstRoundSynchronises
  <2>1. ASSUME NEW c \in synced, before[c] = 0
        PROVE  Difference(c) <= HalfTrip /\ Difference(c) >= -HalfTrip
    <3>1. Difference(c) \in Int
      BY <1>2, SyncAssumption DEF IInv, TypeOK, Difference
    <3> QED  BY <1>2, <2>1, <3>1 DEF IInv, RoundInv, RoundUndoesOffset
  <2> QED  BY <2>1 DEF FirstRoundSynchronises
<1> QED  BY InitIInv, <1>1, <1>2, PTL DEF Spec

-----------------------------------------------------------------------------
(* The average. As long as the server's own offset is 0, the sum of the first *)
(* loop lies between the earliest and the latest clock visited so far, taken  *)
(* as often as there are clocks.                                              *)
LEMMA TimesMonotonic ==
    ASSUME NEW a \in Int, NEW b \in Int, NEW n \in Nat, a <= b
    PROVE  a * n <= b * n
<1>1. PICK d \in Nat : b = a + d
  <2>1. b - a \in Nat /\ b = a + (b - a)
    OBVIOUS
  <2> QED  BY <2>1
<1>2. b * n = a * n + d * n
  BY <1>1
<1>3. d * n \in Nat /\ a * n \in Int
  OBVIOUS
<1> QED  BY <1>2, <1>3

LEMMA FloorBetween ==
    ASSUME NEW a \in Int, NEW n \in Nat \ {0}, NEW lo \in Int, NEW hi \in Int,
           lo * n <= a, a <= hi * n
    PROVE  lo <= a \div n /\ a \div n <= hi
<1> DEFINE q == a \div n
<1>1. q \in Int /\ q * n <= a /\ a < q * n + n
  OBVIOUS
<1> HIDE DEF q
<1>2. ASSUME hi < q PROVE FALSE
  <2>1. (hi + 1) * n <= q * n
    BY <1>1, <1>2, TimesMonotonic
  <2>2. (hi + 1) * n = hi * n + n /\ hi * n \in Int /\ q * n \in Int
    BY <1>1
  <2> QED  BY <1>1, <2>1, <2>2
<1>3. ASSUME q < lo PROVE FALSE
  <2>1. (q + 1) * n <= lo * n
    BY <1>1, <1>3, TimesMonotonic
  <2>2. (q + 1) * n = q * n + n /\ lo * n \in Int /\ q * n \in Int
    BY <1>1
  <2> QED  BY <1>1, <2>1, <2>2
<1>4. lo <= q /\ q <= hi
  BY <1>1, <1>2, <1>3
<1> QED  BY <1>4 DEF q

(* So does Go's quotient, which is rounded towards zero *)
LEMMA QuotBetween ==
    ASSUME NEW a \in Int, NEW n \in Nat \ {0}, NEW lo \in Int, NEW hi \in Int,
           lo * n <= a, a <= hi * n
    PROVE  lo <= Quot(a, n) /\ Quot(a, n) <= hi
<1>1. CASE a >= 0
  <2>1. Quot(a, n) = a \div n
    BY <1>1 DEF Quot
  <2> QED  BY <2>1, FloorBetween
<1>2. CASE a < 0
  <2>1. Quot(a, n) = -((-a) \div n) /\ (-a) \div n \in Int
    BY <1>2 DEF Quot
  <2>2. (-hi) * n = -(hi * n) /\ (-lo) * n = -(lo * n)
    OBVIOUS
  <2>3. hi * n \in Int /\ lo * n \in Int
    OBVIOUS
  <2>4. (-hi) * n <= -a /\ -a <= (-lo) * n
    BY <2>2, <2>3
  <2>5. -hi <= (-a) \div n /\ (-a) \div n <= -lo
    BY <2>4, FloorBetween
  <2> QED  BY <2>1, <2>5
<1> QED  BY <1>1, <1>2

Visited == {0} \cup {Skew[c] + before[c] : c \in connected \ todo}

AverageInv ==
    /\ phase = "measuring" /\ serverOffset = 0 =>
         \E lo, hi \in Visited : /\ (lo - HalfTrip) * num <= total
                                /\ total <= (hi + HalfTrip) * num
    /\ phase = "spreading" /\ serverOffset = 0 =>
         \E lo, hi \in Clocks : lo - HalfTrip <= average /\ average <= hi + HalfTrip

LEMMA InitAverageInv == Init => AverageInv
BY DEF Init, AverageInv

LEMMA StartRoundAverage ==
    ASSUME IInv, StartRound PROVE AverageInv'
<1>1. /\ phase' = "measuring" /\ serverOffset' = serverOffset
      /\ total' = serverOffset /\ num' = 1
  BY DEF StartRound
<1>2. HalfTrip \in Nat /\ HalfTrip' = HalfTrip
  BY SyncAssumption DEF HalfTrip
<1>3. ASSUME serverOffset = 0
      PROVE  \E lo, hi \in Visited' : /\ (lo - HalfTrip') * num' <= total'
                                      /\ total' <= (hi + HalfTrip') * num'
  <2>1. 0 \in Visited'
    BY DEF Visited
  <2>2. (0 - HalfTrip) * 1 <= 0 /\ 0 <= (0 + HalfTrip) * 1
    BY <1>2
  <2> QED  BY <1>1, <1>2, <1>3, <2>1, <2>2
<1> QED  BY <1>1, <1>3 DEF AverageInv

LEMMA MeasureAverage ==
    ASSUME IInv, AverageInv, NEW c \in Client,
           NEW d1 \in 0..MaxDelay, NEW d2 \in 0..MaxDelay, Measure(c, d1, d2)
    PROVE  AverageInv'
<1> DEFINE m == ClientOffset(c, d1, d2)
           v == Skew[c] + offset[c]
<1>1. m \in Int /\ Measures(c, m)
  BY MeasureError DEF IInv
<1>2. /\ c \in todo /\ todo' = todo \ {c} /\ before' = [before EXCEPT ![c] = offset[c]]
      /\ total' = total + m /\ num' = num + 1
      /\ phase = "measuring" /\ phase' = "measuring"
      /\ connected' = connected /\ serverOffset' = serverOffset
  BY DEF Measure, connVars
<1>3. /\ HalfTrip \in Nat /\ HalfTrip' = HalfTrip /\ Skew \in [Client -> Int]
      /\ offset \in [Client -> Int] /\ before \in [Client -> Int]
      /\ total \in Int /\ num \in Nat /\ connected \subseteq Client
      /\ todo \subseteq connected
  BY SyncAssumption DEF HalfTrip, IInv, TypeOK, RoundInv
<1>4. v \in Visited' /\ Visited \subseteq Visited' /\ Visited' \subseteq Int
  <2>1. before'[c] = offset[c] /\ c \in (connected \ todo)'
    BY <1>2, <1>3
  <2>2. \A d \in connected \ todo : before'[d] = before[d] /\ d \in (connected \ todo)'
    BY <1>2, <1>3
  <2>3. before' \in [Client -> Int]
    BY <1>2, <1>3
  <2> QED  BY <1>2, <1>3, <2>1, <2>2, <2>3 DEF Visited
<1>5. ASSUME serverOffset = 0
      PROVE  \E lo, hi \in Visited' : /\ (lo - HalfTrip) * (num + 1) <= total + m
                                      /\ total + m <= (hi + HalfTrip) * (num + 1)
  <2>1. v - HalfTrip <= m /\ m <= v + HalfTrip /\ v \in Int
    BY <1>1, <1>3, <1>5 DEF Measures
  <2> HIDE DEF m, v
  <2>2. PICK lo, hi \in Visited : /\ (lo - HalfTrip) * num <= total
                                 /\ total <= (hi + HalfTrip) * num
    BY <1>2, <1>5 DEF AverageInv
  <2>3. lo \in Int /\ hi \in Int /\ lo \in Visited' /\ hi \in Visited'
    BY <1>4, <2>2
  <2>4. PICK low \in Visited' : low <= lo /\ low <= v
    BY <1>4, <2>1, <2>3
  <2>5. PICK high \in Visited' : hi <= high /\ v <= high
    BY <1>4, <2>1, <2>3
  <2>6. low \in Int /\ high \in Int
    BY <1>4
  <2>7. (low - HalfTrip) * (num + 1) <= total + m
    <3>1. (low - HalfTrip) * num <= (lo - HalfTrip) * num
      BY <1>3, <2>3, <2>4, <2>6, TimesMonotonic
    <3>2. (low - HalfTrip) * (num + 1) = (low - HalfTrip) * num + (low - HalfTrip)
      BY <1>3, <2>6
    <3>3. (low - HalfTrip) * num \in Int /\ (lo - HalfTrip) * num \in Int
      BY <1>3, <2>3, <2>6
    <3>4. (low - HalfTrip) * num <= total /\ low - HalfTrip <= m
      BY <1>1, <1>3, <2>1, <2>2, <2>4, <2>6, <3>1, <3>3
    <3> QED  BY <1>1, <1>3, <2>6, <3>2, <3>3, <3>4
  <2>8. total + m <= (high + HalfTrip) * (num + 1)
    <3>1. (hi + HalfTrip) * num <= (high + HalfTrip) * num
      BY <1>3, <2>3, <2>5, <2>6, TimesMonotonic
    <3>2. (high + HalfTrip) * (num + 1) = (high + HalfTrip) * num + (high + HalfTrip)
      BY <1>3, <2>6
    <3>3. (high + HalfTrip) * num \in Int /\ (hi + HalfTrip) * num \in Int
      BY <1>3, <2>3, <2>6
    <3>4. total <= (high + HalfTrip) * num /\ m <= high + HalfTrip
      BY <1>1, <1>3, <2>1, <2>2, <2>5, <2>6, <3>1, <3>3
    <3> QED  BY <1>1, <1>3, <2>6, <3>2, <3>3, <3>4
  <2> QED  BY <2>7, <2>8
<1> QED  BY <1>2, <1>3, <1>5 DEF AverageInv

LEMMA AverageAverage ==
    ASSUME IInv, AverageInv, Average PROVE AverageInv'
<1>1. /\ phase = "measuring" /\ todo = {} /\ phase' = "spreading"
      /\ average' = Quot(total, num)
      /\ UNCHANGED <<connected, before, serverOffset>>
  BY DEF Average, connVars
<1>2. /\ HalfTrip \in Nat /\ HalfTrip' = HalfTrip /\ total \in Int
      /\ num \in Nat \ {0} /\ Visited \subseteq Int
  BY SyncAssumption DEF HalfTrip, IInv, TypeOK, Visited
<1>3. Visited = Clocks /\ Clocks' = Clocks
  BY <1>1 DEF Visited, Clocks
<1>4. ASSUME serverOffset = 0
      PROVE  \E lo, hi \in Clocks : /\ lo - HalfTrip <= Quot(total, num)
                                    /\ Quot(total, num) <= hi + HalfTrip
  <2>1. PICK lo, hi \in Visited : /\ (lo - HalfTrip) * num <= total
                                 /\ total <= (hi + HalfTrip) * num
    BY <1>1, <1>4 DEF AverageInv
  <2>2. lo - HalfTrip \in Int /\ hi + HalfTrip \in Int
    BY <1>2
  <2> QED  BY <1>2, <1>3, <2>1, <2>2, QuotBetween
<1> QED  BY <1>1, <1>2, <1>3, <1>4 DEF AverageInv

LEMMA NextAverageInv == IInv /\ AverageInv /\ [Next]_vars => AverageInv'
<1> SUFFICES ASSUME IInv, AverageInv, [Next]_vars PROVE AverageInv'
  OBVIOUS
<1>1. ASSUME NEW c \in Client, Connect(c) \/ Leave(c) \/ Fail(c) \/ Reconnect(c)
      PROVE  AverageInv'
  <2>1. phase' = "idle"
    BY <1>1 DEF Connect, Leave, Fail, Reconnect, roundVars
  <2> QED  BY <2>1 DEF AverageInv
<1>2. ASSUME NEW c \in Client, SetOffset(c) PROVE AverageInv'
  <2>1. /\ phase = "spreading" /\ phase' = "spreading"
        /\ UNCHANGED <<serverOffset, average, connected, before>>
    BY <1>2 DEF SetOffset, connVars
  <2>2. Clocks' = Clocks /\ HalfTrip' = HalfTrip
    BY <2>1 DEF Clocks, HalfTrip
  <2> QED  BY <2>1, <2>2 DEF AverageInv
<1>3. ASSUME Finish PROVE AverageInv'
  BY <1>3 DEF Finish, AverageInv
<1>4. CASE UNCHANGED vars
  <2>1. UNCHANGED <<phase, serverOffset, average, total, num, Visited, Clocks>>
    BY <1>4 DEF vars, connVars, roundVars, Visited, Clocks
  <2> QED  BY <2>1 DEF AverageInv, HalfTrip
<1> QED  BY <1>1, <1>2, <1>3, <1>4, StartRoundAverage, MeasureAverage,
            AverageAverage DEF Next

(* While the server's clock is unset, a round of syncClocks brings it to a    *)
(* time between the earliest and the latest of the clocks.                    *)
THEOREM AverageLiesBetween == Spec => AverageIsBetween
<1>1. IInv /\ [Next]_vars => IInv'
  BY NextTypeOK, NextRoundInv DEF IInv
<1>2. ASSUME IInv, AverageInv, [Next]_vars,
             phase = "spreading", phase' = "idle", serverOffset = 0
      PROVE  \E lo, hi \in Clocks : /\ lo - HalfTrip <= serverOffset'
                                    /\ serverOffset' <= hi + HalfTrip
  <2>1. Finish
    BY <1>2 DEF Next, Connect, Leave, Fail, Reconnect, Measure, SetOffset,
                StartRound, Average, vars, roundVars, connVars
  <2>2. serverOffset' = average
    BY <1>2, <2>1 DEF Finish, IInv, TypeOK
  <2> QED  BY <1>2, <2>2 DEF AverageInv
<1>3. IInv /\ AverageInv /\ [Next]_vars =>
        [phase = "spreading" /\ phase' = "idle" /\ serverOffset = 0 =>
           \E lo, hi \in Clocks : /\ lo - HalfTrip <= serverOffset'
                                 /\ serverOffset' <= hi + HalfTrip]_vars
  BY <1>2
<1> QED  BY InitIInv, InitAverageInv, NextAverageInv, <1>1, <1>3, PTL
         DEF Spec, AverageIsBetween

=============================================================================
