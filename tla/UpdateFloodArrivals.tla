------------------------ MODULE UpdateFloodArrivals ------------------------
(* What a flood brings to everybody, for any number of players, any overlay   *)
(* and any order of arrival, as long as nothing disturbs it: the deaths by a  *)
(* shot, and where each living player is in the end.                          *)
EXTENDS UpdateFloodProofs

(* How updates spread                                                         *)

(* Update k waits at n, or n has passed it on *)
At(n, k) ==
    k \in Range(recordUpdates[n]) \/ taking[n] = k \/ k \in Range(shown[n])

(* Update k has come to q or is under way to it from n *)
Comes(n, q, k) == [from |-> n, to |-> q, nonce |-> k] \in net \/ At(q, k)

(* The invariant of a flood that nobody stops: the player of k has it, those  *)
(* to whom somebody has sent it have it or will, and nobody has refused it    *)
Spreads(k) ==
    /\ At(issued[k].player, k)
    /\ \A n \in Node : \A i \in 1..sent[n] :
         shown[n][i] = k =>
           \A q \in peers[n] \ {issued[k].player} : Comes(n, q, k)
    /\ \A n \in Node : k \in historyMap[n] => k \in Range(shown[n])

(* Whoever looks at update k believes it *)
Believed(k) ==
    /\ issued[k].kind # "FIRE"
    /\ \A n \in Node : taking[n] = k => Plausible(n, issued[k])

(* Whose steps there are *)
LEMMA Steps ==
    ASSUME [Next]_vars
    PROVE  \/ \E n \in Node : Worker(n) \/ Player(n)
           \/ \E n \in Node, o \in Offsets : SetOffset(n, o)
           \/ Lose \/ Tick \/ UNCHANGED vars
BY BoundAssumption DEF Next

LEMMA NoncesPositive == TypeOK => 0 \notin Nonce
<1> SUFFICES ASSUME issued \in Seq(Update) PROVE 0 \notin DOMAIN issued
  BY DEF TypeOK, PlayTypeOK, Nonce
<1> QED  OBVIOUS

(* A set that holds n and the peers of its members holds all n reaches *)
LEMMA ReachClosed ==
    ASSUME NEW n \in Node, NEW S \in SUBSET Node, n \in S,
           \A q \in S : peers[q] \subseteq S
    PROVE  Reach(n) \subseteq S
BY DEF Reach

(* When all is quiet, what spreads has come to everybody *)
LEMMA QuietEverywhere ==
    ASSUME TypeOK, Idle, NEW k \in Nonce, Spreads(k)
    PROVE  \A n \in Reach(issued[k].player) : k \in Range(shown[n])
<1> DEFINE p == issued[k].player
           S == {n \in Node : k \in Range(shown[n])}
<1>0. p \in Node
  <2>1. issued[k] \in Update
    BY DEF TypeOK, PlayTypeOK, Nonce
  <2> QED  BY <2>1 DEF Update
<1>1. \A n \in Node : At(n, k) => n \in S
  <2>1. k # 0
    BY NoncesPositive
  <2>2. \A n \in Node : Range(recordUpdates[n]) = {} /\ taking[n] = 0
    BY DEF Idle, Range
  <2>3. ASSUME NEW n \in Node, At(n, k) PROVE k \in Range(shown[n])
    <3>1. k \notin Range(recordUpdates[n]) /\ taking[n] # k
      BY <2>1, <2>2
    <3> QED  BY <2>3, <3>1 DEF At
  <2> QED  BY <2>3
<1>2. p \in S
  BY <1>0, <1>1 DEF Spreads
<1>3. ASSUME NEW n \in S, NEW q \in peers[n] PROVE q \in S
  <2>1. PICK i \in 1..Len(shown[n]) : shown[n][i] = k
    BY DEF Range, TypeOK, QueueTypeOK
  <2>2. i \in 1..sent[n] /\ q \in Node
    BY DEF Idle, TypeOK, PlayTypeOK
  <2>3. CASE q # p
    BY <1>1, <2>1, <2>2, <2>3 DEF Spreads, Comes, Idle
  <2> QED  BY <1>2, <2>3
<1> HIDE DEF p, S
<1>4. Reach(p) \subseteq S
  BY <1>0, <1>2, <1>3, ReachClosed DEF S
<1> QED  BY <1>4 DEF S, p

(* What a player issues is new, and it queues it after what waits *)
LEMMA PlayerQueues ==
    ASSUME TypeOK, NEW n \in Node, Player(n)
    PROVE  /\ UNCHANGED <<clockVars, net, lost, taking, history, historyMap,
                          records, shown, painted, players, sent, expired>>
           /\ \A m \in Node : peers'[m] \subseteq peers[m]
           /\ \A m \in Node \ {n} : recordUpdates'[m] = recordUpdates[m]
           /\ \A k \in Nonce : k \in Range(recordUpdates[n])
                                => k \in Range(recordUpdates'[n])
           /\ \A k \in Nonce' \ Nonce :
                /\ k \in Range(recordUpdates'[n])
                /\ n \in Replicas!Sources(issued'[k])
<1>1. PICK new \in Seq(Update) :
        /\ issued' = issued \o new
        /\ recordUpdates' = [recordUpdates EXCEPT
             ![n] = @ \o [i \in 1..Len(new) |-> Len(issued) + i]]
        /\ \A i \in 1..Len(new) : n \in Replicas!Sources(new[i])
  BY IssuesOwn
<1>2. UNCHANGED <<clockVars, net, lost, taking, history, historyMap,
                  records, shown, painted, players, sent, expired>>
  BY DEF Player, Frame, BotFrame, Hit, RemovePeer, Issue, recordVars, paintVars
<1>3. \A m \in Node : peers'[m] \subseteq peers[m]
  <2>1. peers \in [Node -> SUBSET Node]
    BY DEF TypeOK, PlayTypeOK
  <2>2. CASE UNCHANGED peers
    BY <2>2
  <2>3. ASSUME NEW p \in Node, RemovePeer(n, p)
        PROVE  \A m \in Node : peers'[m] \subseteq peers[m]
    BY <2>1, <2>3 DEF RemovePeer
  <2> QED  BY <2>2, <2>3 DEF Player, Frame, BotFrame, Hit, Issue
<1>4. /\ recordUpdates \in [Node -> Seq(Nonce)] /\ issued \in Seq(Update)
  BY DEF TypeOK, QueueTypeOK, PlayTypeOK
<1>5. recordUpdates[n] \in Seq(Nat)
  BY <1>4, SeqGrows DEF Nonce
<1> DEFINE t == [i \in 1..Len(new) |-> Len(issued) + i]
           q == recordUpdates[n]
<1>6. t \in Seq(Nat) /\ Len(t) = Len(new)
  BY <1>4
<1>7. /\ recordUpdates'[n] = q \o t
      /\ \A m \in Node \ {n} : recordUpdates'[m] = recordUpdates[m]
  BY <1>1, <1>4
<1> HIDE DEF t
<1>8. /\ Len(q \o t) = Len(q) + Len(t) /\ DOMAIN (q \o t) = 1..(Len(q) + Len(t))
      /\ DOMAIN q = 1..Len(q)
      /\ \A i \in 1..(Len(q) + Len(t)) :
           (q \o t)[i] = IF i <= Len(q) THEN q[i] ELSE t[i - Len(q)]
      /\ Len(q) \in Nat /\ Len(t) \in Nat
  <2>1. /\ q \o t \in Seq(Nat) /\ Len(q \o t) = Len(q) + Len(t)
        /\ \A i \in 1..(Len(q) + Len(t)) :
             (q \o t)[i] = IF i <= Len(q) THEN q[i] ELSE t[i - Len(q)]
    BY <1>5, <1>6, ConcatProperties
  <2> HIDE DEF q
  <2>2. DOMAIN (q \o t) = 1..Len(q \o t)
    BY <2>1
  <2>3. q \in Seq(Nat)
    BY <1>5 DEF q
  <2> QED  BY <1>6, <2>1, <2>2, <2>3
<1>9. ASSUME NEW k \in Range(q) PROVE k \in Range(q \o t)
  BY <1>8 DEF Range
<1>10. ASSUME NEW k \in Nonce' \ Nonce
       PROVE  k \in Range(q \o t) /\ n \in Replicas!Sources(issued'[k])
  <2>1. /\ Len(issued') = Len(issued) + Len(new)
        /\ \A i \in 1..(Len(issued) + Len(new)) :
             issued'[i] = IF i <= Len(issued) THEN issued[i]
                                              ELSE new[i - Len(issued)]
    BY <1>1, <1>4, ConcatProperties
  <2>2. Nonce' = 1..(Len(issued) + Len(new)) /\ Nonce = 1..Len(issued)
    <3>1. issued' \in Seq(Update)
      BY <1>1, <1>4, ConcatProperties
    <3> QED  BY <1>4, <2>1, <3>1 DEF Nonce
  <2>3. k - Len(issued) \in 1..Len(new) /\ ~(k <= Len(issued))
        /\ k \in 1..(Len(issued) + Len(new))
    BY <1>4, <2>2
  <2>4. issued'[k] = new[k - Len(issued)]
    BY <2>1, <2>3
  <2>5. t[k - Len(issued)] = k
    BY <1>4, <2>3 DEF t
  <2> DEFINE j == Len(q) + (k - Len(issued))
  <2>6. j \in 1..(Len(q) + Len(t)) /\ ~(j <= Len(q)) /\ j - Len(q) = k - Len(issued)
    BY <1>4, <1>6, <1>8, <2>3
  <2>7. (q \o t)[j] = k
    <3> HIDE DEF j
    <3> QED  BY <1>8, <2>5, <2>6
  <2>8. k \in Range(q \o t)
    <3> HIDE DEF j
    <3> QED  BY <1>8, <2>6, <2>7 DEF Range
  <2> QED  BY <1>1, <2>3, <2>4, <2>8
<1> QED  BY <1>2, <1>3, <1>7, <1>9, <1>10

(* What happens to an update that is believed when RecordWorker looks at it *)
LEMMA BelievedPassesOn ==
    ASSUME TypeOK, NEW n \in Node, RecordUpdate(n), Believed(taking[n])
    PROVE  \/ taking[n] \in historyMap[n]
           \/ taking[n] \in Range(shown'[n])
<1>1. /\ taking[n] \in Nonce /\ shown \in [Node -> Seq(Nonce)]
  BY RecordUpdatePasses DEF TypeOK, QueueTypeOK
<1>2. ~MayRefuse(n, issued[taking[n]])
  BY DEF Believed, MayRefuse
<1>3. CASE shown' = [shown EXCEPT ![n] = Append(@, taking[n])]
  <2>1. shown'[n] = Append(shown[n], taking[n]) /\ shown[n] \in Seq(Nonce)
    BY <1>1, <1>3
  <2>2. /\ Len(shown[n]) + 1 \in DOMAIN shown'[n]
        /\ shown'[n][Len(shown[n]) + 1] = taking[n]
    BY <1>1, <2>1
  <2> QED  BY <2>2 DEF Range
<1>4. CASE \E cut \in 0..Len(history[n]) : taking[n] \in KeptMap(n, cut)
  BY <1>4 DEF KeptMap
<1> QED  BY <1>2, <1>3, <1>4 DEF RecordUpdate

(* An update that is believed stays where it is until it is passed on *)
LEMMA AtStays ==
    ASSUME TypeOK, [Next]_vars, ~expired', NEW k \in Nonce, Believed(k),
           NEW n \in Node, At(n, k), k \in historyMap[n] => k \in Range(shown[n])
    PROVE  At(n, k)'
<1>0. /\ recordUpdates \in [Node -> Seq(Nonce)] /\ shown \in [Node -> Seq(Nonce)]
      /\ taking \in [Node -> Nonce \cup {0}] /\ k # 0
  BY NoncesPositive DEF TypeOK, QueueTypeOK
<1>1. Range(shown[n]) \subseteq Range(shown'[n])
  BY ShownGrows
<1>2. ASSUME NEW m \in Node, Player(m) PROVE At(n, k)'
  BY <1>1, <1>2, PlayerQueues DEF At
<1>3. ASSUME NEW m \in Node, TakeUpdate(m) PROVE At(n, k)'
  <2>1. CASE m # n
    BY <1>0, <1>1, <1>3, <2>1 DEF TakeUpdate, At
  <2>2. CASE m = n /\ k \in Range(recordUpdates[n])
    <3>1. /\ recordUpdates[n] # <<>> /\ recordUpdates[n] \in Seq(Nonce)
          /\ recordUpdates'[n] = Tail(recordUpdates[n])
          /\ taking'[n] = IF Fresh(n, Head(recordUpdates[n]))
                          THEN Head(recordUpdates[n]) ELSE 0
          /\ Fresh(n, Head(recordUpdates[n]))
      BY <1>0, <1>3, <2>2 DEF TakeUpdate
    <3>2. PICK i \in 1..Len(recordUpdates[n]) : recordUpdates[n][i] = k
      BY <2>2, <3>1 DEF Range
    <3>3. CASE i = 1
      BY <3>1, <3>2, <3>3 DEF At
    <3>4. CASE i # 1
      <4>1. /\ i - 1 \in DOMAIN recordUpdates'[n]
            /\ recordUpdates'[n][i - 1] = k
        BY <3>1, <3>2, <3>4
      <4> QED  BY <4>1 DEF At, Range
    <3> QED  BY <3>3, <3>4
  <2> QED  BY <1>0, <1>1, <1>3, <2>1, <2>2 DEF TakeUpdate, At
<1>4. ASSUME NEW m \in Node, RecordUpdate(m) PROVE At(n, k)'
  <2>1. UNCHANGED recordUpdates /\ taking' = [taking EXCEPT ![m] = 0]
    BY <1>4 DEF RecordUpdate
  <2>2. CASE m = n /\ taking[n] = k
    BY <1>1, <1>4, <2>2, BelievedPassesOn DEF At
  <2> QED  BY <1>0, <1>1, <2>1, <2>2 DEF At
<1>5. ASSUME NEW m \in Node, Listen(m) PROVE At(n, k)'
  <2>1. PICK x \in net :
          recordUpdates' = [recordUpdates EXCEPT ![m] = Append(@, x.nonce)]
    BY <1>5 DEF Listen
  <2>2. x.nonce \in Nonce /\ UNCHANGED taking
    BY <1>5 DEF Listen, TypeOK, QueueTypeOK
  <2>3. CASE m = n /\ k \in Range(recordUpdates[n])
    <3>1. /\ recordUpdates'[n] = Append(recordUpdates[n], x.nonce)
          /\ recordUpdates[n] \in Seq(Nonce)
      BY <1>0, <2>1, <2>3
    <3>2. \A i \in DOMAIN recordUpdates[n] :
            i \in DOMAIN recordUpdates'[n]
            /\ recordUpdates'[n][i] = recordUpdates[n][i]
      BY <2>2, <3>1
    <3> QED  BY <2>3, <3>2 DEF At, Range
  <2> QED  BY <1>0, <1>1, <2>1, <2>2, <2>3 DEF At
<1>6. CASE UNCHANGED <<recordUpdates, taking>>
  BY <1>1, <1>6 DEF At
<1>7. ASSUME NEW m \in Node, AcceptUpdate(m) \/ SendUpdate(m)
      PROVE  UNCHANGED <<recordUpdates, taking>>
  BY <1>7 DEF AcceptUpdate, SendUpdate
<1>8. CASE \/ \E m \in Node, o \in Offsets : SetOffset(m, o)
           \/ Lose \/ Tick \/ UNCHANGED vars
  BY <1>6, <1>8 DEF SetOffset, Lose, Tick, vars
<1> QED
  BY <1>2, <1>3, <1>4, <1>5, <1>6, <1>7, <1>8, Steps DEF Worker

(* A packet that is not lost arrives *)
LEMMA ComesStays ==
    ASSUME TypeOK, TypeOK', [Next]_vars, ~expired', lost = 0, lost' = 0,
           NEW k \in Nonce, Believed(k), NEW n \in Node, NEW q \in Node,
           Comes(n, q, k), k \in historyMap[q] => k \in Range(shown[q])
    PROVE  Comes(n, q, k)'
<1> DEFINE x == [from |-> n, to |-> q, nonce |-> k]
<1>1. CASE At(q, k)
  BY <1>1, AtStays DEF Comes
<1>2. CASE x \in net'
  BY <1>2 DEF Comes
<1>3. CASE x \in net /\ x \notin net'
  <2>1. ASSUME NEW m \in Node, Listen(m) PROVE At(q, k)'
    <3>1. PICK y \in net :
            /\ y.to = m /\ net' = net \ {y}
            /\ recordUpdates' = [recordUpdates EXCEPT ![m] = Append(@, y.nonce)]
      BY <2>1 DEF Listen
    <3>2. y = x /\ m = q
      BY <1>3, <3>1
    <3>3. /\ recordUpdates[q] \in Seq(Nonce)
          /\ recordUpdates'[q] = Append(recordUpdates[q], k)
      BY <3>1, <3>2 DEF TypeOK, QueueTypeOK
    <3>4. /\ Len(recordUpdates[q]) + 1 \in DOMAIN recordUpdates'[q]
          /\ recordUpdates'[q][Len(recordUpdates[q]) + 1] = k
      BY <3>3
    <3> QED  BY <3>4 DEF At, Range
  <2>2. ASSUME NEW m \in Node, Player(m) PROVE FALSE
    BY <1>3, <2>2, PlayerQueues
  <2>3. ASSUME NEW m \in Node, SendUpdate(m) PROVE FALSE
    <3>1. net \subseteq net'
      BY <2>3 DEF SendUpdate
    <3> QED  BY <1>3, <3>1
  <2>4. ASSUME NEW m \in Node, TakeUpdate(m) \/ RecordUpdate(m) \/ AcceptUpdate(m)
        PROVE  FALSE
    BY <1>3, <2>4 DEF TakeUpdate, RecordUpdate, AcceptUpdate
  <2>5. ~Lose
    BY DEF Lose
  <2>6. ASSUME \/ \E m \in Node, o \in Offsets : SetOffset(m, o)
               \/ Tick \/ UNCHANGED vars
        PROVE  FALSE
    BY <1>3, <2>6 DEF SetOffset, Tick, vars
  <2>7. CASE \/ \E m \in Node, o \in Offsets : SetOffset(m, o)
             \/ Lose \/ Tick \/ UNCHANGED vars
    BY <2>5, <2>6, <2>7
  <2>8. ASSUME NEW m \in Node, Worker(m) \/ Player(m) PROVE Comes(n, q, k)'
    BY <2>1, <2>2, <2>3, <2>4, <2>8 DEF Worker, Comes
  <2> QED  BY <2>7, <2>8, Steps
<1> QED  BY <1>1, <1>2, <1>3 DEF Comes

(* What OutgoingWorker has taken it has sent, to the peers it had then *)
LEMMA SentWas ==
    ASSUME TypeOK, [Next]_vars, NEW n \in Node, NEW i \in 1..sent'[n]
    PROVE  /\ peers'[n] \subseteq peers[n]
           /\ \/ i \in 1..sent[n] /\ shown'[n][i] = shown[n][i]
              \/ /\ SendUpdate(n) /\ i \in 1..Len(shown[n])
                 /\ shown'[n] = shown[n] /\ i = sent[n] + 1
<1>0. /\ shown \in [Node -> Seq(Nonce)] /\ sent \in [Node -> Nat]
      /\ sent[n] <= Len(shown[n])
  BY DEF TypeOK, QueueTypeOK, ReaderTypeOK
<1>1. ASSUME NEW m \in Node, SendUpdate(m)
      PROVE  \/ UNCHANGED <<shown, peers>> /\ sent'[n] = sent[n]
             \/ /\ SendUpdate(n) /\ UNCHANGED <<shown, peers>>
                /\ sent'[n] = sent[n] + 1 /\ sent[n] < Len(shown[n])
  BY <1>0, <1>1 DEF SendUpdate, recordVars
<1>2. ASSUME NEW m \in Node, RecordUpdate(m)
      PROVE  /\ UNCHANGED <<peers, sent>>
             /\ \A j \in 1..sent[n] : shown'[n][j] = shown[n][j]
  <2>1. \/ shown' = shown
        \/ shown' = [shown EXCEPT ![m] = Append(@, taking[m])]
    BY <1>2 DEF RecordUpdate
  <2>2. taking[m] \in Nonce
    BY <1>2, RecordUpdatePasses
  <2>3. CASE m = n /\ shown'[n] = Append(shown[n], taking[n])
    BY <1>0, <2>2, <2>3, <1>2 DEF RecordUpdate
  <2> QED  BY <1>0, <1>2, <2>1, <2>3 DEF RecordUpdate
<1>3. ASSUME NEW m \in Node, Player(m)
      PROVE  UNCHANGED <<shown, sent>> /\ peers'[n] \subseteq peers[n]
  BY <1>3, PlayerQueues
<1>4. ASSUME NEW m \in Node, TakeUpdate(m) \/ AcceptUpdate(m) \/ Listen(m)
      PROVE  UNCHANGED <<shown, sent, peers>>
  BY <1>4 DEF TakeUpdate, AcceptUpdate, Listen, recordVars
<1>5. CASE \/ \E m \in Node, o \in Offsets : SetOffset(m, o)
           \/ Lose \/ Tick \/ UNCHANGED vars
  BY <1>5 DEF SetOffset, Lose, Tick, vars, recordVars
<1> QED  BY <1>0, <1>1, <1>2, <1>3, <1>4, <1>5, Steps DEF Worker

(* The invariant of a flood is one as long as everybody believes its update *)
LEMMA SpreadsStay ==
    ASSUME TypeOK, TypeOK', [Next]_vars, ~expired', lost = 0, lost' = 0,
           NEW k \in Nonce, Believed(k), Spreads(k)
    PROVE  Spreads(k)'
<1> DEFINE p == issued[k].player
<1>0. p \in Node /\ issued'[k] = issued[k]
  <2>1. issued[k] \in Update
    BY DEF TypeOK, PlayTypeOK, Nonce
  <2> QED  BY <2>1, IssuedStays DEF Update
<1>1. At(p, k)'
  BY <1>0, AtStays DEF Spreads
<1>2. ASSUME NEW n \in Node, NEW i \in 1..sent'[n], shown'[n][i] = k,
             NEW q \in peers'[n] \ {p}
      PROVE  Comes(n, q, k)'
  <2>1. /\ q \in peers[n] /\ q \in Node
        /\ \/ i \in 1..sent[n] /\ shown[n][i] = k
           \/ /\ SendUpdate(n) /\ i \in 1..Len(shown[n])
              /\ shown[n][i] = k /\ i = sent[n] + 1
    BY <1>2, SentWas DEF TypeOK, PlayTypeOK
  <2>2. CASE i \in 1..sent[n] /\ shown[n][i] = k
    <3>1. Comes(n, q, k)
      BY <1>2, <2>1, <2>2 DEF Spreads
    <3> QED  BY <2>1, <3>1, ComesStays DEF Spreads
  <2>3. CASE SendUpdate(n) /\ shown[n][i] = k /\ i = sent[n] + 1
    <3>1. [from |-> n, to |-> q, nonce |-> k] \in net'
      BY <1>2, <2>1, <2>3 DEF SendUpdate
    <3> QED  BY <3>1 DEF Comes
  <2> QED  BY <2>1, <2>2, <2>3
<1>3. ASSUME NEW n \in Node, k \in historyMap'[n] PROVE k \in Range(shown'[n])
  <2>1. CASE k \in historyMap[n]
    BY <2>1, ShownGrows DEF Spreads
  <2>2. CASE k \notin historyMap[n]
    <3>1. PICK m \in Node : RecordUpdate(m)
      BY <1>3, <2>2, OthersKeepHistory DEF recordVars
    <3>2. m = n /\ taking[n] = k
      BY <1>3, <2>2, <3>1, RecordUpdateShows
    <3> QED  BY <2>2, <3>1, <3>2, BelievedPassesOn
  <2> QED  BY <2>1, <2>2
<1> QED  BY <1>0, <1>1, <1>2, <1>3 DEF Spreads

(* A new update of a player's own has gone nowhere yet *)
LEMMA SpreadsAtFirst ==
    ASSUME TypeOK, NEW n \in Node, Player(n), NEW k \in Nonce' \ Nonce,
           issued'[k].player = n
    PROVE  Spreads(k)'
<1>1. UNCHANGED <<shown, sent, historyMap>> /\ k \in Range(recordUpdates'[n])
  BY PlayerQueues
<1>2. \A m \in Node : k \notin historyMap[m] /\ k \notin Range(shown[m])
  BY DEF TypeOK, QueueTypeOK, Range
<1>3. \A m \in Node : \A i \in 1..sent[m] : shown[m][i] # k
  BY <1>2 DEF Range, TypeOK, QueueTypeOK, ReaderTypeOK
<1> QED  BY <1>1, <1>2, <1>3 DEF Spreads, At

(* An update that is new is one of a player *)
LEMMA NewIsPlayers ==
    ASSUME TypeOK, [Next]_vars, NEW k \in Nonce' \ Nonce
    PROVE  \E n \in Node : Player(n)
<1> USE DEF clockVars
<1>1. CASE UNCHANGED issued
  BY <1>1 DEF Nonce
<1>2. CASE \E n \in Node : Worker(n)
  BY <1>1, <1>2
  DEF Worker, TakeUpdate, RecordUpdate, AcceptUpdate, SendUpdate, Listen
<1>3. CASE \/ \E n \in Node, o \in Offsets : SetOffset(n, o)
           \/ Lose \/ Tick \/ UNCHANGED vars
  BY <1>1, <1>3 DEF SetOffset, Lose, Tick, vars
<1> QED  BY <1>2, <1>3, Steps

(* What has been disturbed stays so *)
LEMMA DisturbedStays ==
    ASSUME TypeOK, [Next]_vars, Undisturbed'
    PROVE  Undisturbed
<1>1. ASSUME NEW n \in Node, Player(n) PROVE Undisturbed
  BY <1>1, PlayerQueues DEF Undisturbed, clockVars
<1>2. ASSUME NEW n \in Node, Worker(n) PROVE Undisturbed
  <2>1. CASE TakeUpdate(n)
    BY <2>1 DEF TakeUpdate, Undisturbed, clockVars, TypeOK, PlayTypeOK
  <2>2. CASE RecordUpdate(n) \/ AcceptUpdate(n) \/ SendUpdate(n) \/ Listen(n)
    <3>1. UNCHANGED <<lost, expired, syncs>>
      BY <2>2 DEF RecordUpdate, AcceptUpdate, SendUpdate, Listen, clockVars
    <3> QED  BY <3>1 DEF Undisturbed
  <2> QED  BY <1>2, <2>1, <2>2 DEF Worker
<1>3. CASE \E n \in Node, o \in Offsets : SetOffset(n, o)
  BY <1>3 DEF SetOffset, Undisturbed, TypeOK, PlayTypeOK
<1>4. CASE Lose
  BY <1>4 DEF Lose, Undisturbed, TypeOK, PlayTypeOK
<1>5. CASE Tick \/ UNCHANGED vars
  BY <1>5 DEF Tick, vars, Undisturbed, clockVars
<1> QED  BY <1>1, <1>2, <1>3, <1>4, <1>5, Steps

-----------------------------------------------------------------------------
(* Deaths                                                                     *)

(* k is the death of a player by a shot *)
ShotDown(k) == issued[k].kind = "DEAD" /\ issued[k].other # NoNode

(* The invariant: in an undisturbed network every such death spreads *)
DeathsSpread == Undisturbed => \A k \in Nonce : ShotDown(k) => Spreads(k)

LEMMA InitDeathsSpread == Init => DeathsSpread
BY DEF Init, DeathsSpread, Nonce

LEMMA NextDeathsSpread ==
    TypeOK /\ TypeOK' /\ DeathsSpread /\ [Next]_vars => DeathsSpread'
<1> SUFFICES ASSUME TypeOK, TypeOK', DeathsSpread, [Next]_vars, Undisturbed',
                    NEW k \in Nonce', ShotDown(k)'
             PROVE  Spreads(k)'
  BY DEF DeathsSpread
<1>1. Undisturbed
  BY DisturbedStays
<1>2. CASE k \in Nonce
  <2>1. ShotDown(k)
    BY <1>2, IssuedStays DEF ShotDown
  <2>2. Believed(k)
    BY <2>1 DEF Believed, Plausible, ShotDown
  <2>3. lost = 0 /\ lost' = 0 /\ ~expired'
    BY <1>1 DEF Undisturbed
  <2> QED  BY <1>1, <1>2, <2>1, <2>2, <2>3, SpreadsStay DEF DeathsSpread
<1>3. CASE k \notin Nonce
  <2>1. PICK n \in Node : Player(n)
    BY <1>3, NewIsPlayers
  <2>2. n \in Replicas!Sources(issued'[k])
    BY <1>3, <2>1, PlayerQueues
  <2>3. issued'[k].player = n
    BY <2>2 DEF Replicas!Sources, ShotDown
  <2> QED  BY <1>3, <2>1, <2>3, SpreadsAtFirst
<1> QED  BY <1>2, <1>3

(* In an undisturbed network that has come to rest, a death by a shot has come*)
(* to everybody its victim reaches, whatever the overlay and the paths.       *)
THEOREM DeathsArrive == Spec => []DeathsReachAll
<1>1. TypeOK /\ DeathsSpread => DeathsReachAll
  BY QuietEverywhere DEF DeathsSpread, ShotDown, DeathsReachAll
<1> QED
  BY <1>1, InitTypeOK, NextTypeOK, InitDeathsSpread, NextDeathsSpread, PTL
  DEF Spec

-----------------------------------------------------------------------------
(* Moves                                                                      *)

MovesOf(p) == {k \in Nonce : issued[k].kind = "POSITION" /\ issued[k].player = p}

(* k is the last move of p so far *)
LastMove(p, k) == k \in MovesOf(p) /\ \A j \in MovesOf(p) : j <= k

LastExists == \A p \in Node : MovesOf(p) # {} => \E k \in Nonce : LastMove(p, k)

(* While no clock was set, the clocks are apart by what they were at first *)
ClocksUnset == syncs = 0 => \A n \in Node : offset[n] = 0

(* A player has come no farther than its speed allows since each of its moves,*)
(* and its last one tells where it is and since when                          *)
SpeedKept ==
    ~Teleport /\ syncs = 0 =>
      \A p \in Node :
        /\ lastFrame[p] <= now
        /\ \A j \in MovesOf(p) :
             /\ issued[j].pos \in Place
             /\ issued[j].time <= lastFrame[p] + Skew[p]
             /\ Dist(issued[j].pos, pos[p])
                  <= Speed * (lastFrame[p] + Skew[p] - issued[j].time)
        /\ \A k \in Nonce : LastMove(p, k) =>
             issued[k].pos = pos[p] /\ issued[k].time = lastFrame[p] + Skew[p]

(* A record tells of a move of its player *)
RecordsTold ==
    \A n \in Node : \A p \in DOMAIN records[n] : \E j \in MovesOf(p) :
      records[n][p] = [time |-> issued[j].time, pos |-> issued[j].pos]

(* Where its player itself has it, no other move comes after the last one, and*)
(* none comes back from the peers                                             *)
LastInLine ==
    /\ \A x \in net : issued[x.nonce].player # x.to
    /\ \A p \in Node, k \in Nonce : LastMove(p, k) =>
         /\ \A i, j \in DOMAIN recordUpdates[p] :
              recordUpdates[p][i] = k /\ i < j => recordUpdates[p][j] \notin MovesOf(p)
         /\ taking[p] = k \/ k \in Range(shown[p]) =>
              \A j \in DOMAIN recordUpdates[p] : recordUpdates[p][j] \notin MovesOf(p)
         /\ k \in Range(shown[p]) => taking[p] \notin MovesOf(p)

(* Whoever has passed on the last move of a living player has it on record *)
LastOnRecord ==
    Undisturbed /\ ~Teleport =>
      \A p \in Node, k \in Nonce : ~Died(p) /\ LastMove(p, k) =>
        \A n \in Node : k \in Range(shown[n]) =>
          /\ p \in DOMAIN records[n]
          /\ records[n][p] = [time |-> issued[k].time, pos |-> issued[k].pos]

(* In an undisturbed network, the last move of a living player spreads *)
MovesSpread ==
    Undisturbed /\ ~Teleport =>
      \A p \in Node, k \in Nonce : ~Died(p) /\ LastMove(p, k) => Spreads(k)

(* A player's step issues one move, by the way it has come, or none *)
LEMMA MoveIssued ==
    ASSUME TypeOK, NEW n \in Node, Player(n)
    PROVE  \/ /\ UNCHANGED <<pos, lastFrame>>
              /\ \A k \in Nonce' \ Nonce : issued'[k].kind # "POSITION"
           \/ \E p \in Place, k \in Nonce' \ Nonce :
                /\ pos' = [pos EXCEPT ![n] = p]
                /\ lastFrame' = [lastFrame EXCEPT
                     ![n] = IF n \in Bots THEN now + offset[n] ELSE now]
                /\ issued'[k] = Position(n, p)
                /\ \A j \in Nonce' \ Nonce : issued'[j].kind = "POSITION" => j = k
                /\ \/ n \notin Bots /\ Teleport
                   \/ Dist(p, pos[n]) <= Speed * (now - lastFrame[n])
                   \/ Dist(p, pos[n]) <= Speed * Abs(now - lastFrame[n])
<1>0. issued \in Seq(Update)
  BY DEF TypeOK, PlayTypeOK
<1>1. ASSUME NEW u, u \in Update, issued' = issued \o <<u>>
      PROVE  /\ Nonce' \ Nonce = {Len(issued) + 1}
             /\ issued'[Len(issued) + 1] = u
  BY <1>0, <1>1 DEF Nonce
<1>2. ASSUME NEW u, u \in Update, NEW w, w \in Update, issued' = issued \o <<u, w>>
      PROVE  /\ Nonce' \ Nonce = {Len(issued) + 1, Len(issued) + 2}
             /\ issued'[Len(issued) + 1] = u
             /\ issued'[Len(issued) + 2] = w
  BY <1>0, <1>2 DEF Nonce
<1>3. ASSUME NEW p \in Place, Frame(n, p) \/ BotFrame(n, p)
      PROVE  \E k \in Nonce' \ Nonce :
               /\ issued'[k] = Position(n, p)
               /\ \A j \in Nonce' \ Nonce : issued'[j].kind = "POSITION" => j = k
  <2>1. p \in Int /\ Position(n, p) \in Update
    BY PlaceAssumption, UpdateTypes
  <2>2. CASE Issue(n, <<Position(n, p)>>)
    <3>1. issued' = issued \o <<Position(n, p)>>
      BY <2>2 DEF Issue
    <3> QED  BY <1>1, <2>1, <3>1
  <2>3. ASSUME NEW q \in {p - Muzzle, p + Muzzle},
               Issue(n, <<Shot(n, q), Position(n, p)>>)
                 \/ Issue(n, <<Position(n, p), Shot(n, q)>>)
        PROVE  \E k \in Nonce' \ Nonce :
                 /\ issued'[k] = Position(n, p)
                 /\ \A j \in Nonce' \ Nonce : issued'[j].kind = "POSITION" => j = k
    <3>1. Shot(n, q) \in Update /\ Shot(n, q).kind = "FIRE"
      BY <2>1, PlaceAssumption, UpdateTypes DEF Shot
    <3>2. \/ issued' = issued \o <<Shot(n, q), Position(n, p)>>
          \/ issued' = issued \o <<Position(n, p), Shot(n, q)>>
      BY <2>3 DEF Issue
    <3>3. CASE issued' = issued \o <<Shot(n, q), Position(n, p)>>
      <4>1. /\ Nonce' \ Nonce = {Len(issued) + 1, Len(issued) + 2}
            /\ issued'[Len(issued) + 1] = Shot(n, q)
            /\ issued'[Len(issued) + 2] = Position(n, p)
        BY <1>2, <2>1, <3>1, <3>3
      <4> QED  BY <3>1, <4>1
    <3>4. CASE issued' = issued \o <<Position(n, p), Shot(n, q)>>
      <4>1. /\ Nonce' \ Nonce = {Len(issued) + 1, Len(issued) + 2}
            /\ issued'[Len(issued) + 1] = Position(n, p)
            /\ issued'[Len(issued) + 2] = Shot(n, q)
        BY <1>2, <2>1, <3>1, <3>4
      <4> QED  BY <3>1, <4>1
    <3> QED  BY <3>2, <3>3, <3>4
  <2> QED  BY <1>3, <2>2, <2>3 DEF Frame, BotFrame
<1>4. ASSUME NEW p \in Place, Frame(n, p) \/ BotFrame(n, p)
      PROVE  /\ pos' = [pos EXCEPT ![n] = p]
             /\ lastFrame' = [lastFrame EXCEPT
                  ![n] = IF n \in Bots THEN now + offset[n] ELSE now]
             /\ \/ n \notin Bots /\ Teleport
                \/ Dist(p, pos[n]) <= Speed * (now - lastFrame[n])
                \/ Dist(p, pos[n]) <= Speed * Abs(now - lastFrame[n])
  BY <1>4 DEF Frame, BotFrame, MovesTo
<1>5. ASSUME Hit(n)
      PROVE  /\ UNCHANGED <<pos, lastFrame>>
             /\ \A k \in Nonce' \ Nonce : issued'[k].kind # "POSITION"
  <2>1. PICK k \in BulletsOf(n) : Issue(n, <<Death(n, n, issued[k].player)>>)
    BY <1>5 DEF Hit
  <2>2. issued[k].player \in Node
    <3>1. k \in Nonce
      BY DEF BulletsOf
    <3>2. issued[k] \in Update
      BY <1>0, <3>1 DEF Nonce
    <3> QED  BY <3>2 DEF Update
  <2>3. /\ Death(n, n, issued[k].player) \in Update
        /\ Death(n, n, issued[k].player).kind = "DEAD"
    BY <2>2, UpdateTypes DEF Death
  <2>4. issued' = issued \o <<Death(n, n, issued[k].player)>>
    BY <2>1 DEF Issue
  <2> QED  BY <1>1, <1>5, <2>3, <2>4 DEF Hit
<1>6. ASSUME NEW p \in Node, RemovePeer(n, p)
      PROVE  /\ UNCHANGED <<pos, lastFrame>>
             /\ \A k \in Nonce' \ Nonce : issued'[k].kind # "POSITION"
  <2>1. /\ Death(n, p, NoNode) \in Update /\ Death(n, p, NoNode).kind = "DEAD"
    BY UpdateTypes DEF Death
  <2>2. issued' = issued \o <<Death(n, p, NoNode)>>
    BY <1>6, RemovePeerIssues
  <2> QED  BY <1>1, <1>6, <2>1, <2>2 DEF RemovePeer, playerVars
<1>7. CASE \E p \in Place : Frame(n, p) \/ BotFrame(n, p)
  BY <1>3, <1>4, <1>7
<1> QED  BY <1>5, <1>6, <1>7 DEF Player

(* Nonces are given in order *)
LEMMA NewAfterOld ==
    ASSUME TypeOK, TypeOK', [Next]_vars, NEW k \in Nonce' \ Nonce, NEW j \in Nonce
    PROVE  j \in Nat /\ k \in Nat /\ j < k /\ j \in Nonce'
<1>1. /\ Nonce = 1..Len(issued) /\ Nonce' = 1..Len(issued')
      /\ Len(issued) \in Nat /\ Len(issued') \in Nat
  BY DEF TypeOK, PlayTypeOK, Nonce
<1> QED  BY <1>1

(* Nonces stay, and so do the moves among them *)
LEMMA MovesStay ==
    ASSUME TypeOK, [Next]_vars, NEW p
    PROVE  /\ Nonce \subseteq Nonce'
           /\ \A k \in Nonce : k \in MovesOf(p)' <=> k \in MovesOf(p)
           /\ \A k \in Nonce : LastMove(p, k)' => LastMove(p, k)
           /\ ~Died(p)' => ~Died(p)
<1>1. Nonce \subseteq Nonce'
  BY IssuedExtends, IssuedGrows DEF Nonce, TypeOK, PlayTypeOK
<1>2. \A k \in Nonce : issued'[k] = issued[k]
  BY IssuedStays
<1>3. \A k \in Nonce : k \in MovesOf(p)' <=> k \in MovesOf(p)
  BY <1>1, <1>2 DEF MovesOf
<1>4. MovesOf(p) \subseteq Nonce
  BY DEF MovesOf
<1>5. \A k \in Nonce : LastMove(p, k)' => LastMove(p, k)
  BY <1>3, <1>4 DEF LastMove
<1> QED  BY <1>1, <1>2, <1>3, <1>5 DEF Died

LEMMA InitMoves ==
    Init => /\ LastExists /\ ClocksUnset /\ SpeedKept /\ RecordsTold
            /\ LastInLine /\ LastOnRecord /\ MovesSpread
<1> SUFFICES ASSUME Init
             PROVE  /\ LastExists /\ ClocksUnset /\ SpeedKept /\ RecordsTold
                    /\ LastInLine /\ LastOnRecord /\ MovesSpread
  OBVIOUS
<1>1. Nonce = {} /\ \A p : MovesOf(p) = {}
  BY DEF Init, Nonce, MovesOf
<1>2. /\ net = {} /\ \A n \in Node : DOMAIN records[n] = {} /\ lastFrame[n] <= now
      /\ \A n \in Node : offset[n] = 0
  BY DEF Init
<1> QED
  BY <1>1, <1>2
  DEF LastExists, ClocksUnset, SpeedKept, RecordsTold, LastInLine, LastOnRecord,
      MovesSpread

(* Only players' steps issue updates *)
LEMMA OthersIssueNone ==
    ASSUME [Next]_vars, \A n \in Node : ~Player(n)
    PROVE  UNCHANGED <<issued, pos, lastFrame>>
<1> USE DEF clockVars, playerVars
<1>1. ASSUME NEW n \in Node, Worker(n) PROVE UNCHANGED <<issued, pos, lastFrame>>
  BY <1>1
  DEF Worker, TakeUpdate, RecordUpdate, AcceptUpdate, SendUpdate, Listen
<1>2. CASE \/ \E n \in Node, o \in Offsets : SetOffset(n, o)
           \/ Lose \/ Tick \/ UNCHANGED vars
  BY <1>2 DEF SetOffset, Lose, Tick, vars
<1> QED  BY <1>1, <1>2, Steps

LEMMA NextLastExists ==
    ASSUME TypeOK, TypeOK', [Next]_vars, LastExists
    PROVE  LastExists'
<1> SUFFICES ASSUME NEW p \in Node, NEW m \in MovesOf(p)'
             PROVE  \E k \in Nonce' : LastMove(p, k)'
  BY DEF LastExists
<1>1. CASE MovesOf(p)' \subseteq Nonce
  <2>1. \A k : k \in MovesOf(p)' <=> k \in MovesOf(p)
    <3>1. MovesOf(p) \subseteq Nonce
      BY DEF MovesOf
    <3> QED  BY <1>1, <3>1, MovesStay
  <2>2. PICK k \in Nonce : LastMove(p, k)
    BY <2>1 DEF LastExists
  <2>3. LastMove(p, k)'
    BY <2>1, <2>2 DEF LastMove
  <2> QED  BY <2>2, <2>3, MovesStay
<1>2. ASSUME NEW k \in MovesOf(p)', k \notin Nonce
      PROVE  \E i \in Nonce' : LastMove(p, i)'
  <2>1. k \in Nonce' \ Nonce /\ issued'[k].kind = "POSITION"
        /\ MovesOf(p)' \subseteq Nonce'
    BY <1>2 DEF MovesOf
  <2>2. PICK n \in Node : Player(n)
    BY <2>1, NewIsPlayers
  <2>3. \A j \in Nonce' \ Nonce : issued'[j].kind = "POSITION" => j = k
    BY <2>1, <2>2, MoveIssued
  <2>4. ASSUME NEW j \in MovesOf(p)' PROVE j <= k
    <3>1. j \in Nonce' /\ issued'[j].kind = "POSITION"
      BY DEF MovesOf
    <3>2. CASE j \in Nonce
      BY <2>1, <3>2, NewAfterOld
    <3>3. CASE j \notin Nonce
      <4>1. j = k
        BY <2>3, <3>1, <3>3
      <4>2. k \in Nat
        <5>1. DOMAIN issued' = 1..Len(issued')
          BY DEF TypeOK, PlayTypeOK
        <5> QED  BY <2>1, <5>1 DEF Nonce
      <4> QED  BY <4>1, <4>2
    <3> QED  BY <3>2, <3>3
  <2> QED  BY <1>2, <2>1, <2>4 DEF LastMove
<1> QED  BY <1>1, <1>2

LEMMA NextClocksUnset ==
    ASSUME TypeOK, [Next]_vars, ClocksUnset
    PROVE  ClocksUnset'
<1> USE DEF clockVars, ClocksUnset
<1>1. ASSUME NEW n \in Node, Player(n) PROVE ClocksUnset'
  BY <1>1, PlayerQueues
<1>2. ASSUME NEW n \in Node, Worker(n) PROVE ClocksUnset'
  BY <1>2
  DEF Worker, TakeUpdate, RecordUpdate, AcceptUpdate, SendUpdate, Listen
<1>3. CASE \E n \in Node, o \in Offsets : SetOffset(n, o)
  BY <1>3 DEF SetOffset, TypeOK, PlayTypeOK
<1>4. CASE Lose \/ Tick \/ UNCHANGED vars
  BY <1>4 DEF Lose, Tick, vars
<1> QED  BY <1>1, <1>2, <1>3, <1>4, Steps

(* Distances at most add up *)
LEMMA DistAdds ==
    ASSUME NEW p \in Int, NEW q \in Int, NEW r \in Int, NEW a \in Int, NEW b \in Int,
           Dist(p, q) <= Speed * a, Dist(r, q) <= Speed * b
    PROVE  Dist(p, r) <= Speed * (a + b)
<1>1. Speed \in Int
  BY PlaceAssumption
<1>2. Speed * (a + b) = Speed * a + Speed * b
  BY <1>1
<1> DEFINE x == Speed * a
           y == Speed * b
<1>3. x \in Int /\ y \in Int /\ Dist(p, q) <= x /\ Dist(r, q) <= y
  BY <1>1
<1> HIDE DEF x, y
<1>4. Dist(p, r) <= x + y
  BY <1>3 DEF Dist, Abs
<1> QED  BY <1>2, <1>4 DEF x, y

(* No distance is covered in no time *)
LEMMA DistNone ==
    ASSUME NEW p \in Int, NEW q \in Int, NEW a, a = 0, Dist(p, q) <= Speed * a
    PROVE  p = q
<1>1. Speed * a = 0
  BY PlaceAssumption
<1> QED  BY <1>1 DEF Dist, Abs

LEMMA PlayerSpeedKept ==
    ASSUME TypeOK, TypeOK', [Next]_vars, ClocksUnset, SpeedKept, ~Teleport,
           syncs' = 0, NEW n \in Node, Player(n), NEW p \in Node
    PROVE  /\ lastFrame'[p] <= now'
           /\ \A j \in MovesOf(p)' :
                /\ issued'[j].pos \in Place
                /\ issued'[j].time <= lastFrame'[p] + Skew[p]
                /\ Dist(issued'[j].pos, pos'[p])
                     <= Speed * (lastFrame'[p] + Skew[p] - issued'[j].time)
           /\ \A k \in Nonce' : LastMove(p, k)' =>
                issued'[k].pos = pos'[p]
                /\ issued'[k].time = lastFrame'[p] + Skew[p]
<1>0. /\ lastFrame \in [Node -> Int] /\ pos \in [Node -> Int] /\ now \in Int
      /\ offset \in [Node -> Int] /\ Skew \in [Node -> Int] /\ Speed \in Nat
      /\ now' = now /\ syncs = 0
  <2>1. UNCHANGED clockVars
    BY PlayerQueues
  <2>2. now' = now /\ syncs = 0
    BY <2>1 DEF clockVars
  <2> QED
    BY <2>2, ClockAssumption, PlaceAssumption DEF TypeOK, PlayTypeOK
<1>1. /\ lastFrame[p] <= now
      /\ \A j \in MovesOf(p) :
           /\ issued[j].pos \in Place
           /\ issued[j].time <= lastFrame[p] + Skew[p]
           /\ Dist(issued[j].pos, pos[p])
                <= Speed * (lastFrame[p] + Skew[p] - issued[j].time)
      /\ \A k \in Nonce : LastMove(p, k) =>
           issued[k].pos = pos[p] /\ issued[k].time = lastFrame[p] + Skew[p]
  BY <1>0 DEF SpeedKept
<1>2. ASSUME pos'[p] = pos[p], lastFrame'[p] = lastFrame[p],
             \A k \in Nonce' \ Nonce : k \notin MovesOf(p)'
      PROVE  /\ lastFrame'[p] <= now'
             /\ \A j \in MovesOf(p)' :
                  /\ issued'[j].pos \in Place
                  /\ issued'[j].time <= lastFrame'[p] + Skew[p]
                  /\ Dist(issued'[j].pos, pos'[p])
                       <= Speed * (lastFrame'[p] + Skew[p] - issued'[j].time)
             /\ \A k \in Nonce' : LastMove(p, k)' =>
                  issued'[k].pos = pos'[p]
                  /\ issued'[k].time = lastFrame'[p] + Skew[p]
  <2>1. \A k \in MovesOf(p)' : k \in MovesOf(p) /\ k \in Nonce
    <3>1. MovesOf(p)' \subseteq Nonce'
      BY DEF MovesOf
    <3> QED  BY <1>2, <3>1, MovesStay
  <2>2. \A k \in Nonce : issued'[k] = issued[k]
    BY IssuedStays
  <2>3. \A k \in Nonce' : LastMove(p, k)' => k \in Nonce /\ LastMove(p, k)
    BY <2>1, MovesStay DEF LastMove
  <2> QED  BY <1>0, <1>1, <1>2, <2>1, <2>2, <2>3
<1>3. CASE /\ UNCHANGED <<pos, lastFrame>>
           /\ \A k \in Nonce' \ Nonce : issued'[k].kind # "POSITION"
  BY <1>2, <1>3 DEF MovesOf
<1>4. ASSUME NEW h \in Place, NEW k \in Nonce' \ Nonce,
             pos' = [pos EXCEPT ![n] = h],
             lastFrame' = [lastFrame EXCEPT
               ![n] = IF n \in Bots THEN now + offset[n] ELSE now],
             issued'[k] = Position(n, h),
             \A j \in Nonce' \ Nonce : issued'[j].kind = "POSITION" => j = k,
             \/ Dist(h, pos[n]) <= Speed * (now - lastFrame[n])
             \/ Dist(h, pos[n]) <= Speed * Abs(now - lastFrame[n])
      PROVE  /\ lastFrame'[p] <= now'
             /\ \A j \in MovesOf(p)' :
                  /\ issued'[j].pos \in Place
                  /\ issued'[j].time <= lastFrame'[p] + Skew[p]
                  /\ Dist(issued'[j].pos, pos'[p])
                       <= Speed * (lastFrame'[p] + Skew[p] - issued'[j].time)
             /\ \A i \in Nonce' : LastMove(p, i)' =>
                  issued'[i].pos = pos'[p]
                  /\ issued'[i].time = lastFrame'[p] + Skew[p]
  <2>1. /\ issued'[k].kind = "POSITION" /\ issued'[k].player = n
        /\ issued'[k].pos = h /\ issued'[k].time = now + Skew[n]
    BY <1>0, <1>4 DEF Position, Clock, ClocksUnset
  <2>2. CASE p # n
    <3>1. pos'[p] = pos[p] /\ lastFrame'[p] = lastFrame[p]
      BY <1>0, <1>4, <2>2
    <3>2. \A j \in Nonce' \ Nonce : j \notin MovesOf(p)'
      BY <1>4, <2>1, <2>2 DEF MovesOf
    <3> QED  BY <1>2, <3>1, <3>2
  <2>3. CASE p = n
    <3>1. pos'[n] = h /\ lastFrame'[n] = now
      BY <1>0, <1>4 DEF ClocksUnset
    <3>2. /\ h \in Int /\ pos[n] \in Int /\ now - lastFrame[n] \in Int
          /\ Dist(h, pos[n]) <= Speed * (now - lastFrame[n])
      <4>1. now - lastFrame[n] >= 0 /\ now - lastFrame[n] \in Int
        BY <1>0, <1>1, <2>3
      <4>2. Abs(now - lastFrame[n]) = now - lastFrame[n]
        BY <4>1 DEF Abs
      <4> QED  BY <1>0, <1>4, <4>1, <4>2, PlaceAssumption
    <3>3. ASSUME NEW j \in MovesOf(n)', j \in Nonce
          PROVE  /\ issued'[j].pos \in Place
                 /\ issued'[j].time <= now + Skew[n]
                 /\ Dist(issued'[j].pos, h) <= Speed * (now + Skew[n] - issued'[j].time)
      <4>1. issued'[j] = issued[j] /\ j \in MovesOf(n)
        BY <3>3, IssuedStays, MovesStay
      <4>2. issued[j].pos \in Int /\ issued[j].time \in Int
        <5>1. issued[j] \in Update
          BY <3>3 DEF TypeOK, PlayTypeOK, Nonce
        <5> QED  BY <5>1 DEF Update
      <4>3. /\ issued[j].pos \in Place
            /\ issued[j].time <= lastFrame[n] + Skew[n]
            /\ Dist(issued[j].pos, pos[n])
                 <= Speed * (lastFrame[n] + Skew[n] - issued[j].time)
        BY <1>1, <2>3, <4>1
      <4> DEFINE a == lastFrame[n] + Skew[n] - issued[j].time
                 b == now - lastFrame[n]
      <4>4. a \in Int /\ b \in Int /\ a + b = now + Skew[n] - issued[j].time
        BY <1>0, <4>2
      <4>5. Dist(issued[j].pos, h) <= Speed * (a + b)
        <5>1. /\ Dist(issued[j].pos, pos[n]) <= Speed * a
              /\ Dist(h, pos[n]) <= Speed * b
          BY <3>2, <4>3
        <5> HIDE DEF a, b
        <5> QED  BY <3>2, <4>2, <4>4, <5>1, DistAdds
      <4>6. issued[j].time <= now + Skew[n]
        BY <1>0, <1>1, <2>3, <4>2, <4>3
      <4> QED  BY <4>1, <4>3, <4>4, <4>5, <4>6
    <3>4. ASSUME NEW j \in MovesOf(n)', j \notin Nonce
          PROVE  /\ issued'[j].pos \in Place
                 /\ issued'[j].time <= now + Skew[n]
                 /\ Dist(issued'[j].pos, h) <= Speed * (now + Skew[n] - issued'[j].time)
      <4>1. j = k
        BY <1>4, <3>4 DEF MovesOf
      <4>2. /\ now + Skew[n] - issued'[j].time = 0 /\ Speed * 0 = 0
            /\ now + Skew[n] \in Int
        BY <1>0, <2>1, <4>1
      <4>3. Dist(h, h) = 0
        BY <3>2 DEF Dist, Abs
      <4> QED  BY <1>4, <2>1, <4>1, <4>2, <4>3
    <3>5. ASSUME NEW i \in Nonce', LastMove(n, i)' PROVE i = k
      <4>1. k \in MovesOf(n)'
        BY <1>4, <2>1 DEF MovesOf
      <4>2. k <= i /\ i \in MovesOf(n)'
        BY <3>5, <4>1 DEF LastMove
      <4>3. i \notin Nonce
        <5> SUFFICES ASSUME i \in Nonce PROVE FALSE
          OBVIOUS
        <5>1. i \in Nat /\ k \in Nat /\ i < k
          BY NewAfterOld
        <5> QED  BY <4>2, <5>1
      <4> QED  BY <1>4, <4>2, <4>3 DEF MovesOf
    <3> QED  BY <1>0, <2>1, <2>3, <3>1, <3>3, <3>4, <3>5
  <2> QED  BY <2>2, <2>3
<1>5. \/ /\ UNCHANGED <<pos, lastFrame>>
         /\ \A k \in Nonce' \ Nonce : issued'[k].kind # "POSITION"
      \/ \E h \in Place, k \in Nonce' \ Nonce :
           /\ pos' = [pos EXCEPT ![n] = h]
           /\ lastFrame' = [lastFrame EXCEPT
                ![n] = IF n \in Bots THEN now + offset[n] ELSE now]
           /\ issued'[k] = Position(n, h)
           /\ \A j \in Nonce' \ Nonce : issued'[j].kind = "POSITION" => j = k
           /\ \/ Dist(h, pos[n]) <= Speed * (now - lastFrame[n])
              \/ Dist(h, pos[n]) <= Speed * Abs(now - lastFrame[n])
  BY MoveIssued
<1> QED  BY <1>3, <1>4, <1>5

LEMMA NextSpeedKept ==
    ASSUME TypeOK, TypeOK', [Next]_vars, ClocksUnset, SpeedKept
    PROVE  SpeedKept'
<1> SUFFICES ASSUME ~Teleport, syncs' = 0 PROVE SpeedKept'
  BY DEF SpeedKept
<1>1. ASSUME NEW n \in Node, Player(n) PROVE SpeedKept'
  BY <1>1, PlayerSpeedKept DEF SpeedKept
<1>2. CASE \A n \in Node : ~Player(n)
  <2>1. UNCHANGED <<issued, pos, lastFrame>>
    BY <1>2, OthersIssueNone
  <2>2. now <= now' /\ now \in Int /\ now' \in Int /\ syncs = 0
    <3>1. ASSUME NEW n \in Node, Worker(n) PROVE UNCHANGED clockVars
      BY <3>1
      DEF Worker, TakeUpdate, RecordUpdate, AcceptUpdate, SendUpdate, Listen
    <3>2. CASE \E n \in Node, o \in Offsets : SetOffset(n, o)
      BY <3>2 DEF SetOffset, TypeOK, PlayTypeOK
    <3>3. CASE Lose \/ Tick \/ UNCHANGED vars
      BY <3>3 DEF Lose, Tick, vars, clockVars, TypeOK, PlayTypeOK
    <3> QED  BY <1>2, <3>1, <3>2, <3>3, Steps DEF clockVars, TypeOK, PlayTypeOK
  <2>3. \A p, k : LastMove(p, k)' <=> LastMove(p, k)
    BY <2>1 DEF LastMove, MovesOf, Nonce
  <2>4. \A p : MovesOf(p)' = MovesOf(p) /\ Nonce' = Nonce
    BY <2>1 DEF MovesOf, Nonce
  <2>5. lastFrame \in [Node -> Int]
    BY DEF TypeOK, PlayTypeOK
  <2>6. \A p \in Node : lastFrame[p] <= now'
    <3>1. \A p \in Node : lastFrame[p] \in Int /\ lastFrame[p] <= now
      BY <2>2, <2>5 DEF SpeedKept
    <3> QED  BY <2>2, <3>1
  <2> QED  BY <2>1, <2>2, <2>3, <2>4, <2>6 DEF SpeedKept
<1> QED  BY <1>1, <1>2

(* RecordWorker records a move as its player told it *)
LEMMA RecordedTells ==
    ASSUME TypeOK, RecordsTold, NEW n \in Node, NEW t \in Nonce,
           NEW p \in DOMAIN Recorded(n, issued[t])
    PROVE  \E j \in MovesOf(p) :
             Recorded(n, issued[t])[p]
               = [time |-> issued[j].time, pos |-> issued[j].pos]
<1> DEFINE u == issued[t]
<1>1. u.kind \in {"POSITION", "FIRE", "DEAD"}
  <2>1. u \in Update
    BY DEF TypeOK, PlayTypeOK, Nonce
  <2> QED  BY <2>1 DEF Update
<1>2. CASE u.kind = "POSITION" /\ p = u.player
  <2>1. t \in MovesOf(p)
    BY <1>2 DEF MovesOf
  <2>2. Recorded(n, u)[p] = [time |-> u.time, pos |-> u.pos]
    BY <1>2 DEF Recorded
  <2> QED  BY <2>1, <2>2
<1>3. CASE ~(u.kind = "POSITION" /\ p = u.player)
  <2>1. p \in DOMAIN records[n] /\ Recorded(n, u)[p] = records[n][p]
    <3> HIDE DEF u
    <3>1. p \in DOMAIN Recorded(n, u)
      BY DEF u
    <3> QED  BY <1>1, <1>3, <3>1 DEF Recorded
  <2> QED  BY <2>1 DEF RecordsTold
<1> QED  BY <1>2, <1>3

LEMMA NextRecordsTold ==
    ASSUME TypeOK, [Next]_vars, RecordsTold
    PROVE  RecordsTold'
<1> SUFFICES ASSUME NEW n \in Node, NEW p \in DOMAIN records'[n]
             PROVE  \E j \in MovesOf(p)' :
                      records'[n][p]
                        = [time |-> issued'[j].time, pos |-> issued'[j].pos]
  BY DEF RecordsTold
<1>1. ASSUME NEW j \in MovesOf(p),
             records'[n][p] = [time |-> issued[j].time, pos |-> issued[j].pos]
      PROVE  \E i \in MovesOf(p)' :
               records'[n][p] = [time |-> issued'[i].time, pos |-> issued'[i].pos]
  <2>1. j \in Nonce
    BY DEF MovesOf
  <2> QED  BY <1>1, <2>1, MovesStay, IssuedStays
<1>2. DOMAIN records = Node
  BY DEF TypeOK, RecordTypeOK
<1>3. CASE records'[n] = records[n]
  BY <1>1, <1>3 DEF RecordsTold
<1>4. ASSUME NEW m \in Node, RecordUpdate(m)
      PROVE  \E i \in MovesOf(p)' :
               records'[n][p] = [time |-> issued'[i].time, pos |-> issued'[i].pos]
  <2>1. taking[m] \in Nonce
    BY <1>4, RecordUpdatePasses
  <2>2. \/ records' = records
        \/ records' = [records EXCEPT ![m] = Recorded(m, issued[taking[m]])]
    BY <1>4, RecordUpdatePasses
  <2>3. CASE records'[n] = Recorded(n, issued[taking[n]]) /\ m = n
    <3>1. taking[n] \in Nonce /\ p \in DOMAIN Recorded(n, issued[taking[n]])
      BY <2>1, <2>3
    <3>2. PICK j \in MovesOf(p) :
            Recorded(n, issued[taking[n]])[p]
              = [time |-> issued[j].time, pos |-> issued[j].pos]
      BY <3>1, RecordedTells
    <3> QED  BY <1>1, <2>3, <3>2
  <2> QED  BY <1>2, <1>3, <2>2, <2>3
<1> QED  BY <1>2, <1>3, <1>4, OthersKeepHistory DEF recordVars

(* The queue of a player after its step: what waited, then what is new *)
LEMMA PlayerLine ==
    ASSUME TypeOK, TypeOK', [Next]_vars, NEW n \in Node, Player(n)
    PROVE  /\ \A i \in DOMAIN recordUpdates'[n] :
                \/ /\ i \in DOMAIN recordUpdates[n]
                   /\ recordUpdates'[n][i] = recordUpdates[n][i]
                \/ recordUpdates'[n][i] \in Nonce' \ Nonce
           /\ \A i, j \in DOMAIN recordUpdates'[n] :
                recordUpdates'[n][i] \in Nonce' \ Nonce /\ i < j =>
                  recordUpdates'[n][i] < recordUpdates'[n][j]
<1>1. PICK new \in Seq(Update) :
        /\ issued' = issued \o new
        /\ recordUpdates' = [recordUpdates EXCEPT
             ![n] = @ \o [i \in 1..Len(new) |-> Len(issued) + i]]
  BY IssuesOwn
<1>2. /\ recordUpdates \in [Node -> Seq(Nonce)] /\ issued \in Seq(Update)
      /\ recordUpdates' \in [Node -> Seq(Nonce')]
  BY DEF TypeOK, QueueTypeOK, PlayTypeOK
<1>3. /\ Len(issued') = Len(issued) + Len(new)
      /\ Nonce = 1..Len(issued) /\ Nonce' = 1..(Len(issued) + Len(new))
      /\ Len(issued) \in Nat /\ Len(new) \in Nat
  <2>1. issued' \in Seq(Update) /\ Len(issued') = Len(issued) + Len(new)
    BY <1>1, <1>2, ConcatProperties
  <2> QED  BY <1>2, <2>1 DEF Nonce
<1> DEFINE t == [i \in 1..Len(new) |-> Len(issued) + i]
           q == recordUpdates[n]
<1>4. q \in Seq(Nat)
  BY <1>2, SeqGrows DEF Nonce
<1>5. t \in Seq(Nat) /\ Len(t) = Len(new)
  BY <1>3
<1>6. recordUpdates'[n] = q \o t
  BY <1>1, <1>2
<1>7. \A i \in 1..Len(new) : t[i] = Len(issued) + i
  OBVIOUS
<1> HIDE DEF t
<1>8. /\ DOMAIN recordUpdates'[n] = 1..(Len(q) + Len(new))
      /\ DOMAIN q = 1..Len(q) /\ Len(q) \in Nat
      /\ \A i \in 1..(Len(q) + Len(new)) :
           recordUpdates'[n][i] = IF i <= Len(q) THEN q[i] ELSE t[i - Len(q)]
  <2>1. /\ q \o t \in Seq(Nat) /\ Len(q \o t) = Len(q) + Len(t)
        /\ \A i \in 1..(Len(q) + Len(t)) :
             (q \o t)[i] = IF i <= Len(q) THEN q[i] ELSE t[i - Len(q)]
    BY <1>4, <1>5, ConcatProperties
  <2>2. DOMAIN (q \o t) = 1..Len(q \o t)
    BY <2>1
  <2> HIDE DEF q
  <2>3. q \in Seq(Nat)
    BY <1>4 DEF q
  <2> QED  BY <1>5, <1>6, <2>1, <2>2, <2>3
<1>9. ASSUME NEW i \in 1..(Len(q) + Len(new)), i <= Len(q)
      PROVE  /\ i \in DOMAIN q
             /\ recordUpdates'[n][i] = q[i] /\ q[i] \in Nonce
  <2>1. i \in DOMAIN q /\ recordUpdates'[n][i] = q[i]
    BY <1>8, <1>9
  <2> QED  BY <1>2, <2>1
<1>10. ASSUME NEW i \in 1..(Len(q) + Len(new)), ~(i <= Len(q))
       PROVE  /\ recordUpdates'[n][i] = Len(issued) + (i - Len(q))
              /\ recordUpdates'[n][i] \in Nonce' \ Nonce
  <2> HIDE DEF q
  <2>1. i - Len(q) \in 1..Len(new)
    BY <1>3, <1>8, <1>10
  <2>2. recordUpdates'[n][i] = Len(issued) + (i - Len(q))
    BY <1>7, <1>8, <1>10, <2>1
  <2> QED  BY <1>3, <2>1, <2>2
<1> HIDE DEF q
<1>11. \A i \in DOMAIN recordUpdates'[n] :
         \/ i \in DOMAIN q /\ recordUpdates'[n][i] = q[i]
         \/ recordUpdates'[n][i] \in Nonce' \ Nonce
  BY <1>8, <1>9, <1>10
<1>12. ASSUME NEW i \in DOMAIN recordUpdates'[n], NEW j \in DOMAIN recordUpdates'[n],
              recordUpdates'[n][i] \in Nonce' \ Nonce, i < j
       PROVE  recordUpdates'[n][i] < recordUpdates'[n][j]
  <2>1. i \in 1..(Len(q) + Len(new)) /\ j \in 1..(Len(q) + Len(new))
    BY <1>8
  <2>2. ~(i <= Len(q))
    BY <1>9, <1>12, <2>1
  <2>3. ~(j <= Len(q))
    BY <1>8, <1>12, <2>1, <2>2
  <2>4. /\ recordUpdates'[n][i] = Len(issued) + (i - Len(q))
        /\ recordUpdates'[n][j] = Len(issued) + (j - Len(q))
    BY <1>10, <2>1, <2>2, <2>3
  <2> QED  BY <1>3, <1>8, <1>12, <2>1, <2>4
<1> QED  BY <1>11, <1>12 DEF q

(* Of what waits for a player, its last move is the last move *)
LastWaits(p, k) ==
    /\ \A i, j \in DOMAIN recordUpdates[p] :
         recordUpdates[p][i] = k /\ i < j => recordUpdates[p][j] \notin MovesOf(p)
    /\ taking[p] = k \/ k \in Range(shown[p]) =>
         \A j \in DOMAIN recordUpdates[p] : recordUpdates[p][j] \notin MovesOf(p)
    /\ k \in Range(shown[p]) => taking[p] \notin MovesOf(p)

LEMMA PlayerLastWaits ==
    ASSUME TypeOK, TypeOK', [Next]_vars, LastInLine, NEW n \in Node, Player(n),
           NEW p \in Node, NEW k \in Nonce', LastMove(p, k)'
    PROVE  LastWaits(p, k)'
<1>0. /\ recordUpdates \in [Node -> Seq(Nonce)] /\ shown \in [Node -> Seq(Nonce)]
      /\ taking \in [Node -> Nonce \cup {0}]
      /\ UNCHANGED <<taking, shown>>
      /\ \A m \in Node \ {n} : recordUpdates'[m] = recordUpdates[m]
      /\ 0 \notin Nonce /\ 0 \notin Nonce' /\ Nonce' \subseteq Nat
  <2>1. Nonce' \subseteq Nat /\ 0 \notin Nonce'
    <3>1. issued' \in Seq(Update)
      BY DEF TypeOK, PlayTypeOK, Update
    <3>2. DOMAIN issued' = 1..Len(issued') /\ Len(issued') \in Nat
      BY <3>1
    <3> QED  BY <3>2 DEF Nonce
  <2>2. /\ UNCHANGED <<taking, shown>>
        /\ \A m \in Node \ {n} : recordUpdates'[m] = recordUpdates[m]
    BY PlayerQueues
  <2> QED  BY <2>1, <2>2, NoncesPositive DEF TypeOK, QueueTypeOK
<1>1. /\ \A i \in Nonce : i \in MovesOf(p)' <=> i \in MovesOf(p)
      /\ \A i \in MovesOf(p)' : i <= k
      /\ MovesOf(p)' \subseteq Nonce' /\ MovesOf(p) \subseteq Nonce
  <2>1. MovesOf(p)' \subseteq Nonce' /\ MovesOf(p) \subseteq Nonce
    BY DEF MovesOf
  <2>2. \A i \in MovesOf(p)' : i <= k
    BY DEF LastMove
  <2> QED  BY <2>1, <2>2, MovesStay
<1>2. CASE k \in Nonce
  <2>1. LastWaits(p, k)
    BY <1>2, MovesStay DEF LastInLine, LastWaits
  <2>2. \A i \in Nonce' \ Nonce : i \notin MovesOf(p)'
    <3> SUFFICES ASSUME NEW i \in Nonce' \ Nonce, i \in MovesOf(p)' PROVE FALSE
      OBVIOUS
    <3>1. k \in Nat /\ i \in Nat /\ k < i
      BY <1>2, NewAfterOld
    <3> QED  BY <1>1, <3>1
  <2>3. \A i \in DOMAIN recordUpdates'[p] :
          \/ /\ i \in DOMAIN recordUpdates[p]
             /\ recordUpdates'[p][i] = recordUpdates[p][i]
             /\ recordUpdates[p][i] \in Nonce
          \/ recordUpdates'[p][i] \in Nonce' \ Nonce
    <3>1. \A i \in DOMAIN recordUpdates[p] : recordUpdates[p][i] \in Nonce
      BY <1>0
    <3>2. CASE p = n
      BY <3>1, <3>2, PlayerLine
    <3>3. CASE p # n
      BY <1>0, <3>1, <3>3
    <3> QED  BY <3>2, <3>3
  <2>4. taking[p] \in MovesOf(p)' => taking[p] \in MovesOf(p)
    BY <1>0, <1>1
  <2>5. ASSUME NEW i \in DOMAIN recordUpdates'[p], recordUpdates'[p][i] \in MovesOf(p)'
        PROVE  /\ i \in DOMAIN recordUpdates[p]
               /\ recordUpdates'[p][i] = recordUpdates[p][i]
               /\ recordUpdates[p][i] \in MovesOf(p)
    BY <1>1, <2>2, <2>3, <2>5
  <2>6. ASSUME NEW i \in DOMAIN recordUpdates'[p], recordUpdates'[p][i] = k
        PROVE  /\ i \in DOMAIN recordUpdates[p]
               /\ recordUpdates[p][i] = k
    BY <1>2, <2>3, <2>6
  <2> QED  BY <1>0, <2>1, <2>4, <2>5, <2>6 DEF LastWaits
<1>3. CASE k \notin Nonce
  <2>1. p = n
    <3>1. n \in Replicas!Sources(issued'[k])
      BY <1>3, PlayerQueues
    <3>2. issued'[k].player = p /\ issued'[k].kind = "POSITION"
      BY DEF LastMove, MovesOf
    <3> QED  BY <3>1, <3>2 DEF Replicas!Sources
  <2>2. taking'[p] # k /\ k \notin Range(shown'[p])
    BY <1>0, <1>3 DEF Range
  <2>3. ASSUME NEW i \in DOMAIN recordUpdates'[p], NEW j \in DOMAIN recordUpdates'[p],
               recordUpdates'[p][i] = k, i < j, recordUpdates'[p][j] \in MovesOf(p)'
        PROVE  FALSE
    <3>1. k < recordUpdates'[p][j]
      BY <1>3, <2>1, <2>3, PlayerLine
    <3>2. PICK l \in MovesOf(p)' : l = recordUpdates'[p][j]
      BY <2>3
    <3>3. k < l /\ l <= k /\ l \in Nat /\ k \in Nat
      BY <1>0, <1>1, <3>1, <3>2
    <3> QED  BY <3>3
  <2> QED  BY <2>2, <2>3 DEF LastWaits
<1> QED  BY <1>2, <1>3

LEMMA WorkerLastWaits ==
    ASSUME TypeOK, LastInLine, NEW n \in Node, Worker(n),
           NEW p \in Node, NEW k \in Nonce, LastMove(p, k)
    PROVE  LastWaits(p, k)'
<1>0. /\ recordUpdates \in [Node -> Seq(Nonce)] /\ shown \in [Node -> Seq(Nonce)]
      /\ taking \in [Node -> Nonce \cup {0}]
      /\ net \subseteq [from : Node, to : Node, nonce : Nonce]
      /\ 0 \notin Nonce /\ MovesOf(p) \subseteq Nonce
  BY NoncesPositive DEF TypeOK, QueueTypeOK, MovesOf
<1>1. UNCHANGED issued /\ MovesOf(p)' = MovesOf(p)
  BY DEF Worker, TakeUpdate, RecordUpdate, AcceptUpdate, SendUpdate, Listen,
      MovesOf, Nonce
<1>2. LastWaits(p, k) /\ \A x \in net : issued[x.nonce].player # x.to
  BY DEF LastInLine, LastWaits
<1>3. CASE /\ recordUpdates'[p] = recordUpdates[p] /\ taking'[p] = taking[p]
           /\ shown'[p] = shown[p]
  BY <1>1, <1>2, <1>3 DEF LastWaits
<1>4. CASE TakeUpdate(n) /\ p = n
  <2> DEFINE q == recordUpdates[p]
  <2>1. /\ q \in Seq(Nonce) /\ q # <<>> /\ recordUpdates'[p] = Tail(q)
        /\ taking[p] = 0 /\ UNCHANGED shown
        /\ taking'[p] = Head(q) \/ taking'[p] = 0
    BY <1>0, <1>4 DEF TakeUpdate, recordVars
  <2>2. /\ DOMAIN q = 1..Len(q) /\ Len(q) \in Nat /\ Len(q) >= 1 /\ Head(q) = q[1]
        /\ DOMAIN recordUpdates'[p] = 1..(Len(q) - 1)
        /\ \A i \in 1..(Len(q) - 1) : recordUpdates'[p][i] = q[i + 1]
    BY <2>1
  <2>3. /\ \A i, j \in DOMAIN q : q[i] = k /\ i < j => q[j] \notin MovesOf(p)
        /\ k \in Range(shown[p]) => \A j \in DOMAIN q : q[j] \notin MovesOf(p)
    BY <1>2 DEF LastWaits
  <2> HIDE DEF q
  <2>4. \A i \in DOMAIN recordUpdates'[p] :
          i + 1 \in DOMAIN q /\ 1 < i + 1 /\ recordUpdates'[p][i] = q[i + 1]
    BY <2>2
  <2>5. 1 \in DOMAIN q
    BY <2>2
  <2>6. taking'[p] = k =>
          \A j \in DOMAIN recordUpdates'[p] : recordUpdates'[p][j] \notin MovesOf(p)
    <3> SUFFICES ASSUME taking'[p] = k, NEW j \in DOMAIN recordUpdates'[p]
                 PROVE  recordUpdates'[p][j] \notin MovesOf(p)
      OBVIOUS
    <3>1. q[1] = k
      BY <1>0, <2>1, <2>2
    <3>2. j + 1 \in DOMAIN q /\ 1 < j + 1 /\ recordUpdates'[p][j] = q[j + 1]
      BY <2>4
    <3> QED  BY <2>3, <2>5, <3>1, <3>2
  <2>7. k \in Range(shown[p]) =>
          /\ \A j \in DOMAIN recordUpdates'[p] :
               recordUpdates'[p][j] \notin MovesOf(p)
          /\ taking'[p] \notin MovesOf(p)
    BY <1>0, <2>1, <2>2, <2>3, <2>4, <2>5
  <2>8. ASSUME NEW i \in DOMAIN recordUpdates'[p], NEW j \in DOMAIN recordUpdates'[p],
               recordUpdates'[p][i] = k, i < j
        PROVE  recordUpdates'[p][j] \notin MovesOf(p)
    <3>1. i + 1 < j + 1
      BY <2>2, <2>8
    <3> QED  BY <2>3, <2>4, <2>8, <3>1
  <2> QED  BY <1>1, <2>1, <2>6, <2>7, <2>8 DEF LastWaits
<1>5. CASE RecordUpdate(n) /\ p = n
  <2>1. /\ UNCHANGED recordUpdates /\ taking'[p] = 0
        /\ \/ shown'[p] = shown[p]
           \/ shown'[p] = Append(shown[p], taking[p]) /\ taking[p] \in Nonce
    BY <1>0, <1>5, RecordUpdatePasses DEF RecordUpdate
  <2>2. k \in Range(shown'[p]) => k \in Range(shown[p]) \/ taking[p] = k
    <3>1. CASE shown'[p] = shown[p]
      BY <3>1
    <3>2. CASE shown'[p] = Append(shown[p], taking[p]) /\ taking[p] \in Nonce
      <4>1. \A i \in DOMAIN shown'[p] :
              \/ i \in DOMAIN shown[p] /\ shown'[p][i] = shown[p][i]
              \/ shown'[p][i] = taking[p]
        <5>1. shown[p] \in Seq(Nonce)
          BY <1>0
        <5> QED  BY <3>2, <5>1
      <4> QED  BY <4>1 DEF Range
    <3> QED  BY <2>1, <3>1, <3>2
  <2> QED  BY <1>0, <1>1, <1>2, <2>1, <2>2 DEF LastWaits
<1>6. CASE Listen(n) /\ p = n
  <2>1. PICK x \in net :
          /\ x.to = p
          /\ recordUpdates'[p] = Append(recordUpdates[p], x.nonce)
    BY <1>0, <1>6 DEF Listen
  <2>2. /\ UNCHANGED <<taking, shown>> /\ x.nonce \in Nonce
        /\ x.nonce \notin MovesOf(p)
    BY <1>0, <1>2, <1>6, <2>1 DEF Listen, recordVars, MovesOf
  <2>3. /\ \A i \in DOMAIN recordUpdates'[p] :
             \/ /\ i \in DOMAIN recordUpdates[p]
                /\ recordUpdates'[p][i] = recordUpdates[p][i]
             \/ recordUpdates'[p][i] = x.nonce
    <3>1. recordUpdates[p] \in Seq(Nonce)
      BY <1>0
    <3> QED  BY <2>1, <2>2, <3>1
  <2>4. k # x.nonce
    BY <2>2 DEF LastMove
  <2>5. /\ \A i \in DOMAIN recordUpdates'[p] :
             recordUpdates'[p][i] \in MovesOf(p) =>
               i \in DOMAIN recordUpdates[p] /\ recordUpdates[p][i] \in MovesOf(p)
        /\ \A i \in DOMAIN recordUpdates'[p] :
             recordUpdates'[p][i] = k =>
               i \in DOMAIN recordUpdates[p] /\ recordUpdates[p][i] = k
    BY <2>2, <2>3, <2>4
  <2> QED  BY <1>1, <1>2, <2>2, <2>5 DEF LastWaits
<1>7. CASE p # n
  <2>1. /\ recordUpdates'[p] = recordUpdates[p] /\ taking'[p] = taking[p]
        /\ shown'[p] = shown[p]
    BY <1>0, <1>7
    DEF Worker, TakeUpdate, RecordUpdate, AcceptUpdate, SendUpdate, Listen,
        recordVars
  <2> QED  BY <1>3, <2>1
<1>8. CASE AcceptUpdate(n) \/ SendUpdate(n)
  BY <1>3, <1>8 DEF AcceptUpdate, SendUpdate, recordVars
<1> QED  BY <1>4, <1>5, <1>6, <1>7, <1>8 DEF Worker

LEMMA NextLastInLine ==
    ASSUME TypeOK, TypeOK', [Next]_vars, LastInLine
    PROVE  LastInLine'
<1>1. ASSUME NEW x \in net' PROVE issued'[x.nonce].player # x.to
  <2>1. CASE x \in net
    <3>1. x.nonce \in Nonce
      BY <2>1 DEF TypeOK, QueueTypeOK
    <3> QED  BY <2>1, <3>1, IssuedStays DEF LastInLine
  <2>2. CASE x \notin net
    <3>1. ASSUME NEW n \in Node, Player(n) PROVE FALSE
      BY <2>2, <3>1, PlayerQueues
    <3>2. ASSUME NEW n \in Node, SendUpdate(n)
          PROVE  issued'[x.nonce].player # x.to
      BY <2>2, <3>2 DEF SendUpdate
    <3>3. ASSUME NEW n \in Node,
                 TakeUpdate(n) \/ RecordUpdate(n) \/ AcceptUpdate(n) \/ Listen(n)
          PROVE  FALSE
      <4>1. net' \subseteq net
        BY <3>3 DEF TakeUpdate, RecordUpdate, AcceptUpdate, Listen
      <4> QED  BY <2>2, <4>1
    <3>4. ASSUME \/ \E n \in Node, o \in Offsets : SetOffset(n, o)
                 \/ Lose \/ Tick \/ UNCHANGED vars
          PROVE  FALSE
      <4>1. net' \subseteq net
        BY <3>4 DEF SetOffset, Lose, Tick, vars
      <4> QED  BY <2>2, <4>1
    <3> QED  BY <3>1, <3>2, <3>3, <3>4, Steps DEF Worker
  <2> QED  BY <2>1, <2>2
<1>2. ASSUME NEW p \in Node, NEW k \in Nonce', LastMove(p, k)'
      PROVE  LastWaits(p, k)'
  <2>1. CASE \E n \in Node : Player(n)
    BY <1>2, <2>1, PlayerLastWaits
  <2>2. CASE \A n \in Node : ~Player(n)
    <3>1. UNCHANGED issued
      BY <2>2, OthersIssueNone
    <3>2. k \in Nonce /\ LastMove(p, k)
      BY <1>2, <3>1 DEF LastMove, MovesOf, Nonce
    <3>3. ASSUME NEW n \in Node, Worker(n) PROVE LastWaits(p, k)'
      BY <3>2, <3>3, WorkerLastWaits
    <3>4. CASE \/ \E n \in Node, o \in Offsets : SetOffset(n, o)
               \/ Lose \/ Tick \/ UNCHANGED vars
      <4>1. UNCHANGED <<recordUpdates, taking, shown>>
        BY <3>4 DEF SetOffset, Lose, Tick, vars, recordVars
      <4>2. LastWaits(p, k) /\ MovesOf(p)' = MovesOf(p)
        BY <3>1, <3>2 DEF LastInLine, LastWaits, MovesOf, Nonce
      <4> QED  BY <4>1, <4>2 DEF LastWaits
    <3> QED  BY <2>2, <3>3, <3>4, Steps
  <2> QED  BY <2>1, <2>2
<1> QED  BY <1>1, <1>2 DEF LastInLine, LastWaits

(* Everybody who has not an older clock believes the last move *)
LEMMA LastBelieved ==
    ASSUME TypeOK, SpeedKept, RecordsTold, ~Teleport, syncs = 0,
           NEW p \in Node, NEW k \in Nonce, LastMove(p, k)
    PROVE  Believed(k)
<1> DEFINE u == issued[k]
<1>1. /\ u.kind = "POSITION" /\ u.player = p /\ k \in MovesOf(p)
      /\ u.pos \in Place /\ u.pos = pos[p] /\ u.time = lastFrame[p] + Skew[p]
  BY DEF LastMove, MovesOf, SpeedKept
<1>2. u.pos \in Int /\ u.time \in Int /\ Speed \in Nat
  <2>1. u \in Update
    BY DEF TypeOK, PlayTypeOK, Nonce
  <2> QED  BY <2>1, PlaceAssumption DEF Update
<1>3. ASSUME NEW n \in Node, p \in DOMAIN records[n] \ {n}
      PROVE  Dist(u.pos, records[n][p].pos)
               <= 10 * Speed * (u.time - records[n][p].time)
  <2>1. PICK j \in MovesOf(p) :
          records[n][p] = [time |-> issued[j].time, pos |-> issued[j].pos]
    BY <1>3 DEF RecordsTold
  <2> DEFINE r == issued[j]
             a == u.time - r.time
             s == Speed * a
  <2>2. r.pos \in Int /\ r.time \in Int
    <3>1. j \in Nonce
      BY DEF MovesOf
    <3>2. r \in Update
      BY <3>1 DEF TypeOK, PlayTypeOK, Nonce
    <3> QED  BY <3>2 DEF Update
  <2>3. Dist(r.pos, u.pos) <= s /\ a >= 0
    <3>1. /\ r.time <= lastFrame[p] + Skew[p]
          /\ Dist(r.pos, pos[p]) <= Speed * (lastFrame[p] + Skew[p] - r.time)
      BY DEF SpeedKept
    <3>2. u.time = lastFrame[p] + Skew[p] /\ u.pos = pos[p] /\ r.time <= u.time
      BY <1>1, <3>1
    <3>3. lastFrame[p] + Skew[p] - r.time = a
      <4>1. lastFrame[p] \in Int /\ Skew[p] \in Int
        BY ClockAssumption DEF TypeOK, PlayTypeOK
      <4> HIDE DEF u, r
      <4> QED  BY <1>2, <2>2, <3>2, <4>1
    <3>4. a >= 0
      <4> HIDE DEF u, r
      <4> QED  BY <1>2, <2>2, <3>2
    <3>5. Dist(r.pos, u.pos) <= Speed * a
      <4> HIDE DEF u, r, a
      <4> QED  BY <3>1, <3>2, <3>3
    <3> QED  BY <3>4, <3>5
  <2>4. a \in Int /\ s \in Int /\ 10 * Speed * a = 10 * s
    <3>1. a \in Int
      BY <1>2, <2>2
    <3> HIDE DEF a
    <3> QED  BY <1>2, <3>1
  <2>5. Dist(u.pos, r.pos) <= 10 * s
    <3> HIDE DEF u, r, s
    <3> QED  BY <1>2, <2>2, <2>3, <2>4 DEF Dist, Abs
  <2> QED  BY <2>1, <2>4, <2>5
<1>4. \A n \in Node : Plausible(n, u)
  BY <1>1, <1>3 DEF Plausible
<1> QED  BY <1>1, <1>4 DEF Believed

LEMMA NextMovesSpread ==
    ASSUME TypeOK, TypeOK', [Next]_vars, SpeedKept, RecordsTold, MovesSpread
    PROVE  MovesSpread'
<1> SUFFICES ASSUME Undisturbed', ~Teleport, NEW p \in Node, NEW k \in Nonce',
                    ~Died(p)', LastMove(p, k)'
             PROVE  Spreads(k)'
  BY DEF MovesSpread
<1>1. Undisturbed
  BY DisturbedStays
<1>2. CASE k \in Nonce
  <2>1. LastMove(p, k) /\ ~Died(p)
    BY <1>2, MovesStay
  <2>2. Spreads(k) /\ lost = 0 /\ lost' = 0 /\ ~expired' /\ syncs = 0
    BY <1>1, <1>2, <2>1 DEF MovesSpread, Undisturbed
  <2>3. Believed(k)
    BY <1>2, <2>1, <2>2, LastBelieved
  <2> QED  BY <1>2, <2>2, <2>3, SpreadsStay
<1>3. CASE k \notin Nonce
  <2>1. PICK n \in Node : Player(n)
    BY <1>3, NewIsPlayers
  <2>2. n \in Replicas!Sources(issued'[k]) /\ issued'[k].player = p
        /\ issued'[k].kind = "POSITION"
    BY <1>3, <2>1, PlayerQueues DEF LastMove, MovesOf
  <2>3. issued'[k].player = n
    BY <2>2 DEF Replicas!Sources
  <2> QED  BY <1>3, <2>1, <2>3, SpreadsAtFirst
<1> QED  BY <1>2, <1>3

(* RecordWorker of n looks at an update while the last move of p is passed on *)
LEMMA RecordUpdateKeepsLast ==
    ASSUME TypeOK, SpeedKept, LastInLine, LastOnRecord, Undisturbed, ~Teleport,
           NEW n \in Node, RecordUpdate(n), NEW p \in Node, NEW k \in Nonce,
           ~Died(p), LastMove(p, k), k \in Range(shown'[n])
    PROVE  /\ p \in DOMAIN records'[n]
           /\ records'[n][p] = [time |-> issued[k].time, pos |-> issued[k].pos]
<1> DEFINE t == taking[n]
           u == issued[t]
           r == [time |-> issued[k].time, pos |-> issued[k].pos]
<1>0. /\ t \in Nonce /\ k \in MovesOf(p) /\ records = [m \in Node |-> records[m]]
      /\ shown[n] \in Seq(Nonce) /\ shown \in [Node -> Seq(Nonce)]
  BY RecordUpdatePasses DEF LastMove, TypeOK, RecordTypeOK, QueueTypeOK
<1>1. /\ u.kind \in {"POSITION", "FIRE", "DEAD"} /\ u.player \in Node
      /\ u.pos \in Int /\ u.time \in Int
  <2>1. u \in Update
    BY <1>0 DEF TypeOK, PlayTypeOK, Nonce
  <2> QED  BY <2>1 DEF Update
<1>2. issued[k].pos \in Int /\ issued[k].time \in Int
      /\ issued[k].kind = "POSITION" /\ issued[k].player = p
  <2>1. issued[k] \in Update
    BY DEF TypeOK, PlayTypeOK, Nonce
  <2> QED  BY <1>0, <2>1 DEF Update, MovesOf
<1>3. k \in Range(shown[n]) => p \in DOMAIN records[n] /\ records[n][p] = r
  BY DEF LastOnRecord
<1>4. CASE UNCHANGED <<records, shown>>
  BY <1>3, <1>4
<1>5. CASE /\ Plausible(n, u)
           /\ records' = [records EXCEPT ![n] = Recorded(n, u)]
           /\ shown' = [shown EXCEPT ![n] = Append(@, t)]
  <2>1. records'[n] = Recorded(n, u)
    BY <1>0, <1>5
  <2>2. k = t \/ k \in Range(shown[n])
    <3>1. shown'[n] = Append(shown[n], t)
      BY <1>0, <1>5
    <3>2. \A i \in DOMAIN shown'[n] :
            \/ i \in DOMAIN shown[n] /\ shown'[n][i] = shown[n][i]
            \/ shown'[n][i] = t
      <4> HIDE DEF t
      <4> QED  BY <1>0, <3>1
    <3> QED  BY <3>2 DEF Range
  <2>3. CASE k = t
    <3>1. u.kind = "POSITION" /\ u.player = p /\ r = [time |-> u.time, pos |-> u.pos]
      BY <1>2, <2>3
    <3> HIDE DEF u, r
    <3> QED  BY <2>1, <3>1 DEF Recorded, r
  <2>4. CASE u.player # p /\ k # t
    <3>1. p \in DOMAIN records[n] /\ records[n][p] = r
      BY <1>3, <2>2, <2>4
    <3> HIDE DEF u, r
    <3>2. p \in DOMAIN Recorded(n, u) /\ Recorded(n, u)[p] = records[n][p]
      BY <1>1, <2>4, <3>1 DEF Recorded
    <3> QED  BY <2>1, <3>1, <3>2 DEF r
  <2>5. CASE u.player = p /\ u.kind # "POSITION" /\ k # t
    <3>1. p \in DOMAIN records[n] /\ records[n][p] = r
      BY <1>3, <2>2, <2>5
    <3>2. u.kind = "FIRE"
      BY <1>0, <1>1, <2>5 DEF Died
    <3> HIDE DEF u, r
    <3> QED  BY <2>1, <3>1, <3>2 DEF Recorded, r
  <2>6. CASE u.player = p /\ u.kind = "POSITION" /\ k # t
    <3>1. k \in Range(shown[n]) /\ t \in MovesOf(p)
      BY <1>0, <2>2, <2>6 DEF MovesOf
    <3>2. n # p
      BY <3>1 DEF LastInLine
    <3>3. p \in DOMAIN records[n] /\ records[n][p] = r
      BY <1>3, <3>1
    <3>4. Dist(u.pos, issued[k].pos) <= 10 * Speed * (u.time - issued[k].time)
      <4>1. Dist(u.pos, records[n][p].pos)
              <= 10 * Speed * (u.time - records[n][p].time)
        BY <1>5, <2>6, <3>2, <3>3 DEF Plausible
      <4> QED  BY <3>3, <4>1
    <3>5. /\ u.time <= issued[k].time /\ issued[k].pos = pos[p]
          /\ Dist(u.pos, issued[k].pos) <= Speed * (issued[k].time - u.time)
      <4>1. /\ issued[k].pos = pos[p] /\ issued[k].time = lastFrame[p] + Skew[p]
            /\ u.time <= lastFrame[p] + Skew[p]
            /\ Dist(u.pos, pos[p]) <= Speed * (lastFrame[p] + Skew[p] - u.time)
        BY <3>1 DEF SpeedKept, Undisturbed
      <4>2. lastFrame[p] + Skew[p] - u.time = issued[k].time - u.time
        <5>1. lastFrame[p] \in Int /\ Skew[p] \in Int
          BY ClockAssumption DEF TypeOK, PlayTypeOK
        <5>2. issued[k].time = lastFrame[p] + Skew[p]
          BY <4>1
        <5> HIDE DEF u
        <5> QED  BY <1>1, <1>2, <5>1, <5>2
      <4> DEFINE e == issued[k].time - u.time
      <4>3. Dist(u.pos, issued[k].pos) <= Speed * e
        <5> HIDE DEF u, e
        <5> QED  BY <4>1, <4>2 DEF e
      <4> QED  BY <4>1, <4>3
    <3>6. u.time - issued[k].time >= 0
      <4> DEFINE d == u.pos - issued[k].pos
                 e == u.time - issued[k].time
      <4>1. d \in Int /\ e \in Int /\ Abs(d) <= 10 * Speed * e
        BY <1>1, <1>2, <3>4 DEF Dist
      <4>2. e >= 0
        <5> HIDE DEF d, e
        <5> QED  BY <4>1, NoNegativeTime
      <4> QED  BY <4>2
    <3>7. u.time = issued[k].time /\ issued[k].time - u.time = 0
      <4> HIDE DEF u
      <4> QED  BY <1>1, <1>2, <3>5, <3>6
    <3>8. u.pos = issued[k].pos
      <4> HIDE DEF u
      <4> QED  BY <1>1, <1>2, <3>5, <3>7, DistNone
    <3>9. r = [time |-> u.time, pos |-> u.pos]
      BY <3>7, <3>8
    <3> HIDE DEF u, r
    <3> QED  BY <2>1, <2>6, <3>9 DEF Recorded, r
  <2> QED  BY <2>3, <2>4, <2>5, <2>6
<1> HIDE DEF t, u, r
<1> QED  BY <1>4, <1>5, RecordUpdatePasses DEF t, u, r

LEMMA NextLastOnRecord ==
    ASSUME TypeOK, TypeOK', [Next]_vars, SpeedKept, LastInLine, LastOnRecord
    PROVE  LastOnRecord'
<1> SUFFICES ASSUME Undisturbed', ~Teleport, NEW p \in Node, NEW k \in Nonce',
                    ~Died(p)', LastMove(p, k)', NEW n \in Node,
                    k \in Range(shown'[n])
             PROVE  /\ p \in DOMAIN records'[n]
                    /\ records'[n][p]
                         = [time |-> issued'[k].time, pos |-> issued'[k].pos]
  BY DEF LastOnRecord
<1>1. Undisturbed
  BY DisturbedStays
<1>2. k \in Nonce
  <2> SUFFICES ASSUME k \notin Nonce PROVE FALSE
    OBVIOUS
  <2>1. PICK m \in Node : Player(m)
    BY NewIsPlayers
  <2>2. shown'[n] = shown[n] /\ shown[n] \in Seq(Nonce)
    BY <2>1, PlayerQueues DEF TypeOK, QueueTypeOK
  <2> QED  BY <2>2 DEF Range
<1>3. LastMove(p, k) /\ ~Died(p) /\ issued'[k] = issued[k]
  BY <1>2, MovesStay, IssuedStays
<1>4. CASE records'[n] = records[n] /\ shown'[n] = shown[n]
  BY <1>1, <1>2, <1>3, <1>4 DEF LastOnRecord
<1>5. ASSUME NEW m \in Node, RecordUpdate(m)
      PROVE  /\ p \in DOMAIN records'[n]
             /\ records'[n][p]
                  = [time |-> issued'[k].time, pos |-> issued'[k].pos]
  <2>1. CASE m = n
    BY <1>1, <1>2, <1>3, <1>5, <2>1, RecordUpdateKeepsLast
  <2>2. CASE m # n
    <3>1. DOMAIN records = Node /\ DOMAIN shown = Node
      BY DEF TypeOK, RecordTypeOK, QueueTypeOK
    <3>2. records'[n] = records[n] /\ shown'[n] = shown[n]
      BY <1>5, <2>2, <3>1, RecordUpdatePasses
    <3> QED  BY <1>4, <3>2
  <2> QED  BY <2>1, <2>2
<1> QED  BY <1>4, <1>5, OthersKeepHistory DEF recordVars

(* What is known of moves *)
MovesInv ==
    /\ LastExists /\ ClocksUnset /\ SpeedKept /\ RecordsTold /\ LastInLine
    /\ LastOnRecord /\ MovesSpread

LEMMA NextMoves == TypeOK /\ TypeOK' /\ MovesInv /\ [Next]_vars => MovesInv'
BY NextLastExists, NextClocksUnset, NextSpeedKept, NextRecordsTold,
   NextLastInLine, NextLastOnRecord, NextMovesSpread
DEF MovesInv

(* When all is quiet, everybody a living player reaches has its last move *)
LEMMA QuietConverged ==
    ASSUME TypeOK, MovesInv, ~Teleport
    PROVE  Converged
<1> SUFFICES ASSUME Idle, Undisturbed, NEW p \in Node, ~Died(p),
                    NEW n \in Reach(p), NEW j \in MovesOf(p)
             PROVE  p \in DOMAIN records[n] /\ records[n][p].pos = pos[p]
  BY DEF Converged, MovesOf
<1>1. PICK k \in Nonce : LastMove(p, k)
  BY DEF MovesInv, LastExists
<1>2. issued[k].player = p /\ issued[k].pos = pos[p]
  BY <1>1 DEF LastMove, MovesOf, MovesInv, SpeedKept, Undisturbed
<1>3. Spreads(k)
  BY <1>1 DEF MovesInv, MovesSpread
<1>4. n \in Node /\ k \in Range(shown[n])
  BY <1>2, <1>3, QuietEverywhere DEF Reach
<1>5. p \in DOMAIN records[n]
      /\ records[n][p] = [time |-> issued[k].time, pos |-> issued[k].pos]
  BY <1>1, <1>4 DEF MovesInv, LastOnRecord
<1> QED  BY <1>2, <1>5

(* Where nobody uses the Enter key, whose jumps the speed check may refuse, an*)
(* undisturbed network that has come to rest has every living player where it *)
(* is, on the records of all whom its updates reach, although each of them    *)
(* got the moves in another order and refused some.                           *)
THEOREM MovesArrive == Spec => [](~Teleport => Converged)
<1>1. Init => MovesInv
  BY InitMoves DEF MovesInv
<1>2. TypeOK /\ MovesInv => (~Teleport => Converged)
  BY QuietConverged
<1> QED  BY <1>1, <1>2, InitTypeOK, NextTypeOK, NextMoves, PTL DEF Spec

=============================================================================
