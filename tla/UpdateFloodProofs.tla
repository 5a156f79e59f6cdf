------------------------- MODULE UpdateFloodProofs -------------------------
(* What the workers of a client keep true, for any number of players, any     *)
(* overlay, any clocks, any speed and any number of updates: types, the       *)
(* history, the records, the boards of GameReplicas and the screens.          *)
EXTENDS UpdateFlood, SequenceTheorems, TLAPS

-----------------------------------------------------------------------------
(* Types                                                                      *)

(* New updates leave the old ones as they are, and have nonces of their own *)
LEMMA IssuedGrows ==
    ASSUME issued \in Seq(Update), NEW new \in Seq(Update),
           issued' = issued \o new
    PROVE  /\ issued' \in Seq(Update)
           /\ Nonce \subseteq Nonce'
           /\ \A k \in Nonce : issued'[k] = issued[k]
           /\ [i \in 1..Len(new) |-> Len(issued) + i] \in Seq(Nonce')
<1>1. /\ issued' \in Seq(Update)
      /\ Len(issued') = Len(issued) + Len(new)
      /\ \A i \in 1..(Len(issued) + Len(new)) :
           issued'[i] = IF i <= Len(issued) THEN issued[i] ELSE new[i - Len(issued)]
  BY ConcatProperties
<1>2. Nonce = 1..Len(issued) /\ Nonce' = 1..Len(issued')
  BY <1>1 DEF Nonce
<1> QED  BY <1>1, <1>2

LEMMA SeqGrows ==
    ASSUME NEW S, NEW T, S \subseteq T, NEW s \in Seq(S)
    PROVE  s \in Seq(T)
OBVIOUS

LEMMA InitTypeOK == Init => TypeOK
<1> SUFFICES ASSUME Init PROVE TypeOK
  OBVIOUS
<1>1. PlayTypeOK
  <2>1. Centre \in Int /\ InitPeers \in [Node -> SUBSET Node]
    BY NodeAssumption, PlaceAssumption
  <2>2. /\ now = 0 /\ syncs = 0 /\ lost = 0 /\ issued = <<>> /\ expired = FALSE
        /\ offset = [n \in Node |-> 0] /\ lastFrame = [n \in Node |-> 0]
        /\ pos = [n \in Node |-> Centre] /\ peers = InitPeers
        /\ alive = [n \in Node |-> TRUE] /\ players = [n \in Node |-> {}]
    BY DEF Init
  <2>3. peers \in [Node -> SUBSET Node] /\ players \in [Node -> SUBSET Node]
    BY <2>1, <2>2
  <2>4. pos \in [Node -> Int] /\ lastFrame \in [Node -> Int]
        /\ offset \in [Node -> Int] /\ alive \in [Node -> BOOLEAN]
    BY <2>1, <2>2
  <2>5. now \in Nat /\ syncs \in Nat /\ lost \in Nat /\ expired \in BOOLEAN
    BY <2>2
  <2>6. issued \in Seq(Update)
    BY <2>2
  <2> QED  BY <2>3, <2>4, <2>5, <2>6 DEF PlayTypeOK
<1>2. QueueTypeOK
  BY DEF Init, QueueTypeOK
<1>3. ReaderTypeOK
  BY DEF Init, ReaderTypeOK
<1>4. RecordTypeOK
  BY DEF Init, RecordTypeOK
<1> QED  BY <1>1, <1>2, <1>3, <1>4 DEF TypeOK

(* Nonces stay nonces when updates are issued *)
LEMMA QueuesGrow ==
    ASSUME QueueTypeOK, Nonce \subseteq Nonce',
           recordUpdates' \in [Node -> Seq(Nonce')],
           UNCHANGED <<net, taking, history, historyMap, shown>>
    PROVE  QueueTypeOK'
<1>1. \A n \in Node : history[n] \in Seq(Nonce') /\ shown[n] \in Seq(Nonce')
  BY SeqGrows DEF QueueTypeOK
<1> QED  BY <1>1 DEF QueueTypeOK

LEMMA IssueTypeOK ==
    ASSUME TypeOK, NEW n \in Node, NEW new \in Seq(Update), Issue(n, new),
           pos' \in [Node -> Int], lastFrame' \in [Node -> Int],
           alive' \in [Node -> BOOLEAN]
    PROVE  TypeOK'
<1> USE DEF TypeOK, clockVars, recordVars, paintVars
<1>1. /\ issued' \in Seq(Update) /\ Nonce \subseteq Nonce'
      /\ [i \in 1..Len(new) |-> Len(issued) + i] \in Seq(Nonce')
  BY IssuedGrows DEF Issue, PlayTypeOK
<1>2. recordUpdates' \in [Node -> Seq(Nonce')]
  <2>1. recordUpdates[n] \o [i \in 1..Len(new) |-> Len(issued) + i]
          \in Seq(Nonce')
    BY <1>1, SeqGrows, ConcatProperties DEF QueueTypeOK
  <2>2. \A m \in Node : recordUpdates[m] \in Seq(Nonce')
    BY <1>1, SeqGrows DEF QueueTypeOK
  <2> QED  BY <2>1, <2>2 DEF Issue, QueueTypeOK
<1>3. QueueTypeOK'
  BY <1>1, <1>2, QueuesGrow DEF Issue
<1>4. PlayTypeOK'
  BY <1>1 DEF Issue, PlayTypeOK
<1> QED  BY <1>3, <1>4 DEF Issue, ReaderTypeOK, RecordTypeOK

LEMMA UpdateTypes ==
    ASSUME TypeOK, NEW n \in Node, NEW p \in Int
    PROVE  /\ Clock(n) \in Int
           /\ Position(n, p) \in Update
           /\ Shot(n, p) \in Update
           /\ \A q \in Node, o \in Node \cup {NoNode} : Death(n, q, o) \in Update
<1>1. Clock(n) \in Int
  BY ClockAssumption DEF Clock, TypeOK, PlayTypeOK
<1> QED  BY <1>1 DEF Update, Position, Shot, Death

(* What the players put on RecordUpdates *)
LEMMA FrameIssues ==
    ASSUME TypeOK, NEW n \in Node, NEW p \in Place, Frame(n, p) \/ BotFrame(n, p)
    PROVE  \E new \in Seq(Update) : Issue(n, new)
<1>1. p \in Int
  BY PlaceAssumption
<1>2. Position(n, p) \in Update
  BY <1>1, UpdateTypes
<1>3. CASE Issue(n, <<Position(n, p)>>)
  <2>1. <<Position(n, p)>> \in Seq(Update)
    BY <1>2
  <2> QED  BY <1>3, <2>1
<1>4. ASSUME NEW q \in {p - Muzzle, p + Muzzle},
             Issue(n, <<Shot(n, q), Position(n, p)>>)
               \/ Issue(n, <<Position(n, p), Shot(n, q)>>)
      PROVE  \E new \in Seq(Update) : Issue(n, new)
  <2>1. q \in Int
    BY <1>1, PlaceAssumption
  <2>2. Shot(n, q) \in Update
    BY <2>1, UpdateTypes
  <2>3. /\ <<Shot(n, q), Position(n, p)>> \in Seq(Update)
        /\ <<Position(n, p), Shot(n, q)>> \in Seq(Update)
    BY <1>2, <2>2
  <2> QED  BY <1>4, <2>3
<1> QED  BY <1>3, <1>4 DEF Frame, BotFrame

LEMMA HitIssues ==
    ASSUME TypeOK, NEW n \in Node, Hit(n)
    PROVE  \E new \in Seq(Update) : Issue(n, new)
<1>1. PICK k \in BulletsOf(n) : Issue(n, <<Death(n, n, issued[k].player)>>)
  BY DEF Hit
<1>2. issued[k].player \in Node
  <2>1. k \in DOMAIN issued /\ issued \in Seq(Update)
    BY DEF BulletsOf, Nonce, TypeOK, PlayTypeOK
  <2>2. issued[k] \in Update
    BY <2>1
  <2> QED  BY <2>2 DEF Update
<1>3. <<Death(n, n, issued[k].player)>> \in Seq(Update)
  BY <1>2, UpdateTypes
<1> QED  BY <1>1, <1>3

LEMMA RemovePeerIssues ==
    ASSUME TypeOK, NEW n \in Node, NEW p \in Node, RemovePeer(n, p)
    PROVE  /\ issued' = issued \o <<Death(n, p, NoNode)>>
           /\ <<Death(n, p, NoNode)>> \in Seq(Update)
<1>1. Death(n, p, NoNode) \in Update
  BY UpdateTypes
<1> QED  BY <1>1 DEF RemovePeer, TypeOK, PlayTypeOK

LEMMA PlayerTypeOK ==
    ASSUME TypeOK, NEW n \in Node, Player(n)
    PROVE  TypeOK'
<1> USE DEF TypeOK
<1>1. ASSUME NEW p \in Place, Frame(n, p) \/ BotFrame(n, p) PROVE TypeOK'
  <2>1. p \in Int /\ \E t \in Int : MovesTo(n, p, t)
    <3>1. /\ p \in Int /\ now \in Int /\ now + offset[n] \in Int
      BY PlaceAssumption DEF PlayTypeOK
    <3> QED  BY <1>1, <3>1 DEF Frame, BotFrame
  <2>2. /\ pos' \in [Node -> Int] /\ lastFrame' \in [Node -> Int]
        /\ alive' \in [Node -> BOOLEAN]
    BY <2>1 DEF MovesTo, PlayTypeOK
  <2> QED  BY <1>1, <2>2, FrameIssues, IssueTypeOK
<1>2. CASE Hit(n)
  <2>1. /\ pos' \in [Node -> Int] /\ lastFrame' \in [Node -> Int]
        /\ alive' \in [Node -> BOOLEAN]
    BY <1>2 DEF Hit, PlayTypeOK
  <2> QED  BY <1>2, <2>1, HitIssues, IssueTypeOK
<1>3. ASSUME NEW p \in Node, RemovePeer(n, p) PROVE TypeOK'
  <2>1. /\ issued' = issued \o <<Death(n, p, NoNode)>>
        /\ <<Death(n, p, NoNode)>> \in Seq(Update)
    BY <1>3, RemovePeerIssues
  <2>2. /\ issued' \in Seq(Update) /\ Nonce \subseteq Nonce'
        /\ Len(issued) + 1 \in Nonce'
    BY <2>1, IssuedGrows DEF PlayTypeOK, Nonce
  <2>3. recordUpdates' \in [Node -> Seq(Nonce')]
    <3>1. \A m \in Node : recordUpdates[m] \in Seq(Nonce')
      BY <2>2, SeqGrows DEF QueueTypeOK
    <3> QED  BY <1>3, <2>2, <3>1 DEF RemovePeer, QueueTypeOK
  <2>4. QueueTypeOK'
    BY <1>3, <2>2, <2>3, QueuesGrow DEF RemovePeer, recordVars
  <2> QED
    BY <1>3, <2>2, <2>4
    DEF RemovePeer, PlayTypeOK, ReaderTypeOK, RecordTypeOK, clockVars,
        playerVars, recordVars, paintVars
<1> QED  BY <1>1, <1>2, <1>3 DEF Player

(* RecordWorker's update of the records *)
LEMMA RecordedType ==
    ASSUME PlayTypeOK, RecordTypeOK, NEW n \in Node, NEW k \in Nonce
    PROVE  /\ DOMAIN Recorded(n, issued[k]) \subseteq Node
           /\ Recorded(n, issued[k])
                \in [DOMAIN Recorded(n, issued[k]) -> Record]
<1>1. issued[k] \in Update
  BY DEF PlayTypeOK, Nonce
<1> QED  BY <1>1 DEF RecordTypeOK, Recorded, Update, Record

LEMMA KeptType ==
    ASSUME QueueTypeOK, NEW n \in Node, NEW cut \in 0..Len(history[n])
    PROVE  /\ Kept(n, cut) \in Seq(Nonce)
           /\ KeptMap(n, cut) \subseteq Nonce
           /\ Len(Kept(n, cut)) = Len(history[n]) - cut
           /\ \A i \in 1..(Len(history[n]) - cut) :
                Kept(n, cut)[i] = history[n][cut + i]
<1>1. history[n] \in Seq(Nonce) /\ historyMap[n] \subseteq Nonce
  BY DEF QueueTypeOK
<1> QED  BY <1>1 DEF Kept, KeptMap

LEMMA RecordUpdateTypeOK ==
    ASSUME TypeOK, NEW n \in Node, RecordUpdate(n)
    PROVE  TypeOK'
<1> USE DEF TypeOK, clockVars, playerVars, paintVars
<1>1. taking[n] \in Nonce /\ taking' = [taking EXCEPT ![n] = 0]
  BY DEF RecordUpdate, QueueTypeOK
<1>2. UNCHANGED <<clockVars, issued, playerVars, peers, net, lost,
                  recordUpdates, paintVars, sent, expired>>
  BY DEF RecordUpdate
<1>3. PlayTypeOK' /\ Nonce' = Nonce
  BY <1>2 DEF PlayTypeOK, Nonce
<1>4. PICK cut \in 0..Len(history[n]) :
        /\ \/ history' = [history EXCEPT ![n] = Kept(n, cut)]
           \/ history' = [history EXCEPT ![n] = Append(Kept(n, cut), taking[n])]
        /\ \/ historyMap' = [historyMap EXCEPT ![n] = KeptMap(n, cut)]
           \/ historyMap' = [historyMap EXCEPT
                               ![n] = KeptMap(n, cut) \cup {taking[n]}]
  BY DEF RecordUpdate
<1>5. \/ records' = records
      \/ records' = [records EXCEPT ![n] = Recorded(n, issued[taking[n]])]
  BY DEF RecordUpdate
<1>6. shown' = shown \/ shown' = [shown EXCEPT ![n] = Append(@, taking[n])]
  BY DEF RecordUpdate
<1>7. QueueTypeOK'
  <2>1. history' \in [Node -> Seq(Nonce)]
    <3>1. Kept(n, cut) \in Seq(Nonce) /\ history \in [Node -> Seq(Nonce)]
      BY KeptType DEF QueueTypeOK
    <3>2. Append(Kept(n, cut), taking[n]) \in Seq(Nonce)
      BY <1>1, <3>1
    <3> QED  BY <1>4, <3>1, <3>2
  <2>2. historyMap' \in [Node -> SUBSET Nonce]
    <3>1. KeptMap(n, cut) \subseteq Nonce /\ historyMap \in [Node -> SUBSET Nonce]
      BY KeptType DEF QueueTypeOK
    <3>2. KeptMap(n, cut) \cup {taking[n]} \subseteq Nonce
      BY <1>1, <3>1
    <3> QED  BY <1>4, <3>1, <3>2
  <2>3. shown' \in [Node -> Seq(Nonce)]
    <3>1. shown \in [Node -> Seq(Nonce)] /\ shown[n] \in Seq(Nonce)
      BY DEF QueueTypeOK
    <3>2. Append(shown[n], taking[n]) \in Seq(Nonce)
      BY <1>1, <3>1
    <3> QED  BY <1>6, <3>1, <3>2
  <2> QED  BY <1>1, <1>2, <1>3, <2>1, <2>2, <2>3 DEF QueueTypeOK
<1>8. ReaderTypeOK'
  <2>1. shown \in [Node -> Seq(Nonce)]
    BY DEF QueueTypeOK
  <2>2. ASSUME NEW m \in Node
        PROVE  /\ Len(shown'[m]) >= Len(shown[m])
               /\ Len(shown'[m]) \in Nat /\ Len(shown[m]) \in Nat
    <3>1. shown[m] \in Seq(Nonce)
      BY <2>1
    <3>2. shown'[m] = shown[m] \/ shown'[m] = Append(shown[m], taking[n])
      BY <1>6, <2>1
    <3> QED  BY <1>1, <3>1, <3>2
  <2> QED  BY <1>2, <2>2 DEF ReaderTypeOK
<1>9. RecordTypeOK'
  <2>1. DOMAIN records = Node
    BY DEF RecordTypeOK
  <2>2. ASSUME NEW m \in Node
        PROVE  /\ DOMAIN records'[m] \subseteq Node
               /\ records'[m] \in [DOMAIN records'[m] -> Record]
    <3>1. \/ records'[m] = records[m]
          \/ records'[m] = Recorded(n, issued[taking[n]])
      BY <1>5, <2>1
    <3>2. CASE records'[m] = records[m]
      BY <3>2 DEF RecordTypeOK
    <3>3. CASE records'[m] = Recorded(n, issued[taking[n]])
      <4>1. /\ DOMAIN Recorded(n, issued[taking[n]]) \subseteq Node
            /\ Recorded(n, issued[taking[n]])
                 \in [DOMAIN Recorded(n, issued[taking[n]]) -> Record]
        BY <1>1, RecordedType
      <4> QED  BY <3>3, <4>1
    <3> QED  BY <3>1, <3>2, <3>3
  <2> QED  BY <1>5, <2>1, <2>2 DEF RecordTypeOK
<1> QED  BY <1>3, <1>7, <1>8, <1>9

LEMMA WorkerTypeOK ==
    ASSUME TypeOK, NEW n \in Node, Worker(n)
    PROVE  TypeOK'
<1> USE DEF TypeOK, clockVars, playerVars, recordVars, paintVars
<1>0. UNCHANGED issued /\ Nonce' = Nonce
  BY DEF Worker, TakeUpdate, RecordUpdate, AcceptUpdate, SendUpdate, Listen,
      Nonce
<1>1. CASE TakeUpdate(n)
  <2>1. /\ Head(recordUpdates[n]) \in Nonce
        /\ Tail(recordUpdates[n]) \in Seq(Nonce)
    BY <1>1, HeadTailProperties DEF TakeUpdate, QueueTypeOK
  <2>2. QueueTypeOK'
    BY <1>0, <1>1, <2>1 DEF TakeUpdate, QueueTypeOK
  <2>3. expired' \in BOOLEAN
    BY <1>1 DEF TakeUpdate, PlayTypeOK
  <2> QED
    BY <1>0, <1>1, <2>2, <2>3
    DEF TakeUpdate, PlayTypeOK, ReaderTypeOK, RecordTypeOK
<1>2. CASE RecordUpdate(n)
  BY <1>2, RecordUpdateTypeOK
<1>3. CASE AcceptUpdate(n)
  <2>1. shown[n] \in Seq(Nonce) /\ painted[n] \in Nat
        /\ painted[n] < Len(shown[n])
    BY <1>3 DEF AcceptUpdate, QueueTypeOK, ReaderTypeOK
  <2>2. shown[n][painted[n] + 1] \in Nonce
    BY <2>1
  <2>3. issued[shown[n][painted[n] + 1]].player \in Node
    <3>1. issued[shown[n][painted[n] + 1]] \in Update
      BY <2>2 DEF PlayTypeOK, Nonce
    <3> QED  BY <3>1 DEF Update
  <2>4. players' \in [Node -> SUBSET Node]
    BY <1>3, <2>3 DEF AcceptUpdate, PlayTypeOK
  <2>5. ReaderTypeOK'
    <3>1. /\ painted' = [painted EXCEPT ![n] = @ + 1]
          /\ UNCHANGED <<shown, sent>>
      BY <1>3 DEF AcceptUpdate
    <3> QED  BY <2>1, <3>1 DEF ReaderTypeOK
  <2> QED
    BY <1>0, <1>3, <2>4, <2>5
    DEF AcceptUpdate, PlayTypeOK, QueueTypeOK, RecordTypeOK
<1>4. CASE SendUpdate(n)
  <2>1. shown[n] \in Seq(Nonce) /\ sent[n] \in Nat /\ sent[n] < Len(shown[n])
    BY <1>4 DEF SendUpdate, QueueTypeOK, ReaderTypeOK
  <2>2. shown[n][sent[n] + 1] \in Nonce /\ peers[n] \subseteq Node
    BY <2>1 DEF PlayTypeOK
  <2>3. net' \in SUBSET [from : Node, to : Node, nonce : Nonce]
    BY <1>4, <2>2 DEF SendUpdate, QueueTypeOK
  <2>4. ReaderTypeOK'
    BY <1>4, <2>1 DEF SendUpdate, ReaderTypeOK
  <2> QED
    BY <1>0, <1>4, <2>3, <2>4
    DEF SendUpdate, PlayTypeOK, QueueTypeOK, RecordTypeOK
<1>5. CASE Listen(n)
  <2>1. PICK m \in net : /\ net' = net \ {m}
                         /\ recordUpdates' =
                              [recordUpdates EXCEPT ![n] = Append(@, m.nonce)]
    BY <1>5 DEF Listen
  <2>2. m.nonce \in Nonce
    BY <2>1 DEF QueueTypeOK
  <2>3. recordUpdates' \in [Node -> Seq(Nonce)]
    BY <2>1, <2>2 DEF QueueTypeOK
  <2> QED
    BY <1>0, <1>5, <2>1, <2>3
    DEF Listen, PlayTypeOK, QueueTypeOK, ReaderTypeOK, RecordTypeOK
<1> QED  BY <1>1, <1>2, <1>3, <1>4, <1>5 DEF Worker

LEMMA NextTypeOK == TypeOK /\ [Next]_vars => TypeOK'
<1> SUFFICES ASSUME TypeOK, [Next]_vars PROVE TypeOK'
  OBVIOUS
<1> USE DEF clockVars, playerVars, recordVars, paintVars
<1>1. CASE Tick \/ Lose \/ \E n \in Node, o \in Offsets : SetOffset(n, o)
  <2>1. Offsets \subseteq Int
    BY ClockAssumption
  <2>2. UNCHANGED <<issued, recordUpdates, taking, recordVars, paintVars, sent>>
        /\ net' \subseteq net
    BY <1>1 DEF Tick, Lose, SetOffset
  <2>3. PlayTypeOK'
    BY <1>1, <2>1 DEF Tick, Lose, SetOffset, TypeOK, PlayTypeOK
  <2> QED
    BY <2>2, <2>3 DEF TypeOK, QueueTypeOK, ReaderTypeOK, RecordTypeOK, Nonce
<1>2. CASE UNCHANGED vars
  BY <1>2
  DEF vars, TypeOK, PlayTypeOK, QueueTypeOK, ReaderTypeOK, RecordTypeOK, Nonce
<1>3. Active \subseteq Node
  BY BoundAssumption
<1> QED  BY <1>1, <1>2, <1>3, WorkerTypeOK, PlayerTypeOK DEF Next

(* A client's workers keep their variables' types.                            *)
THEOREM TypeCorrect == Spec => []TypeOK
BY InitTypeOK, NextTypeOK, PTL DEF Spec

-----------------------------------------------------------------------------
(* The history. It is changed by RecordUpdate alone.                          *)
LEMMA OthersKeepHistory ==
    ASSUME [Next]_vars, \A n \in Node : ~RecordUpdate(n)
    PROVE  UNCHANGED recordVars
<1> USE DEF clockVars, playerVars, recordVars, paintVars
<1>1. CASE UNCHANGED vars
  BY <1>1 DEF vars
<1>2. ASSUME NEW n \in Node, Worker(n) PROVE UNCHANGED recordVars
  BY <1>2 DEF Worker, TakeUpdate, AcceptUpdate, SendUpdate, Listen
<1>3. ASSUME NEW n, Player(n) PROVE UNCHANGED recordVars
  BY <1>3 DEF Player, Frame, BotFrame, Hit, RemovePeer, Issue
<1>4. CASE Tick \/ Lose \/ \E n \in Node, o \in Offsets : SetOffset(n, o)
  BY <1>4 DEF Tick, Lose, SetOffset
<1> QED  BY <1>1, <1>2, <1>3, <1>4 DEF Next

LEMMA InitHistoryExact == Init => HistoryExact
BY DEF Init, HistoryExact, Range, IsInjective

(* Pruning takes the same nonces off the slice and out of the map *)
LEMMA PruneExact ==
    ASSUME QueueTypeOK, HistoryExact, NEW n \in Node,
           NEW cut \in 0..Len(history[n])
    PROVE  /\ KeptMap(n, cut) = Range(Kept(n, cut))
           /\ IsInjective(Kept(n, cut))
<1> DEFINE h == history[n]
           q == Kept(n, cut)
<1>1. /\ h \in Seq(Nonce) /\ DOMAIN h = 1..Len(h) /\ Len(h) \in Nat
      /\ historyMap[n] = {h[i] : i \in DOMAIN h}
      /\ \A i, j \in DOMAIN h : h[i] = h[j] => i = j
  BY DEF QueueTypeOK, HistoryExact, Range, IsInjective
<1>2. /\ DOMAIN q = 1..(Len(h) - cut)
      /\ \A i \in DOMAIN q : q[i] = h[cut + i] /\ cut + i \in DOMAIN h
  BY <1>1, KeptType
<1>3. IsInjective(q)
  <2>1. ASSUME NEW i \in DOMAIN q, NEW j \in DOMAIN q, q[i] = q[j] PROVE i = j
    <3>1. cut + i = cut + j
      BY <1>1, <1>2, <2>1
    <3> QED  BY <1>1, <1>2, <3>1
  <2> QED  BY <2>1 DEF IsInjective
<1>4. KeptMap(n, cut) = Range(q)
  <2>1. ASSUME NEW k \in KeptMap(n, cut) PROVE k \in Range(q)
    <3>1. PICK i \in DOMAIN h : k = h[i] /\ i \notin 1..cut
      BY <1>1, <2>1 DEF KeptMap
    <3>2. i - cut \in DOMAIN q /\ k = q[i - cut]
      BY <1>1, <1>2, <3>1
    <3> QED  BY <3>2 DEF Range
  <2>2. ASSUME NEW k \in Range(q) PROVE k \in KeptMap(n, cut)
    <3>1. PICK i \in DOMAIN q : k = h[cut + i] /\ cut + i \in DOMAIN h
      BY <1>2, <2>2 DEF Range
    <3>2. \A j \in 1..cut : h[j] # k
      BY <1>1, <1>2, <3>1
    <3> QED  BY <1>1, <3>1, <3>2 DEF KeptMap
  <2> QED  BY <2>1, <2>2
<1> QED  BY <1>3, <1>4

LEMMA AppendNew ==
    ASSUME NEW S, NEW q \in Seq(S), NEW k, IsInjective(q), k \notin Range(q)
    PROVE  /\ Range(Append(q, k)) = Range(q) \cup {k}
           /\ IsInjective(Append(q, k))
<1> DEFINE r == Append(q, k)
<1>1. /\ DOMAIN q = 1..Len(q) /\ Len(q) \in Nat /\ DOMAIN r = 1..(Len(q) + 1)
      /\ \A i \in 1..Len(q) : r[i] = q[i]
      /\ r[Len(q) + 1] = k
  OBVIOUS
<1> HIDE DEF r
<1>2. Range(r) = Range(q) \cup {k}
  BY <1>1 DEF Range
<1>3. IsInjective(r)
  BY <1>1 DEF Range, IsInjective
<1> QED  BY <1>2, <1>3 DEF r

LEMMA NextHistoryExact ==
    TypeOK /\ HistoryExact /\ [Next]_vars => HistoryExact'
<1> SUFFICES ASSUME TypeOK, HistoryExact, [Next]_vars PROVE HistoryExact'
  OBVIOUS
<1>1. CASE UNCHANGED recordVars
  BY <1>1 DEF recordVars, HistoryExact
<1>2. ASSUME NEW n \in Node, RecordUpdate(n) PROVE HistoryExact'
  <2>1. PICK cut \in 0..Len(history[n]) :
          \/ /\ history' = [history EXCEPT ![n] = Kept(n, cut)]
             /\ historyMap' = [historyMap EXCEPT ![n] = KeptMap(n, cut)]
          \/ /\ taking[n] \notin KeptMap(n, cut)
             /\ history' = [history EXCEPT ![n] = Append(Kept(n, cut), taking[n])]
             /\ historyMap' = [historyMap EXCEPT
                                 ![n] = KeptMap(n, cut) \cup {taking[n]}]
    BY <1>2 DEF RecordUpdate
  <2>2. /\ KeptMap(n, cut) = Range(Kept(n, cut))
        /\ IsInjective(Kept(n, cut))
        /\ Kept(n, cut) \in Seq(Nonce)
    BY PruneExact, KeptType DEF TypeOK
  <2>3. /\ history \in [Node -> Seq(Nonce)] /\ historyMap \in [Node -> SUBSET Nonce]
    BY DEF TypeOK, QueueTypeOK
  <2>4. historyMap'[n] = Range(history'[n]) /\ IsInjective(history'[n])
    <3>1. CASE history' = [history EXCEPT ![n] = Kept(n, cut)]
               /\ historyMap' = [historyMap EXCEPT ![n] = KeptMap(n, cut)]
      BY <2>2, <2>3, <3>1
    <3>2. CASE /\ taking[n] \notin KeptMap(n, cut)
               /\ history' = [history EXCEPT ![n] = Append(Kept(n, cut), taking[n])]
               /\ historyMap' = [historyMap EXCEPT
                                   ![n] = KeptMap(n, cut) \cup {taking[n]}]
      <4>1. historyMap'[n] = Range(Kept(n, cut)) \cup {taking[n]}
            /\ history'[n] = Append(Kept(n, cut), taking[n])
        BY <2>2, <2>3, <3>2
      <4> QED  BY <2>2, <3>2, <4>1, AppendNew
    <3> QED  BY <2>1, <3>1, <3>2
  <2>5. ASSUME NEW m \in Node, m # n
        PROVE  historyMap'[m] = historyMap[m] /\ history'[m] = history[m]
    BY <2>1, <2>3, <2>5
  <2> QED  BY <2>4, <2>5 DEF HistoryExact
<1> QED  BY <1>1, <1>2, OthersKeepHistory

(* The slice and the map of the history hold the same nonces, none twice.     *)
THEOREM HistoryAgrees == Spec => []HistoryExact
BY InitTypeOK, NextTypeOK, InitHistoryExact, NextHistoryExact, PTL DEF Spec

-----------------------------------------------------------------------------
(* Nothing fresh is passed on twice                                           *)

(* The invariant: what a node has passed on and its fence has not reached is  *)
(* in its history.                                                            *)
FreshKept ==
    \A n \in Node : \A i \in DOMAIN shown[n] :
      Fresh(n, shown[n][i]) => shown[n][i] \in historyMap[n]

LEMMA InitFreshKept == Init => FreshKept
BY DEF Init, FreshKept

(* No step changes an update that was issued *)
LEMMA IssuedStays ==
    ASSUME TypeOK, [Next]_vars, NEW k \in Nonce
    PROVE  issued'[k] = issued[k]
<1> USE DEF clockVars
<1>1. CASE UNCHANGED issued
  BY <1>1
<1>2. ASSUME NEW new \in Seq(Update), issued' = issued \o new
      PROVE  issued'[k] = issued[k]
  BY <1>2, IssuedGrows DEF TypeOK, PlayTypeOK
<1>3. ASSUME NEW n \in Node, Player(n)
      PROVE  \E new \in Seq(Update) : issued' = issued \o new
  <2>1. CASE \E p \in Place : Frame(n, p) \/ BotFrame(n, p)
    BY <2>1, FrameIssues DEF Issue
  <2>2. CASE Hit(n)
    BY <2>2, HitIssues DEF Issue
  <2>3. CASE \E p \in Node : RemovePeer(n, p)
    BY <2>3, RemovePeerIssues
  <2> QED  BY <1>3, <2>1, <2>2, <2>3 DEF Player
<1>4. CASE \E n \in Node : Worker(n)
  BY <1>1, <1>4
  DEF Worker, TakeUpdate, RecordUpdate, AcceptUpdate, SendUpdate, Listen
<1>5. CASE \E n \in Node, o \in Offsets : SetOffset(n, o)
  BY <1>1, <1>5 DEF SetOffset
<1>6. CASE Lose \/ Tick \/ UNCHANGED vars
  BY <1>1, <1>6 DEF Lose, Tick, vars
<1> QED  BY <1>2, <1>3, <1>4, <1>5, <1>6, BoundAssumption DEF Next

(* With clocks that go forward, an update that is young was young before *)
LEMMA FreshBefore ==
    ASSUME TypeOK, TypeOK', [ForwardNext]_vars, NEW n \in Node, NEW k \in Nonce,
           Fresh(n, k)'
    PROVE  Fresh(n, k)
<1>1. Clock(n) \in Int /\ Clock(n)' \in Int /\ Clock(n)' >= Clock(n)
  <2>1. Clock(n) \in Int /\ Clock(n)' \in Int
    BY ClockAssumption DEF TypeOK, PlayTypeOK, Clock
  <2>2. CASE UNCHANGED vars
    BY <2>1, <2>2 DEF vars, clockVars, Clock
  <2> QED  BY <2>1, <2>2 DEF ForwardNext
<1>2. issued'[k] = issued[k] /\ issued[k].time \in Int
  <2>1. issued[k] \in Update
    BY DEF TypeOK, PlayTypeOK, Nonce
  <2>2. [Next]_vars
    BY DEF ForwardNext
  <2> QED  BY <2>1, <2>2, IssuedStays DEF Update
<1> QED  BY <1>1, <1>2, ClockAssumption DEF Fresh, Fence

(* What RecordUpdate does to the history and to what it passes on *)
LEMMA RecordUpdateShows ==
    ASSUME TypeOK, NEW n \in Node, RecordUpdate(n)
    PROVE  /\ historyMap'[n] \subseteq historyMap[n] \cup {taking[n]}
           /\ \A k \in historyMap[n] : Fresh(n, k) => k \in historyMap'[n]
           /\ \/ UNCHANGED shown
              \/ /\ taking[n] \notin historyMap[n] \/ ~Fresh(n, taking[n])
                 /\ taking[n] \in historyMap'[n]
                 /\ shown' = [shown EXCEPT ![n] = Append(@, taking[n])]
           /\ \A m \in Node \ {n} : historyMap'[m] = historyMap[m]
<1>1. PICK cut \in 0..Len(history[n]) :
        /\ PrunesTo(n, cut)
        /\ \/ /\ historyMap' = [historyMap EXCEPT ![n] = KeptMap(n, cut)]
              /\ UNCHANGED shown
           \/ /\ taking[n] \notin KeptMap(n, cut)
              /\ historyMap' = [historyMap EXCEPT
                                  ![n] = KeptMap(n, cut) \cup {taking[n]}]
              /\ shown' = shown
                   \/ shown' = [shown EXCEPT ![n] = Append(@, taking[n])]
  BY DEF RecordUpdate
<1>2. /\ historyMap \in [Node -> SUBSET Nonce] /\ Len(history[n]) \in Nat
  BY DEF TypeOK, QueueTypeOK
<1>3. KeptMap(n, cut) \subseteq historyMap[n]
  BY DEF KeptMap
<1>4. ASSUME NEW k \in historyMap[n], Fresh(n, k) PROVE k \in KeptMap(n, cut)
  BY <1>1, <1>4 DEF KeptMap, PrunesTo
<1> QED  BY <1>1, <1>2, <1>3, <1>4

LEMMA NextFreshKept ==
    TypeOK /\ TypeOK' /\ FreshKept /\ [ForwardNext]_vars => FreshKept'
<1> SUFFICES ASSUME TypeOK, TypeOK', FreshKept, [ForwardNext]_vars,
                    NEW n \in Node, NEW i \in DOMAIN shown'[n],
                    issued'[shown'[n][i]].time >= Fence(n)'
             PROVE  shown'[n][i] \in historyMap'[n]
  BY DEF FreshKept, Fresh
<1>0. [Next]_vars /\ shown \in [Node -> Seq(Nonce)]
  BY DEF ForwardNext, TypeOK, QueueTypeOK
<1>1. ASSUME i \in DOMAIN shown[n], shown'[n][i] = shown[n][i]
      PROVE  Fresh(n, shown[n][i]) /\ shown[n][i] \in historyMap[n]
  <2>1. PICK k \in Nonce : k = shown[n][i]
    BY <1>0, <1>1
  <2>2. Fresh(n, k)'
    BY <1>1, <2>1 DEF Fresh
  <2>3. Fresh(n, k)
    BY <2>2, FreshBefore
  <2> QED  BY <1>1, <2>1, <2>3 DEF FreshKept
<1>2. CASE UNCHANGED recordVars
  BY <1>1, <1>2 DEF recordVars
<1>3. ASSUME NEW m \in Node, RecordUpdate(m)
      PROVE  shown'[n][i] \in historyMap'[n]
  <2>1. CASE i \in DOMAIN shown[n] /\ shown'[n][i] = shown[n][i]
    <3>1. CASE m = n
      BY <1>1, <1>3, <2>1, <3>1, RecordUpdateShows
    <3>2. CASE m # n
      BY <1>1, <1>3, <2>1, <3>2, RecordUpdateShows
    <3> QED  BY <3>1, <3>2
  <2>2. CASE ~(i \in DOMAIN shown[n] /\ shown'[n][i] = shown[n][i])
    <3>1. /\ shown' = [shown EXCEPT ![m] = Append(@, taking[m])]
          /\ taking[m] \in historyMap'[m]
      BY <1>3, <2>2, RecordUpdateShows
    <3>2. m = n
      BY <1>0, <2>2, <3>1
    <3>3. /\ shown[n] \in Seq(Nonce) /\ shown'[n] = Append(shown[n], taking[n])
      BY <1>0, <3>1, <3>2
    <3>4. i = Len(shown[n]) + 1 /\ shown'[n][i] = taking[n]
      BY <2>2, <3>3
    <3> QED  BY <3>1, <3>2, <3>4
  <2> QED  BY <2>1, <2>2
<1> QED  BY <1>0, <1>2, <1>3, OthersKeepHistory

LEMMA NextFreshOnce ==
    TypeOK /\ FreshKept /\ [ForwardNext]_vars =>
      [\A n \in Node : FreshOnce(n)]_vars
<1> SUFFICES ASSUME TypeOK, FreshKept, [ForwardNext]_vars,
                    NEW n \in Node, shown'[n] # shown[n],
                    Fresh(n, shown'[n][Len(shown'[n])])
             PROVE  shown'[n][Len(shown'[n])] \notin Range(shown[n])
  BY DEF FreshOnce
<1>0. [Next]_vars /\ shown \in [Node -> Seq(Nonce)]
  BY DEF ForwardNext, TypeOK, QueueTypeOK
<1>1. PICK m \in Node : RecordUpdate(m)
  BY <1>0, OthersKeepHistory DEF recordVars
<1>2. /\ shown' = [shown EXCEPT ![m] = Append(@, taking[m])]
      /\ taking[m] \notin historyMap[m] \/ ~Fresh(m, taking[m])
  BY <1>1, RecordUpdateShows
<1>3. m = n
  BY <1>0, <1>2
<1>4. shown'[n] = Append(shown[n], taking[n]) /\ shown[n] \in Seq(Nonce)
  BY <1>0, <1>2, <1>3
<1>5. shown'[n][Len(shown'[n])] = taking[n]
  BY <1>4
<1>6. Fresh(n, taking[n]) /\ taking[n] \notin historyMap[n]
  BY <1>2, <1>3, <1>5
<1>7. \A i \in DOMAIN shown[n] : shown[n][i] # taking[n]
  BY <1>6 DEF FreshKept
<1> QED  BY <1>5, <1>7 DEF Range

(* While no clock is set back, RecordWorker passes no update on twice that is *)
(* still inside the window.                                                   *)
THEOREM FreshOnceOnly == ForwardSpec => FreshAtMostOnce
<1>1. [ForwardNext]_vars => [Next]_vars
  BY DEF ForwardNext
<1> QED
  BY InitTypeOK, NextTypeOK, InitFreshKept, NextFreshKept, NextFreshOnce, <1>1,
     PTL
  DEF ForwardSpec, FreshAtMostOnce

-----------------------------------------------------------------------------
(* Records                                                                    *)

(* A distance is not negative, so that a speed cannot be either *)
LEMMA NoNegativeTime ==
    ASSUME NEW d \in Int, NEW t \in Int, Abs(d) <= 10 * Speed * t
    PROVE  t >= 0
<1>1. Abs(d) \in Int /\ Abs(d) >= 0
  BY DEF Abs
<1>2. Speed \in Nat /\ Speed >= 1
  BY PlaceAssumption
<1>3. ASSUME t < 0 PROVE FALSE
  <2>1. t <= -1
    BY <1>3
  <2>2. Speed * t <= Speed * (-1)
    BY <1>2, <2>1
  <2>3. 10 * Speed * t <= -10
    BY <1>2, <2>2
  <2>4. 10 * Speed * t \in Int
    BY <1>2
  <2> QED  BY <1>1, <2>3, <2>4
<1> QED  BY <1>3

(* Recorded keeps a record of another player or replaces it by a later one *)
LEMMA RecordedLater ==
    ASSUME TypeOK, NEW n \in Node, NEW k \in Nonce, Plausible(n, issued[k]),
           NEW p \in DOMAIN records[n] \ {n},
           p \in DOMAIN Recorded(n, issued[k])
    PROVE  Recorded(n, issued[k])[p].time >= records[n][p].time
<1> DEFINE u == issued[k]
<1>1. /\ u.kind \in {"POSITION", "FIRE", "DEAD"}
      /\ u.pos \in Int /\ u.time \in Int
  <2>1. u \in Update
    BY DEF TypeOK, PlayTypeOK, Nonce
  <2> QED  BY <2>1 DEF Update
<1>2. records[n][p] \in Record /\ records[n][p].time \in Int
      /\ records[n][p].pos \in Int
  BY DEF TypeOK, RecordTypeOK, Record
<1> HIDE DEF u
<1>3. CASE u.kind = "POSITION" /\ u.player = p
  <2>1. Dist(u.pos, records[n][p].pos) <= 10 * Speed * (u.time - records[n][p].time)
    BY <1>3 DEF Plausible, u
  <2>2. u.time - records[n][p].time >= 0
    BY <1>1, <1>2, <2>1, NoNegativeTime DEF Dist
  <2>3. Recorded(n, u)[p].time = u.time
    BY <1>3 DEF Recorded, u
  <2> QED  BY <1>1, <1>2, <2>2, <2>3 DEF u
<1>4. CASE ~(u.kind = "POSITION" /\ u.player = p)
  <2>1. Recorded(n, u)[p] = records[n][p]
    BY <1>1, <1>4 DEF Recorded, u
  <2> QED  BY <1>2, <2>1 DEF u
<1> QED  BY <1>3, <1>4

LEMMA NextAdvances ==
    TypeOK /\ [Next]_vars => [\A n \in Node : RecordsAdvance(n)]_vars
<1> SUFFICES ASSUME TypeOK, [Next]_vars, NEW n \in Node,
                    NEW p \in (DOMAIN records[n] \cap DOMAIN records'[n]) \ {n}
             PROVE  records'[n][p].time >= records[n][p].time
  BY DEF RecordsAdvance
<1>1. /\ records[n][p].time \in Int
      /\ DOMAIN records = Node
  BY DEF TypeOK, RecordTypeOK, Record
<1>2. CASE UNCHANGED records
  BY <1>1, <1>2
<1>3. ASSUME NEW m \in Node, RecordUpdate(m)
      PROVE  records'[n][p].time >= records[n][p].time
  <2>1. taking[m] \in Nonce
    BY <1>3 DEF RecordUpdate, TypeOK, QueueTypeOK
  <2>2. CASE /\ Plausible(m, issued[taking[m]])
             /\ records' = [records EXCEPT ![m] = Recorded(m, issued[taking[m]])]
    <3>1. CASE m = n
      <4>1. records'[n] = Recorded(n, issued[taking[n]])
        BY <1>1, <2>2, <3>1
      <4> QED  BY <2>1, <2>2, <3>1, <4>1, RecordedLater
    <3>2. CASE m # n
      <4>1. records'[n] = records[n]
        BY <1>1, <2>2, <3>2
      <4> QED  BY <1>1, <4>1
    <3> QED  BY <3>1, <3>2
  <2> QED  BY <1>2, <1>3, <2>2 DEF RecordUpdate
<1> QED  BY <1>2, <1>3, OthersKeepHistory DEF recordVars

(* A player's record of another never goes back in time, whatever the order   *)
(* in which the updates come.                                                 *)
THEOREM RecordsGoForward == Spec => RecordNeverRegresses
BY InitTypeOK, NextTypeOK, NextAdvances, PTL DEF Spec, RecordNeverRegresses

-----------------------------------------------------------------------------
(* What a step does to shown, records and issued                              *)

(* RecordWorker passes an update on, and records it, or does neither *)
LEMMA RecordUpdatePasses ==
    ASSUME TypeOK, NEW n \in Node, RecordUpdate(n)
    PROVE  /\ taking[n] \in Nonce
           /\ UNCHANGED <<issued, players, painted>>
           /\ \/ UNCHANGED <<records, shown>>
              \/ /\ Plausible(n, issued[taking[n]])
                 /\ records' = [records EXCEPT ![n] = Recorded(n, issued[taking[n]])]
                 /\ shown' = [shown EXCEPT ![n] = Append(@, taking[n])]
BY DEF RecordUpdate, TypeOK, QueueTypeOK, paintVars

(* Issued updates stay, and new ones come at the end *)
LEMMA IssuedExtends ==
    ASSUME TypeOK, [Next]_vars
    PROVE  /\ issued \in Seq(Update)
           /\ \/ UNCHANGED issued
              \/ \E new \in Seq(Update) : issued' = issued \o new /\ new # <<>>
<1> USE DEF clockVars
<1>0. issued \in Seq(Update)
  BY DEF TypeOK, PlayTypeOK
<1>1. ASSUME NEW n \in Node, Player(n)
      PROVE  \E new \in Seq(Update) : issued' = issued \o new
  <2>1. CASE \E p \in Place : Frame(n, p) \/ BotFrame(n, p)
    BY <2>1, FrameIssues DEF Issue
  <2>2. CASE Hit(n)
    BY <2>2, HitIssues DEF Issue
  <2>3. CASE \E p \in Node : RemovePeer(n, p)
    BY <2>3, RemovePeerIssues
  <2> QED  BY <1>1, <2>1, <2>2, <2>3 DEF Player
<1>2. ASSUME NEW new \in Seq(Update), issued' = issued \o new, new = <<>>
      PROVE  UNCHANGED issued
  BY <1>0, <1>2
<1>3. CASE \E n \in Node : Worker(n)
  BY <1>0, <1>3
  DEF Worker, TakeUpdate, RecordUpdate, AcceptUpdate, SendUpdate, Listen
<1>4. CASE \/ \E n \in Node, o \in Offsets : SetOffset(n, o)
           \/ Lose \/ Tick \/ UNCHANGED vars
  BY <1>0, <1>4 DEF SetOffset, Lose, Tick, vars
<1> QED  BY <1>0, <1>1, <1>2, <1>3, <1>4, BoundAssumption DEF Next

(* What a node has passed on it has passed on *)
LEMMA ShownGrows ==
    ASSUME TypeOK, [Next]_vars, NEW n \in Node
    PROVE  Range(shown[n]) \subseteq Range(shown'[n])
<1>1. shown \in [Node -> Seq(Nonce)]
  BY DEF TypeOK, QueueTypeOK
<1>2. CASE UNCHANGED shown
  BY <1>2
<1>3. ASSUME NEW m \in Node, RecordUpdate(m)
      PROVE  Range(shown[n]) \subseteq Range(shown'[n])
  <2>1. CASE UNCHANGED shown
    BY <2>1
  <2>2. CASE shown' = [shown EXCEPT ![m] = Append(@, taking[m])]
    <3>1. CASE m = n
      <4>1. shown[n] \in Seq(Nonce) /\ shown'[n] = Append(shown[n], taking[n])
        BY <1>1, <2>2, <3>1
      <4>2. \A i \in DOMAIN shown[n] :
              i \in DOMAIN shown'[n] /\ shown'[n][i] = shown[n][i]
        BY <4>1
      <4> QED  BY <4>2 DEF Range
    <3>2. CASE m # n
      BY <1>1, <2>2, <3>2
    <3> QED  BY <3>1, <3>2
  <2> QED  BY <1>3, <2>1, <2>2, RecordUpdatePasses
<1> QED  BY <1>2, <1>3, OthersKeepHistory DEF recordVars

-----------------------------------------------------------------------------
(* Where an update comes from                                                 *)

(* n may have issued update k, or somebody has passed it on *)
Known(n, k) ==
    \/ n \in Replicas!Sources(issued[k])
    \/ \E m \in Node : k \in Range(shown[m])

(* The invariant: whatever is on its way was issued where it is or was passed *)
(* on by some node before                                                     *)
Provenance ==
    /\ \A x \in net : x.nonce \in Range(shown[x.from])
    /\ \A n \in Node : \A i \in DOMAIN recordUpdates[n] :
         Known(n, recordUpdates[n][i])
    /\ \A n \in Node : taking[n] # 0 => Known(n, taking[n])

LEMMA InitProvenance == Init => Provenance
BY DEF Init, Provenance

LEMMA KnownStays ==
    ASSUME TypeOK, [Next]_vars, NEW n \in Node, NEW k \in Nonce, Known(n, k)
    PROVE  Known(n, k)'
<1>1. issued'[k] = issued[k]
  BY IssuedStays
<1> QED  BY <1>1, ShownGrows DEF Known, Replicas!Sources

(* A player issues its own moves, shots and deaths, or says a peer is gone *)
LEMMA IssuesOwn ==
    ASSUME TypeOK, NEW n \in Node, Player(n)
    PROVE  \E new \in Seq(Update) :
             /\ issued' = issued \o new
             /\ recordUpdates' = [recordUpdates EXCEPT
                  ![n] = @ \o [i \in 1..Len(new) |-> Len(issued) + i]]
             /\ \A i \in 1..Len(new) : n \in Replicas!Sources(new[i])
<1>0. \A u \in Update : (u.kind = "DEAD" /\ u.other = NoNode) \/ u.player = n
        => n \in Replicas!Sources(u)
  BY DEF Replicas!Sources
<1>1. ASSUME NEW p \in Place, Frame(n, p) \/ BotFrame(n, p)
      PROVE  \E new \in Seq(Update) :
               Issue(n, new) /\ \A i \in 1..Len(new) : n \in Replicas!Sources(new[i])
  <2>1. p \in Int /\ Position(n, p) \in Update
    BY PlaceAssumption, UpdateTypes
  <2>2. CASE Issue(n, <<Position(n, p)>>)
    <3>1. /\ <<Position(n, p)>> \in Seq(Update)
          /\ n \in Replicas!Sources(Position(n, p))
      BY <1>0, <2>1 DEF Position
    <3>2. \A i \in 1..Len(<<Position(n, p)>>) :
            n \in Replicas!Sources(<<Position(n, p)>>[i])
      BY <3>1
    <3> QED  BY <2>2, <3>1, <3>2
  <2>3. ASSUME NEW q \in {p - Muzzle, p + Muzzle},
               Issue(n, <<Shot(n, q), Position(n, p)>>)
                 \/ Issue(n, <<Position(n, p), Shot(n, q)>>)
        PROVE  \E new \in Seq(Update) :
                 Issue(n, new)
                 /\ \A i \in 1..Len(new) : n \in Replicas!Sources(new[i])
    <3>1. Shot(n, q) \in Update
      BY <2>1, PlaceAssumption, UpdateTypes
    <3>2. /\ n \in Replicas!Sources(Position(n, p))
          /\ n \in Replicas!Sources(Shot(n, q))
      BY <1>0, <2>1, <3>1 DEF Position, Shot
    <3>3. /\ <<Shot(n, q), Position(n, p)>> \in Seq(Update)
          /\ <<Position(n, p), Shot(n, q)>> \in Seq(Update)
      BY <2>1, <3>1
    <3>4. \A i \in 1..2 :
            /\ n \in Replicas!Sources(<<Shot(n, q), Position(n, p)>>[i])
            /\ n \in Replicas!Sources(<<Position(n, p), Shot(n, q)>>[i])
      BY <3>2
    <3>5. /\ Len(<<Shot(n, q), Position(n, p)>>) = 2
          /\ Len(<<Position(n, p), Shot(n, q)>>) = 2
      OBVIOUS
    <3>6. CASE Issue(n, <<Shot(n, q), Position(n, p)>>)
      BY <3>3, <3>4, <3>5, <3>6
    <3>7. CASE Issue(n, <<Position(n, p), Shot(n, q)>>)
      BY <3>3, <3>4, <3>5, <3>7
    <3> QED  BY <2>3, <3>6, <3>7
  <2> QED  BY <1>1, <2>2, <2>3 DEF Frame, BotFrame
<1>2. ASSUME Hit(n)
      PROVE  \E new \in Seq(Update) :
               Issue(n, new) /\ \A i \in 1..Len(new) : n \in Replicas!Sources(new[i])
  <2>1. PICK k \in BulletsOf(n) : Issue(n, <<Death(n, n, issued[k].player)>>)
    BY <1>2 DEF Hit
  <2>2. issued[k].player \in Node
    <3>1. k \in Nonce /\ issued \in Seq(Update)
      BY DEF BulletsOf, TypeOK, PlayTypeOK
    <3>2. issued[k] \in Update
      BY <3>1 DEF Nonce
    <3> QED  BY <3>2 DEF Update
  <2>3. Death(n, n, issued[k].player) \in Update
    BY <2>2, UpdateTypes
  <2>4. <<Death(n, n, issued[k].player)>> \in Seq(Update)
        /\ n \in Replicas!Sources(Death(n, n, issued[k].player))
    BY <1>0, <2>3 DEF Death
  <2>5. \A i \in 1..Len(<<Death(n, n, issued[k].player)>>) :
          n \in Replicas!Sources(<<Death(n, n, issued[k].player)>>[i])
    BY <2>4
  <2> QED  BY <2>1, <2>4, <2>5
<1>3. ASSUME NEW p \in Node, RemovePeer(n, p)
      PROVE  \E new \in Seq(Update) :
               /\ issued' = issued \o new
               /\ recordUpdates' = [recordUpdates EXCEPT
                    ![n] = @ \o [i \in 1..Len(new) |-> Len(issued) + i]]
               /\ \A i \in 1..Len(new) : n \in Replicas!Sources(new[i])
  <2> DEFINE new == <<Death(n, p, NoNode)>>
  <2>1. new \in Seq(Update) /\ issued' = issued \o new
    BY <1>3, RemovePeerIssues
  <2>2. n \in Replicas!Sources(Death(n, p, NoNode))
    BY <1>0, UpdateTypes DEF Death
  <2>3. recordUpdates[n] \in Seq(Nonce) /\ recordUpdates \in [Node -> Seq(Nonce)]
    BY DEF TypeOK, QueueTypeOK
  <2>4. [i \in 1..Len(new) |-> Len(issued) + i] = <<Len(issued) + 1>>
    OBVIOUS
  <2>5. recordUpdates[n] \o <<Len(issued) + 1>>
          = Append(recordUpdates[n], Len(issued) + 1)
    <3>1. issued \in Seq(Update)
      BY DEF TypeOK, PlayTypeOK
    <3>2. recordUpdates[n] \in Seq(Nat) /\ Len(issued) + 1 \in Nat
      BY <2>3, <3>1, SeqGrows DEF Nonce
    <3> QED  BY <3>2
  <2>6. recordUpdates' = [recordUpdates EXCEPT
          ![n] = @ \o [i \in 1..Len(new) |-> Len(issued) + i]]
    BY <1>3, <2>4, <2>5 DEF RemovePeer
  <2>7. \A i \in 1..Len(new) : n \in Replicas!Sources(new[i])
    BY <2>2
  <2> QED  BY <2>1, <2>6, <2>7
<1> QED  BY <1>1, <1>2, <1>3 DEF Player, Issue

(* The elements of a concatenation are those of its parts *)
LEMMA ConcatElements ==
    ASSUME NEW S, NEW s \in Seq(S), NEW t \in Seq(S), NEW i \in DOMAIN (s \o t)
    PROVE  \/ i \in DOMAIN s /\ (s \o t)[i] = s[i]
           \/ \E j \in DOMAIN t : (s \o t)[i] = t[j]
<1>1. /\ DOMAIN s = 1..Len(s) /\ DOMAIN t = 1..Len(t)
      /\ Len(s) \in Nat /\ Len(t) \in Nat
      /\ i \in 1..(Len(s) + Len(t))
      /\ (s \o t)[i] = IF i <= Len(s) THEN s[i] ELSE t[i - Len(s)]
  BY ConcatProperties
<1>2. CASE i <= Len(s)
  BY <1>1, <1>2
<1>3. CASE i > Len(s)
  <2>1. i - Len(s) \in DOMAIN t
    BY <1>1, <1>3
  <2> QED  BY <1>1, <1>3, <2>1
<1> QED  BY <1>1, <1>2, <1>3

LEMMA PlayerProvenance ==
    ASSUME TypeOK, [Next]_vars, Provenance, NEW n \in Node, Player(n)
    PROVE  Provenance'
<1>1. PICK new \in Seq(Update) :
        /\ issued' = issued \o new
        /\ recordUpdates' = [recordUpdates EXCEPT
             ![n] = @ \o [i \in 1..Len(new) |-> Len(issued) + i]]
        /\ \A i \in 1..Len(new) : n \in Replicas!Sources(new[i])
  BY IssuesOwn
<1>2. UNCHANGED <<net, taking, shown>>
  BY DEF Player, Frame, BotFrame, Hit, RemovePeer, Issue, recordVars
<1>3. /\ recordUpdates \in [Node -> Seq(Nonce)] /\ issued \in Seq(Update)
      /\ taking \in [Node -> Nonce \cup {0}]
  BY DEF TypeOK, QueueTypeOK, PlayTypeOK
<1>4. \A m \in Node, k \in Nonce : Known(m, k) => Known(m, k)'
  BY KnownStays
<1>5. ASSUME NEW j \in 1..Len(new), NEW k, k = Len(issued) + j
      PROVE  Known(n, k)'
  <2>1. /\ Len(issued) \in Nat /\ Len(new) \in Nat
        /\ k \in 1..(Len(issued) + Len(new)) /\ ~(k <= Len(issued))
        /\ k - Len(issued) = j
    BY <1>3, <1>5
  <2>2. (issued \o new)[k] = new[j]
    BY <1>3, <2>1, ConcatProperties
  <2> QED  BY <1>1, <2>2 DEF Known, Replicas!Sources
<1>6. ASSUME NEW m \in Node, NEW i \in DOMAIN recordUpdates'[m]
      PROVE  \E k \in Nat : k = recordUpdates'[m][i] /\ Known(m, k)'
  <2>1. ASSUME i \in DOMAIN recordUpdates[m],
               recordUpdates'[m][i] = recordUpdates[m][i]
        PROVE  \E k \in Nat : k = recordUpdates'[m][i] /\ Known(m, k)'
    <3>1. recordUpdates[m][i] \in Nonce /\ Known(m, recordUpdates[m][i])
      BY <1>3, <2>1 DEF Provenance
    <3> QED  BY <1>3, <1>4, <2>1, <3>1 DEF Nonce
  <2>2. CASE m # n
    BY <1>1, <1>3, <2>1, <2>2
  <2>3. CASE m = n
    <3> DEFINE t == [j \in 1..Len(new) |-> Len(issued) + j]
    <3>1. recordUpdates[n] \in Seq(Nat) /\ t \in Seq(Nat)
      BY <1>3, SeqGrows DEF Nonce
    <3>2. recordUpdates'[n] = recordUpdates[n] \o t
      BY <1>1, <1>3
    <3> HIDE DEF t
    <3>3. i \in DOMAIN (recordUpdates[n] \o t)
      BY <2>3, <3>2
    <3>4. \/ /\ i \in DOMAIN recordUpdates[n]
             /\ recordUpdates'[n][i] = recordUpdates[n][i]
          \/ \E j \in DOMAIN t : recordUpdates'[n][i] = t[j]
      BY <3>1, <3>2, <3>3, ConcatElements
    <3>5. ASSUME NEW j \in DOMAIN t, recordUpdates'[n][i] = t[j]
          PROVE  \E k \in Nat : k = recordUpdates'[n][i] /\ Known(n, k)'
      <4>1. j \in 1..Len(new) /\ t[j] = Len(issued) + j /\ t[j] \in Nat
        BY <1>3, <3>5 DEF t
      <4>2. PICK k \in Nat : k = t[j]
        BY <4>1
      <4>3. Known(n, k)'
        BY <1>5, <4>1, <4>2
      <4> QED  BY <3>5, <4>2, <4>3
    <3> QED  BY <2>1, <2>3, <3>4, <3>5
  <2> QED  BY <2>2, <2>3
<1>7. \A m \in Node : \A i \in DOMAIN recordUpdates'[m] :
        Known(m, recordUpdates[m][i])'
  BY <1>6
<1>8. \A m \in Node : taking'[m] # 0 => Known(m, taking[m])'
  <2> SUFFICES ASSUME NEW m \in Node, taking[m] # 0
               PROVE  \E k \in Nonce : k = taking'[m] /\ Known(m, k)'
    BY <1>2
  <2>1. taking[m] \in Nonce /\ Known(m, taking[m])
    BY <1>3 DEF Provenance
  <2> QED  BY <1>2, <1>4, <2>1
<1> QED  BY <1>2, <1>7, <1>8 DEF Provenance

LEMMA WorkerProvenance ==
    ASSUME TypeOK, [Next]_vars, Provenance, NEW n \in Node, Worker(n)
    PROVE  Provenance'
<1> USE DEF recordVars, paintVars
<1>1. /\ recordUpdates \in [Node -> Seq(Nonce)]
      /\ taking \in [Node -> Nonce \cup {0}] /\ shown \in [Node -> Seq(Nonce)]
      /\ net \in SUBSET [from : Node, to : Node, nonce : Nonce]
  BY DEF TypeOK, QueueTypeOK
<1>2. \A m \in Node, k \in Nonce : Known(m, k) => Known(m, k)'
  BY KnownStays
<1>3. ASSUME NEW x \in net PROVE x.nonce \in Range(shown'[x.from])
  BY <1>1, ShownGrows DEF Provenance
<1>4. CASE TakeUpdate(n) \/ Listen(n)
  <2>0. UNCHANGED shown /\ net' \subseteq net
    BY <1>4 DEF TakeUpdate, Listen
  <2>1. ASSUME NEW m \in Node, NEW i \in DOMAIN recordUpdates'[m]
        PROVE  \E k \in Nonce : k = recordUpdates'[m][i] /\ Known(m, k)
    <3>1. ASSUME NEW j \in DOMAIN recordUpdates[m],
                 recordUpdates'[m][i] = recordUpdates[m][j]
          PROVE  \E k \in Nonce : k = recordUpdates'[m][i] /\ Known(m, k)
      BY <1>1, <3>1 DEF Provenance
    <3>2. CASE m # n
      BY <1>1, <1>4, <3>1, <3>2 DEF TakeUpdate, Listen
    <3>3. CASE m = n /\ TakeUpdate(n)
      <4>1. recordUpdates'[n] = Tail(recordUpdates[n]) /\ recordUpdates[n] # <<>>
        BY <1>1, <3>3 DEF TakeUpdate
      <4>2. i + 1 \in DOMAIN recordUpdates[n]
            /\ recordUpdates'[n][i] = recordUpdates[n][i + 1]
        BY <1>1, <3>3, <4>1
      <4> QED  BY <3>1, <3>3, <4>2
    <3>4. ASSUME m = n, NEW x \in net,
                 recordUpdates' = [recordUpdates EXCEPT ![n] = Append(@, x.nonce)]
          PROVE  \E k \in Nonce : k = recordUpdates'[m][i] /\ Known(m, k)
      <4>1. recordUpdates'[n] = Append(recordUpdates[n], x.nonce)
            /\ recordUpdates[n] \in Seq(Nonce) /\ x.nonce \in Nonce
            /\ x.from \in Node
        BY <1>1, <3>4
      <4>2. \/ /\ i \in DOMAIN recordUpdates[n]
               /\ recordUpdates'[n][i] = recordUpdates[n][i]
            \/ recordUpdates'[n][i] = x.nonce
        BY <3>4, <4>1
      <4>3. Known(n, x.nonce)
        BY <4>1 DEF Provenance, Known
      <4> QED  BY <3>1, <3>4, <4>1, <4>2, <4>3
    <3> QED  BY <1>4, <3>2, <3>3, <3>4 DEF Listen
  <2>2. ASSUME NEW m \in Node, taking'[m] # 0
        PROVE  \E k \in Nonce : k = taking'[m] /\ Known(m, k)
    <3>1. CASE taking'[m] = taking[m]
      BY <1>1, <2>2, <3>1 DEF Provenance
    <3>2. CASE taking'[m] # taking[m]
      <4>1. m = n /\ TakeUpdate(n) /\ taking'[m] = recordUpdates[n][1]
            /\ 1 \in DOMAIN recordUpdates[n]
        BY <1>1, <1>4, <2>2, <3>2 DEF TakeUpdate, Listen
      <4> QED  BY <1>1, <4>1 DEF Provenance
    <3> QED  BY <3>1, <3>2
  <2>3. \A m \in Node : \A i \in DOMAIN recordUpdates'[m] :
          Known(m, recordUpdates[m][i])'
    BY <1>2, <2>1
  <2>4. \A m \in Node : taking'[m] # 0 => Known(m, taking[m])'
    BY <1>2, <2>2
  <2> QED  BY <1>3, <2>0, <2>3, <2>4 DEF Provenance
<1>5. CASE RecordUpdate(n) \/ AcceptUpdate(n) \/ SendUpdate(n)
  <2>1. /\ UNCHANGED recordUpdates
        /\ \A m \in Node : taking'[m] # 0 => taking'[m] = taking[m]
    BY <1>1, <1>5 DEF RecordUpdate, AcceptUpdate, SendUpdate
  <2>2. \A x \in net' : x \in net \/
          (x.from = n /\ x.nonce \in Range(shown[n]) /\ UNCHANGED shown)
    <3>1. CASE SendUpdate(n)
      <4>1. shown[n][sent[n] + 1] \in Range(shown[n])
        BY <1>1, <3>1 DEF SendUpdate, TypeOK, ReaderTypeOK, Range
      <4> QED  BY <3>1, <4>1 DEF SendUpdate
    <3> QED  BY <1>5, <3>1 DEF RecordUpdate, AcceptUpdate
  <2>3. \A x \in net' : x.nonce \in Range(shown'[x.from])
    BY <1>3, <2>2
  <2>4. \A m \in Node : \A i \in DOMAIN recordUpdates[m] :
          recordUpdates[m][i] \in Nonce /\ Known(m, recordUpdates[m][i])
    BY <1>1 DEF Provenance
  <2>5. \A m \in Node : \A i \in DOMAIN recordUpdates'[m] :
          Known(m, recordUpdates[m][i])'
    BY <1>2, <2>1, <2>4
  <2>6. \A m \in Node : taking'[m] # 0 => Known(m, taking[m])'
    BY <1>1, <1>2, <2>1 DEF Provenance
  <2> QED  BY <2>3, <2>5, <2>6 DEF Provenance
<1> QED  BY <1>4, <1>5 DEF Worker

LEMMA NextProvenance == TypeOK /\ Provenance /\ [Next]_vars => Provenance'
<1> SUFFICES ASSUME TypeOK, Provenance, [Next]_vars PROVE Provenance'
  OBVIOUS
<1>1. CASE \/ Tick \/ Lose \/ UNCHANGED vars
           \/ \E n \in Node, o \in Offsets : SetOffset(n, o)
  <2>1. UNCHANGED <<issued, recordUpdates, taking, shown>> /\ net' \subseteq net
    BY <1>1 DEF Tick, Lose, SetOffset, vars, recordVars
  <2> QED  BY <2>1 DEF Provenance, Known
<1> QED  BY <1>1, PlayerProvenance, WorkerProvenance, BoundAssumption DEF Next

-----------------------------------------------------------------------------
(* The refinement                                                             *)

LEMMA InitReplicas == Init => Replicas!Init
BY DEF Init, Replicas!Init, Range

(* RecordWorker tells its player of an update *)
LEMMA RecordUpdateTells ==
    ASSUME TypeOK, Provenance, NEW n \in Node, RecordUpdate(n)
    PROVE  [Replicas!Next]_(Replicas!vars)
<1> DEFINE k == taking[n]
           u == issued[k]
<1>1. CASE UNCHANGED <<records, shown>>
  BY <1>1, RecordUpdatePasses DEF Replicas!vars
<1>2. CASE /\ Plausible(n, u)
           /\ records' = [records EXCEPT ![n] = Recorded(n, u)]
           /\ shown' = [shown EXCEPT ![n] = Append(@, k)]
  <2>1. /\ k \in Nonce /\ k # 0 /\ UNCHANGED issued
        /\ u.kind \in {"POSITION", "FIRE", "DEAD"} /\ u.player \in Node
        /\ u.time \in Int /\ u.pos \in Int
    <3>1. k \in Nonce /\ k # 0 /\ UNCHANGED issued
      BY RecordUpdatePasses DEF RecordUpdate
    <3>2. u \in Update
      BY <3>1 DEF TypeOK, PlayTypeOK, Nonce
    <3> QED  BY <3>1, <3>2 DEF Update
  <2>2. n \in Replicas!Sources(u) \/ \E m \in Node : k \in Range(shown[m])
    BY <2>1 DEF Provenance, Known
  <2>3. [m \in Node |-> Range(shown'[m])]
          = [[m \in Node |-> Range(shown[m])] EXCEPT ![n] = @ \cup {k}]
    <3>1. shown \in [Node -> Seq(Nonce)]
      BY DEF TypeOK, QueueTypeOK
    <3>2. Range(shown'[n]) = Range(shown[n]) \cup {k}
      <4>1. shown'[n] = Append(shown[n], k) /\ shown[n] \in Seq(Nonce)
        BY <1>2, <3>1
      <4>2. /\ DOMAIN shown'[n] = DOMAIN shown[n] \cup {Len(shown[n]) + 1}
            /\ shown'[n][Len(shown[n]) + 1] = k
            /\ \A i \in DOMAIN shown[n] : shown'[n][i] = shown[n][i]
        BY <2>1, <4>1
      <4> QED  BY <4>2 DEF Range
    <3>3. \A m \in Node \ {n} : shown'[m] = shown[m]
      BY <1>2, <3>1
    <3> QED  BY <3>2, <3>3
  <2>4. records \in [Node -> UNION {[P -> Record] : P \in SUBSET Node}]
    BY DEF TypeOK, RecordTypeOK
  <2>5. ASSUME u.kind = "POSITION" PROVE Replicas!Moves(n, u)
    <3>1. records' = [records EXCEPT ![n] =
            [p \in DOMAIN @ \cup {u.player} |->
               IF p = u.player THEN [time |-> u.time, pos |-> u.pos] ELSE @[p]]]
      BY <1>2, <2>4, <2>5 DEF Recorded
    <3>2. ASSUME u.player \in DOMAIN records[n] \ {n}
          PROVE  records[n][u.player].time <= u.time
      <4>1. /\ records[n][u.player].time \in Int
            /\ records[n][u.player].pos \in Int
        BY <3>2 DEF TypeOK, RecordTypeOK, Record
      <4>2. Dist(u.pos, records[n][u.player].pos)
              <= 10 * Speed * (u.time - records[n][u.player].time)
        BY <1>2, <2>5, <3>2 DEF Plausible
      <4> DEFINE t == u.time - records[n][u.player].time
                 d == u.pos - records[n][u.player].pos
      <4>3. d \in Int /\ t \in Int /\ u.time \in Int
        BY <2>1, <4>1
      <4>4. Abs(d) <= 10 * Speed * t
        BY <4>2 DEF Dist
      <4>5. t >= 0
        <5> HIDE DEF d, t
        <5> QED  BY <4>3, <4>4, NoNegativeTime
      <4> QED  BY <4>1, <4>3, <4>5
    <3> QED  BY <2>5, <3>1, <3>2 DEF Replicas!Moves
  <2>6. ASSUME u.kind = "FIRE" PROVE Replicas!Shoots(n, u)
    <3>1. records' = records
      BY <1>2, <2>4, <2>6 DEF Recorded
    <3>2. u.player \in DOMAIN records[n] \cup {n}
      BY <1>2, <2>6 DEF Plausible
    <3> QED  BY <2>6, <3>1, <3>2 DEF Replicas!Shoots
  <2>7. ASSUME u.kind = "DEAD" PROVE Replicas!Dies(n, u)
    BY <1>2, <2>4, <2>7 DEF Recorded, Replicas!Dies
  <2>8. Replicas!Moves(n, u) \/ Replicas!Shoots(n, u) \/ Replicas!Dies(n, u)
    BY <2>1, <2>5, <2>6, <2>7
  <2>9. Replicas!Tell(n)
    BY <2>1, <2>2, <2>3, <2>8 DEF Replicas!Tell, Nonce
  <2> QED  BY <2>9 DEF Replicas!Next
<1> QED  BY <1>1, <1>2, RecordUpdatePasses

LEMMA NextReplicas ==
    TypeOK /\ Provenance /\ [Next]_vars => [Replicas!Next]_(Replicas!vars)
<1> SUFFICES ASSUME TypeOK, Provenance, [Next]_vars
             PROVE  [Replicas!Next]_(Replicas!vars)
  OBVIOUS
<1>1. CASE \E n \in Node : RecordUpdate(n)
  BY <1>1, RecordUpdateTells
<1>2. CASE \A n \in Node : ~RecordUpdate(n)
  <2>1. UNCHANGED <<records, shown>>
    BY <1>2, OthersKeepHistory DEF recordVars
  <2>2. CASE UNCHANGED issued
    BY <2>1, <2>2 DEF Replicas!vars
  <2>3. ASSUME NEW new \in Seq(Update), issued' = issued \o new, new # <<>>
        PROVE  Replicas!Publish
    <3>1. issued \in Seq(Update)
      BY DEF TypeOK, PlayTypeOK
    <3>2. /\ Len(issued') > Len(issued)
          /\ SubSeq(issued', 1, Len(issued)) = issued
      <4>1. /\ issued' \in Seq(Update) /\ Len(issued') = Len(issued) + Len(new)
            /\ \A i \in 1..Len(issued) : issued'[i] = issued[i]
        BY <2>3, <3>1, ConcatProperties
      <4>2. Len(new) > 0 /\ Len(issued) \in Nat
        BY <2>3, <3>1
      <4>3. SubSeq(issued', 1, Len(issued)) = issued
        BY <3>1, <4>1, <4>2
      <4> QED  BY <4>1, <4>2, <4>3
    <3> QED  BY <2>1, <3>2 DEF Replicas!Publish
  <2> QED  BY <2>2, <2>3, IssuedExtends DEF Replicas!Next
<1> QED  BY <1>1, <1>2

(* The clients, with all their channels, packets and histories, implement the *)
(* boards of GameReplicas, for any players, overlay, clocks and speed.        *)
THEOREM FloodImplementsReplicas == Spec => KeepsReplicas
<1>1. Init => Replicas!Init
  BY InitReplicas
<1>2. TypeOK /\ Provenance /\ [Next]_vars => [Replicas!Next]_(Replicas!vars)
  BY NextReplicas
<1> QED
  BY <1>1, <1>2, InitTypeOK, NextTypeOK, InitProvenance, NextProvenance, PTL
  DEF Spec, KeepsReplicas, Replicas!Spec

-----------------------------------------------------------------------------
(* The screen                                                                 *)

(* After the first i updates of s, whose nonces are those of q, the tank of p *)
(* is there: it has shown a sign of life and has not died since               *)
On(q, s, i, p) ==
    \E j \in 1..i :
      /\ q[s[j]].player = p /\ q[s[j]].kind # "DEAD"
      /\ \A k \in (j + 1)..i : ~(q[s[k]].player = p /\ q[s[k]].kind = "DEAD")

LEMMA OnNext ==
    ASSUME NEW q, NEW s, NEW i \in Nat, NEW p
    PROVE  On(q, s, i + 1, p) <=>
             IF q[s[i + 1]].player = p THEN q[s[i + 1]].kind # "DEAD"
                                       ELSE On(q, s, i, p)
<1>1. CASE q[s[i + 1]].player = p /\ q[s[i + 1]].kind # "DEAD"
  <2>1. i + 1 \in 1..(i + 1) /\ (i + 1 + 1)..(i + 1) = {}
    OBVIOUS
  <2> QED  BY <1>1, <2>1 DEF On
<1>2. CASE q[s[i + 1]].player = p /\ q[s[i + 1]].kind = "DEAD"
  <2>1. \A j \in 1..(i + 1) : j = i + 1 \/ i + 1 \in (j + 1)..(i + 1)
    OBVIOUS
  <2> QED  BY <1>2, <2>1 DEF On
<1>3. CASE q[s[i + 1]].player # p
  <2>1. /\ 1..(i + 1) = (1..i) \cup {i + 1}
        /\ \A j \in 1..i : (j + 1)..(i + 1) = ((j + 1)..i) \cup {i + 1}
    OBVIOUS
  <2> QED  BY <1>3, <2>1 DEF On
<1> QED  BY <1>1, <1>2, <1>3

LEMMA OnSame ==
    ASSUME NEW q, NEW s, NEW r, NEW t, NEW i \in Nat, NEW p,
           \A j \in 1..i : r[t[j]] = q[s[j]]
    PROVE  On(r, t, i, p) <=> On(q, s, i, p)
<1>1. \A j \in 1..i : (j + 1)..i \subseteq 1..i
  OBVIOUS
<1> QED  BY <1>1 DEF On

(* The invariant: the two threads are at different places of the same history *)
(* of signs of life and deaths, and a shot is never the first sign of life.   *)
Drawn(n) ==
    /\ players[n] \subseteq Node \ {n}
    /\ \A p \in Node \ {n} : p \in players[n] <=> On(issued, shown[n], painted[n], p)

Recall(n) ==
    \A p \in Node \ {n} :
      p \in DOMAIN records[n] <=> On(issued, shown[n], Len(shown[n]), p)

ShotsFollow(n) ==
    \A i \in DOMAIN shown[n] :
      LET u == issued[shown[n][i]]
      IN  u.kind = "FIRE" /\ u.player # n => On(issued, shown[n], i - 1, u.player)

SameHistory == \A n \in Node : Drawn(n) /\ Recall(n) /\ ShotsFollow(n)

LEMMA InitSameHistory == Init => SameHistory
BY DEF Init, SameHistory, Drawn, Recall, ShotsFollow, On

(* A history that has grown is still the same up to where it was *)
LEMMA OnStays ==
    ASSUME TypeOK, [Next]_vars, NEW n \in Node, NEW i \in 0..Len(shown[n]), NEW p,
           \A j \in DOMAIN shown[n] : shown'[n][j] = shown[n][j]
    PROVE  On(issued', shown'[n], i, p) <=> On(issued, shown[n], i, p)
<1>1. shown[n] \in Seq(Nonce)
  BY DEF TypeOK, QueueTypeOK
<1>2. \A j \in 1..i : /\ shown'[n][j] = shown[n][j]
                      /\ shown[n][j] \in Nonce
  BY <1>1
<1>3. \A k \in Nonce : issued'[k] = issued[k]
  BY IssuedStays
<1>4. i \in Nat /\ \A j \in 1..i : issued'[shown'[n][j]] = issued[shown[n][j]]
  BY <1>1, <1>2, <1>3
<1> QED  BY <1>4, OnSame

(* Only doAcceptUpdates of n changes what n draws *)
LEMMA OnlyAcceptDraws ==
    ASSUME TypeOK, [Next]_vars, NEW n \in Node, ~AcceptUpdate(n)
    PROVE  painted'[n] = painted[n] /\ players'[n] = players[n]
<1> USE DEF paintVars
<1>1. ASSUME NEW m \in Node, Worker(m)
      PROVE  painted'[n] = painted[n] /\ players'[n] = players[n]
  <2>1. CASE AcceptUpdate(m)
    BY <2>1 DEF AcceptUpdate, TypeOK, PlayTypeOK, ReaderTypeOK
  <2> QED  BY <1>1, <2>1 DEF Worker, TakeUpdate, RecordUpdate, SendUpdate, Listen
<1>2. ASSUME NEW m, Player(m) PROVE UNCHANGED paintVars
  BY <1>2 DEF Player, Frame, BotFrame, Hit, RemovePeer, Issue
<1>3. CASE \/ \E m \in Node, o \in Offsets : SetOffset(m, o)
           \/ Lose \/ Tick \/ UNCHANGED vars
  BY <1>3 DEF SetOffset, Lose, Tick, vars
<1> QED  BY <1>1, <1>2, <1>3 DEF Next

(* What doAcceptUpdates takes, it draws *)
LEMMA AcceptDraws ==
    ASSUME TypeOK, NEW n \in Node, Drawn(n), AcceptUpdate(n)
    PROVE  Drawn(n)'
<1> DEFINE u == issued[shown[n][painted[n] + 1]]
<1>1. /\ painted[n] \in Nat /\ painted'[n] = painted[n] + 1
      /\ UNCHANGED <<issued, shown>>
      /\ players'[n] = IF u.player = n THEN players[n]
                       ELSE IF u.kind = "DEAD" THEN players[n] \ {u.player}
                       ELSE players[n] \cup {u.player}
  BY DEF AcceptUpdate, TypeOK, PlayTypeOK, ReaderTypeOK, recordVars
<1>2. u.player \in Node
  <2>1. shown[n][painted[n] + 1] \in Nonce
    <3>1. shown[n] \in Seq(Nonce) /\ painted[n] < Len(shown[n])
      BY DEF AcceptUpdate, TypeOK, QueueTypeOK
    <3>2. painted[n] + 1 \in 1..Len(shown[n])
      BY <1>1, <3>1
    <3> HIDE DEF u
    <3> QED  BY <3>1, <3>2
  <2>2. u \in Update
    BY <2>1 DEF TypeOK, PlayTypeOK, Nonce
  <2> QED  BY <2>2 DEF Update
<1>3. \A p : On(issued, shown[n], painted[n] + 1, p) <=>
               IF u.player = p THEN u.kind # "DEAD"
                               ELSE On(issued, shown[n], painted[n], p)
  BY <1>1, OnNext
<1> HIDE DEF u
<1> QED  BY <1>1, <1>2, <1>3 DEF Drawn

(* What RecordWorker passes on, it recalls, and a shot it passes on has a tank*)
LEMMA RecordRecalls ==
    ASSUME TypeOK, [Next]_vars, NEW n \in Node, Recall(n), ShotsFollow(n),
           RecordUpdate(n), Plausible(n, issued[taking[n]]),
           records' = [records EXCEPT ![n] = Recorded(n, issued[taking[n]])],
           shown' = [shown EXCEPT ![n] = Append(@, taking[n])]
    PROVE  Recall(n)' /\ ShotsFollow(n)'
<1> DEFINE u == issued[taking[n]]
           l == Len(shown[n])
<1>1. taking[n] \in Nonce /\ UNCHANGED issued
  BY RecordUpdatePasses
<1>2. shown[n] \in Seq(Nonce) /\ shown'[n] = Append(shown[n], taking[n])
  BY DEF TypeOK, QueueTypeOK
<1>3. /\ l \in Nat /\ Len(shown'[n]) = l + 1 /\ shown'[n][l + 1] = taking[n]
      /\ DOMAIN shown[n] = 1..l /\ DOMAIN shown'[n] = 1..(l + 1)
      /\ \A j \in 1..l : shown'[n][j] = shown[n][j]
  BY <1>1, <1>2
<1>4. \A i \in 0..l : \A p :
        On(issued', shown'[n], i, p) <=> On(issued, shown[n], i, p)
  BY <1>3, OnStays
<1>5. \A p : On(issued', shown'[n], l + 1, p) <=>
               IF u.player = p THEN u.kind # "DEAD" ELSE On(issued, shown[n], l, p)
  <2>1. \A p : On(issued', shown'[n], l + 1, p) <=>
                 IF issued'[shown'[n][l + 1]].player = p
                 THEN issued'[shown'[n][l + 1]].kind # "DEAD"
                 ELSE On(issued', shown'[n], l, p)
    BY <1>3, OnNext
  <2>2. issued'[shown'[n][l + 1]] = u /\ l \in 0..l
    BY <1>1, <1>3
  <2> QED  BY <1>4, <2>1, <2>2
<1>6. u.kind \in {"POSITION", "FIRE", "DEAD"} /\ u.player \in Node
  <2>1. u \in Update
    BY <1>1 DEF TypeOK, PlayTypeOK, Nonce
  <2> QED  BY <2>1 DEF Update
<1>7. u.kind = "FIRE" => u.player \in DOMAIN records[n] \cup {n}
  BY DEF Plausible
<1>8. records'[n] = Recorded(n, u)
  BY DEF TypeOK, RecordTypeOK
<1>9. \A p \in Node \ {n} :
        p \in DOMAIN records'[n] <=>
          IF u.player = p THEN u.kind # "DEAD" ELSE p \in DOMAIN records[n]
  <2>1. DOMAIN Recorded(n, u) =
          CASE u.kind = "DEAD" -> DOMAIN records[n] \ {u.player}
            [] u.kind = "FIRE" -> DOMAIN records[n]
            [] u.kind = "POSITION" -> DOMAIN records[n] \cup {u.player}
    <3> HIDE DEF u
    <3>1. CASE u.kind = "DEAD"
      BY <3>1 DEF Recorded
    <3>2. CASE u.kind = "FIRE"
      BY <3>2 DEF Recorded
    <3>3. CASE u.kind = "POSITION"
      BY <3>3 DEF Recorded
    <3> QED  BY <1>6, <3>1, <3>2, <3>3
  <2> HIDE DEF u
  <2> QED  BY <1>6, <1>7, <1>8, <2>1
<1>10. Recall(n)'
  BY <1>3, <1>5, <1>9 DEF Recall
<1>11. ASSUME NEW i \in DOMAIN shown'[n],
              issued'[shown'[n][i]].kind = "FIRE",
              issued'[shown'[n][i]].player # n
       PROVE  On(issued', shown'[n], i - 1, issued'[shown'[n][i]].player)
  <2>1. CASE i = l + 1
    <3>1. issued'[shown'[n][i]] = u
      BY <1>1, <1>3, <2>1
    <3> HIDE DEF u, l
    <3>2. u.kind = "FIRE" /\ u.player \in Node \ {n}
      BY <1>6, <1>11, <3>1
    <3>3. u.player \in DOMAIN records[n]
      BY <1>7, <3>2
    <3>4. On(issued, shown[n], l, u.player)
      BY <3>2, <3>3 DEF Recall, l
    <3>5. i - 1 = l /\ l \in 0..l
      BY <1>3, <2>1
    <3>6. On(issued', shown'[n], l, u.player)
      BY <1>4, <3>4, <3>5
    <3> QED  BY <3>1, <3>5, <3>6
  <2>2. CASE i \in 1..l
    <3>1. issued'[shown'[n][i]] = issued[shown[n][i]] /\ i - 1 \in 0..l
      BY <1>1, <1>3, <2>2
    <3>2. On(issued, shown[n], i - 1, issued[shown[n][i]].player)
      BY <1>3, <1>11, <2>2, <3>1 DEF ShotsFollow
    <3>3. On(issued', shown'[n], i - 1, issued[shown[n][i]].player)
      BY <1>4, <3>1, <3>2
    <3> QED  BY <3>1, <3>3
  <2> QED  BY <1>3, <2>1, <2>2
<1> QED  BY <1>10, <1>11 DEF ShotsFollow

LEMMA NextSameHistory == TypeOK /\ SameHistory /\ [Next]_vars => SameHistory'
<1> SUFFICES ASSUME TypeOK, SameHistory, [Next]_vars, NEW n \in Node
             PROVE  (Drawn(n) /\ Recall(n) /\ ShotsFollow(n))'
  BY DEF SameHistory
<1>0. /\ Drawn(n) /\ Recall(n) /\ ShotsFollow(n)
      /\ shown[n] \in Seq(Nonce) /\ painted[n] \in 0..Len(shown[n])
      /\ \A m \in Node : DOMAIN records = Node /\ DOMAIN shown = Node
  BY DEF SameHistory, TypeOK, QueueTypeOK, ReaderTypeOK, RecordTypeOK
<1>1. ASSUME \A j \in DOMAIN shown[n] : shown'[n][j] = shown[n][j],
             painted'[n] = painted[n], players'[n] = players[n]
      PROVE  Drawn(n)'
  <2>1. \A p : On(issued', shown'[n], painted[n], p)
                 <=> On(issued, shown[n], painted[n], p)
    BY <1>0, <1>1, OnStays
  <2> QED  BY <1>0, <1>1, <2>1 DEF Drawn
<1>2. ASSUME shown'[n] = shown[n], records'[n] = records[n]
      PROVE  Recall(n)' /\ ShotsFollow(n)'
  <2>1. \A i \in 0..Len(shown[n]) : \A p :
          On(issued', shown'[n], i, p) <=> On(issued, shown[n], i, p)
    BY <1>2, OnStays
  <2>2. Len(shown[n]) \in 0..Len(shown[n])
        /\ \A i \in DOMAIN shown[n] : i - 1 \in 0..Len(shown[n])
    BY <1>0
  <2>3. \A i \in DOMAIN shown[n] : issued'[shown[n][i]] = issued[shown[n][i]]
    BY <1>0, IssuedStays
  <2>4. Recall(n)'
    BY <1>0, <1>2, <2>1, <2>2 DEF Recall
  <2>5. ShotsFollow(n)'
    BY <1>0, <1>2, <2>1, <2>2, <2>3 DEF ShotsFollow
  <2> QED  BY <2>4, <2>5
<1>3. ASSUME NEW m \in Node, RecordUpdate(m)
      PROVE  (Drawn(n) /\ Recall(n) /\ ShotsFollow(n))'
  <2>1. UNCHANGED <<players, painted>>
    BY <1>3, RecordUpdatePasses
  <2>2. CASE shown'[n] = shown[n] /\ records'[n] = records[n]
    BY <1>1, <1>2, <2>1, <2>2
  <2>3. CASE /\ m = n /\ Plausible(n, issued[taking[n]])
             /\ records' = [records EXCEPT ![n] = Recorded(n, issued[taking[n]])]
             /\ shown' = [shown EXCEPT ![n] = Append(@, taking[n])]
    <3>1. \A j \in DOMAIN shown[n] : shown'[n][j] = shown[n][j]
      BY <1>0, <2>3
    <3> QED  BY <1>0, <1>1, <1>3, <2>1, <2>3, <3>1, RecordRecalls
  <2> QED  BY <1>0, <1>3, <2>2, <2>3, RecordUpdatePasses
<1>4. CASE \A m \in Node : ~RecordUpdate(m)
  <2>1. UNCHANGED <<shown, records>>
    BY <1>4, OthersKeepHistory DEF recordVars
  <2>2. CASE AcceptUpdate(n)
    BY <1>0, <1>2, <2>1, <2>2, AcceptDraws
  <2>3. CASE ~AcceptUpdate(n)
    <3>1. painted'[n] = painted[n] /\ players'[n] = players[n]
      BY <1>4, <2>3, OnlyAcceptDraws
    <3> QED  BY <1>1, <1>2, <2>1, <3>1
  <2> QED  BY <2>2, <2>3
<1> QED  BY <1>3, <1>4

(* When the main thread has caught up, the tanks it draws are those           *)
(* RecordWorker keeps a record of, in every state and for every overlay.      *)
THEOREM ScreenAgrees == Spec => []ScreenMatchesRecords
<1>1. TypeOK /\ SameHistory => ScreenMatchesRecords
  BY DEF TypeOK, RecordTypeOK, SameHistory, Drawn, Recall, ScreenMatchesRecords
<1> QED
  BY <1>1, InitTypeOK, NextTypeOK, InitSameHistory, NextSameHistory, PTL DEF Spec

LEMMA NextShots ==
    TypeOK /\ SameHistory /\ [Next]_vars =>
      [\A n \in Node :
         players'[n] \ players[n] # {} =>
           issued[shown[n][painted'[n]]].kind = "POSITION"]_vars
<1> SUFFICES ASSUME TypeOK, SameHistory, [Next]_vars, NEW n \in Node,
                    NEW p \in players'[n] \ players[n]
             PROVE  issued[shown[n][painted'[n]]].kind = "POSITION"
  OBVIOUS
<1> DEFINE i == painted[n] + 1
           u == issued[shown[n][i]]
<1>1. AcceptUpdate(n)
  BY OnlyAcceptDraws
<1>2. /\ painted[n] \in Nat /\ painted'[n] = i /\ i \in DOMAIN shown[n]
      /\ u.player = p /\ p # n /\ u.kind # "DEAD" /\ shown[n][i] \in Nonce
  <2>1. /\ painted[n] < Len(shown[n]) /\ painted' = [painted EXCEPT ![n] = i]
        /\ players' = [players EXCEPT
             ![n] = IF u.player = n THEN @
                    ELSE IF u.kind = "DEAD" THEN @ \ {u.player}
                    ELSE @ \cup {u.player}]
    BY <1>1 DEF AcceptUpdate
  <2>2. /\ painted \in [Node -> Nat] /\ shown[n] \in Seq(Nonce)
        /\ DOMAIN players = Node
    BY DEF TypeOK, ReaderTypeOK, QueueTypeOK, PlayTypeOK
  <2>3. painted[n] \in Nat /\ painted'[n] = i /\ i \in DOMAIN shown[n]
    <3>1. Len(shown[n]) \in Nat /\ DOMAIN shown[n] = 1..Len(shown[n])
      BY <2>2
    <3>2. painted[n] \in Nat /\ painted'[n] = i
      BY <2>1, <2>2
    <3> QED  BY <2>1, <3>1, <3>2
  <2>4. shown[n][i] \in Nonce
    BY <2>2, <2>3
  <2>5. players'[n] = IF u.player = n THEN players[n]
                      ELSE IF u.kind = "DEAD" THEN players[n] \ {u.player}
                      ELSE players[n] \cup {u.player}
    BY <2>1, <2>2
  <2> HIDE DEF u, i
  <2> QED  BY <2>3, <2>4, <2>5
<1>3. u.kind \in {"POSITION", "FIRE", "DEAD"} /\ u.player \in Node
  <2>1. u \in Update
    BY <1>2 DEF TypeOK, PlayTypeOK, Nonce
  <2> QED  BY <2>1 DEF Update
<1>4. u.kind # "FIRE"
  <2> SUFFICES ASSUME u.kind = "FIRE" PROVE FALSE
    OBVIOUS
  <2>1. u.kind = "FIRE" /\ u.player # n => On(issued, shown[n], i - 1, u.player)
    BY <1>2 DEF SameHistory, ShotsFollow
  <2>2. i - 1 = painted[n] /\ On(issued, shown[n], i - 1, p)
    <3>1. i - 1 = painted[n]
      BY <1>2
    <3> HIDE DEF u, i
    <3> QED  BY <1>2, <2>1, <3>1
  <2>3. p \in Node \ {n} /\ p \notin players[n]
    <3> HIDE DEF u
    <3> QED  BY <1>2, <1>3
  <2> QED  BY <2>2, <2>3 DEF SameHistory, Drawn
<1> QED  BY <1>2, <1>3, <1>4

(* No shot, only a position, brings a tank to the screen. *)
THEOREM ShotsNeedTanks == Spec => ShotsComeFromTanks
BY InitTypeOK, NextTypeOK, InitSameHistory, NextSameHistory, NextShots, PTL
DEF Spec, ShotsComeFromTanks

=============================================================================
