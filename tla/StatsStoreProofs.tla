-------------------------- MODULE StatsStoreProofs --------------------------
(* What is stored stays stored, a KVPut misses no replica, and a careful      *)
(* player loses no count, for any number of players, increments and replicas. *)
EXTENDS StatsStore, FiniteSetTheorems, SequenceTheorems, TLAPS

-----------------------------------------------------------------------------
(* Whom KVPut writes                                                          *)

LEMMA MaxMinOfTwo ==
    ASSUME NEW a \in Int, NEW b \in Int
    PROVE  /\ Max({a, b}) = IF a >= b THEN a ELSE b
           /\ Min({a, b}) = IF a <= b THEN a ELSE b
<1>1. /\ Max({a, b}) = CHOOSE x \in {a, b} : \A y \in {a, b} : x >= y
      /\ Min({a, b}) = CHOOSE x \in {a, b} : \A y \in {a, b} : x <= y
  BY DEF Max, Min
<1>2. CASE a >= b
  <2>1. \A x \in {a, b} : (\A y \in {a, b} : x >= y) <=> x = a
    BY <1>2
  <2>2. \A x \in {a, b} : (\A y \in {a, b} : x <= y) <=> x = b
    BY <1>2
  <2>3. Max({a, b}) = a /\ Min({a, b}) = b
    BY <1>1, <2>1, <2>2
  <2> QED  BY <1>2, <2>3
<1>3. CASE a < b
  <2>1. \A x \in {a, b} : (\A y \in {a, b} : x >= y) <=> x = b
    BY <1>3
  <2>2. \A x \in {a, b} : (\A y \in {a, b} : x <= y) <=> x = a
    BY <1>3
  <2>3. Max({a, b}) = b /\ Min({a, b}) = a
    BY <1>1, <2>1, <2>2
  <2> QED  BY <1>3, <2>3
<1> QED  BY <1>2, <1>3

(* How many are written to: at least those of the list who are CONNECTED,     *)
(* somebody while anybody is there, and Factor if there are as many           *)
Chosen(k, t) ==
    \E kept, n \in Nat :
      /\ kept = Cardinality(Online(k)) /\ kept <= n
      /\ t \in [1..n -> online]
      /\ online # {} => n > 0
      /\ Min({Cardinality(online), Factor}) <= n
      /\ \E at \in [1..kept -> Online(k)] :
           \A a \in 1..kept : /\ t[a] = holders[k][at[a]]
                              /\ \A b \in 1..(a - 1) : at[b] < at[a]
      /\ \A a \in (kept + 1)..n : \A b \in 1..(a - 1) : t[a] # t[b]
LEMMA TargetsCount ==
    ASSUME TypeOK, NEW k \in Client, NEW t \in Targets(k)
    PROVE  Chosen(k, t)
<1> DEFINE kept == Cardinality(Online(k))
           all  == Cardinality(online)
           n    == Max({kept, Min({all, Factor})})
<1>1. IsFiniteSet(Online(k)) /\ kept \in Nat
  <2>1. holders[k] \in Seq(Client)
    BY DEF TypeOK
  <2>2. Online(k) \subseteq 1..Len(holders[k]) /\ Len(holders[k]) \in Nat
    BY <2>1 DEF Online
  <2>3. IsFiniteSet(1..Len(holders[k]))
    BY <2>2, FS_Interval
  <2> QED  BY <2>2, <2>3, FS_Subset, FS_CardinalityType
<1>2. IsFiniteSet(online) /\ all \in Nat /\ (online # {} => all # 0)
  BY StatsAssumption, FS_Subset, FS_CardinalityType, FS_EmptySet DEF TypeOK
<1>3. Factor \in Nat /\ Factor > 0
  BY StatsAssumption
<1>4. /\ n \in Nat /\ kept <= n /\ (online # {} => n > 0)
      /\ Min({all, Factor}) <= n
  <2> HIDE DEF kept, all
  <2>1. /\ Min({all, Factor}) = IF all <= Factor THEN all ELSE Factor
        /\ Min({all, Factor}) \in Nat
    BY <1>2, <1>3, MaxMinOfTwo
  <2>2. n = IF kept >= Min({all, Factor}) THEN kept ELSE Min({all, Factor})
    BY <1>1, <2>1, MaxMinOfTwo
  <2> QED  BY <1>1, <1>2, <1>3, <2>1, <2>2
<1> HIDE DEF n, kept
<1> SUFFICES /\ t \in [1..n -> online]
             /\ \E at \in [1..kept -> Online(k)] :
                  \A a \in 1..kept : /\ t[a] = holders[k][at[a]]
                                     /\ \A b \in 1..(a - 1) : at[b] < at[a]
             /\ \A a \in (kept + 1)..n : \A b \in 1..(a - 1) : t[a] # t[b]
  BY <1>1, <1>4 DEF kept, Chosen
<1> QED  BY DEF Targets, n, kept

LEMMA TargetsType ==
    ASSUME TypeOK, NEW k \in Client, NEW t \in Targets(k)
    PROVE  t \in Seq(Client) /\ Range(t) \subseteq online
<1>1. PICK n \in Nat : t \in [1..n -> online]
  BY TargetsCount DEF Chosen
<1>2. online \subseteq Client
  BY DEF TypeOK
<1>3. t \in [1..n -> Client]
  BY <1>1, <1>2
<1> QED  BY <1>1, <1>3, IsASeq DEF Range

-----------------------------------------------------------------------------
(* Types                                                                      *)

LEMMA InitTypeOK == Init => TypeOK
<1> SUFFICES ASSUME Init PROVE TypeOK
  OBVIOUS
<1>1. {} \in Value /\ NoFile \in File /\ <<>> \in Seq(Client)
  BY DEF Value, File, NoFile
<1>2. Members \subseteq Client
  BY StatsAssumption
<1>3. /\ handle \in [Client -> {"nil", "live", "dead"}]
      /\ proc \in [Client -> {"off", "starting", "playing"}]
  BY DEF Init
<1>4. /\ memory \in [Client -> [Client -> Value]]
      /\ file \in [Client -> [Client -> File]]
      /\ last \in [Client -> Value] /\ wrote \in [Client -> SUBSET Client]
      /\ holders \in [Client -> Seq(Client)]
  BY <1>1 DEF Init
<1>5. /\ todo \in [Increment -> Seq(Client)] /\ val \in [Increment -> Value]
      /\ get = [i \in Increment |-> "none"] /\ put = [i \in Increment |-> "none"]
      /\ stage = [i \in Increment |-> "idle"]
  BY <1>1 DEF Init
<1>6. /\ ended = FALSE /\ online = Members /\ failures = 0 /\ raced = {}
  BY DEF Init
<1> QED  BY <1>2, <1>3, <1>4, <1>5, <1>6 DEF TypeOK

(* The parts of TypeOK, by who writes them *)
ServerTypes ==
    /\ ended \in BOOLEAN
    /\ online \in SUBSET Client
    /\ handle \in [Client -> {"nil", "live", "dead"}]
    /\ holders \in [Client -> Seq(Client)]

CallTypes ==
    /\ get \in [Increment -> {"none", "called", "holdsKeys", "done"}]
    /\ put \in [Increment -> {"none", "called", "holdsConns", "storing",
                              "writing", "done"}]
    /\ todo \in [Increment -> Seq(Client)]
    /\ \A i \in Increment : put[i] = "writing" => todo[i] # <<>>

ClientTypes ==
    /\ proc \in [Client -> {"off", "starting", "playing"}]
    /\ memory \in [Client -> [Client -> Value]]
    /\ file \in [Client -> [Client -> File]]

JobTypes ==
    /\ stage \in [Increment -> Underway \cup {"idle", "counted", "lost"}]
    /\ val \in [Increment -> Value]
    /\ failures \in Nat

HistoryTypes ==
    /\ last \in [Client -> Value] /\ wrote \in [Client -> SUBSET Client]
    /\ raced \in SUBSET Client

LEMMA KeyType == \A i \in Increment : Key(i) \in Client
BY StatsAssumption DEF Key

(* A call of KVPut, with what KVGet has come back with and one more *)
LEMMA GoesOnTypes ==
    ASSUME TypeOK, NEW i \in Increment, NEW v \in Value, GoesOn(i, v)
    PROVE  /\ stage' \in [Increment -> Underway \cup {"idle", "counted", "lost"}]
           /\ val' \in [Increment -> Value]
           /\ put' \in [Increment -> {"none", "called", "holdsConns", "storing",
                                      "writing", "done"}]
           /\ \A j \in Increment : put'[j] = "writing" => put[j] = "writing"
<1>1. v \cup {i} \in Value
  BY DEF Value
<1> QED  BY <1>1 DEF TypeOK, GoesOn, Underway

LEMMA EndsTypes ==
    ASSUME TypeOK, NEW c \in Client, Ends(c)
    PROVE  /\ proc' \in [Client -> {"off", "starting", "playing"}]
           /\ memory' \in [Client -> [Client -> Value]]
           /\ handle' \in [Client -> {"nil", "live", "dead"}]
           /\ stage' \in [Increment -> Underway \cup {"idle", "counted", "lost"}]
<1>1. [k \in Client |-> {}] \in [Client -> Value]
  BY DEF Value
<1>2. memory' \in [Client -> [Client -> Value]]
  BY <1>1 DEF TypeOK, Ends
<1> QED  BY <1>2 DEF TypeOK, Ends

LEMMA CountTypeOK ==
    ASSUME TypeOK, NEW i \in Increment, Count(i)
    PROVE  TypeOK'
<1> USE DEF serverVars, callVars, clientVars, jobVars, history
<1>0. Key(i) \in Client
  BY KeyType
<1>1. CASE Begin(i)
  <2>1. raced' \in SUBSET Client
    BY <1>1, KeyType DEF TypeOK, Begin
  <2> QED  BY <1>1, <2>1 DEF TypeOK, Begin, Underway
<1>2. CASE ReadOwn(i)
  <2>1. memory[Key(i)][Key(i)] \in Value
    BY <1>0 DEF TypeOK
  <2>2. GoesOn(i, memory[Key(i)][Key(i)])
    BY <1>2 DEF ReadOwn
  <2> HIDE DEF GoesOn
  <2> QED  BY <1>2, <2>1, <2>2, GoesOnTypes DEF TypeOK, ReadOwn
<1>3. CASE GetFails(i)
  <2>1. {} \in Value /\ GoesOn(i, {})
    BY <1>3 DEF GetFails, Value
  <2>2. failures' \in Nat
    BY <1>3 DEF GetFails, TypeOK
  <2> QED  BY <1>3, <2>1, <2>2, GoesOnTypes DEF TypeOK, GetFails
<1>4. CASE PutFails(i)
  <2>1. Ends(Key(i))
    BY <1>4 DEF PutFails
  <2>2. failures' \in Nat
    BY <1>4 DEF PutFails, TypeOK
  <2> QED  BY <1>0, <1>4, <2>1, <2>2, EndsTypes DEF TypeOK, PutFails
<1> QED  BY <1>1, <1>2, <1>3, <1>4 DEF Count

LEMMA ReplicaType ==
    ASSUME TypeOK, NEW c \in Client, NEW k \in Client
    PROVE  Replica(c, k) \in Value
BY DEF TypeOK, Replica, Value

LEMMA GetAnswersTypeOK ==
    ASSUME TypeOK, NEW i \in Increment, GetAnswers(i)
    PROVE  TypeOK'
<1> DEFINE k == Key(i)
           Reply(v) == /\ get' = [get EXCEPT ![i] = "done"]
                       /\ IF stage[i] = "getting" THEN GoesOn(i, v)
                                                  ELSE UNCHANGED <<jobVars, put>>
                       /\ UNCHANGED ended
<1>0. k \in Client
  BY KeyType
<1>1. UNCHANGED <<serverVars, todo, clientVars, failures, history>>
  BY DEF GetAnswers
<1>2. ASSUME NEW v \in Value, Reply(v) PROVE TypeOK'
  <2> USE DEF serverVars, clientVars, jobVars, history
  <2>1. CASE stage[i] = "getting"
    <3>1. GoesOn(i, v)
      BY <1>2, <2>1
    <3> QED  BY <1>1, <1>2, <3>1, GoesOnTypes DEF TypeOK
  <2>2. CASE stage[i] # "getting"
    BY <1>1, <1>2, <2>2 DEF TypeOK
  <2> QED  BY <2>1, <2>2
<1>3. CASE Online(k) = {} /\ Reply({})
  BY <1>2, <1>3 DEF Value
<1>4. ASSUME NEW j \in Online(k), holders[k][j] # k, Reply(Replica(holders[k][j], k))
      PROVE  TypeOK'
  <2>1. holders[k][j] \in Client
    BY <1>0 DEF TypeOK, Online
  <2> HIDE DEF Reply
  <2> QED  BY <1>0, <1>2, <1>4, <2>1, ReplicaType
<1>5. CASE /\ get' = [get EXCEPT ![i] = "done"]
           /\ stage' = [stage EXCEPT ![i] = IF @ = "getting" THEN "reading" ELSE @]
           /\ UNCHANGED <<ended, val, put>>
  BY <1>1, <1>5 DEF TypeOK, serverVars, clientVars, history, Underway
<1>6. CASE ended' = TRUE /\ UNCHANGED <<get, put, jobVars>>
  BY <1>1, <1>6 DEF TypeOK, serverVars, clientVars, jobVars, history
<1> QED  BY <1>3, <1>4, <1>5, <1>6 DEF GetAnswers

LEMMA PutStoredTypeOK ==
    ASSUME TypeOK, NEW i \in Increment, PutStored(i)
    PROVE  TypeOK'
<1> DEFINE c == Head(todo[i])
           k == Key(i)
<1>1. /\ k \in Client /\ c \in Client /\ Tail(todo[i]) \in Seq(Client)
      /\ val[i] \in Value
  BY KeyType, HeadTailProperties DEF PutStored, TypeOK
<1>2. UNCHANGED <<online, handle, get, proc, memory, jobVars, failures, last,
                  raced>>
  BY DEF PutStored
<1>3. CASE ended' = TRUE /\ UNCHANGED <<file, holders, put, todo, wrote>>
  BY <1>2, <1>3 DEF TypeOK, jobVars
<1>4. CASE /\ file' = [file EXCEPT ![c][k] = Full(val[i])]
           /\ holders' = [holders EXCEPT ![k] =
                            IF c \in Range(@) THEN @ ELSE Append(@, c)]
           /\ put' = [put EXCEPT ![i] = "storing"]
           /\ todo' = [todo EXCEPT ![i] = Tail(@)]
           /\ wrote' = [wrote EXCEPT ![k] = @ \cup {c}]
           /\ UNCHANGED ended
  <2> HIDE DEF c, k
  <2>1. Full(val[i]) \in File
    BY <1>1 DEF Full, File
  <2>2. file' \in [Client -> [Client -> File]]
    BY <1>1, <1>4, <2>1 DEF TypeOK
  <2>3. holders[k] \in Seq(Client) /\ Append(holders[k], c) \in Seq(Client)
    BY <1>1 DEF TypeOK
  <2>4. holders' \in [Client -> Seq(Client)]
    BY <1>4, <2>3 DEF TypeOK
  <2>5. todo' \in [Increment -> Seq(Client)]
    BY <1>1, <1>4 DEF TypeOK, c, k
  <2>6. /\ put' \in [Increment -> {"none", "called", "holdsConns", "storing",
                                   "writing", "done"}]
        /\ \A j \in Increment : put'[j] = "writing" => todo'[j] # <<>>
    BY <1>4 DEF TypeOK
  <2>7. wrote' \in [Client -> SUBSET Client]
    BY <1>1, <1>4 DEF TypeOK
  <2> QED
    BY <1>2, <1>4, <2>2, <2>4, <2>5, <2>6, <2>7 DEF TypeOK, jobVars
<1> QED  BY <1>3, <1>4 DEF PutStored

LEMMA ServeTypeOK ==
    ASSUME TypeOK, NEW i \in Increment, Serve(i)
    PROVE  TypeOK'
<1> USE DEF serverVars, callVars, clientVars, jobVars, history
<1>0. Key(i) \in Client /\ val[i] \in Value
  BY KeyType DEF TypeOK
<1>1. CASE GetLocksKeys(i)
  BY <1>1 DEF TypeOK, GetLocksKeys
<1>2. CASE GetAnswers(i)
  BY <1>2, GetAnswersTypeOK
<1>3. CASE PutLocksConns(i)
  BY <1>3 DEF TypeOK, PutLocksConns
<1>4. CASE PutLocksKeys(i)
  <2>1. PICK t \in Targets(Key(i)) : todo' = [todo EXCEPT ![i] = t]
    BY <1>4 DEF PutLocksKeys
  <2>2. t \in Seq(Client)
    BY <1>0, TargetsType
  <2>3. CallTypes'
    BY <1>4, <2>1, <2>2 DEF PutLocksKeys, TypeOK, CallTypes
  <2>4. HistoryTypes'
    BY <1>0, <1>4 DEF PutLocksKeys, TypeOK, HistoryTypes
  <2>5. ServerTypes' /\ ClientTypes' /\ JobTypes'
    BY <1>4 DEF PutLocksKeys, TypeOK, ServerTypes, ClientTypes, JobTypes
  <2> QED
    BY <2>3, <2>4, <2>5
    DEF TypeOK, ServerTypes, CallTypes, ClientTypes, JobTypes, HistoryTypes
<1>5. CASE PutCalls(i)
  <2>1. Head(todo[i]) \in Client /\ Empty \in File
    BY <1>5, HeadTailProperties DEF PutCalls, TypeOK, Empty, File, Value
  <2>2. ClientTypes'
    <3> DEFINE c == Head(todo[i])
    <3>1. CASE /\ memory' = [memory EXCEPT ![c][Key(i)] = val[i]]
               /\ file' = [file EXCEPT ![c][Key(i)] = Empty]
      <4>1. memory' \in [Client -> [Client -> Value]]
        BY <1>0, <2>1, <3>1 DEF TypeOK
      <4>2. file' \in [Client -> [Client -> File]]
        BY <1>0, <2>1, <3>1 DEF TypeOK
      <4> QED  BY <1>5, <4>1, <4>2 DEF PutCalls, TypeOK, ClientTypes
    <3>2. CASE UNCHANGED <<memory, file>>
      BY <1>5, <3>2 DEF PutCalls, TypeOK, ClientTypes
    <3> QED  BY <1>5, <3>1, <3>2 DEF PutCalls
  <2>3. CallTypes'
    BY <1>5 DEF PutCalls, TypeOK, CallTypes
  <2>4. ServerTypes'
    BY <1>5 DEF PutCalls, TypeOK, ServerTypes
  <2>5. JobTypes' /\ HistoryTypes'
    BY <1>5 DEF PutCalls, TypeOK, JobTypes, HistoryTypes
  <2> QED
    BY <2>2, <2>3, <2>4, <2>5
    DEF TypeOK, ServerTypes, CallTypes, ClientTypes, JobTypes, HistoryTypes
<1>6. CASE PutStored(i)
  BY <1>6, PutStoredTypeOK
<1>7. CASE PutDone(i)
  BY <1>7 DEF TypeOK, PutDone
<1> QED  BY <1>1, <1>2, <1>3, <1>4, <1>5, <1>6, <1>7 DEF Serve

LEMMA ClientTypeOK ==
    ASSUME TypeOK, NEW c \in Client,
           Leave(c) \/ Join(c) \/ Attach(c) \/ Crash(c) \/ Restart(c)
    PROVE  TypeOK'
<1> USE DEF serverVars, callVars, clientVars, jobVars, history
<1>1. CASE Leave(c)
  BY <1>1 DEF TypeOK, Leave
<1>2. CASE Join(c)
  BY <1>2 DEF TypeOK, Join
<1>3. CASE Attach(c)
  BY <1>3 DEF TypeOK, Attach
<1>4. CASE Crash(c)
  <2>1. Ends(c) /\ failures' \in Nat
    BY <1>4 DEF TypeOK, Crash
  <2> QED  BY <1>4, <2>1, EndsTypes DEF TypeOK, Crash
<1>5. CASE Restart(c)
  <2>1. [k \in Client |-> IF k \in Big THEN {} ELSE file[c][k].value]
          \in [Client -> Value]
    BY DEF TypeOK, File, Value
  <2>2. ClientTypes'
    BY <1>5, <2>1 DEF Restart, TypeOK, ClientTypes
  <2> QED
    BY <1>5, <2>2 DEF Restart, TypeOK, ClientTypes
<1> QED  BY <1>1, <1>2, <1>3, <1>4, <1>5

LEMMA NextTypeOK == TypeOK /\ [Next]_vars => TypeOK'
<1> SUFFICES ASSUME TypeOK, [Next]_vars PROVE TypeOK'
  OBVIOUS
<1>1. CASE UNCHANGED vars
  BY <1>1
  DEF vars, serverVars, callVars, clientVars, jobVars, history, TypeOK
<1> QED  BY <1>1, ServeTypeOK, CountTypeOK, ClientTypeOK DEF Next

(* Every variable of the store keeps its type, whatever fails. *)
THEOREM TypeCorrect == Spec => []TypeOK
BY InitTypeOK, NextTypeOK, PTL DEF Spec

-----------------------------------------------------------------------------
(* The handlers for i and its goroutine: KVPut is called once, when the value *)
(* is known, and one KVPut at a time is past its two locks.                   *)
CalledOnce ==
    \A i \in Increment : stage[i] \in {"idle", "getting", "reading"} =>
                           put[i] = "none"

OneStores == \A i, j \in Increment : Storing(i) /\ Storing(j) => i = j

(* A client is in a list once *)
ListsOnce == \A k \in Client : IsInjective(holders[k])

(* The KVPut in its loop: whom it has written it does not write again, and the*)
(* client it is writing has its map set and its file empty.                   *)
LoopInv ==
    \A i \in Increment : Storing(i) =>
      /\ last[Key(i)] = val[i]
      /\ IsInjective(todo[i])
      /\ \A c \in wrote[Key(i)] : c \notin Range(todo[i])

WritingInv ==
    \A i \in Increment : put[i] = "writing" =>
      LET c == Head(todo[i]) IN
      /\ file[c][Key(i)] = Empty
      /\ proc[c] # "off" => memory[c][Key(i)] = val[i]

StoreInv == /\ CalledOnce /\ OneStores /\ ListsOnce /\ LoopInv /\ WritingInv
            /\ CopiesDurable

LEMMA InitStoreInv == Init => StoreInv
BY DEF Init, StoreInv, CalledOnce, OneStores, ListsOnce, LoopInv, WritingInv,
       CopiesDurable, Storing, IsInjective

(* What touches neither the copies nor a KVPut in its loop *)
LEMMA StoreStays ==
    ASSUME TypeOK, StoreInv, CalledOnce',
           UNCHANGED <<holders, last, todo, wrote, file, memory>>,
           \A j \in Increment : /\ Storing(j)' => Storing(j)
                                /\ put[j] = "writing" <=> put'[j] = "writing"
                                /\ Storing(j) => val'[j] = val[j],
           \A c \in Client : proc'[c] = "off" <=> proc[c] = "off"
    PROVE  StoreInv'
<1> USE DEF StoreInv
<1>0. \A j \in Increment : put[j] = "writing" => /\ Storing(j)
                                                 /\ Head(todo[j]) \in Client
  BY HeadTailProperties DEF TypeOK, Storing
<1>1. OneStores'
  BY DEF OneStores
<1>2. ListsOnce'
  BY DEF ListsOnce
<1>3. LoopInv'
  BY DEF LoopInv, Key
<1>4. WritingInv'
  BY <1>0 DEF WritingInv, Key, Empty
<1>5. CopiesDurable'
  <2>1. \A k \in Client : wrote[k] \subseteq Client
    BY DEF TypeOK
  <2> QED  BY <2>1 DEF CopiesDurable, Full
<1> QED  BY <1>1, <1>2, <1>3, <1>4, <1>5

LEMMA GoesOnStoreInv ==
    ASSUME TypeOK, StoreInv, NEW i \in Increment, NEW v, GoesOn(i, v),
           stage[i] \in {"getting", "reading"},
           UNCHANGED <<ended, holders, last, todo, wrote, file, memory, proc>>
    PROVE  StoreInv'
<1>1. put[i] = "none"
  BY DEF StoreInv, CalledOnce
<1>2. CalledOnce'
  BY <1>1 DEF StoreInv, CalledOnce, TypeOK, GoesOn
<1>3. \A j \in Increment : /\ Storing(j)' => Storing(j)
                           /\ put[j] = "writing" <=> put'[j] = "writing"
                           /\ Storing(j) => val'[j] = val[j]
  BY <1>1 DEF TypeOK, GoesOn, Storing
<1> QED  BY <1>2, <1>3, StoreStays

LEMMA EndsStoreInv ==
    ASSUME TypeOK, StoreInv, NEW c \in Client, Ends(c),
           UNCHANGED <<ended, holders, put, todo, file, val, last, wrote>>
    PROVE  StoreInv'
<1> USE DEF StoreInv
<1>1. /\ proc' = [proc EXCEPT ![c] = "off"]
      /\ memory' = [memory EXCEPT ![c] = [k \in Client |-> {}]]
      /\ \A j \in Increment : stage'[j] \in {stage[j], "lost"}
  BY DEF Ends
<1>2. \A d \in Client : proc'[d] # "off" => proc[d] # "off" /\ memory'[d] = memory[d]
  BY <1>1 DEF TypeOK
<1>3. \A j \in Increment : Storing(j)' <=> Storing(j)
  BY DEF Storing
<1>4. CalledOnce'
  BY <1>1 DEF CalledOnce
<1>5. OneStores' /\ ListsOnce' /\ LoopInv'
  BY <1>3 DEF OneStores, ListsOnce, LoopInv, Key
<1>6. WritingInv'
  <2>1. \A j \in Increment : put[j] = "writing" => Head(todo[j]) \in Client
    BY HeadTailProperties DEF TypeOK
  <2> QED  BY <1>2, <2>1 DEF WritingInv, Key, Empty
<1>7. CopiesDurable'
  <2>1. \A k \in Client : wrote[k] \subseteq Client
    BY DEF TypeOK
  <2> QED  BY <1>2, <2>1 DEF CopiesDurable, Full
<1> QED  BY <1>4, <1>5, <1>6, <1>7

LEMMA CountStoreInv ==
    ASSUME TypeOK, StoreInv, NEW i \in Increment, Count(i)
    PROVE  StoreInv'
<1>1. CASE Begin(i)
  <2>1. CalledOnce'
    BY <1>1 DEF StoreInv, CalledOnce, TypeOK, Begin
  <2>2. /\ UNCHANGED <<ended, holders, last, todo, wrote, file, memory, proc, put,
                       val>>
    BY <1>1 DEF Begin, serverVars, clientVars
  <2> QED  BY <2>1, <2>2, StoreStays DEF Storing
<1>2. CASE ReadOwn(i)
  <2>1. /\ UNCHANGED <<ended, holders, last, todo, wrote, file, memory, proc>>
        /\ GoesOn(i, memory[Key(i)][Key(i)]) /\ stage[i] = "reading"
    BY <1>2 DEF ReadOwn, serverVars, clientVars, history
  <2> QED  BY <2>1, GoesOnStoreInv
<1>3. CASE GetFails(i)
  <2>1. /\ UNCHANGED <<ended, holders, last, todo, wrote, file, memory, proc>>
        /\ GoesOn(i, {}) /\ stage[i] = "getting"
    BY <1>3 DEF GetFails, serverVars, clientVars, history
  <2> QED  BY <2>1, GoesOnStoreInv
<1>4. CASE PutFails(i)
  <2>1. /\ UNCHANGED <<ended, holders, put, todo, file, val, last, wrote>>
        /\ Ends(Key(i))
    BY <1>4 DEF PutFails, callVars, history
  <2> QED  BY <2>1, KeyType, EndsStoreInv
<1> QED  BY <1>1, <1>2, <1>3, <1>4 DEF Count

LEMMA ClientStoreInv ==
    ASSUME TypeOK, StoreInv, NEW c \in Client,
           Leave(c) \/ Join(c) \/ Attach(c) \/ Crash(c) \/ Restart(c)
    PROVE  StoreInv'
<1> USE DEF serverVars, callVars, clientVars, jobVars, history
<1>1. CASE Leave(c) \/ Attach(c)
  <2>1. UNCHANGED <<ended, holders, last, todo, wrote, file, memory, proc, put,
                    val, stage>>
    BY <1>1 DEF Leave, Attach
  <2>2. CalledOnce'
    BY <2>1 DEF StoreInv, CalledOnce
  <2> QED  BY <2>1, <2>2, StoreStays DEF Storing
<1>2. CASE Join(c)
  <2>1. /\ UNCHANGED <<ended, holders, last, todo, wrote, file, memory, put, val,
                       stage>>
        /\ \A d \in Client : proc'[d] = "off" <=> proc[d] = "off"
    BY <1>2 DEF Join, TypeOK
  <2>2. CalledOnce'
    BY <2>1 DEF StoreInv, CalledOnce
  <2> QED  BY <2>1, <2>2, StoreStays DEF Storing
<1>3. CASE Crash(c)
  <2>1. /\ UNCHANGED <<ended, holders, put, todo, file, val, last, wrote>>
        /\ Ends(c)
    BY <1>3 DEF Crash
  <2> QED  BY <2>1, EndsStoreInv
<1>4. CASE Restart(c)
  <2> USE DEF StoreInv
  <2>1. /\ UNCHANGED <<ended, holders, put, todo, file, val, last, wrote, stage>>
        /\ proc[c] = "off" /\ proc' = [proc EXCEPT ![c] = "starting"]
        /\ \A k \in Client : file[c][k].is # "empty"
        /\ memory' = [memory EXCEPT ![c] =
                 [k \in Client |-> IF k \in Big THEN {} ELSE file[c][k].value]]
    BY <1>4 DEF Restart
  <2>2. \A j \in Increment : Storing(j)' <=> Storing(j)
    BY <2>1 DEF Storing
  <2>3. CalledOnce' /\ OneStores' /\ ListsOnce' /\ LoopInv'
    BY <2>1, <2>2 DEF CalledOnce, OneStores, ListsOnce, LoopInv, Key
  <2>4. WritingInv'
    <3> SUFFICES ASSUME NEW j \in Increment, put[j] = "writing"
                 PROVE  /\ file[Head(todo[j])][Key(j)] = Empty
                        /\ proc'[Head(todo[j])] # "off" =>
                             memory'[Head(todo[j])][Key(j)] = val[j]
      BY <2>1 DEF WritingInv, Key, Empty
    <3>1. Head(todo[j]) \in Client /\ Key(j) \in Client
      BY HeadTailProperties, KeyType DEF TypeOK
    <3>2. file[Head(todo[j])][Key(j)] = Empty
      BY DEF WritingInv
    <3>3. Head(todo[j]) # c
      BY <2>1, <3>1, <3>2 DEF Empty
    <3> QED  BY <2>1, <3>1, <3>2, <3>3 DEF WritingInv, TypeOK
  <2>5. CopiesDurable'
    <3> SUFFICES ASSUME NEW k \in Client, NEW d \in wrote[k]
                 PROVE  /\ d \in Range(holders[k])
                        /\ file[d][k] = Full(last[k])
                        /\ proc'[d] # "off" /\ k \notin Big =>
                             memory'[d][k] = last[k]
      BY <2>1 DEF CopiesDurable, Full
    <3>1. /\ d \in Client /\ d \in Range(holders[k]) /\ file[d][k] = Full(last[k])
          /\ proc[d] # "off" /\ k \notin Big => memory[d][k] = last[k]
      BY DEF TypeOK, CopiesDurable
    <3>2. CASE d = c
      BY <2>1, <3>1, <3>2 DEF TypeOK, Full
    <3>3. CASE d # c
      BY <2>1, <3>1, <3>3 DEF TypeOK
    <3> QED  BY <3>2, <3>3
  <2> QED  BY <2>3, <2>4, <2>5
<1> QED  BY <1>1, <1>2, <1>3, <1>4

(* Taking a client off the list that is to be written, and adding one to the  *)
(* list of a key                                                              *)
LEMMA HeadAndTail ==
    ASSUME NEW t \in Seq(Client), t # <<>>
    PROVE  /\ Range(t) = {Head(t)} \cup Range(Tail(t))
           /\ IsInjective(t) => Head(t) \notin Range(Tail(t)) /\ IsInjective(Tail(t))
<1> DEFINE n == Len(t)
<1>1. /\ n \in Nat /\ n > 0 /\ DOMAIN t = 1..n /\ Head(t) = t[1]
      /\ DOMAIN Tail(t) = 1..(n - 1)
      /\ \A a \in 1..(n - 1) : Tail(t)[a] = t[a + 1]
  BY HeadTailProperties
<1> HIDE DEF n
<1>2. Range(t) = {t[a] : a \in 1..n} /\ Range(Tail(t)) = {t[a + 1] : a \in 1..(n - 1)}
  BY <1>1 DEF Range
<1>3. \A a \in 1..n : a = 1 \/ (a - 1 \in 1..(n - 1) /\ a = (a - 1) + 1)
  BY <1>1
<1>4. \A a \in 1..(n - 1) : a + 1 \in 1..n /\ a + 1 # 1
  BY <1>1
<1>5. Range(t) = {Head(t)} \cup Range(Tail(t))
  <2>1. 1 \in 1..n
    BY <1>1
  <2>2. \A a \in 1..n : t[a] = t[1] \/ t[a] \in Range(Tail(t))
    BY <1>2, <1>3
  <2>3. \A a \in 1..(n - 1) : t[a + 1] \in Range(t)
    BY <1>2, <1>4
  <2> QED  BY <1>1, <1>2, <2>1, <2>2, <2>3
<1>6. ASSUME IsInjective(t) PROVE Head(t) \notin Range(Tail(t)) /\ IsInjective(Tail(t))
  <2>1. \A a, b \in 1..n : t[a] = t[b] => a = b
    BY <1>1, <1>6 DEF IsInjective
  <2>2. Head(t) \notin Range(Tail(t))
    BY <1>1, <1>2, <1>4, <2>1
  <2>3. \A a, b \in 1..(n - 1) : a + 1 = b + 1 => a = b
    BY <1>1
  <2>4. IsInjective(Tail(t))
    BY <1>1, <1>4, <2>1, <2>3 DEF IsInjective
  <2> QED  BY <2>2, <2>4
<1> QED  BY <1>5, <1>6

LEMMA OneMore ==
    ASSUME NEW t \in Seq(Client), NEW c \in Client
    PROVE  /\ Range(Append(t, c)) = Range(t) \cup {c}
           /\ IsInjective(t) /\ c \notin Range(t) => IsInjective(Append(t, c))
<1> DEFINE n == Len(t)
           u == Append(t, c)
<1>1. /\ n \in Nat /\ DOMAIN t = 1..n /\ DOMAIN u = 1..(n + 1)
      /\ \A a \in 1..n : u[a] = t[a]
      /\ u[n + 1] = c
  BY AppendProperties
<1> HIDE DEF n, u
<1>2. \A a \in 1..(n + 1) : a \in 1..n \/ a = n + 1
  BY <1>1
<1>3. /\ \A a \in 1..n : a \in 1..(n + 1)
      /\ n + 1 \in 1..(n + 1)
  BY <1>1
<1>4. Range(u) = Range(t) \cup {c}
  BY <1>1, <1>2, <1>3 DEF Range
<1>5. IsInjective(t) /\ c \notin Range(t) => IsInjective(u)
  BY <1>1, <1>2 DEF IsInjective, Range
<1> QED  BY <1>4, <1>5 DEF u

(* Nobody is to be written twice, since nobody is in the list twice; and the  *)
(* CONNECTED clients of the list are all to be written, for as many of them   *)
(* are taken in the order of the list as there are.                           *)
LEMMA TargetsOnce ==
    ASSUME TypeOK, ListsOnce, NEW k \in Client, NEW t \in Targets(k)
    PROVE  /\ IsInjective(t)
           /\ \A j \in Online(k) : holders[k][j] \in Range(t)
           /\ online # {} => Range(t) # {}
           /\ Cardinality(Range(t)) >= Min({Cardinality(online), Factor})
<1>0. Chosen(k, t)
  BY TargetsCount
<1>1. PICK kept, n \in Nat :
             /\ kept = Cardinality(Online(k)) /\ kept <= n
             /\ t \in [1..n -> online]
             /\ online # {} => n > 0
             /\ Min({Cardinality(online), Factor}) <= n
             /\ \E at \in [1..kept -> Online(k)] :
                  \A a \in 1..kept : /\ t[a] = holders[k][at[a]]
                                     /\ \A b \in 1..(a - 1) : at[b] < at[a]
             /\ \A a \in (kept + 1)..n : \A b \in 1..(a - 1) : t[a] # t[b]
  BY <1>0 DEF Chosen
<1>2. PICK at \in [1..kept -> Online(k)] :
             \A a \in 1..kept : /\ t[a] = holders[k][at[a]]
                                /\ \A b \in 1..(a - 1) : at[b] < at[a]
  BY <1>1
<1>3. /\ holders[k] \in Seq(Client) /\ Online(k) \subseteq DOMAIN holders[k]
      /\ DOMAIN holders[k] = 1..Len(holders[k]) /\ Len(holders[k]) \in Nat
      /\ \A a, b \in DOMAIN holders[k] : holders[k][a] = holders[k][b] => a = b
  BY DEF TypeOK, Online, ListsOnce, IsInjective
<1>4. \A a \in 1..kept : \A b \in 1..(a - 1) : at[a] # at[b] /\ b \in 1..kept
  <2> SUFFICES ASSUME NEW a \in 1..kept, NEW b \in 1..(a - 1)
               PROVE  at[a] # at[b] /\ b \in 1..kept
    OBVIOUS
  <2>1. b \in 1..kept
    BY <1>1
  <2>2. at[a] \in Nat /\ at[b] \in Nat /\ at[b] < at[a]
    BY <1>2, <1>3, <2>1
  <2> QED  BY <2>1, <2>2
<1>5. \A a \in 1..n : \A b \in 1..(a - 1) : t[a] # t[b]
  <2> SUFFICES ASSUME NEW a \in 1..n, NEW b \in 1..(a - 1) PROVE t[a] # t[b]
    OBVIOUS
  <2>1. CASE a \in 1..kept
    <3>1. /\ at[a] \in DOMAIN holders[k] /\ at[b] \in DOMAIN holders[k]
          /\ at[a] # at[b]
      BY <1>2, <1>3, <1>4, <2>1
    <3>2. t[a] = holders[k][at[a]] /\ t[b] = holders[k][at[b]]
      BY <1>2, <1>4, <2>1
    <3> QED  BY <1>3, <3>1, <3>2
  <2>2. CASE a \in (kept + 1)..n
    BY <1>1, <2>2
  <2> QED  BY <1>1, <2>1, <2>2
<1>6. IsInjective(t)
  <2> SUFFICES ASSUME NEW a \in 1..n, NEW b \in 1..n, t[a] = t[b] PROVE a = b
    BY <1>1 DEF IsInjective
  <2>1. a < b => a \in 1..(b - 1)
    OBVIOUS
  <2>2. b < a => b \in 1..(a - 1)
    OBVIOUS
  <2>3. ~(a < b) /\ ~(b < a)
    BY <1>5, <2>1, <2>2
  <2> QED  BY <2>3
<1>7. ASSUME NEW j \in Online(k) PROVE holders[k][j] \in Range(t)
  <2>1. at \in Injection(1..kept, Online(k))
    <3> SUFFICES ASSUME NEW a \in 1..kept, NEW b \in 1..kept, at[a] = at[b]
                 PROVE  a = b
      BY <1>2 DEF Injection, IsInjective
    <3>1. a < b => a \in 1..(b - 1)
      OBVIOUS
    <3>2. b < a => b \in 1..(a - 1)
      OBVIOUS
    <3>3. ~(a < b) /\ ~(b < a)
      BY <1>4, <3>1, <3>2
    <3> QED  BY <3>3
  <2>2. IsFiniteSet(Online(k)) /\ Cardinality(1..kept) = Cardinality(Online(k))
    <3>0. 1 \in Int /\ Len(holders[k]) \in Int /\ kept \in Int
      BY <1>1, <1>3
    <3>1. IsFiniteSet(1..Len(holders[k]))
      BY <3>0, FS_Interval
    <3>2. IsFiniteSet(Online(k))
      BY <1>3, <3>1, FS_Subset
    <3>3. Cardinality(1..kept) = IF 1 > kept THEN 0 ELSE kept - 1 + 1
      BY <3>0, FS_Interval
    <3>4. (IF 1 > kept THEN 0 ELSE kept - 1 + 1) = kept
      BY <1>1
    <3> QED  BY <1>1, <3>2, <3>3, <3>4
  <2>3. at \in Surjection(1..kept, Online(k))
    BY <2>1, <2>2, FS_Injection
  <2>4. PICK a \in 1..kept : at[a] = j
    BY <2>3, <1>7 DEF Surjection
  <2>5. a \in 1..n /\ t[a] = holders[k][j]
    BY <1>1, <1>2, <2>4
  <2> QED  BY <1>1, <2>5 DEF Range
<1>8. online # {} => Range(t) # {}
  <2>1. online # {} => 1 \in DOMAIN t
    BY <1>1
  <2> QED  BY <2>1 DEF Range
<1>9. Cardinality(Range(t)) = n
  <2>1. t \in Surjection(1..n, Range(t)) /\ t \in Injection(1..n, Range(t))
    BY <1>1, <1>6 DEF Range, Surjection, Injection
  <2>2. IsFiniteSet(1..n) /\ Cardinality(1..n) = n
    <3>1. 1 \in Int /\ n \in Int
      BY <1>1
    <3>2. IsFiniteSet(1..n) /\ Cardinality(1..n) = IF 1 > n THEN 0 ELSE n - 1 + 1
      BY <3>1, FS_Interval
    <3>3. (IF 1 > n THEN 0 ELSE n - 1 + 1) = n
      BY <1>1
    <3> QED  BY <3>2, <3>3
  <2>3. Cardinality(Range(t)) = Cardinality(1..n)
    BY <2>1, <2>2, FS_Surjection
  <2> QED  BY <2>2, <2>3
<1>10. Cardinality(Range(t)) >= Min({Cardinality(online), Factor})
  <2>1. Min({Cardinality(online), Factor}) \in Int
    <3>1. IsFiniteSet(online)
      BY StatsAssumption, FS_Subset DEF TypeOK
    <3> DEFINE all == Cardinality(online)
    <3>2. all \in Int /\ Factor \in Int
      BY <3>1, FS_CardinalityType, StatsAssumption
    <3> HIDE DEF all
    <3>3. Min({all, Factor}) = IF all <= Factor THEN all ELSE Factor
      BY <3>2, MaxMinOfTwo
    <3>4. Min({all, Factor}) \in Int
      BY <3>2, <3>3
    <3> QED  BY <3>4 DEF all
  <2> QED  BY <1>1, <1>9, <2>1
<1> QED  BY <1>6, <1>7, <1>8, <1>10

LEMMA PutLocksKeysStoreInv ==
    ASSUME TypeOK, StoreInv, NEW i \in Increment, PutLocksKeys(i)
    PROVE  StoreInv'
<1> USE DEF StoreInv
<1>1. PICK t \in Targets(Key(i)) : todo' = [todo EXCEPT ![i] = t]
  BY DEF PutLocksKeys
<1>2. /\ put[i] = "holdsConns" /\ put' = [put EXCEPT ![i] = "storing"]
      /\ last' = [last EXCEPT ![Key(i)] = val[i]]
      /\ wrote' = [wrote EXCEPT ![Key(i)] = {}]
      /\ UNCHANGED <<ended, holders, proc, memory, file, stage, val>>
      /\ \A j \in Increment : ~Storing(j)
  BY DEF PutLocksKeys, KeysFree, serverVars, clientVars, jobVars
<1>3. \A j \in Increment : Storing(j)' => j = i
  BY <1>2 DEF Storing, TypeOK
<1>4. CalledOnce' /\ OneStores' /\ ListsOnce'
  BY <1>2, <1>3 DEF CalledOnce, OneStores, ListsOnce, TypeOK
<1>5. LoopInv'
  <2>1. IsInjective(t)
    BY KeyType, TargetsOnce
  <2>2. todo'[i] = t /\ last'[Key(i)] = val[i] /\ wrote'[Key(i)] = {}
    BY <1>1, <1>2, KeyType DEF TypeOK
  <2> QED  BY <1>2, <1>3, <2>1, <2>2 DEF LoopInv, Key
<1>6. \A j \in Increment : put[j] # "writing" /\ put'[j] # "writing"
  BY <1>2 DEF Storing, TypeOK
<1>7. WritingInv'
  BY <1>2, <1>6 DEF WritingInv
<1>8. CopiesDurable'
  <2>1. \A k \in Client : \/ wrote'[k] = {}
                          \/ wrote'[k] = wrote[k] /\ last'[k] = last[k]
    BY <1>2 DEF TypeOK
  <2> QED  BY <1>2, <2>1 DEF CopiesDurable, Full
<1> QED  BY <1>4, <1>5, <1>7, <1>8

(* KVClientPut at c: its map is set and its file truncated *)
LEMMA PutCallsStoreInv ==
    ASSUME TypeOK, StoreInv, NEW i \in Increment, PutCalls(i)
    PROVE  StoreInv'
<1> USE DEF StoreInv
<1> DEFINE c == Head(todo[i])
           k == Key(i)
<1>1. /\ put[i] = "storing" /\ todo[i] # <<>>
      /\ UNCHANGED <<holders, todo, stage, val, last, wrote, proc>>
      /\ k \in Client /\ c \in Client /\ c \in Range(todo[i])
  BY KeyType, HeadTailProperties, HeadAndTail
  DEF PutCalls, TypeOK, serverVars, jobVars, history
<1>2. CASE ended' = TRUE /\ UNCHANGED <<put, memory, file>>
  <2>1. CalledOnce'
    BY <1>1, <1>2 DEF CalledOnce
  <2> QED  BY <1>1, <1>2, <2>1, StoreStays DEF Storing
<1>3. CASE /\ put' = [put EXCEPT ![i] = "writing"]
           /\ memory' = [memory EXCEPT ![c][k] = val[i]]
           /\ file' = [file EXCEPT ![c][k] = Empty]
           /\ UNCHANGED ended
  <2> HIDE DEF c, k
  <2>1. \A j \in Increment : Storing(j)' <=> Storing(j)
    BY <1>1, <1>3 DEF Storing, TypeOK
  <2>2. \A j \in Increment : put'[j] = "writing" <=> j = i
    BY <1>1, <1>3 DEF OneStores, Storing, TypeOK
  <2>3. CalledOnce' /\ OneStores' /\ ListsOnce' /\ LoopInv'
    BY <1>1, <1>3, <2>1
    DEF CalledOnce, OneStores, ListsOnce, LoopInv, Key, TypeOK
  <2>4. file'[c][k] = Empty /\ memory'[c][k] = val[i]
    BY <1>1, <1>3 DEF TypeOK
  <2>5. \A d, l \in Client : d # c \/ l # k => /\ file'[d][l] = file[d][l]
                                               /\ memory'[d][l] = memory[d][l]
    BY <1>1, <1>3 DEF TypeOK
  <2>6. WritingInv'
    BY <1>1, <2>2, <2>4 DEF WritingInv, Empty, Key, c, k
  <2>7. CopiesDurable'
    <3> SUFFICES ASSUME NEW l \in Client, NEW d \in wrote[l]
                 PROVE  /\ d \in Range(holders[l])
                        /\ file'[d][l] = Full(last[l])
                        /\ proc[d] # "off" /\ l \notin Big =>
                             memory'[d][l] = last[l]
      BY <1>1 DEF CopiesDurable, Full
    <3>1. d \in Client
      BY DEF TypeOK
    <3>2. d # c \/ l # k
      BY <1>1 DEF LoopInv, Storing, c, k
    <3> QED  BY <2>5, <3>1, <3>2 DEF CopiesDurable
  <2> QED  BY <2>3, <2>6, <2>7
<1> QED  BY <1>2, <1>3 DEF PutCalls

(* KVClientPut has come back *)
LEMMA PutStoredStoreInv ==
    ASSUME TypeOK, StoreInv, NEW i \in Increment, PutStored(i)
    PROVE  StoreInv'
<1> USE DEF StoreInv
<1> DEFINE c == Head(todo[i])
           k == Key(i)
<1>1. /\ put[i] = "writing" /\ todo[i] # <<>> /\ todo[i] \in Seq(Client)
      /\ UNCHANGED <<stage, val, last, proc, memory>>
      /\ k \in Client /\ c \in Client /\ Tail(todo[i]) \in Seq(Client)
      /\ holders[k] \in Seq(Client)
  BY KeyType, HeadTailProperties DEF PutStored, TypeOK, jobVars
<1>2. CASE ended' = TRUE /\ UNCHANGED <<file, holders, put, todo, wrote>>
  <2>1. CalledOnce'
    BY <1>1, <1>2 DEF CalledOnce
  <2> QED  BY <1>1, <1>2, <2>1, StoreStays DEF Storing
<1>3. CASE /\ proc[c] # "off"
           /\ file' = [file EXCEPT ![c][k] = Full(val[i])]
           /\ holders' = [holders EXCEPT ![k] =
                            IF c \in Range(@) THEN @ ELSE Append(@, c)]
           /\ put' = [put EXCEPT ![i] = "storing"]
           /\ todo' = [todo EXCEPT ![i] = Tail(@)]
           /\ wrote' = [wrote EXCEPT ![k] = @ \cup {c}]
           /\ UNCHANGED ended
  <2>0. /\ Range(todo[i]) = {c} \cup Range(Tail(todo[i]))
        /\ c \notin Range(Tail(todo[i])) /\ IsInjective(Tail(todo[i]))
        /\ \A d \in wrote[k] : d \notin Range(todo[i])
        /\ last[k] = val[i]
    BY <1>1, HeadAndTail DEF LoopInv, Storing
  <2> HIDE DEF c, k
  <2>1. \A j \in Increment : /\ Storing(j)' <=> j = i
                             /\ Storing(j) <=> j = i
                             /\ put[j] = "writing" <=> j = i
                             /\ put'[j] # "writing"
    BY <1>1, <1>3 DEF OneStores, Storing, TypeOK
  <2>2. CalledOnce' /\ OneStores'
    BY <1>1, <1>3, <2>1 DEF CalledOnce, OneStores, TypeOK
  <2>3. \A l \in Client :
          /\ Range(holders'[l]) = IF l = k THEN Range(holders[l]) \cup {c}
                                           ELSE Range(holders[l])
          /\ IsInjective(holders'[l])
    <3> SUFFICES ASSUME NEW l \in Client
                 PROVE  /\ Range(holders'[l]) =
                             IF l = k THEN Range(holders[l]) \cup {c}
                                      ELSE Range(holders[l])
                        /\ IsInjective(holders'[l])
      OBVIOUS
    <3>1. IsInjective(holders[l])
      BY DEF ListsOnce
    <3>2. CASE l # k \/ c \in Range(holders[k])
      <4>1. holders'[l] = holders[l]
        BY <1>1, <1>3, <3>2 DEF TypeOK
      <4> QED  BY <3>1, <3>2, <4>1
    <3>3. CASE l = k /\ c \notin Range(holders[k])
      <4>1. holders'[l] = Append(holders[l], c)
        BY <1>1, <1>3, <3>3 DEF TypeOK
      <4> QED  BY <1>1, <3>1, <3>3, <4>1, OneMore
    <3> QED  BY <3>2, <3>3
  <2>4. ListsOnce'
    BY <2>3 DEF ListsOnce
  <2>5. \A l \in Client : wrote'[l] = IF l = k THEN wrote[l] \cup {c} ELSE wrote[l]
    BY <1>1, <1>3 DEF TypeOK
  <2>6. LoopInv'
    <3>1. todo'[i] = Tail(todo[i])
      BY <1>3 DEF TypeOK
    <3>2. \A d \in wrote'[k] : d \notin Range(todo'[i])
      BY <1>1, <2>0, <2>5, <3>1
    <3> QED  BY <1>1, <2>0, <2>1, <3>1, <3>2 DEF LoopInv, Key, k
  <2>7. WritingInv'
    BY <2>1 DEF WritingInv
  <2>8. /\ file'[c][k] = Full(val[i])
        /\ \A d, l \in Client : d # c \/ l # k => file'[d][l] = file[d][l]
    BY <1>1, <1>3 DEF TypeOK
  <2>9. CopiesDurable'
    <3> SUFFICES ASSUME NEW l \in Client, NEW d \in wrote'[l]
                 PROVE  /\ d \in Range(holders'[l])
                        /\ file'[d][l] = Full(last[l])
                        /\ proc[d] # "off" /\ l \notin Big =>
                             memory[d][l] = last[l]
      BY <1>1 DEF CopiesDurable, Full
    <3>1. CASE d = c /\ l = k
      <4>1. memory[c][k] = val[i]
        BY <1>1, <1>3 DEF WritingInv, c, k
      <4> QED  BY <2>0, <2>3, <2>8, <3>1, <4>1
    <3>2. CASE d # c \/ l # k
      <4>1. d \in wrote[l] /\ d \in Client
        <5>1. d \in wrote[l]
          BY <2>5, <3>2
        <5>2. wrote[l] \subseteq Client
          BY DEF TypeOK
        <5> QED  BY <5>1, <5>2
      <4> QED  BY <2>3, <2>8, <3>2, <4>1 DEF CopiesDurable
    <3> QED  BY <3>1, <3>2
  <2> QED  BY <2>2, <2>4, <2>6, <2>7, <2>9
<1> QED  BY <1>2, <1>3 DEF PutStored

LEMMA ServeStoreInv ==
    ASSUME TypeOK, StoreInv, NEW i \in Increment, Serve(i)
    PROVE  StoreInv'
<1> USE DEF serverVars, callVars, clientVars, jobVars, history
<1>1. CASE GetLocksKeys(i)
  <2>1. UNCHANGED <<ended, holders, last, todo, wrote, file, memory, proc, put,
                    val, stage>>
    BY <1>1 DEF GetLocksKeys
  <2>2. CalledOnce'
    BY <2>1 DEF StoreInv, CalledOnce
  <2> QED  BY <2>1, <2>2, StoreStays DEF Storing
<1>2. CASE GetAnswers(i)
  <2>0. UNCHANGED <<holders, last, todo, wrote, file, memory, proc>>
    BY <1>2 DEF GetAnswers
  <2>1. ASSUME NEW v, stage[i] = "getting", GoesOn(i, v), ended' = ended
        PROVE  StoreInv'
    BY <2>0, <2>1, GoesOnStoreInv
  <2>2. CASE /\ UNCHANGED <<put, val>> /\ (ended => ended')
             /\ \A j \in Increment : stage'[j] = stage[j]
                   \/ (stage'[j] = "reading" /\ stage[j] = "getting")
    <3>1. CalledOnce'
      BY <2>2 DEF StoreInv, CalledOnce
    <3> QED  BY <2>0, <2>2, <3>1, StoreStays DEF Storing
  <2>3. \/ \E v : stage[i] = "getting" /\ GoesOn(i, v) /\ ended' = ended
        \/ UNCHANGED <<jobVars, put, ended>>
        \/ /\ stage' = [stage EXCEPT ![i] = IF @ = "getting" THEN "reading" ELSE @]
           /\ UNCHANGED <<ended, val, put>>
        \/ ended' = TRUE /\ UNCHANGED <<put, jobVars>>
    <3> HIDE DEF GoesOn
    <3> QED  BY <1>2 DEF GetAnswers
  <2> HIDE DEF GoesOn
  <2>4. CASE UNCHANGED <<jobVars, put, ended>>
    BY <2>2, <2>4
  <2>5. CASE ended' = TRUE /\ UNCHANGED <<put, jobVars>>
    BY <2>2, <2>5
  <2>6. CASE /\ stage' = [stage EXCEPT ![i] = IF @ = "getting" THEN "reading" ELSE @]
             /\ UNCHANGED <<ended, val, put>>
    <3>1. \A j \in Increment : stage'[j] = stage[j]
                   \/ (stage'[j] = "reading" /\ stage[j] = "getting")
      BY <2>6 DEF TypeOK
    <3> QED  BY <2>2, <2>6, <3>1
  <2> QED  BY <2>1, <2>3, <2>4, <2>5, <2>6
<1>3. CASE PutLocksConns(i) \/ PutDone(i)
  <2>1. /\ UNCHANGED <<ended, holders, last, todo, wrote, file, memory, proc, val>>
        /\ put[i] \in {"called", "storing"}
        /\ \/ put' = [put EXCEPT ![i] = "holdsConns"]
           \/ put' = [put EXCEPT ![i] = "done"]
        /\ \A j \in Increment : stage'[j] = stage[j] \/ stage'[j] = "counted"
    BY <1>3 DEF PutLocksConns, PutDone, TypeOK
  <2>2. CalledOnce'
    <3>1. \A j \in Increment : put'[j] = put[j] \/ put[j] # "none"
      BY <2>1 DEF TypeOK
    <3>2. \A j \in Increment : stage'[j] \in {"idle", "getting", "reading"} =>
                                 stage[j] = stage'[j]
      BY <2>1
    <3>3. \A j \in Increment : stage[j] \in {"idle", "getting", "reading"} =>
                                 put[j] = "none"
      BY DEF StoreInv, CalledOnce
    <3> QED  BY <3>1, <3>2, <3>3 DEF CalledOnce
  <2>3. \A j \in Increment : /\ Storing(j)' => Storing(j)
                             /\ put[j] = "writing" <=> put'[j] = "writing"
    BY <2>1 DEF Storing, TypeOK
  <2> QED  BY <2>1, <2>2, <2>3, StoreStays
<1>4. CASE PutLocksKeys(i)
  BY <1>4, PutLocksKeysStoreInv
<1>5. CASE PutCalls(i)
  BY <1>5, PutCallsStoreInv
<1>6. CASE PutStored(i)
  BY <1>6, PutStoredStoreInv
<1> QED  BY <1>1, <1>2, <1>3, <1>4, <1>5, <1>6 DEF Serve

LEMMA NextStoreInv == TypeOK /\ StoreInv /\ [Next]_vars => StoreInv'
<1> SUFFICES ASSUME TypeOK, StoreInv, [Next]_vars PROVE StoreInv'
  OBVIOUS
<1>1. CASE UNCHANGED vars
  <2>1. UNCHANGED <<ended, holders, last, todo, wrote, file, memory, proc, put,
                    val, stage>>
    BY <1>1 DEF vars, serverVars, callVars, clientVars, jobVars, history
  <2>2. CalledOnce'
    BY <2>1 DEF StoreInv, CalledOnce
  <2> QED  BY <2>1, <2>2, StoreStays DEF Storing
<1> QED  BY <1>1, ServeStoreInv, CountStoreInv, ClientStoreInv DEF Next

(* What KVPut has stored at a client stays there, in its list, its file and   *)
(* its map, through crashes and restarts, until the next KVPut of the key.    *)
THEOREM StoredStays == Spec => []CopiesDurable
<1>1. StoreInv => CopiesDurable
  BY DEF StoreInv
<1> QED
  BY InitTypeOK, NextTypeOK, InitStoreInv, NextStoreInv, <1>1, PTL DEF Spec

-----------------------------------------------------------------------------
(* What a KVPut in its loop has written and has still to write: CONNECTED     *)
(* clients, all of them that are in the key's list, and enough of them. Both  *)
(* locks are held, so that nobody comes or goes meanwhile.                    *)
All(i) == wrote[Key(i)] \cup Range(todo[i])

ChosenInv ==
    \A i \in Increment : Storing(i) =>
      /\ All(i) \subseteq online
      /\ \A c \in online : c \in Range(holders[Key(i)]) => c \in All(i)
      /\ Cardinality(All(i)) >= Min({Cardinality(online), Factor})

LEMMA InitChosenInv == Init => ChosenInv
BY DEF Init, ChosenInv, Storing

LEMMA ChosenStays ==
    ASSUME ChosenInv, UNCHANGED <<online, holders, todo, wrote>>,
           \A j \in Increment : Storing(j)' => Storing(j)
    PROVE  ChosenInv'
<1>1. \A j \in Increment : All(j)' = All(j)
  BY DEF All, Key
<1> HIDE DEF All, Storing
<1> QED  BY <1>1 DEF ChosenInv, Key

LEMMA PutLocksKeysChosen ==
    ASSUME TypeOK, StoreInv, NEW i \in Increment, PutLocksKeys(i)
    PROVE  ChosenInv'
<1>1. PICK t \in Targets(Key(i)) : todo' = [todo EXCEPT ![i] = t]
  BY DEF PutLocksKeys
<1>2. /\ put' = [put EXCEPT ![i] = "storing"]
      /\ wrote' = [wrote EXCEPT ![Key(i)] = {}]
      /\ UNCHANGED <<online, holders>>
      /\ \A j \in Increment : ~Storing(j)
  BY DEF PutLocksKeys, KeysFree, serverVars
<1>3. \A j \in Increment : Storing(j)' => j = i
  BY <1>2 DEF Storing, TypeOK
<1>4. All(i)' = Range(t)
  <2>1. todo'[i] = t /\ wrote'[Key(i)] = {}
    BY <1>1, <1>2, KeyType DEF TypeOK
  <2> QED  BY <2>1 DEF All, Key
<1>5. /\ Range(t) \subseteq online
      /\ \A j \in Online(Key(i)) : holders[Key(i)][j] \in Range(t)
      /\ Cardinality(Range(t)) >= Min({Cardinality(online), Factor})
  BY KeyType, TargetsType, TargetsOnce DEF StoreInv
<1>6. \A c \in online : c \in Range(holders[Key(i)]) => c \in Range(t)
  BY <1>5 DEF Online, Range
<1> QED
  <2> HIDE DEF All, Storing
  <2> QED  BY <1>2, <1>3, <1>4, <1>5, <1>6 DEF ChosenInv, Key

LEMMA PutStoredChosen ==
    ASSUME TypeOK, StoreInv, ChosenInv, NEW i \in Increment, PutStored(i)
    PROVE  ChosenInv'
<1> DEFINE c == Head(todo[i])
           k == Key(i)
<1>1. /\ put[i] = "writing" /\ todo[i] # <<>> /\ todo[i] \in Seq(Client)
      /\ UNCHANGED online
      /\ k \in Client /\ c \in Client /\ holders[k] \in Seq(Client)
  BY KeyType, HeadTailProperties DEF PutStored, TypeOK
<1>2. CASE UNCHANGED <<holders, put, todo, wrote>>
  BY <1>1, <1>2, ChosenStays DEF Storing
<1>3. CASE /\ holders' = [holders EXCEPT ![k] =
                            IF c \in Range(@) THEN @ ELSE Append(@, c)]
           /\ put' = [put EXCEPT ![i] = "storing"]
           /\ todo' = [todo EXCEPT ![i] = Tail(@)]
           /\ wrote' = [wrote EXCEPT ![k] = @ \cup {c}]
  <2>1. Range(todo[i]) = {c} \cup Range(Tail(todo[i]))
    BY <1>1, HeadAndTail
  <2> HIDE DEF c, k
  <2>2. \A j \in Increment : Storing(j)' => j = i
    BY <1>1, <1>3 DEF StoreInv, OneStores, Storing, TypeOK
  <2>3. All(i)' = All(i)
    <3>1. todo'[i] = Tail(todo[i]) /\ wrote'[k] = wrote[k] \cup {c}
      BY <1>1, <1>3 DEF TypeOK
    <3> QED  BY <2>1, <3>1 DEF All, Key, k
  <2>4. Range(holders'[k]) \subseteq Range(holders[k]) \cup {c}
    BY <1>1, <1>3, OneMore DEF TypeOK
  <2>5. c \in All(i)
    BY <2>1 DEF All
  <2>6. Storing(i)
    BY <1>1 DEF Storing
  <2> HIDE DEF All, Storing
  <2>7. /\ All(i) \subseteq online
        /\ \A d \in online : d \in Range(holders[k]) => d \in All(i)
        /\ Cardinality(All(i)) >= Min({Cardinality(online), Factor})
    BY <2>6 DEF ChosenInv, k
  <2> QED  BY <1>1, <2>2, <2>3, <2>4, <2>5, <2>7 DEF ChosenInv, Key, k
<1> QED  BY <1>2, <1>3 DEF PutStored

LEMMA NextChosenInv == TypeOK /\ StoreInv /\ ChosenInv /\ [Next]_vars => ChosenInv'
<1> SUFFICES ASSUME TypeOK, StoreInv, ChosenInv, [Next]_vars PROVE ChosenInv'
  OBVIOUS
<1> USE DEF serverVars, callVars, clientVars, jobVars, history
<1>1. ASSUME NEW i \in Increment, Count(i) PROVE ChosenInv'
  <2>1. UNCHANGED <<online, holders, todo, wrote>>
    BY <1>1 DEF Count, Begin, ReadOwn, GetFails, PutFails
  <2>2. put' = put \/ put' = [put EXCEPT ![i] = "called"]
    BY <1>1 DEF Count, Begin, ReadOwn, GetFails, PutFails, GoesOn
  <2>3. \A j \in Increment : Storing(j)' => Storing(j)
    BY <2>2 DEF Storing, TypeOK
  <2> QED  BY <2>1, <2>3, ChosenStays
<1>2. ASSUME NEW i \in Increment,
             \/ GetLocksKeys(i) \/ GetAnswers(i) \/ PutLocksConns(i)
             \/ PutCalls(i) \/ PutDone(i)
      PROVE  ChosenInv'
  <2>1. UNCHANGED <<online, holders, todo, wrote>>
    BY <1>2 DEF GetLocksKeys, GetAnswers, PutLocksConns, PutCalls, PutDone
  <2>2. \/ put' = put
        \/ put' = [put EXCEPT ![i] = "called"]
        \/ put' = [put EXCEPT ![i] = "holdsConns"]
        \/ put' = [put EXCEPT ![i] = "done"]
        \/ put' = [put EXCEPT ![i] = "writing"] /\ put[i] = "storing"
    BY <1>2
    DEF GetLocksKeys, GetAnswers, PutLocksConns, PutCalls, PutDone, GoesOn
  <2>3. \A j \in Increment : Storing(j)' => Storing(j)
    BY <2>2 DEF Storing, TypeOK
  <2> QED  BY <2>1, <2>3, ChosenStays
<1>3. ASSUME NEW i \in Increment, Serve(i) PROVE ChosenInv'
  BY <1>2, <1>3, PutLocksKeysChosen, PutStoredChosen DEF Serve
<1>4. ASSUME NEW c \in Client, Leave(c) \/ Join(c) PROVE ChosenInv'
  <2>1. put' = put /\ \A i \in Increment : ~Storing(i)
    BY <1>4 DEF Leave, Join, ConnsFree
  <2> QED  BY <2>1 DEF ChosenInv, Storing
<1>5. ASSUME NEW c \in Client, Attach(c) \/ Crash(c) \/ Restart(c)
      PROVE  ChosenInv'
  <2>1. UNCHANGED <<online, holders, todo, wrote, put>>
    BY <1>5 DEF Attach, Crash, Restart
  <2> QED  BY <2>1, ChosenStays DEF Storing
<1>6. CASE UNCHANGED vars
  BY <1>6, ChosenStays DEF vars, Storing
<1> QED  BY <1>1, <1>3, <1>4, <1>5, <1>6 DEF Next

(* The KVPut that is answered has nothing left to write: whom it has chosen   *)
(* it has written, and these are in the list and have the value on file.      *)
LEMMA DoneReplicated ==
    ASSUME TypeOK, StoreInv, ChosenInv, [Next]_vars, NEW i \in Increment,
           put[i] = "storing", put'[i] = "done"
    PROVE  Replicated(Key(i), val[i])
<1> DEFINE k == Key(i)
           has == {c \in online : c \in Range(holders[k])}
<1>1. todo[i] = <<>>
  <2> USE DEF serverVars, callVars, clientVars, jobVars, history
  <2>1. ASSUME NEW j \in Increment, Count(j) PROVE FALSE
    BY <2>1 DEF Count, Begin, ReadOwn, GetFails, PutFails, GoesOn, TypeOK
  <2>2. ASSUME NEW j \in Increment, Serve(j), ~PutDone(j) PROVE FALSE
    BY <2>2 DEF Serve, GetLocksKeys, GetAnswers, GoesOn, PutLocksConns,
                PutLocksKeys, PutCalls, PutStored, TypeOK
  <2>3. ASSUME NEW c \in Client,
               Leave(c) \/ Join(c) \/ Attach(c) \/ Crash(c) \/ Restart(c)
        PROVE  FALSE
    BY <2>3 DEF Leave, Join, Attach, Crash, Restart
  <2>4. ~UNCHANGED vars
    BY DEF vars
  <2>5. ASSUME NEW j \in Increment, PutDone(j) PROVE todo[i] = <<>>
    BY <2>5 DEF PutDone, TypeOK
  <2> QED  BY <2>1, <2>2, <2>3, <2>4, <2>5 DEF Next
<1>2. k \in Client /\ Storing(i)
  BY KeyType DEF Storing
<1>3. All(i) = wrote[k]
  BY <1>1 DEF All, Range
<1>4. /\ wrote[k] \subseteq online
      /\ \A c \in online : c \in Range(holders[k]) => c \in wrote[k]
      /\ Cardinality(wrote[k]) >= Min({Cardinality(online), Factor})
  BY <1>2, <1>3 DEF ChosenInv
<1>5. \A c \in wrote[k] : c \in Range(holders[k]) /\ file[c][k] = Full(val[i])
  BY <1>2 DEF StoreInv, CopiesDurable, LoopInv
<1>6. has = wrote[k]
  BY <1>4, <1>5
<1> QED  BY <1>4, <1>5, <1>6 DEF Replicated

(* A KVPut that is answered has left its value on file at every CONNECTED     *)
(* client of the key's list, Factor of them or all there are.                 *)
THEOREM PutsReplicate == Spec => PutReplicates
<1>1. TypeOK /\ StoreInv /\ ChosenInv /\ [Next]_vars =>
        [\A i \in Increment : put[i] = "storing" /\ put'[i] = "done" =>
                                Replicated(Key(i), val[i])]_vars
  BY DoneReplicated
<1> QED
  BY InitTypeOK, NextTypeOK, InitStoreInv, NextStoreInv, InitChosenInv,
     NextChosenInv, <1>1, PTL
  DEF Spec, PutReplicates

-----------------------------------------------------------------------------
(* No count is lost. A KVGet that has the lock of keyToClients finds no KVPut *)
(* in its loop.                                                               *)
KeysOwned == \A i, j \in Increment : get[i] = "holdsKeys" => ~Storing(j)

Calm == failures = 0 /\ ~ended

(* While nothing fails, who plays is CONNECTED and nobody is gone ... *)
CalmClients ==
    \A c \in Client : /\ proc[c] # "off" /\ handle[c] # "dead"
                      /\ proc[c] = "playing" => c \in online

(* ... a handler works for a goroutine that waits for it ... *)
CalmCalls ==
    \A i \in Increment :
      /\ get[i] \in {"called", "holdsKeys"} => stage[i] = "getting"
      /\ put[i] \in {"called", "holdsConns", "storing", "writing"}
           <=> stage[i] = "putting"
      /\ stage[i] \in Underway => proc[Key(i)] = "playing"

(* ... a list has the clients that the last KVPut has written or is going to  *)
(* write, and these are some unless there is nothing to store ...             *)
ToWrite(k, c) ==
    \E i \in Increment : Storing(i) /\ Key(i) = k /\ c \in Range(todo[i])

CalmCopies ==
    \A k \in Client :
      /\ \A c \in wrote[k] : memory[c][k] = last[k]
      /\ \A c \in Client : ToWrite(k, c) => c \in online
      /\ \A c \in Range(holders[k]) :
           c \in online /\ (c \in wrote[k] \/ ToWrite(k, c))
      /\ last[k] # {} => \E c \in Client : c \in wrote[k] \/ ToWrite(k, c)

(* ... and the value that a player counts on contains all it has counted.     *)
CalmValues ==
    \A i \in Increment : Key(i) \notin raced =>
      /\ stage[i] = "reading" => Key(i) \in wrote[Key(i)]
      /\ stage[i] = "putting" => last[Key(i)] \cup {i} \subseteq val[i]

OneAtATime ==
    \A i, j \in Increment :
      /\ Key(i) = Key(j) /\ Key(i) \notin raced
      /\ stage[i] \in Underway /\ stage[j] \in Underway
      => i = j

CalmInv == CalmClients /\ CalmCalls /\ CalmCopies /\ CalmValues

CountInv == /\ KeysOwned /\ OneAtATime /\ Counted
            /\ Calm => CalmInv

LEMMA InitCountInv == Init => CountInv
<1> SUFFICES ASSUME Init PROVE CountInv
  OBVIOUS
<1>1. KeysOwned /\ OneAtATime /\ Counted
  BY DEF Init, KeysOwned, OneAtATime, Counted, Underway
<1>2. CalmClients /\ CalmCalls /\ CalmValues
  BY DEF Init, CalmClients, CalmCalls, CalmValues, Underway
<1>3. CalmCopies
  BY DEF Init, CalmCopies, ToWrite, Range, Storing
<1> QED  BY <1>1, <1>2, <1>3 DEF CountInv, CalmInv

LEMMA CalmBefore ==
    ASSUME TypeOK, [Next]_vars
    PROVE  /\ Calm' => Calm
           /\ failures' = 0 => failures = 0
<1> USE DEF serverVars, callVars, clientVars, jobVars, history
<1>1. failures \in Nat
  BY DEF TypeOK
<1>2. ASSUME NEW i \in Increment, Serve(i)
      PROVE  failures' = failures /\ ~ended
  BY <1>2 DEF Serve, GetLocksKeys, GetAnswers, PutLocksConns, PutLocksKeys,
              PutCalls, PutStored, PutDone
<1>3. ASSUME NEW i \in Increment, Count(i)
      PROVE  failures' \in {failures, failures + 1} /\ ended' = ended
  BY <1>3 DEF Count, Begin, ReadOwn, GetFails, PutFails
<1>4. ASSUME NEW c \in Client,
             Leave(c) \/ Join(c) \/ Attach(c) \/ Crash(c) \/ Restart(c)
      PROVE  failures' \in {failures, failures + 1} /\ ended' = ended
  BY <1>4 DEF Leave, Join, Attach, Crash, Restart
<1>5. failures' \in {failures, failures + 1} /\ (ended => ended')
  BY <1>2, <1>3, <1>4 DEF Next, vars
<1> QED  BY <1>1, <1>5 DEF Calm

(* Who counts counts on: only Begin starts to *)
LEMMA NextOneAtATime ==
    ASSUME TypeOK, OneAtATime, [Next]_vars
    PROVE  OneAtATime'
<1> USE DEF serverVars, callVars, clientVars, jobVars, history
<1>1. ASSUME NEW i \in Increment, Begin(i) PROVE OneAtATime'
  <2> SUFFICES ASSUME NEW j \in Increment, NEW l \in Increment,
                      Key(j) = Key(l), Key(j) \notin raced',
                      stage'[j] \in Underway, stage'[l] \in Underway
               PROVE  j = l
    BY DEF OneAtATime, Key
  <2>1. /\ stage' = [stage EXCEPT ![i] = "getting"]
        /\ raced' = raced \cup {Key(m) : m \in {m \in Increment \ {i} :
                                 Key(m) = Key(i) /\ stage[m] \in Underway}}
    BY <1>1 DEF Begin
  <2>2. \A m \in Increment \ {i} : stage'[m] = stage[m]
    BY <2>1 DEF TypeOK
  <2>3. \A m \in Increment \ {i} :
          ~(Key(m) = Key(i) /\ stage[m] \in Underway /\ Key(m) = Key(j))
    BY <2>1
  <2>4. CASE j = i \/ l = i
    BY <2>2, <2>3, <2>4
  <2>5. CASE j # i /\ l # i
    BY <2>1, <2>2, <2>5 DEF OneAtATime
  <2> QED  BY <2>4, <2>5
<1>2. ASSUME raced' = raced,
             \A j \in Increment : stage'[j] \in Underway => stage[j] \in Underway
      PROVE  OneAtATime'
  BY <1>2 DEF OneAtATime, Key
<1>3. ASSUME NEW i \in Increment, NEW v, GoesOn(i, v), stage[i] \in Underway
      PROVE  \A j \in Increment : stage'[j] \in Underway => stage[j] \in Underway
  BY <1>3 DEF GoesOn, TypeOK
<1>4. ASSUME NEW i \in Increment, ReadOwn(i) \/ GetFails(i) PROVE OneAtATime'
  <2>1. raced' = raced /\ stage[i] \in Underway /\ \E v : GoesOn(i, v)
    BY <1>4 DEF ReadOwn, GetFails, Underway
  <2> QED  BY <1>2, <1>3, <2>1
<1>5. ASSUME NEW c, Ends(c)
      PROVE  \A j \in Increment : stage'[j] \in Underway => stage[j] \in Underway
  BY <1>5 DEF Ends
<1>6. ASSUME NEW i \in Increment, PutFails(i) PROVE OneAtATime'
  BY <1>2, <1>5, <1>6 DEF PutFails
<1>7. ASSUME NEW i \in Increment, GetAnswers(i) PROVE OneAtATime'
  <2>1. \/ \E v : stage[i] = "getting" /\ GoesOn(i, v)
        \/ stage' = stage
        \/ stage' = [stage EXCEPT ![i] = IF @ = "getting" THEN "reading" ELSE @]
    <3> HIDE DEF GoesOn
    <3> QED  BY <1>7 DEF GetAnswers
  <2>2. \A j \in Increment : stage'[j] \in Underway => stage[j] \in Underway
    <3>1. CASE \E v : stage[i] = "getting" /\ GoesOn(i, v)
      BY <1>3, <3>1 DEF Underway
    <3>2. CASE stage' = [stage EXCEPT ![i] = IF @ = "getting" THEN "reading" ELSE @]
      BY <3>2 DEF TypeOK, Underway
    <3> QED  BY <2>1, <3>1, <3>2
  <2> QED  BY <1>2, <1>7, <2>2 DEF GetAnswers
<1>8. ASSUME NEW i \in Increment,
             \/ GetLocksKeys(i) \/ PutLocksConns(i) \/ PutLocksKeys(i)
             \/ PutCalls(i) \/ PutStored(i)
      PROVE  OneAtATime'
  BY <1>2, <1>8 DEF GetLocksKeys, PutLocksConns, PutLocksKeys, PutCalls, PutStored
<1>9. ASSUME NEW i \in Increment, PutDone(i) PROVE OneAtATime'
  <2>1. raced' = raced
        /\ stage' = [stage EXCEPT ![i] = IF @ = "putting" THEN "counted" ELSE @]
    BY <1>9 DEF PutDone
  <2>2. \A j \in Increment : stage'[j] \in Underway => stage[j] \in Underway
    BY <2>1 DEF TypeOK, Underway
  <2> QED  BY <1>2, <2>1, <2>2
<1>10. ASSUME NEW c \in Client,
              Leave(c) \/ Join(c) \/ Attach(c) \/ Crash(c) \/ Restart(c)
       PROVE  OneAtATime'
  <2>1. raced' = raced /\ (stage' = stage \/ Ends(c))
    BY <1>10 DEF Leave, Join, Attach, Crash, Restart
  <2> QED  BY <1>2, <1>5, <2>1
<1>11. CASE UNCHANGED vars
  BY <1>2, <1>11 DEF vars
<1> QED
  BY <1>1, <1>4, <1>6, <1>7, <1>8, <1>9, <1>10, <1>11 DEF Next, Serve, Count

LEMMA NextKeysOwned ==
    ASSUME TypeOK, StoreInv, KeysOwned, [Next]_vars
    PROVE  KeysOwned'
<1> USE DEF serverVars, callVars, clientVars, jobVars, history
<1>1. ASSUME \A j \in Increment : get'[j] = "holdsKeys" => get[j] = "holdsKeys",
             \A j \in Increment : Storing(j)' => Storing(j)
      PROVE  KeysOwned'
  BY <1>1 DEF KeysOwned
<1>2. ASSUME NEW i \in Increment, GetLocksKeys(i) PROVE KeysOwned'
  BY <1>2 DEF GetLocksKeys, KeysFree, KeysOwned, Storing
<1>3. ASSUME NEW i \in Increment, PutLocksKeys(i) PROVE KeysOwned'
  BY <1>3 DEF PutLocksKeys, KeysFree, KeysOwned, Storing, TypeOK
<1>4. ASSUME NEW i \in Increment, NEW v, GoesOn(i, v)
      PROVE  \A j \in Increment : Storing(j)' => Storing(j)
  BY <1>4 DEF GoesOn, Storing, TypeOK
<1>5. ASSUME NEW i \in Increment, GetAnswers(i) PROVE KeysOwned'
  <2>1. \/ get' = [get EXCEPT ![i] = "done"]
        \/ get' = get
    <3> HIDE DEF GoesOn
    <3> QED  BY <1>5 DEF GetAnswers
  <2>2. (\E v : GoesOn(i, v)) \/ put' = put
    <3> HIDE DEF GoesOn
    <3> QED  BY <1>5 DEF GetAnswers
  <2>3. \A j \in Increment : get'[j] = "holdsKeys" => get[j] = "holdsKeys"
    BY <2>1 DEF TypeOK
  <2>4. \A j \in Increment : Storing(j)' => Storing(j)
    BY <1>4, <2>2 DEF Storing
  <2> QED  BY <1>1, <2>3, <2>4
<1>6. ASSUME NEW i \in Increment,
             PutLocksConns(i) \/ PutCalls(i) \/ PutStored(i) \/ PutDone(i)
      PROVE  KeysOwned'
  <2>1. /\ get' = get
        /\ \/ put' = put
           \/ /\ put[i] = "called"
              /\ put' = [put EXCEPT ![i] = "holdsConns"]
           \/ put' = [put EXCEPT ![i] = "done"]
           \/ /\ Storing(i)
              /\ \E x : put' = [put EXCEPT ![i] = x]
    BY <1>6 DEF PutLocksConns, PutCalls, PutStored, PutDone, Storing
  <2>2. \A j \in Increment : Storing(j)' => Storing(j)
    BY <2>1 DEF Storing, TypeOK
  <2> QED  BY <1>1, <2>1, <2>2
<1>7. ASSUME NEW i \in Increment, Begin(i) PROVE KeysOwned'
  BY <1>1, <1>7 DEF Begin, Storing, TypeOK
<1>8. ASSUME NEW i \in Increment, ReadOwn(i) \/ GetFails(i) PROVE KeysOwned'
  <2>1. get' = get /\ \E v : GoesOn(i, v)
    BY <1>8 DEF ReadOwn, GetFails
  <2> QED  BY <1>1, <1>4, <2>1
<1>9. ASSUME UNCHANGED <<get, put>> PROVE KeysOwned'
  BY <1>1, <1>9 DEF Storing
<1>10. ASSUME NEW i \in Increment, PutFails(i) PROVE KeysOwned'
  BY <1>9, <1>10 DEF PutFails
<1>11. ASSUME NEW c \in Client,
              Leave(c) \/ Join(c) \/ Attach(c) \/ Crash(c) \/ Restart(c)
       PROVE  KeysOwned'
  BY <1>9, <1>11 DEF Leave, Join, Attach, Crash, Restart
<1>12. CASE UNCHANGED vars
  BY <1>9, <1>12 DEF vars
<1> QED
  BY <1>2, <1>3, <1>5, <1>6, <1>7, <1>8, <1>10, <1>11, <1>12 DEF Next, Serve, Count

(* Only KVPut changes what is stored, and only its answer ends a count *)
LEMMA NextCounted ==
    ASSUME TypeOK, StoreInv, CountInv, [Next]_vars
    PROVE  Counted'
<1> USE DEF serverVars, callVars, clientVars, jobVars, history
<1>1. ASSUME last' = last, raced \subseteq raced',
             \A j \in Increment : stage'[j] = "counted" => stage[j] = "counted"
      PROVE  Counted'
  BY <1>1, CalmBefore DEF CountInv, Counted, Key
<1>2. ASSUME NEW i \in Increment, NEW v, GoesOn(i, v)
      PROVE  \A j \in Increment : stage'[j] = "counted" => stage[j] = "counted"
  BY <1>2 DEF GoesOn, TypeOK
<1>3. ASSUME NEW i \in Increment, Begin(i) PROVE Counted'
  BY <1>1, <1>3 DEF Begin, TypeOK
<1>4. ASSUME NEW i \in Increment, ReadOwn(i) \/ GetFails(i) PROVE Counted'
  <2>1. UNCHANGED <<last, raced>> /\ \E v : GoesOn(i, v)
    BY <1>4 DEF ReadOwn, GetFails
  <2> QED  BY <1>1, <1>2, <2>1
<1>5. ASSUME NEW c, Ends(c)
      PROVE  \A j \in Increment : stage'[j] = "counted" => stage[j] = "counted"
  BY <1>5 DEF Ends
<1>6. ASSUME NEW i \in Increment, PutFails(i) PROVE Counted'
  BY <1>1, <1>5, <1>6 DEF PutFails
<1>7. ASSUME NEW i \in Increment, GetAnswers(i) PROVE Counted'
  <2>1. /\ UNCHANGED <<last, raced>>
        /\ \/ \E v : GoesOn(i, v)
           \/ stage' = stage
           \/ stage' = [stage EXCEPT ![i] = IF @ = "getting" THEN "reading" ELSE @]
    <3> HIDE DEF GoesOn
    <3> QED  BY <1>7 DEF GetAnswers
  <2>2. \A j \in Increment : stage'[j] = "counted" => stage[j] = "counted"
    BY <1>2, <2>1 DEF TypeOK
  <2> QED  BY <1>1, <2>1, <2>2
<1>8. ASSUME NEW i \in Increment,
             GetLocksKeys(i) \/ PutLocksConns(i) \/ PutCalls(i) \/ PutStored(i)
      PROVE  Counted'
  BY <1>1, <1>8 DEF GetLocksKeys, PutLocksConns, PutCalls, PutStored
<1>9. ASSUME NEW i \in Increment, PutLocksKeys(i) PROVE Counted'
  <2> SUFFICES ASSUME failures' = 0, NEW j \in Increment,
                      stage'[j] = "counted", Key(j) \notin raced'
               PROVE  j \in last'[Key(j)]
    BY DEF Counted, Key
  <2>1. /\ ~ended /\ put[i] = "holdsConns" /\ failures = 0
        /\ last' = [last EXCEPT ![Key(i)] = val[i]]
        /\ UNCHANGED <<stage, raced>>
    BY <1>9, CalmBefore DEF PutLocksKeys
  <2>2. CalmInv /\ j \in last[Key(j)]
    BY <2>1 DEF CountInv, Counted, Calm
  <2>3. Key(i) \notin raced => last[Key(i)] \subseteq val[i]
    BY <2>1, <2>2 DEF CalmInv, CalmCalls, CalmValues
  <2> QED  BY <2>1, <2>2, <2>3, KeyType DEF TypeOK
<1>10. ASSUME NEW i \in Increment, PutDone(i) PROVE Counted'
  <2> SUFFICES ASSUME failures' = 0, NEW j \in Increment,
                      stage'[j] = "counted", Key(j) \notin raced'
               PROVE  j \in last'[Key(j)]
    BY DEF Counted, Key
  <2>1. /\ ~ended /\ put[i] = "storing" /\ failures = 0
        /\ stage' = [stage EXCEPT ![i] = IF @ = "putting" THEN "counted" ELSE @]
        /\ UNCHANGED <<last, raced>>
    BY <1>10, CalmBefore DEF PutDone
  <2>2. CASE stage[j] = "counted"
    BY <2>1, <2>2 DEF CountInv, Counted
  <2>3. CASE stage[j] # "counted"
    <3>1. j = i /\ stage[i] = "putting"
      BY <2>1, <2>3 DEF TypeOK
    <3>2. last[Key(i)] = val[i]
      BY <2>1 DEF StoreInv, LoopInv, Storing
    <3>3. i \in val[i]
      BY <2>1, <3>1 DEF CountInv, Calm, CalmInv, CalmValues
    <3> QED  BY <2>1, <3>1, <3>2, <3>3
  <2> QED  BY <2>2, <2>3
<1>11. ASSUME NEW c \in Client,
              Leave(c) \/ Join(c) \/ Attach(c) \/ Crash(c) \/ Restart(c)
       PROVE  Counted'
  <2>1. UNCHANGED <<last, raced>> /\ (stage' = stage \/ Ends(c))
    BY <1>11 DEF Leave, Join, Attach, Crash, Restart
  <2> QED  BY <1>1, <1>5, <2>1
<1>12. CASE UNCHANGED vars
  BY <1>1, <1>12 DEF vars
<1> QED
  BY <1>3, <1>4, <1>6, <1>7, <1>8, <1>9, <1>10, <1>11, <1>12 DEF Next, Serve, Count

-----------------------------------------------------------------------------
(* The calm states stay as they are said to be, action by action              *)

LEMMA CopiesStay ==
    ASSUME TypeOK, CalmCopies, UNCHANGED <<wrote, memory, last, holders>>,
           online \subseteq online',
           \A k, c \in Client : ToWrite(k, c)' <=> ToWrite(k, c)
    PROVE  CalmCopies'
<1>1. \A k \in Client : Range(holders[k]) \subseteq Client
  <2>1. \A k \in Client : holders[k] \in Seq(Client)
    BY DEF TypeOK
  <2> QED  BY <2>1, RangeOfSeq
<1> HIDE DEF ToWrite
<1> QED  BY <1>1 DEF CalmCopies

LEMMA BeginCalm ==
    ASSUME TypeOK, StoreInv, CountInv, Calm, NEW i \in Increment, Begin(i)
    PROVE  CalmInv'
<1>0. CalmInv /\ put[i] = "none"
  BY DEF CountInv, StoreInv, CalledOnce, Begin
<1>1. /\ stage[i] = "idle" /\ proc[Key(i)] = "playing"
      /\ stage' = [stage EXCEPT ![i] = "getting"]
      /\ get' = [get EXCEPT ![i] = "called"]
      /\ raced \subseteq raced'
      /\ UNCHANGED <<online, handle, holders, put, todo, proc, memory, val, last,
                     wrote>>
  BY DEF Begin, serverVars, clientVars
<1>2. CalmClients'
  BY <1>0, <1>1 DEF CalmInv, CalmClients
<1>3. CalmCalls'
  BY <1>0, <1>1 DEF CalmInv, CalmCalls, Underway, TypeOK, Key
<1>4. CalmCopies'
  BY <1>0, <1>1, CopiesStay DEF CalmInv, ToWrite, Storing, Key
<1>5. CalmValues'
  BY <1>0, <1>1 DEF CalmInv, CalmValues, TypeOK, Key
<1> QED  BY <1>2, <1>3, <1>4, <1>5 DEF CalmInv

(* A value that is what the last KVPut of the key stored is the right one     *)
LEMMA GoesOnCalm ==
    ASSUME TypeOK, StoreInv, CountInv, Calm, NEW i \in Increment,
           stage[i] \in {"getting", "reading"},
           Key(i) \notin raced => GoesOn(i, last[Key(i)]),
           \E v : GoesOn(i, v),
           \/ UNCHANGED get /\ stage[i] = "reading"
           \/ get' = [get EXCEPT ![i] = "done"],
           UNCHANGED <<online, handle, holders, todo, proc, memory, last, wrote,
                       raced>>
    PROVE  CalmInv'
<1>0. CalmInv /\ put[i] = "none"
  BY DEF CountInv, StoreInv, CalledOnce
<1>1. /\ stage' = [stage EXCEPT ![i] = "putting"]
      /\ put' = [put EXCEPT ![i] = "called"]
      /\ \A j \in Increment : j # i => val'[j] = val[j]
      /\ Key(i) \notin raced => val'[i] = last[Key(i)] \cup {i}
  BY DEF GoesOn, TypeOK
<1>2. CalmClients'
  BY <1>0 DEF CalmInv, CalmClients
<1>3. CalmCalls'
  BY <1>0, <1>1 DEF CalmInv, CalmCalls, Underway, TypeOK, Key
<1>4. CalmCopies'
  <2>1. \A j \in Increment : Storing(j)' <=> Storing(j)
    BY <1>0, <1>1 DEF Storing, TypeOK
  <2> QED  BY <1>0, <2>1, CopiesStay DEF CalmInv, ToWrite, Key
<1>5. CalmValues'
  <2>1. \A j \in Increment : j # i => stage'[j] = stage[j]
    BY <1>1 DEF TypeOK
  <2>2. stage'[i] = "putting"
    BY <1>1 DEF TypeOK
  <2> QED  BY <1>0, <1>1, <2>1, <2>2 DEF CalmInv, CalmValues, Key
<1> QED  BY <1>2, <1>3, <1>4, <1>5 DEF CalmInv

LEMMA ReadOwnCalm ==
    ASSUME TypeOK, StoreInv, CountInv, Calm, NEW i \in Increment, ReadOwn(i)
    PROVE  CalmInv'
<1>1. /\ stage[i] = "reading" /\ GoesOn(i, memory[Key(i)][Key(i)])
      /\ UNCHANGED <<online, handle, holders, get, todo, proc, memory, last,
                     wrote, raced>>
  BY DEF ReadOwn, serverVars, clientVars, history
<1>2. Key(i) \notin raced => memory[Key(i)][Key(i)] = last[Key(i)]
  BY <1>1, KeyType DEF CountInv, CalmInv, CalmValues, CalmCopies
<1> QED  BY <1>1, <1>2, GoesOnCalm

(* KVGet answers with what the last KVPut stored, for it waits until no KVPut *)
(* is in its loop                                                             *)
LEMMA GetAnswersCalm ==
    ASSUME TypeOK, StoreInv, CountInv, Calm, Calm', NEW i \in Increment,
           GetAnswers(i)
    PROVE  CalmInv'
<1> DEFINE k == Key(i)
<1>0. /\ CalmInv /\ k \in Client /\ get[i] = "holdsKeys" /\ stage[i] = "getting"
      /\ ended' = FALSE
      /\ UNCHANGED <<online, handle, holders, todo, proc, memory, failures, last,
                     wrote, raced>>
  BY KeyType
  DEF CountInv, CalmInv, CalmCalls, GetAnswers, Calm, serverVars, clientVars,
      history, TypeOK
<1>1. \A c \in Client : ~ToWrite(k, c)
  BY <1>0 DEF CountInv, KeysOwned, ToWrite
<1>2. \A j \in Online(k) :
        /\ holders[k][j] \in wrote[k] /\ holders[k][j] \in Client
        /\ memory[holders[k][j]][k] = last[k]
  <2> SUFFICES ASSUME NEW j \in Online(k)
               PROVE  /\ holders[k][j] \in wrote[k] /\ holders[k][j] \in Client
                      /\ memory[holders[k][j]][k] = last[k]
    OBVIOUS
  <2>1. holders[k][j] \in Range(holders[k]) /\ holders[k][j] \in Client
    BY <1>0 DEF Online, Range, TypeOK
  <2> QED  BY <1>0, <1>1, <2>1 DEF CalmInv, CalmCopies
<1>3. Online(k) = {} => last[k] = {}
  <2> SUFFICES ASSUME last[k] # {} PROVE Online(k) # {}
    OBVIOUS
  <2>1. PICK c \in Client : c \in wrote[k]
    BY <1>0, <1>1 DEF CalmInv, CalmCopies
  <2>2. c \in Range(holders[k])
    BY <1>0, <2>1 DEF StoreInv, CopiesDurable
  <2>3. c \in online
    BY <1>0, <2>2 DEF CalmInv, CalmCopies
  <2> QED  BY <2>2, <2>3 DEF Online, Range
<1>4. \A c \in Client : handle[c] # "nil" => Replica(c, k) = memory[c][k]
  BY <1>0 DEF CalmInv, CalmClients, Replica, Answers, TypeOK
<1>5. ASSUME GoesOn(i, last[k]), get' = [get EXCEPT ![i] = "done"] PROVE CalmInv'
  <2> HIDE DEF GoesOn
  <2> QED  BY <1>0, <1>5, GoesOnCalm
<1>6. CASE Online(k) = {} /\ GoesOn(i, {}) /\ get' = [get EXCEPT ![i] = "done"]
  BY <1>3, <1>5, <1>6
<1>7. ASSUME NEW j \in Online(k), handle[holders[k][j]] # "nil",
             GoesOn(i, Replica(holders[k][j], k)),
             get' = [get EXCEPT ![i] = "done"]
      PROVE  CalmInv'
  <2>1. Replica(holders[k][j], k) = last[k]
    BY <1>2, <1>4, <1>7
  <2> QED  BY <1>5, <1>7, <2>1
<1>8. ASSUME NEW j \in Online(k), holders[k][j] = k,
             get' = [get EXCEPT ![i] = "done"],
             stage' = [stage EXCEPT ![i] = IF @ = "getting" THEN "reading" ELSE @],
             UNCHANGED <<val, put>>
      PROVE  CalmInv'
  <2>1. /\ stage'[i] = "reading" /\ k \in wrote[k]
        /\ \A m \in Increment : m # i => stage'[m] = stage[m]
    BY <1>0, <1>2, <1>8 DEF TypeOK
  <2>2. CalmClients'
    BY <1>0 DEF CalmInv, CalmClients
  <2>3. CalmCalls'
    <3>1. \A m \in Increment : m # i => get'[m] = get[m]
      BY <1>8 DEF TypeOK
    <3>2. get'[i] = "done" /\ put[i] = "none"
      BY <1>0, <1>8 DEF TypeOK, StoreInv, CalledOnce
    <3> QED
      BY <1>0, <1>8, <2>1, <3>1, <3>2 DEF CalmInv, CalmCalls, Underway, Key
  <2>4. CalmCopies'
    BY <1>0, <1>8, CopiesStay DEF CalmInv, ToWrite, Storing, Key
  <2>5. CalmValues'
    BY <1>0, <1>8, <2>1 DEF CalmInv, CalmValues, Key
  <2> QED  BY <2>2, <2>3, <2>4, <2>5 DEF CalmInv
<1> QED
  <2> HIDE DEF GoesOn
  <2>1. \/ Online(k) = {} /\ GoesOn(i, {}) /\ get' = [get EXCEPT ![i] = "done"]
        \/ \E j \in Online(k) :
             \/ /\ holders[k][j] = k
                /\ get' = [get EXCEPT ![i] = "done"]
                /\ stage' = [stage EXCEPT ![i] =
                               IF @ = "getting" THEN "reading" ELSE @]
                /\ UNCHANGED <<val, put>>
             \/ /\ handle[holders[k][j]] # "nil"
                /\ get' = [get EXCEPT ![i] = "done"]
                /\ GoesOn(i, Replica(holders[k][j], k))
    BY <1>0 DEF GetAnswers
  <2> QED  BY <1>6, <1>7, <1>8, <2>1

(* Only where a handler is changes *)
LEMMA LocksCalm ==
    ASSUME TypeOK, StoreInv, CountInv, Calm, NEW i \in Increment,
           GetLocksKeys(i) \/ PutLocksConns(i) \/ PutDone(i)
    PROVE  CalmInv'
<1> USE DEF serverVars, callVars, clientVars, jobVars, history
<1>0. CalmInv
  BY DEF CountInv
<1>1. UNCHANGED <<online, handle, holders, todo, proc, memory, val, last, wrote,
                  raced>>
  BY DEF GetLocksKeys, PutLocksConns, PutDone
<1>2. CalmClients'
  BY <1>0, <1>1 DEF CalmInv, CalmClients
<1>3. CASE GetLocksKeys(i)
  <2>1. /\ get[i] = "called" /\ get' = [get EXCEPT ![i] = "holdsKeys"]
        /\ UNCHANGED <<put, stage>>
    BY <1>3 DEF GetLocksKeys
  <2>2. CalmCalls'
    BY <1>0, <1>1, <2>1 DEF CalmInv, CalmCalls, TypeOK, Key
  <2>3. CalmCopies' /\ CalmValues'
    BY <1>0, <1>1, <2>1, CopiesStay
    DEF CalmInv, ToWrite, Storing, Key, CalmValues
  <2> QED  BY <1>2, <2>2, <2>3 DEF CalmInv
<1>4. CASE PutLocksConns(i)
  <2>1. /\ put[i] = "called" /\ put' = [put EXCEPT ![i] = "holdsConns"]
        /\ UNCHANGED <<get, stage>>
    BY <1>4 DEF PutLocksConns
  <2>2. CalmCalls'
    BY <1>0, <1>1, <2>1 DEF CalmInv, CalmCalls, TypeOK, Key
  <2>3. \A j \in Increment : Storing(j)' <=> Storing(j)
    BY <2>1 DEF Storing, TypeOK
  <2>4. CalmCopies' /\ CalmValues'
    BY <1>0, <1>1, <2>1, <2>3, CopiesStay DEF CalmInv, ToWrite, Key, CalmValues
  <2> QED  BY <1>2, <2>2, <2>4 DEF CalmInv
<1>5. CASE PutDone(i)
  <2>1. /\ put[i] = "storing" /\ todo[i] = <<>>
        /\ put' = [put EXCEPT ![i] = "done"] /\ UNCHANGED get
        /\ stage' = [stage EXCEPT ![i] = IF @ = "putting" THEN "counted" ELSE @]
    BY <1>5 DEF PutDone
  <2>2. /\ stage'[i] = "counted" /\ put'[i] = "done"
        /\ stage[i] = "putting"
        /\ \A j \in Increment : j # i => stage'[j] = stage[j] /\ put'[j] = put[j]
    BY <1>0, <2>1 DEF CalmInv, CalmCalls, TypeOK
  <2>3. CalmCalls'
    BY <1>0, <1>1, <2>1, <2>2 DEF CalmInv, CalmCalls, Underway, Key
  <2>4. \A k, c \in Client : ToWrite(k, c)' <=> ToWrite(k, c)
    BY <1>1, <2>1, <2>2 DEF ToWrite, Storing, Range, Key
  <2>5. CalmCopies'
    BY <1>0, <1>1, <2>4, CopiesStay DEF CalmInv
  <2>6. CalmValues'
    BY <1>0, <1>1, <2>2 DEF CalmInv, CalmValues, Key
  <2> QED  BY <1>2, <2>3, <2>5, <2>6 DEF CalmInv
<1> QED  BY <1>3, <1>4, <1>5

(* A player who plays is CONNECTED, so that KVPut finds somebody to write; and*)
(* all who have the key are                                                   *)
LEMMA PutLocksKeysCalm ==
    ASSUME TypeOK, StoreInv, CountInv, Calm, NEW i \in Increment, PutLocksKeys(i)
    PROVE  CalmInv'
<1> DEFINE k == Key(i)
<1>0. CalmInv /\ k \in Client
  BY KeyType DEF CountInv
<1>1. PICK t \in Targets(k) : todo' = [todo EXCEPT ![i] = t]
  BY DEF PutLocksKeys
<1>2. /\ put[i] = "holdsConns" /\ put' = [put EXCEPT ![i] = "storing"]
      /\ last' = [last EXCEPT ![k] = val[i]]
      /\ wrote' = [wrote EXCEPT ![k] = {}]
      /\ UNCHANGED <<online, handle, holders, get, proc, memory, stage, val,
                     raced>>
      /\ \A j \in Increment : ~Storing(j)
  BY DEF PutLocksKeys, KeysFree, serverVars, clientVars, jobVars
<1>3. CalmClients'
  BY <1>0, <1>2 DEF CalmInv, CalmClients
<1>4. CalmCalls'
  BY <1>0, <1>2 DEF CalmInv, CalmCalls, TypeOK, Key
<1>5. /\ Range(t) \subseteq online
      /\ \A j \in Online(k) : holders[k][j] \in Range(t)
      /\ online # {} => Range(t) # {}
  BY <1>0, TargetsType, TargetsOnce DEF StoreInv
<1>6. stage[i] = "putting" /\ k \in online
  BY <1>0, <1>2 DEF CalmInv, CalmCalls, CalmClients, Underway
<1>7. /\ \A l, c : ~ToWrite(l, c)
      /\ \A l, c : ToWrite(l, c)' <=> l = k /\ c \in Range(t)
  <2>1. \A j \in Increment : Storing(j)' <=> j = i
    BY <1>2 DEF Storing, TypeOK
  <2>2. todo'[i] = t
    BY <1>1 DEF TypeOK
  <2>3. \A l, c : ~ToWrite(l, c)
    BY <1>2 DEF ToWrite
  <2>4. \A l, c : ToWrite(l, c)' <=> l = k /\ c \in Range(t)
    BY <2>1, <2>2 DEF ToWrite, Key
  <2> QED  BY <2>3, <2>4
<1>8. CalmCopies'
  <2> SUFFICES ASSUME NEW l \in Client
               PROVE  /\ \A c \in wrote'[l] : memory[c][l] = last'[l]
                      /\ \A c \in Client : ToWrite(l, c)' => c \in online
                      /\ \A c \in Range(holders[l]) :
                           /\ c \in online
                           /\ c \in wrote'[l] \/ ToWrite(l, c)'
                      /\ last'[l] # {} =>
                           \E c \in Client : c \in wrote'[l] \/ ToWrite(l, c)'
    BY <1>2 DEF CalmCopies
  <2>1. \A c \in Range(holders[l]) : c \in online
    BY <1>0 DEF CalmInv, CalmCopies
  <2>2. CASE l # k
    <3>1. wrote'[l] = wrote[l] /\ last'[l] = last[l]
      BY <1>2, <2>2 DEF TypeOK
    <3> HIDE DEF ToWrite
    <3> QED  BY <1>0, <1>7, <2>2, <3>1 DEF CalmInv, CalmCopies
  <2>3. CASE l = k
    <3>1. wrote'[l] = {}
      BY <1>2, <2>3 DEF TypeOK
    <3>2. \A c \in Range(holders[l]) : c \in Range(t)
      BY <1>5, <2>1, <2>3 DEF Online, Range
    <3>3. \E c \in Client : c \in Range(t)
      BY <1>5, <1>6 DEF TypeOK
    <3> HIDE DEF ToWrite
    <3> QED  BY <1>5, <1>7, <2>1, <2>3, <3>1, <3>2, <3>3
  <2> QED  BY <2>2, <2>3
<1>9. CalmValues'
  <2> SUFFICES ASSUME NEW j \in Increment, Key(j) \notin raced
               PROVE  /\ stage[j] = "reading" => Key(j) \in wrote'[Key(j)]
                      /\ stage[j] = "putting" =>
                           last'[Key(j)] \cup {j} \subseteq val[j]
    BY <1>2 DEF CalmValues, Key
  <2>1. CASE Key(j) # k
    <3>1. wrote'[Key(j)] = wrote[Key(j)] /\ last'[Key(j)] = last[Key(j)]
      BY <1>2, <2>1, KeyType DEF TypeOK
    <3> QED  BY <1>0, <3>1 DEF CalmInv, CalmValues
  <2>2. CASE Key(j) = k
    <3>1. stage[j] \in Underway => j = i
      BY <1>6, <2>2 DEF CountInv, OneAtATime, Underway
    <3>2. last'[k] = val[i]
      BY <1>0, <1>2 DEF TypeOK
    <3>3. i \in val[i] \/ j # i
      BY <1>0, <1>6 DEF CalmInv, CalmValues
    <3> QED  BY <1>6, <2>2, <3>1, <3>2, <3>3 DEF Underway
  <2> QED  BY <2>1, <2>2
<1> QED  BY <1>3, <1>4, <1>8, <1>9 DEF CalmInv

LEMMA PutCallsCalm ==
    ASSUME TypeOK, StoreInv, CountInv, Calm, Calm', NEW i \in Increment,
           PutCalls(i)
    PROVE  CalmInv'
<1> DEFINE c == Head(todo[i])
           k == Key(i)
<1>0. CalmInv /\ k \in Client
  BY KeyType DEF CountInv
<1>1. /\ put[i] = "storing" /\ todo[i] # <<>> /\ todo[i] \in Seq(Client)
      /\ put' = [put EXCEPT ![i] = "writing"]
      /\ memory' = [memory EXCEPT ![c][k] = val[i]]
      /\ UNCHANGED <<online, handle, holders, get, todo, proc, stage, val, last,
                     wrote, raced>>
  BY DEF PutCalls, Calm, serverVars, jobVars, history, TypeOK
<1>2. c \in Client /\ c \notin wrote[k]
  BY <1>1, HeadTailProperties, HeadAndTail DEF StoreInv, LoopInv, Storing
<1>3. CalmClients' /\ CalmCalls' /\ CalmValues'
  <2> HIDE DEF c, k
  <2>1. CalmClients' /\ CalmValues'
    BY <1>0, <1>1 DEF CalmInv, CalmClients, CalmValues, Key
  <2>2. CalmCalls'
    BY <1>0, <1>1 DEF CalmInv, CalmCalls, TypeOK, Key
  <2> QED  BY <2>1, <2>2
<1>4. CalmCopies'
  <2> HIDE DEF c, k
  <2>1. \A j \in Increment : Storing(j)' <=> Storing(j)
    BY <1>1 DEF Storing, TypeOK
  <2>2. \A l, d : ToWrite(l, d)' <=> ToWrite(l, d)
    BY <1>1, <2>1 DEF ToWrite, Key
  <2>3. \A l \in Client : \A d \in wrote[l] : memory'[d][l] = memory[d][l]
    BY <1>0, <1>1, <1>2 DEF TypeOK
  <2> HIDE DEF ToWrite
  <2> QED  BY <1>0, <1>1, <2>2, <2>3 DEF CalmInv, CalmCopies
<1> QED  BY <1>3, <1>4 DEF CalmInv

LEMMA PutStoredCalm ==
    ASSUME TypeOK, StoreInv, CountInv, Calm, Calm', NEW i \in Increment,
           PutStored(i)
    PROVE  CalmInv'
<1> DEFINE c == Head(todo[i])
           k == Key(i)
<1>0. CalmInv /\ k \in Client
  BY KeyType DEF CountInv
<1>1. /\ put[i] = "writing" /\ todo[i] # <<>> /\ todo[i] \in Seq(Client)
      /\ proc[c] # "off"
      /\ holders' = [holders EXCEPT ![k] =
                       IF c \in Range(@) THEN @ ELSE Append(@, c)]
      /\ put' = [put EXCEPT ![i] = "storing"]
      /\ todo' = [todo EXCEPT ![i] = Tail(@)]
      /\ wrote' = [wrote EXCEPT ![k] = @ \cup {c}]
      /\ UNCHANGED <<online, handle, get, proc, memory, stage, val, last, raced>>
  BY DEF PutStored, Calm, jobVars, TypeOK
<1>2. /\ c \in Client /\ Range(todo[i]) = {c} \cup Range(Tail(todo[i]))
      /\ memory[c][k] = last[k]
  <2>1. /\ c \in Client /\ Range(todo[i]) = {c} \cup Range(Tail(todo[i]))
    BY <1>1, HeadTailProperties, HeadAndTail
  <2>2. memory[c][k] = val[i] /\ last[k] = val[i]
    BY <1>1 DEF StoreInv, WritingInv, LoopInv, Storing
  <2> QED  BY <2>1, <2>2
<1> HIDE DEF c, k
<1>3. CalmClients'
  BY <1>0, <1>1 DEF CalmInv, CalmClients
<1>4. CalmCalls'
  BY <1>0, <1>1 DEF CalmInv, CalmCalls, TypeOK, Key
<1>5. \A l \in Client :
        wrote'[l] = IF l = k THEN wrote[l] \cup {c} ELSE wrote[l]
  BY <1>0, <1>1 DEF TypeOK
<1>6. CalmValues'
  BY <1>0, <1>1, <1>5, KeyType DEF CalmInv, CalmValues, Key
<1>7. CalmCopies'
  <2>1. \A j \in Increment : Storing(j)' <=> Storing(j)
    BY <1>1 DEF Storing, TypeOK
  <2>2. /\ \A l \in Client, d \in Client : ToWrite(l, d)' => ToWrite(l, d)
        /\ \A l \in Client, d \in Client : ToWrite(l, d) =>
             ToWrite(l, d)' \/ (l = k /\ d = c)
    <3>1. /\ todo'[i] = Tail(todo[i])
          /\ \A j \in Increment : j # i => todo'[j] = todo[j]
      BY <1>1 DEF TypeOK
    <3>2. \A j \in Increment, d \in Client :
            /\ d \in Range(todo'[j]) => d \in Range(todo[j])
            /\ d \in Range(todo[j]) => d \in Range(todo'[j]) \/ (j = i /\ d = c)
      BY <1>2, <3>1
    <3> QED  BY <2>1, <3>2 DEF ToWrite, Key, k
  <2>3. ToWrite(k, c)
    BY <1>1, <1>2 DEF ToWrite, Storing, k
  <2>4. \A l \in Client : Range(holders'[l]) \subseteq
                            IF l = k THEN Range(holders[l]) \cup {c}
                                     ELSE Range(holders[l])
    <3> SUFFICES ASSUME NEW l \in Client
                 PROVE  Range(holders'[l]) \subseteq
                            IF l = k THEN Range(holders[l]) \cup {c}
                                     ELSE Range(holders[l])
      OBVIOUS
    <3>1. holders[k] \in Seq(Client)
      BY <1>0 DEF TypeOK
    <3>2. \/ holders'[l] = holders[l]
          \/ l = k /\ holders'[l] = Append(holders[k], c)
      BY <1>0, <1>1 DEF TypeOK
    <3> QED  BY <1>2, <3>1, <3>2, OneMore
  <2>5. \A l \in Client : Range(holders[l]) \subseteq Client
    <3>1. \A l \in Client : holders[l] \in Seq(Client)
      BY DEF TypeOK
    <3> QED  BY <3>1, RangeOfSeq
  <2> HIDE DEF ToWrite
  <2> SUFFICES ASSUME NEW l \in Client
               PROVE  /\ \A d \in wrote'[l] : memory[d][l] = last[l]
                      /\ \A d \in Client : ToWrite(l, d)' => d \in online
                      /\ \A d \in Range(holders'[l]) :
                           /\ d \in online
                           /\ d \in wrote'[l] \/ ToWrite(l, d)'
                      /\ last[l] # {} =>
                           \E d \in Client : d \in wrote'[l] \/ ToWrite(l, d)'
    BY <1>1 DEF CalmCopies
  <2>6. /\ \A d \in wrote[l] : memory[d][l] = last[l]
        /\ \A d \in Client : ToWrite(l, d) => d \in online
        /\ \A d \in Range(holders[l]) :
             d \in online /\ (d \in wrote[l] \/ ToWrite(l, d))
        /\ last[l] # {} => \E d \in Client : d \in wrote[l] \/ ToWrite(l, d)
    BY <1>0 DEF CalmInv, CalmCopies
  <2>7. \A d \in wrote'[l] : memory[d][l] = last[l]
    BY <1>2, <1>5, <2>6
  <2>8. \A d \in Client : ToWrite(l, d)' => d \in online
    BY <2>2, <2>6
  <2>9. \A d \in Client : d \in wrote[l] \/ ToWrite(l, d) =>
                            d \in wrote'[l] \/ ToWrite(l, d)'
    BY <1>5, <2>2
  <2>10. c \in wrote'[k] /\ c \in online
    BY <1>0, <1>2, <1>5, <2>3 DEF CalmInv, CalmCopies
  <2>11. \A d \in Range(holders'[l]) :
                           /\ d \in online
                           /\ d \in wrote'[l] \/ ToWrite(l, d)'
    BY <2>4, <2>5, <2>6, <2>9, <2>10
  <2>12. last[l] # {} => \E d \in Client : d \in wrote'[l] \/ ToWrite(l, d)'
    BY <2>6, <2>9
  <2> QED  BY <2>7, <2>8, <2>11, <2>12
<1> QED  BY <1>3, <1>4, <1>6, <1>7 DEF CalmInv

(* Clients come; none can leave or start again, for nobody is gone *)
LEMMA ClientCalm ==
    ASSUME TypeOK, StoreInv, CountInv, Calm, Calm', NEW c \in Client,
           Leave(c) \/ Join(c) \/ Attach(c) \/ Crash(c) \/ Restart(c)
    PROVE  CalmInv'
<1> USE DEF serverVars, callVars, clientVars, jobVars, history
<1>0. CalmInv /\ proc[c] # "off" /\ failures = 0 /\ failures' = 0
  BY DEF CountInv, CalmInv, CalmClients, Calm
<1>1. CASE Leave(c) \/ Crash(c) \/ Restart(c)
  BY <1>0, <1>1 DEF Leave, Crash, Restart
<1>2. CASE Join(c)
  <2>1. /\ online' = online \cup {c}
        /\ proc' = [proc EXCEPT ![c] = "playing"]
        /\ UNCHANGED <<handle, holders, get, put, todo, memory, stage, val, last,
                       wrote, raced>>
    BY <1>2 DEF Join
  <2>2. CalmClients'
    BY <1>0, <2>1 DEF CalmInv, CalmClients, TypeOK
  <2>3. CalmCalls' /\ CalmValues'
    BY <1>0, <2>1, KeyType DEF CalmInv, CalmCalls, CalmValues, Key, TypeOK
  <2>4. CalmCopies'
    BY <1>0, <2>1, CopiesStay DEF CalmInv, ToWrite, Storing, Key
  <2> QED  BY <2>2, <2>3, <2>4 DEF CalmInv
<1>3. CASE Attach(c)
  <2>1. /\ handle' = [handle EXCEPT ![c] = "live"]
        /\ UNCHANGED <<online, holders, get, put, todo, proc, memory, stage, val,
                       last, wrote, raced>>
    BY <1>3 DEF Attach
  <2>2. CalmClients'
    BY <1>0, <2>1 DEF CalmInv, CalmClients, TypeOK
  <2>3. CalmCalls' /\ CalmValues'
    BY <1>0, <2>1 DEF CalmInv, CalmCalls, CalmValues, Key
  <2>4. CalmCopies'
    BY <1>0, <2>1, CopiesStay DEF CalmInv, ToWrite, Storing, Key
  <2> QED  BY <2>2, <2>3, <2>4 DEF CalmInv
<1> QED  BY <1>1, <1>2, <1>3

LEMMA NextCalmInv ==
    ASSUME TypeOK, StoreInv, CountInv, [Next]_vars, Calm'
    PROVE  CalmInv'
<1>0. Calm /\ CalmInv /\ failures' = failures /\ ~ended /\ ~ended'
  BY CalmBefore DEF CountInv, Calm
<1>1. ASSUME NEW i \in Increment, GetFails(i) \/ PutFails(i) PROVE FALSE
  BY <1>0, <1>1 DEF GetFails, PutFails, Calm
<1>2. ASSUME NEW i \in Increment, Count(i) PROVE CalmInv'
  BY <1>0, <1>1, <1>2, BeginCalm, ReadOwnCalm DEF Count
<1>3. ASSUME NEW i \in Increment, Serve(i) PROVE CalmInv'
  BY <1>0, <1>3, LocksCalm, GetAnswersCalm, PutLocksKeysCalm, PutCallsCalm,
     PutStoredCalm DEF Serve
<1>4. CASE UNCHANGED vars
  <2>1. UNCHANGED <<online, handle, holders, get, put, todo, proc, memory, stage,
                    val, last, wrote, raced>>
    BY <1>4 DEF vars, serverVars, callVars, clientVars, jobVars, history
  <2>2. CalmClients' /\ CalmCalls' /\ CalmValues'
    BY <1>0, <2>1 DEF CalmInv, CalmClients, CalmCalls, CalmValues, Key
  <2>3. CalmCopies'
    BY <1>0, <2>1, CopiesStay DEF CalmInv, ToWrite, Storing, Key
  <2> QED  BY <2>2, <2>3 DEF CalmInv
<1> QED  BY <1>0, <1>2, <1>3, <1>4, ClientCalm DEF Next

LEMMA NextCountInv == TypeOK /\ StoreInv /\ CountInv /\ [Next]_vars => CountInv'
<1> SUFFICES ASSUME TypeOK, StoreInv, CountInv, [Next]_vars PROVE CountInv'
  OBVIOUS
<1>1. KeysOwned' /\ OneAtATime' /\ Counted'
  BY NextKeysOwned, NextOneAtATime, NextCounted DEF CountInv
<1>2. Calm' => CalmInv'
  BY NextCalmInv
<1> QED  BY <1>1, <1>2 DEF CountInv

(* While no client is away or killed and no call takes too long, a player who *)
(* counts one thing at a time loses no count.                                 *)
THEOREM NothingLost == Spec => []Counted
<1>1. CountInv => Counted
  BY DEF CountInv
<1> QED
  BY InitTypeOK, NextTypeOK, InitStoreInv, NextStoreInv, InitCountInv,
     NextCountInv, <1>1, PTL
  DEF Spec

=============================================================================
