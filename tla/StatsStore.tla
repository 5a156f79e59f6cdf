----------------------------- MODULE StatsStore -----------------------------
(* The key-value store that counts each player's kills and deaths.            *)
(*                                                                            *)
(* A goroutine of a client increments a count in three steps (client.go): it  *)
(* gets its player's value through the server (KVGet, crdt.go), adds one, and *)
(* puts the result back (KVPut). The server (server.go) keeps, per key, the   *)
(* list of the clients that have it; its KVGet asks one of them, its KVPut    *)
(* writes several, one after the other. A client keeps the values in a map    *)
(* and each in a file of its own (clocks.go), which KVStoreSetup reads when   *)
(* it starts.                                                                 *)
(*                                                                            *)
(* The key is always the ID of the player who counts. A value stands for the  *)
(* increments it contains, the zero value for none. KVGet and KVPut take the  *)
(* locks of keyToClients and of connections one after the other, KVGet the    *)
(* one first and KVPut the other; who holds a lock follows from where the     *)
(* handlers are. What else takes the lock of connections is one step here;    *)
(* TankServer has its detail, and the other ways in which the server ends.    *)
EXTENDS Integers, SequencesExt

CONSTANTS
    Client,       \* the client IDs, which are the keys too
    Members,      \* the clients in the game at the start
    Big,          \* the IDs of 2^63 and more
    Increment,    \* the kills and deaths to be counted
    PlayerOf,     \* PlayerOf[i]: whose kill or death it is
    Factor,       \* globalReplicationFactor; KVPut spells it out as 3
    MaxFailures   \* bound on the clients killed, the clients missed while they
                  \* run and the calls that take over 20 s

ASSUME StatsAssumption ==
    /\ IsFiniteSet(Client)
    /\ Members \subseteq Client /\ Big \subseteq Client
    /\ PlayerOf \in [Increment -> Client]
    /\ Factor \in Nat \ {0}
    /\ MaxFailures \in Nat

VARIABLES
    ended,      \* the server has ended in a log.Fatal
    online,     \* the clients whose status is CONNECTED
    handle,     \* handle[c]: rpcClient: "nil", or whether its process runs
    holders,    \* holders[k]: keyToClients.M[k]
    get, put,   \* get[i], put[i]: where the server's handlers for i are
    todo,       \* todo[i]: the clients KVPut has still to write
    proc,       \* proc[c]: where the process of c is
    memory,     \* memory[c][k]: KVMap.M[k]
    file,       \* file[c][k]: the file of k in c's KVDir
    stage,      \* stage[i]: where the goroutine that counts i is
    val,        \* val[i]: its value
    failures,
    last,       \* last[k]: what the last KVPut of k was given
    wrote,      \* wrote[k]: whom it has written so far
    raced       \* the players who counted two things at a time (these three
                \* are history variables)

serverVars == <<online, handle, holders>>
callVars   == <<get, put, todo>>
clientVars == <<proc, memory, file>>
jobVars    == <<stage, val>>
history    == <<last, wrote, raced>>
vars == <<ended, serverVars, callVars, clientVars, jobVars, failures,
          history>>

Underway == {"getting", "reading", "putting"}

Value == SUBSET Increment
File  == [is : {"none", "empty", "full"}, value : Value]
NoFile  == [is |-> "none", value |-> {}]
Empty   == [is |-> "empty", value |-> {}]
Full(v) == [is |-> "full", value |-> v]

Init ==
    /\ ended = FALSE
    /\ online = Members
    /\ handle = [c \in Client |-> IF c \in Members THEN "live" ELSE "nil"]
    /\ holders = [k \in Client |-> <<>>]
    /\ get = [i \in Increment |-> "none"] /\ put = get
    /\ todo = [i \in Increment |-> <<>>]
    /\ proc = [c \in Client |-> IF c \in Members THEN "playing" ELSE "starting"]
    /\ memory = [c \in Client |-> [k \in Client |-> {}]]
    /\ file = [c \in Client |-> [k \in Client |-> NoFile]]
    /\ stage = [i \in Increment |-> "idle"]
    /\ val = [i \in Increment |-> {}]
    /\ failures = 0
    /\ last = [k \in Client |-> {}] /\ wrote = last /\ raced = {}

-----------------------------------------------------------------------------
(* The locks: keyToClients.Mutex and the one of connections *)

Key(i) == PlayerOf[i]

Storing(i) == put[i] \in {"storing", "writing"}

KeysFree  == \A i \in Increment : get[i] # "holdsKeys" /\ ~Storing(i)
ConnsFree == \A i \in Increment : put[i] # "holdsConns" /\ ~Storing(i)

(* A call on c's handle is answered *)
Answers(c) == handle[c] = "live" /\ proc[c] # "off"

-----------------------------------------------------------------------------
(* The goroutine of client.go that counts i                                   *)

(* A player is hit, or hears that somebody died of its shot: KVGet is called *)
Begin(i) ==
    /\ stage[i] = "idle"
    /\ proc[Key(i)] = "playing"
    /\ stage' = [stage EXCEPT ![i] = "getting"]
    /\ raced' = raced \cup {Key(j) : j \in {j \in Increment \ {i} :
                                 Key(j) = Key(i) /\ stage[j] \in Underway}}
    /\ get' = [get EXCEPT ![i] = "called"]
    /\ UNCHANGED <<ended, serverVars, put, todo, clientVars, val, failures,
                   last, wrote>>

(* KVGet has come back with v: add one and call KVPut *)
GoesOn(i, v) ==
    /\ stage' = [stage EXCEPT ![i] = "putting"]
    /\ val' = [val EXCEPT ![i] = v \cup {i}]
    /\ put' = [put EXCEPT ![i] = "called"]

(* Variant: the value of the reply is taken *)
ReadReply(i) ==
    /\ stage[i] = "reading"
    /\ GoesOn(i, {})
    /\ UNCHANGED <<ended, serverVars, get, todo, clientVars, failures, history>>

(* The server said HasAlready: read the client's own map *)
ReadOwn(i) ==
    /\ stage[i] = "reading"
    /\ GoesOn(i, memory[Key(i)][Key(i)])
    /\ UNCHANGED <<ended, serverVars, get, todo, clientVars, failures, history>>

(* doApiCall gives up after 20 s, or the server has ended. The error of KVGet *)
(* is ignored and the count goes on from zero.                                *)
GetFails(i) ==
    /\ stage[i] = "getting"
    /\ \/ ended /\ UNCHANGED failures
       \/ failures < MaxFailures /\ failures' = failures + 1
    /\ GoesOn(i, {})
    /\ UNCHANGED <<ended, serverVars, get, todo, clientVars, history>>

(* Variant for the mutants: the handle takes the state of the process *)
EndsHandle(c) ==
    /\ proc' = [proc EXCEPT ![c] = "off"]
    /\ memory' = [memory EXCEPT ![c] = [k \in Client |-> {}]]
    /\ handle' = [handle EXCEPT ![c] = "off"]
    /\ stage' = [i \in Increment |->
                   IF Key(i) = c /\ stage[i] \in Underway THEN "lost" ELSE stage[i]]

(* c's process is gone, and what it was counting with it *)
Ends(c) ==
    /\ proc' = [proc EXCEPT ![c] = "off"]
    /\ memory' = [memory EXCEPT ![c] = [k \in Client |-> {}]]
    /\ handle' = [handle EXCEPT ![c] = IF @ = "nil" THEN @ ELSE "dead"]
    /\ stage' = [i \in Increment |->
                   IF Key(i) = c /\ stage[i] \in Underway
                   THEN "lost" ELSE stage[i]]

(* The same for KVPut, whose error ends the client *)
PutFails(i) ==
    /\ stage[i] = "putting"
    /\ \/ ended /\ UNCHANGED failures
       \/ failures < MaxFailures /\ failures' = failures + 1
    /\ Ends(Key(i))
    /\ UNCHANGED <<ended, online, holders, callVars, file, val, history>>

-----------------------------------------------------------------------------
(* KVGet at the server                                                        *)

GetLocksKeys(i) ==
    /\ ~ended
    /\ get[i] = "called"
    /\ KeysFree
    /\ get' = [get EXCEPT ![i] = "holdsKeys"]
    /\ UNCHANGED <<ended, serverVars, put, todo, clientVars, jobVars, failures,
                   history>>

(* The places in the list of the clients that are CONNECTED *)
Online(k) == {j \in DOMAIN holders[k] : holders[k][j] \in online}

(* KVClientGet: c's value of k, or zero when the call fails, since the error   *)
(* is not passed on                                                           *)
Replica(c, k) == IF Answers(c) THEN memory[c][k] ELSE {}

(* With both locks, KVGet asks the last CONNECTED client of the list. Nobody: *)
(* the client is told so and goes on from zero. The client itself: HasAlready.*)
(* A client without handle: log.Fatal. Another: its value. The caller may     *)
(* have given up.                                                             *)
GetAnswers(i) ==
    /\ ~ended
    /\ get[i] = "holdsKeys"
    /\ ConnsFree
    /\ LET k == Key(i)
           Reply(v) ==
             /\ get' = [get EXCEPT ![i] = "done"]
             /\ IF stage[i] = "getting" THEN GoesOn(i, v)
                                        ELSE UNCHANGED <<jobVars, put>>
             /\ UNCHANGED ended
       IN  \/ Online(k) = {} /\ Reply({})
           \/ \E j \in Online(k) :
                /\ \A m \in Online(k) : m <= j
                /\ LET c == holders[k][j]
                   IN  \/ /\ c = k
                          /\ get' = [get EXCEPT ![i] = "done"]
                          /\ stage' = [stage EXCEPT ![i] =
                                         IF @ = "getting" THEN "reading" ELSE @]
                          /\ UNCHANGED <<ended, val, put>>
                       \/ /\ c # k /\ handle[c] = "nil"
                          /\ ended' = TRUE
                          /\ UNCHANGED <<get, put, jobVars>>
                       \/ c # k /\ handle[c] # "nil" /\ Reply(Replica(c, k))
    /\ UNCHANGED <<serverVars, todo, clientVars, failures, history>>

-----------------------------------------------------------------------------
(* KVPut at the server, and KVClientPut                                       *)

PutLocksConns(i) ==
    /\ ~ended
    /\ put[i] = "called"
    /\ ConnsFree
    /\ put' = [put EXCEPT ![i] = "holdsConns"]
    /\ UNCHANGED <<ended, serverVars, get, todo, clientVars, jobVars, failures,
                   history>>

(* Variant: one copy too few is enough *)
TargetsShort(k) ==
    LET kept == Cardinality(Online(k))
        n    == IF kept >= Factor - 1 THEN kept
                                      ELSE Min({Cardinality(online), Factor})
    IN  {t \in [1..n -> online] :
           /\ \E at \in [1..kept -> Online(k)] :
                \A a \in 1..kept : /\ t[a] = holders[k][at[a]]
                                   /\ \A b \in 1..(a - 1) : at[b] < at[a]
           /\ \A a \in (kept + 1)..n : \A b \in 1..(a - 1) : t[a] # t[b]}

(* Whom KVPut writes: the CONNECTED clients of the list, however many and in  *)
(* the order of the list, and as many other CONNECTED clients, in any order,  *)
(* as there are too few of them                                               *)
Targets(k) ==
    LET kept == Cardinality(Online(k))
        n    == Max({kept, Min({Cardinality(online), Factor})})
    IN  {t \in [1..n -> online] :
           /\ \E at \in [1..kept -> Online(k)] :
                \A a \in 1..kept : /\ t[a] = holders[k][at[a]]
                                   /\ \A b \in 1..(a - 1) : at[b] < at[a]
           /\ \A a \in (kept + 1)..n : \A b \in 1..(a - 1) : t[a] # t[b]}

PutLocksKeys(i) ==
    /\ ~ended
    /\ put[i] = "holdsConns"
    /\ KeysFree
    /\ put' = [put EXCEPT ![i] = "storing"]
    /\ \E t \in Targets(Key(i)) : todo' = [todo EXCEPT ![i] = t]
    /\ last' = [last EXCEPT ![Key(i)] = val[i]]
    /\ wrote' = [wrote EXCEPT ![Key(i)] = {}]
    /\ UNCHANGED <<ended, serverVars, get, clientVars, jobVars, failures, raced>>

(* The next client is called. It sets its map, and WriteKVPair creates or     *)
(* truncates the file. A nil handle or a failing call ends the server.        *)
PutCalls(i) ==
    /\ ~ended
    /\ put[i] = "storing" /\ todo[i] # <<>>
    /\ LET c == Head(todo[i])
           k == Key(i)
       IN  \/ /\ Answers(c)
              /\ put' = [put EXCEPT ![i] = "writing"]
              /\ memory' = [memory EXCEPT ![c][k] = val[i]]
              /\ file' = [file EXCEPT ![c][k] = Empty]
              /\ UNCHANGED ended
           \/ /\ ~Answers(c)
              /\ ended' = TRUE
              /\ UNCHANGED <<put, memory, file>>
    /\ UNCHANGED <<serverVars, get, todo, proc, jobVars, failures, history>>

(* The file is written, the call returns and the client is in the list; if    *)
(* the client has been killed meanwhile the call fails                        *)
PutStored(i) ==
    /\ ~ended
    /\ put[i] = "writing"
    /\ LET c == Head(todo[i])
           k == Key(i)
       IN  \/ /\ proc[c] # "off"
              /\ file' = [file EXCEPT ![c][k] = Full(val[i])]
              /\ holders' = [holders EXCEPT ![k] =
                               IF c \in Range(@) THEN @ ELSE Append(@, c)]
              /\ put' = [put EXCEPT ![i] = "storing"]
              /\ todo' = [todo EXCEPT ![i] = Tail(@)]
              /\ wrote' = [wrote EXCEPT ![k] = @ \cup {c}]
              /\ UNCHANGED ended
           \/ /\ proc[c] = "off"
              /\ ended' = TRUE
              /\ UNCHANGED <<file, holders, put, todo, wrote>>
    /\ UNCHANGED <<online, handle, get, proc, memory, jobVars, failures, last,
                   raced>>

(* Variant: KVPut answers and keeps its locks *)
PutDoneLocked(i) ==
    /\ ~ended
    /\ put[i] = "storing" /\ todo[i] = <<>>
    /\ stage' = [stage EXCEPT ![i] = IF @ = "putting" THEN "counted" ELSE @]
    /\ UNCHANGED <<ended, serverVars, callVars, clientVars, val, failures,
                   history>>

PutDone(i) ==
    /\ ~ended
    /\ put[i] = "storing" /\ todo[i] = <<>>
    /\ put' = [put EXCEPT ![i] = "done"]
    /\ stage' = [stage EXCEPT ![i] = IF @ = "putting" THEN "counted" ELSE @]
    /\ UNCHANGED <<ended, serverVars, get, todo, clientVars, val, failures,
                   history>>

-----------------------------------------------------------------------------
(* Clients that come and go                                                   *)

(* NotifyFailure: the server no longer has c as CONNECTED *)
Leave(c) ==
    /\ ~ended /\ ConnsFree
    /\ c \in online
    /\ online' = online \ {c}
    /\ \/ proc[c] = "off" /\ UNCHANGED failures
       \/ /\ proc[c] # "off"
          /\ failures < MaxFailures /\ failures' = failures + 1
    /\ UNCHANGED <<ended, handle, holders, callVars, clientVars, jobVars,
                   history>>

(* Connect, or GetNodes after a Recover *)
Join(c) ==
    /\ ~ended /\ ConnsFree
    /\ c \notin online /\ proc[c] # "off"
    /\ online' = online \cup {c}
    /\ proc' = [proc EXCEPT ![c] = "playing"]
    /\ UNCHANGED <<ended, handle, holders, callVars, memory, file, jobVars,
                   failures, history>>

(* awaitClientConnections notes the handle of c's process *)
Attach(c) ==
    /\ ~ended /\ ConnsFree
    /\ proc[c] # "off" /\ handle[c] # "live"
    /\ handle' = [handle EXCEPT ![c] = "live"]
    /\ UNCHANGED <<ended, online, holders, callVars, clientVars, jobVars,
                   failures, history>>

Crash(c) ==
    /\ failures < MaxFailures
    /\ proc[c] # "off"
    /\ failures' = failures + 1
    /\ Ends(c)
    /\ UNCHANGED <<ended, online, holders, callVars, file, val, history>>

(* Variant: the files are not read back *)
RestartEmpty(c) ==
    /\ proc[c] = "off" /\ c \notin online
    /\ proc' = [proc EXCEPT ![c] = "starting"]
    /\ UNCHANGED <<ended, serverVars, callVars, memory, file, jobVars,
                   failures, history>>

(* KVStoreSetup reads the files back. An empty one makes it panic, and Atoi   *)
(* reads the name of a Big key as another number. (A client that is still     *)
(* CONNECTED would go on to a Connect that ends the server: TankServer.)      *)
Restart(c) ==
    /\ proc[c] = "off" /\ c \notin online
    /\ \A k \in Client : file[c][k].is # "empty"
    /\ proc' = [proc EXCEPT ![c] = "starting"]
    /\ memory' = [memory EXCEPT ![c] =
                    [k \in Client |-> IF k \in Big THEN {} ELSE file[c][k].value]]
    /\ UNCHANGED <<ended, serverVars, callVars, file, jobVars, failures,
                   history>>

-----------------------------------------------------------------------------
Serve(i) ==
    \/ GetLocksKeys(i)
    \/ GetAnswers(i)
    \/ PutLocksConns(i)
    \/ PutLocksKeys(i)
    \/ PutCalls(i)
    \/ PutStored(i)
    \/ PutDone(i)

Count(i) ==
    \/ Begin(i)
    \/ ReadOwn(i)
    \/ GetFails(i)
    \/ PutFails(i)

Next ==
    \/ \E i \in Increment : Serve(i) \/ Count(i)
    \/ \E c \in Client : \/ Leave(c)
                         \/ Join(c)
                         \/ Attach(c)
                         \/ Crash(c)
                         \/ Restart(c)

Spec == Init /\ [][Next]_vars

(* The handlers and the client's goroutine go on by themselves, and Go's locks*)
(* serve whoever waits in turn; the deadline of a call need not be reached    *)
Fairness == \A i \in Increment : WF_vars(Serve(i)) /\ WF_vars(ReadOwn(i))

FairSpec == Spec /\ Fairness

-----------------------------------------------------------------------------
(* Properties                                                                 *)

(* Every variable keeps its type *)
TypeOK ==
    /\ ended \in BOOLEAN
    /\ online \in SUBSET Client
    /\ handle \in [Client -> {"nil", "live", "dead"}]
    /\ holders \in [Client -> Seq(Client)]
    /\ get \in [Increment -> {"none", "called", "holdsKeys", "done"}]
    /\ put \in [Increment -> {"none", "called", "holdsConns", "storing",
                              "writing", "done"}]
    /\ todo \in [Increment -> Seq(Client)]
    /\ \A i \in Increment : put[i] = "writing" => todo[i] # <<>>
    /\ proc \in [Client -> {"off", "starting", "playing"}]
    /\ memory \in [Client -> [Client -> Value]]
    /\ file \in [Client -> [Client -> File]]
    /\ stage \in [Increment -> Underway \cup {"idle", "counted", "lost"}]
    /\ val \in [Increment -> Value]
    /\ failures \in Nat
    /\ last \in [Client -> Value] /\ wrote \in [Client -> SUBSET Client]
    /\ raced \in SUBSET Client

(* What KVPut has written at a client stays there until the next KVPut of the *)
(* key: the client is in the key's list, its file has the value, and so has   *)
(* its map, even after it was killed and started again. (A key of 2^63 and    *)
(* more is not read back: KVStoreSetup.)                                      *)
CopiesDurable ==
    \A k \in Client : \A c \in wrote[k] :
      /\ c \in Range(holders[k])
      /\ file[c][k] = Full(last[k])
      /\ proc[c] # "off" /\ k \notin Big => memory[c][k] = last[k]

(* REPORT.md:80, the replication: a KVPut that is answered has left the value *)
(* on file at every CONNECTED client of the key's list, and these are Factor  *)
(* at least, or all that are CONNECTED. Nobody whose call failed in the       *)
(* middle, nobody it chose and nobody who was in the list before is missed,   *)
(* whoever is killed, leaves or comes while it goes round.                    *)
Replicated(k, v) ==
    LET has == {c \in online : c \in Range(holders[k])}
    IN  /\ \A c \in has : file[c][k] = Full(v)
        /\ Cardinality(has) >= Min({Cardinality(online), Factor})

PutReplicates ==
    [][\A i \in Increment : put[i] = "storing" /\ put'[i] = "done" =>
                              Replicated(Key(i), val[i])]_vars

(* While no client is away or killed and no call takes too long, a player who *)
(* counts one thing at a time loses none: the KVGet of the next increment     *)
(* returns what the last KVPut stored, whichever clients it was stored at.    *)
Counted ==
    failures = 0 =>
      \A i \in Increment :
        stage[i] = "counted" /\ Key(i) \notin raced => i \in last[Key(i)]

(* A KVGet has the lock of keyToClients and a KVPut that of connections, each *)
(* waiting for the other                                                      *)
Crossed == /\ \E i \in Increment : get[i] = "holdsKeys"
           /\ \E i \in Increment : put[i] = "holdsConns"

(* The server answers every KVGet and KVPut in the end, unless it ends or the *)
(* two locks are taken crosswise: nothing else makes the handlers wait for    *)
(* each other, and no handler that gives up or fails keeps a lock.            *)
CallsEnd ==
    \A i \in Increment :
      get[i] = "called" ~> \/ ended \/ Crossed
                           \/ get[i] = "done" /\ put[i] \in {"none", "done"}

=============================================================================
