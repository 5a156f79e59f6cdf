-------------------------- MODULE TankServerProofs --------------------------
(* What the server keeps true of its map, its names and its lock, for any     *)
(* number of clients, of goroutines and of starts, crashes and suspensions.   *)
EXTENDS TankServer, SequenceTheorems, TLAPS

Dialled == [id : Client, zero : BOOLEAN, start : Nat, at : {"open", "sent", "closed"}]

USE DEF Running, Free, Call, Peer

Goroutine == [at : {"free", "waiting", "measuring", "spreading"},
              todo : SUBSET Client, measured : SUBSET Client]

(* The accept queue keeps its type when the entries of a client change *)
LEMMA EntriesType ==
    ASSUME dialled \in Seq(Dialled), NEW c \in Client, NEW to \in {"sent", "closed"}
    PROVE  Entries(c, to) \in Seq(Dialled)
<1>1. \A i \in 1..Len(dialled) : dialled[i] \in Dialled
  OBVIOUS
<1>2. DOMAIN dialled = 1..Len(dialled) /\ Len(dialled) \in Nat
  OBVIOUS
<1>3. Entries(c, to) \in [1..Len(dialled) -> Dialled]
  BY <1>1, <1>2 DEF Entries, Dialled
<1> QED  BY <1>2, <1>3

(* A goroutine's visit of a client *)
LEMMA VisitType ==
    ASSUME GoroutineTypeOK, NEW s \in Slot, NEW c \in Client,
           sync' = [sync EXCEPT ![s].todo = @ \ {c}]
    PROVE  /\ sync' \in [Slot -> Goroutine]
           /\ sync' = [sync EXCEPT ![s] =
                 [at |-> sync[s].at, todo |-> sync[s].todo \ {c},
                  measured |-> sync[s].measured]]
<1>1. sync \in [Slot -> Goroutine]
  BY DEF GoroutineTypeOK, Goroutine
<1>2. sync[s] \in Goroutine
  BY <1>1
<1>3. [sync[s] EXCEPT !.todo = sync[s].todo \ {c}] \in Goroutine
  BY <1>2 DEF Goroutine
<1>4. sync' = [sync EXCEPT ![s] = [sync[s] EXCEPT !.todo = sync[s].todo \ {c}]]
  OBVIOUS
<1>5. [sync[s] EXCEPT !.todo = sync[s].todo \ {c}] =
        [at |-> sync[s].at, todo |-> sync[s].todo \ {c},
         measured |-> sync[s].measured]
  BY <1>2 DEF Goroutine
<1> QED  BY <1>1, <1>3, <1>4, <1>5

LEMMA PartnersType ==
    ASSUME TypeOK, NEW c \in Client
    PROVE  Partners(c) \subseteq Peer
BY DEF TypeOK, ServerTypeOK, Partners

LEMMA InitTypeOK == Init => TypeOK
<1> SUFFICES ASSUME Init PROVE TypeOK
  OBVIOUS
<1>1. ServerTypeOK
  BY DEF Init, ServerTypeOK, Status, Fault
<1>2. HandlerTypeOK
  BY DEF Init, HandlerTypeOK
<1>3. GoroutineTypeOK
  BY DEF Init, GoroutineTypeOK
<1>4. ClientTypeOK
  BY DEF Init, ClientTypeOK, Proc
<1> QED  BY <1>1, <1>2, <1>3, <1>4 DEF TypeOK

LEMMA ClientKeepsTypes ==
    ASSUME TypeOK, NEW c \in Client, ClientStep(c)
    PROVE  TypeOK'
<1> USE DEF Goes, serverVars, handlerVars, clientVars, lockVars
<1>1. CASE Start(c)
  <2>1. ServerTypeOK'
    BY <1>1 DEF TypeOK, ServerTypeOK, Start
  <2>2. HandlerTypeOK'
    BY <1>1 DEF TypeOK, HandlerTypeOK, Start
  <2>3. GoroutineTypeOK'
    BY <1>1 DEF TypeOK, GoroutineTypeOK, Start
  <2>4. ClientTypeOK'
    BY <1>1 DEF TypeOK, ClientTypeOK, Start, Proc
  <2> QED  BY <2>1, <2>2, <2>3, <2>4 DEF TypeOK
<1>2. CASE CreateIDFile(c)
  BY <1>2
  DEF TypeOK, ServerTypeOK, HandlerTypeOK, GoroutineTypeOK, ClientTypeOK,
      CreateIDFile, Proc
<1>3. CASE WriteIDFile(c)
  BY <1>3
  DEF TypeOK, ServerTypeOK, HandlerTypeOK, GoroutineTypeOK, ClientTypeOK,
      WriteIDFile, Proc
<1>4. CASE Dial(c)
  BY <1>4
  DEF TypeOK, ServerTypeOK, HandlerTypeOK, GoroutineTypeOK, ClientTypeOK,
      Dial, Proc
<1>5. CASE SendID(c)
  BY <1>5, EntriesType
  DEF TypeOK, ServerTypeOK, HandlerTypeOK, GoroutineTypeOK, ClientTypeOK,
      SendID, Proc, Dialled
<1>6. CASE Crash(c)
  <2>1. ServerTypeOK'
    BY <1>6 DEF TypeOK, ServerTypeOK, Crash
  <2>2. HandlerTypeOK'
    BY <1>6 DEF TypeOK, HandlerTypeOK, Crash
  <2>3. GoroutineTypeOK'
    BY <1>6, EntriesType DEF TypeOK, GoroutineTypeOK, Crash, Proc, Dialled
  <2>4. ClientTypeOK'
    BY <1>6, EntriesType DEF TypeOK, ClientTypeOK, Crash, Proc, Dialled
  <2> QED  BY <2>1, <2>2, <2>3, <2>4 DEF TypeOK
<1>7. CASE Suspend(c)
  <2>1. ServerTypeOK'
    BY <1>7 DEF TypeOK, ServerTypeOK, Suspend
  <2>2. HandlerTypeOK'
    BY <1>7 DEF TypeOK, HandlerTypeOK, Suspend
  <2>3. GoroutineTypeOK'
    BY <1>7 DEF TypeOK, GoroutineTypeOK, Suspend
  <2>4. ClientTypeOK'
    BY <1>7 DEF TypeOK, ClientTypeOK, Suspend
  <2> QED  BY <2>1, <2>2, <2>3, <2>4 DEF TypeOK
<1>8. CASE Resume(c)
  BY <1>8
  DEF TypeOK, ServerTypeOK, HandlerTypeOK, GoroutineTypeOK, ClientTypeOK, Resume
<1>9. CASE Report(c)
  BY <1>9
  DEF TypeOK, ServerTypeOK, HandlerTypeOK, GoroutineTypeOK, ClientTypeOK, Report
<1> QED  BY <1>1, <1>2, <1>3, <1>4, <1>5, <1>6, <1>7, <1>8, <1>9 DEF ClientStep

LEMMA FailsKeepsTypes ==
    ASSUME TypeOK, NEW why \in Fault, Fails(why)
    PROVE  TypeOK'
BY DEF TypeOK, ServerTypeOK, HandlerTypeOK, GoroutineTypeOK, ClientTypeOK,
    Fails, serverVars, handlerVars, clientVars, lockVars

LEMMA HandlerKeepsTypes ==
    ASSUME TypeOK, NEW c \in Client, Handler(c)
    PROVE  TypeOK'
<1> USE DEF serverVars, handlerVars, clientVars, lockVars
<1>1. CASE RegisterName(c)
  <2>1. ServerTypeOK'
    BY <1>1, ServerAssumption DEF TypeOK, ServerTypeOK, RegisterName, Proc
  <2>2. HandlerTypeOK'
    BY <1>1 DEF TypeOK, HandlerTypeOK, ClientTypeOK, RegisterName
  <2>3. GoroutineTypeOK'
    BY <1>1 DEF TypeOK, GoroutineTypeOK, RegisterName
  <2>4. ClientTypeOK'
    BY <1>1, ServerAssumption DEF TypeOK, ClientTypeOK, RegisterName, Proc
  <2> QED  BY <2>1, <2>2, <2>3, <2>4 DEF TypeOK
<1>2. CASE RejectConnect(c)
  BY <1>2
  DEF TypeOK, ServerTypeOK, HandlerTypeOK, GoroutineTypeOK, ClientTypeOK,
      RejectConnect
<1>3. CASE Connect(c)
  <2>1. ServerTypeOK'
    <3>1. /\ status' = [status EXCEPT ![c] = "CONNECTED"]
          /\ address' = [address EXCEPT ![c] = addrOf[c]]
          /\ client' = [client EXCEPT ![c] = 0]
          /\ UNCHANGED <<fault, locked, stolen, displayNames, rpcClient>>
      BY <1>3 DEF Connect
    <3>2. \E p \in Peer \cup {NoPeer} : partner' = [partner EXCEPT ![c] = p]
      BY <1>3, PartnersType DEF Connect
    <3>3. status' \in [Client -> Status] /\ address' \in [Client -> Addr]
          /\ client' \in [Client -> Nat]
      BY <3>1 DEF TypeOK, ServerTypeOK, ClientTypeOK, Status
    <3>4. partner' \in [Client -> Peer \cup {NoPeer}]
      BY <3>2 DEF TypeOK, ServerTypeOK
    <3> QED  BY <3>1, <3>3, <3>4 DEF TypeOK, ServerTypeOK
  <2>2. HandlerTypeOK'
    BY <1>3 DEF TypeOK, HandlerTypeOK, Connect
  <2>3. GoroutineTypeOK'
    <3>1. /\ \E s \in Slot : sync' = [sync EXCEPT ![s].at = "waiting"]
          /\ UNCHANGED <<dialled, monitor>>
      BY <1>3 DEF Connect
    <3>2. PICK s \in Slot :
            sync' = [sync EXCEPT ![s] = [sync[s] EXCEPT !.at = "waiting"]]
      BY <3>1
    <3>3. sync' \in [Slot -> Goroutine]
      BY <3>2 DEF TypeOK, GoroutineTypeOK, Goroutine
    <3> QED  BY <3>1, <3>3 DEF TypeOK, GoroutineTypeOK, Goroutine
  <2>4. ClientTypeOK'
    BY <1>3, PartnersType DEF TypeOK, ClientTypeOK, Connect, Proc, Status
  <2> QED  BY <2>1, <2>2, <2>3, <2>4 DEF TypeOK
<1>4. CASE Disconnect(c)
  BY <1>4
  DEF TypeOK, ServerTypeOK, HandlerTypeOK, GoroutineTypeOK, ClientTypeOK,
      Disconnect, Proc, Status
<1>5. CASE GetNodes(c)
  <2>1. ServerTypeOK'
    BY <1>5, PartnersType DEF TypeOK, ServerTypeOK, GetNodes
  <2>2. HandlerTypeOK'
    BY <1>5, PartnersType DEF TypeOK, HandlerTypeOK, GetNodes
  <2>3. GoroutineTypeOK'
    BY <1>5 DEF TypeOK, GoroutineTypeOK, GetNodes
  <2>4. ClientTypeOK'
    BY <1>5 DEF TypeOK, ClientTypeOK, GetNodes
  <2> QED  BY <2>1, <2>2, <2>3, <2>4 DEF TypeOK
<1>6. CASE GetNodesReads(c)
  <2>1. CASE Fails("concurrent map read")
    BY <2>1, FailsKeepsTypes DEF Fault
  <2>2. CASE ~Fails("concurrent map read")
    BY <1>6, <2>2
    DEF GetNodesReads, TypeOK, ServerTypeOK, HandlerTypeOK, GoroutineTypeOK,
        ClientTypeOK
  <2> QED  BY <2>1, <2>2
<1>7. CASE GetNodesPromotes(c)
  BY <1>7
  DEF TypeOK, ServerTypeOK, HandlerTypeOK, GoroutineTypeOK, ClientTypeOK,
      GetNodesPromotes, Status
<1>8. CASE NotifyFailure(c)
  BY <1>8
  DEF TypeOK, ServerTypeOK, HandlerTypeOK, GoroutineTypeOK, ClientTypeOK,
      NotifyFailure, Status
<1> QED  BY <1>1, <1>2, <1>3, <1>4, <1>5, <1>6, <1>7, <1>8 DEF Handler

LEMMA ReplyKeepsTypes ==
    ASSUME TypeOK,
           \/ \E r \in registering : RegisterConnection(r)
           \/ \E r \in rejecting : ReturnRejection(r)
           \/ AwaitClient
    PROVE  TypeOK'
<1> USE DEF serverVars, handlerVars, clientVars, lockVars
<1>1. ASSUME NEW r \in registering, RegisterConnection(r) PROVE TypeOK'
  BY <1>1
  DEF TypeOK, ServerTypeOK, HandlerTypeOK, GoroutineTypeOK, ClientTypeOK,
      RegisterConnection, Proc, Status
<1>2. ASSUME NEW r \in rejecting, ReturnRejection(r) PROVE TypeOK'
  BY <1>2
  DEF TypeOK, ServerTypeOK, HandlerTypeOK, GoroutineTypeOK, ClientTypeOK,
      ReturnRejection, Proc, Unlock, Fault
<1>3. CASE AwaitClient
  <2>1. CASE \E why \in Fault : Fails(why)
    BY <2>1, FailsKeepsTypes
  <2>2. CASE ~\E why \in Fault : Fails(why)
    <3>1. /\ dialled # <<>> /\ Head(dialled).id \in Client
          /\ dialled' = Tail(dialled)
          /\ rpcClient' = [rpcClient EXCEPT ![Head(dialled).id] =
                             Head(dialled).start]
          /\ UNCHANGED <<fault, lockVars, displayNames, status, address,
                         client, partner, handlerVars, sync, monitor,
                         clientVars, left>>
      BY <1>3, <2>2 DEF AwaitClient, Fault, Known
    <3>2. Head(dialled) \in Dialled /\ Tail(dialled) \in Seq(Dialled)
      <4>1. dialled \in Seq(Dialled)
        BY DEF TypeOK, GoroutineTypeOK, Dialled
      <4> QED  BY <3>1, <4>1, HeadTailProperties
    <3>3. ServerTypeOK'
      BY <3>1, <3>2 DEF TypeOK, ServerTypeOK, Dialled
    <3>4. GoroutineTypeOK'
      BY <3>1, <3>2 DEF Dialled, TypeOK, GoroutineTypeOK
    <3> QED  BY <3>1, <3>3, <3>4 DEF TypeOK, HandlerTypeOK, ClientTypeOK
  <2> QED  BY <2>1, <2>2
<1> QED  BY <1>1, <1>2, <1>3

LEMMA GoroutineKeepsTypes ==
    ASSUME TypeOK,
           \/ \E s \in Slot : SyncLock(s) \/ SyncHolds(s)
           \/ MonitorLock \/ MonitorHolds
    PROVE  TypeOK'
<1> USE DEF serverVars, handlerVars, clientVars, lockVars
<1>1. ASSUME NEW s \in Slot, SyncLock(s) PROVE TypeOK'
  BY <1>1
  DEF TypeOK, ServerTypeOK, HandlerTypeOK, GoroutineTypeOK, ClientTypeOK,
      SyncLock, Known
<1>2. ASSUME NEW s \in Slot, NEW c \in Client, SyncMeasure(s, c) PROVE TypeOK'
  <2>1. CASE \E why \in Fault : Fails(why)
    BY <2>1, FailsKeepsTypes
  <2>2. CASE /\ sync' = [sync EXCEPT ![s].todo = @ \ {c}]
             /\ UNCHANGED <<fault, lockVars, serverVars, handlerVars, dialled,
                            monitor, clientVars, left>>
    <3>1. GoroutineTypeOK'
      BY <2>2, VisitType DEF TypeOK, GoroutineTypeOK, Goroutine
    <3> QED  BY <2>2, <3>1 DEF TypeOK, ServerTypeOK, HandlerTypeOK, ClientTypeOK
  <2> QED  BY <1>2, <2>1, <2>2 DEF SyncMeasure, Fault
<1>3. ASSUME NEW s \in Slot, NEW c \in Client, SyncAsk(s, c) PROVE TypeOK'
  <2>1. ServerTypeOK'
    BY <1>3 DEF TypeOK, ServerTypeOK, SyncAsk, Fault
  <2>2. HandlerTypeOK'
    BY <1>3 DEF TypeOK, HandlerTypeOK, SyncAsk
  <2>3. GoroutineTypeOK'
    <3>1. /\ \/ sync' = [sync EXCEPT ![s].todo = @ \ {c},
                                     ![s].measured = @ \cup {c}]
             \/ sync' = sync
          /\ UNCHANGED <<dialled, monitor>>
      BY <1>3 DEF SyncAsk
    <3>2. sync \in [Slot -> Goroutine] /\ sync[s] \in Goroutine
      BY DEF TypeOK, GoroutineTypeOK, Goroutine
    <3>3. [sync[s] EXCEPT !.todo = @ \ {c}, !.measured = @ \cup {c}] \in Goroutine
      BY <3>2 DEF Goroutine
    <3>4. sync' \in [Slot -> Goroutine]
      BY <3>1, <3>2, <3>3
    <3> QED  BY <3>1, <3>4 DEF TypeOK, GoroutineTypeOK, Goroutine
  <2>4. ClientTypeOK'
    BY <1>3 DEF TypeOK, ClientTypeOK, SyncAsk
  <2> QED  BY <2>1, <2>2, <2>3, <2>4 DEF TypeOK
<1>4. ASSUME NEW s \in Slot, SyncAverage(s) PROVE TypeOK'
  <2>1. ServerTypeOK'
    BY <1>4 DEF TypeOK, ServerTypeOK, SyncAverage
  <2>2. HandlerTypeOK'
    BY <1>4 DEF TypeOK, HandlerTypeOK, SyncAverage
  <2>3. GoroutineTypeOK'
    <3>1. /\ sync' = [sync EXCEPT ![s].at = "spreading", ![s].todo = Known]
          /\ UNCHANGED <<dialled, monitor>>
      BY <1>4 DEF SyncAverage
    <3>2. sync \in [Slot -> Goroutine] /\ sync[s] \in Goroutine
      BY DEF TypeOK, GoroutineTypeOK, Goroutine
    <3>3. [sync[s] EXCEPT !.at = "spreading", !.todo = Known] \in Goroutine
      BY <3>2 DEF Goroutine, Known
    <3>4. sync' \in [Slot -> Goroutine]
      BY <3>1, <3>2, <3>3
    <3> QED  BY <3>1, <3>4 DEF TypeOK, GoroutineTypeOK, Goroutine
  <2>4. ClientTypeOK'
    BY <1>4 DEF TypeOK, ClientTypeOK, SyncAverage
  <2> QED  BY <2>1, <2>2, <2>3, <2>4 DEF TypeOK
<1>5. ASSUME NEW s \in Slot, NEW c \in Client, SyncSpread(s, c) PROVE TypeOK'
  <2>1. CASE \E why \in Fault : Fails(why)
    BY <2>1, FailsKeepsTypes
  <2>2. CASE /\ sync' = [sync EXCEPT ![s].todo = @ \ {c}]
             /\ UNCHANGED <<fault, lockVars, serverVars, handlerVars, dialled,
                            monitor, clientVars, left>>
    <3>1. GoroutineTypeOK'
      BY <2>2, VisitType DEF TypeOK, GoroutineTypeOK, Goroutine
    <3> QED  BY <2>2, <3>1 DEF TypeOK, ServerTypeOK, HandlerTypeOK, ClientTypeOK
  <2> QED  BY <1>5, <2>1, <2>2 DEF SyncSpread, Fault
<1>6. ASSUME NEW s \in Slot, SyncUnlock(s) PROVE TypeOK'
  BY <1>6
  DEF TypeOK, ServerTypeOK, HandlerTypeOK, GoroutineTypeOK, ClientTypeOK,
      SyncUnlock, Unlock, Fault
<1>7. CASE MonitorLock
  BY <1>7
  DEF TypeOK, ServerTypeOK, HandlerTypeOK, GoroutineTypeOK, ClientTypeOK,
      MonitorLock, Known
<1>8. ASSUME NEW c \in Client, MonitorRecovers(c) PROVE TypeOK'
  BY <1>8
  DEF TypeOK, ServerTypeOK, HandlerTypeOK, GoroutineTypeOK, ClientTypeOK,
      MonitorRecovers, Status
<1>9. ASSUME NEW c \in Client, MonitorPasses(c) PROVE TypeOK'
  <2>1. CASE \E why \in Fault : Fails(why)
    BY <2>1, FailsKeepsTypes
  <2>2. CASE /\ monitor' = [monitor EXCEPT !.todo = @ \ {c}]
             /\ UNCHANGED <<fault, lockVars, serverVars, handlerVars, dialled,
                            sync, clientVars, left>>
    BY <2>2
    DEF TypeOK, ServerTypeOK, HandlerTypeOK, GoroutineTypeOK, ClientTypeOK
  <2> QED  BY <1>9, <2>1, <2>2 DEF MonitorPasses, Fault
<1>10. CASE MonitorUnlock
  BY <1>10
  DEF TypeOK, ServerTypeOK, HandlerTypeOK, GoroutineTypeOK, ClientTypeOK,
      MonitorUnlock, Unlock, Fault
<1> QED
  BY <1>1, <1>2, <1>3, <1>4, <1>5, <1>6, <1>7, <1>8, <1>9, <1>10
  DEF SyncHolds, MonitorHolds

LEMMA NextTypeOK == TypeOK /\ [Next]_vars => TypeOK'
<1> SUFFICES ASSUME TypeOK, [Next]_vars PROVE TypeOK'
  OBVIOUS
<1>1. CASE UNCHANGED vars
  BY <1>1
  DEF TypeOK, ServerTypeOK, HandlerTypeOK, GoroutineTypeOK, ClientTypeOK,
      vars, TypeOK, serverVars, handlerVars, clientVars, lockVars
<1>2. CASE \E c \in Client : ClientStep(c) \/ Handler(c)
  BY <1>2, ClientKeepsTypes, HandlerKeepsTypes
<1> QED  BY <1>1, <1>2, ReplyKeepsTypes, GoroutineKeepsTypes DEF Next

(* The server and its clients keep their variables' types.                    *)
THEOREM TypeCorrect == Spec => []TypeOK
BY InitTypeOK, NextTypeOK, PTL DEF Spec

-----------------------------------------------------------------------------
(* The lock of the connections. Without a stolen lock, the goroutine that     *)
(* ranges over the map is the only one, so that nobody becomes CONNECTED      *)
(* under it: each connected client it has passed is measured.                 *)
PassedAreMeasured ==
    ~stolen =>
      \A s \in Slot : sync[s].at = "measuring" =>
        \A c \in Client \ sync[s].todo : status[c] = "CONNECTED" =>
          c \in sync[s].measured /\ client[c] # 0

LockInv == LockHeldOnce /\ PassedAreMeasured /\ SpreadIsMeasured

LEMMA InitLockInv == Init => LockInv
BY DEF Init, LockInv, LockHeldOnce, PassedAreMeasured, SpreadIsMeasured,
    HoldsLock

(* What LockInv is about *)
lockInvVars == <<locked, stolen, status, client, sync, monitor>>

LEMMA SameLockInv ==
    ASSUME LockInv, UNCHANGED lockInvVars
    PROVE  LockInv'
BY DEF LockInv, LockHeldOnce, PassedAreMeasured, SpreadIsMeasured, HoldsLock,
       lockInvVars

(* A handler that needs the lock meets no goroutine at work *)
LEMMA FreeLockInv ==
    ASSUME LockInv, ~locked, UNCHANGED <<locked, stolen, monitor>>,
           \A s \in Slot : sync'[s].at = sync[s].at
                            \/ (sync[s].at = "free" /\ sync'[s].at = "waiting")
    PROVE  LockInv'
BY DEF LockInv, LockHeldOnce, PassedAreMeasured, SpreadIsMeasured, HoldsLock

LEMMA ClientLockInv ==
    ASSUME LockInv, NEW c \in Client, ClientStep(c)
    PROVE  LockInv'
<1>1. UNCHANGED lockInvVars
  BY DEF ClientStep, Start, CreateIDFile, WriteIDFile, Dial, SendID, Crash,
         Suspend, Resume, Report, lockInvVars, lockVars, serverVars
<1> QED  BY <1>1, SameLockInv

LEMMA HandlerLockInv ==
    ASSUME TypeOK, LockInv, NEW c \in Client, Handler(c)
    PROVE  LockInv'
<1> USE DEF serverVars, lockVars
<1>1. CASE RegisterName(c) \/ RejectConnect(c) \/ GetNodes(c) \/ GetNodesReads(c)
  <2>1. UNCHANGED lockInvVars
    BY <1>1
    DEF RegisterName, RejectConnect, GetNodes, GetNodesReads, Fails, lockInvVars
  <2> QED  BY <2>1, SameLockInv
<1>2. CASE Disconnect(c) \/ GetNodesPromotes(c) \/ NotifyFailure(c)
  <2>1. ~locked /\ UNCHANGED <<locked, stolen, monitor>> /\ UNCHANGED sync
    BY <1>2 DEF Disconnect, GetNodesPromotes, NotifyFailure
  <2>2. \A s \in Slot : sync'[s].at = sync[s].at
                         \/ (sync[s].at = "free" /\ sync'[s].at = "waiting")
    BY <2>1
  <2> QED  BY <2>1, <2>2, FreeLockInv
<1>3. CASE Connect(c)
  <2>1. /\ ~locked /\ UNCHANGED <<locked, stolen, monitor>>
        /\ \E s \in Slot : /\ sync[s].at = "free"
                           /\ sync' = [sync EXCEPT ![s].at = "waiting"]
    BY <1>3 DEF Connect
  <2>2. PICK s \in Slot : /\ sync[s].at = "free"
                          /\ sync' = [sync EXCEPT ![s] =
                                        [sync[s] EXCEPT !.at = "waiting"]]
    BY <2>1
  <2>3. sync \in [Slot -> Goroutine]
    BY DEF TypeOK, GoroutineTypeOK, Goroutine
  <2>4. [sync[s] EXCEPT !.at = "waiting"].at = "waiting"
    BY <2>3 DEF Goroutine
  <2>5. ASSUME NEW t \in Slot
        PROVE  sync'[t].at = sync[t].at
                 \/ (sync[t].at = "free" /\ sync'[t].at = "waiting")
    <3>1. CASE t = s
      BY <2>2, <2>3, <2>4, <3>1
    <3>2. CASE t # s
      <4>1. sync'[t] = sync[t]
        BY <2>2, <2>3, <3>2 DEF Goroutine
      <4> QED  BY <4>1
    <3> QED  BY <3>1, <3>2
  <2> QED  BY <2>1, <2>5, FreeLockInv
<1> QED  BY <1>1, <1>2, <1>3 DEF Handler

LEMMA ReplyLockInv ==
    ASSUME TypeOK, LockInv,
           \/ \E r \in registering : RegisterConnection(r)
           \/ \E r \in rejecting : ReturnRejection(r)
           \/ AwaitClient
    PROVE  LockInv'
<1> USE DEF serverVars, lockVars
<1>1. ASSUME NEW r \in registering, RegisterConnection(r) PROVE LockInv'
  <2>1. ~locked /\ UNCHANGED <<locked, stolen, monitor>> /\ UNCHANGED sync
    BY <1>1 DEF RegisterConnection
  <2>2. \A s \in Slot : sync'[s].at = sync[s].at
                         \/ (sync[s].at = "free" /\ sync'[s].at = "waiting")
    BY <2>1
  <2> QED  BY <2>1, <2>2, FreeLockInv
<1>2. ASSUME NEW r \in rejecting, ReturnRejection(r) PROVE LockInv'
  BY <1>2 DEF ReturnRejection, LockInv, LockHeldOnce, PassedAreMeasured,
              SpreadIsMeasured
<1>3. CASE AwaitClient
  <2>1. UNCHANGED lockInvVars
    BY <1>3 DEF AwaitClient, Fails, lockInvVars
  <2> QED  BY <2>1, SameLockInv
<1> QED  BY <1>1, <1>2, <1>3

LEMMA GoroutineLockInv ==
    ASSUME TypeOK, LockInv,
           \/ \E s \in Slot : SyncLock(s) \/ SyncHolds(s)
           \/ MonitorLock \/ MonitorHolds
    PROVE  LockInv'
<1> USE DEF serverVars, lockVars, HoldsLock
<1>0. /\ sync \in [Slot -> Goroutine] /\ status \in [Client -> Status]
      /\ client \in [Client -> Nat]
      /\ monitor \in [at : {"sleeping", "testing"}, todo : SUBSET Client]
      /\ locked \in BOOLEAN
  BY DEF TypeOK, ServerTypeOK, GoroutineTypeOK, Goroutine
<1>1. ASSUME NEW s \in Slot, SyncLock(s) PROVE LockInv'
  BY <1>0, <1>1 DEF SyncLock, LockInv, LockHeldOnce, PassedAreMeasured,
                    SpreadIsMeasured, Known
<1>2. ASSUME NEW s \in Slot, NEW c \in Client, SyncMeasure(s, c) PROVE LockInv'
  <2>1. CASE UNCHANGED lockInvVars
    BY <2>1, SameLockInv
  <2>2. CASE /\ sync' = [sync EXCEPT ![s].todo = @ \ {c}]
             /\ sync[s].at = "measuring" /\ status[c] # "CONNECTED"
             /\ UNCHANGED <<locked, stolen, status, client, monitor>>
    <3>1. sync' = [sync EXCEPT ![s] = [at |-> sync[s].at,
                      todo |-> sync[s].todo \ {c}, measured |-> sync[s].measured]]
      BY <2>2, VisitType DEF TypeOK
    <3> QED
      BY <1>0, <2>2, <3>1
      DEF LockInv, LockHeldOnce, PassedAreMeasured, SpreadIsMeasured, Goroutine
  <2> QED  BY <1>2, <2>1, <2>2 DEF SyncMeasure, Fails, lockInvVars
<1>3. ASSUME NEW s \in Slot, NEW c \in Client, SyncAsk(s, c) PROVE LockInv'
  <2>1. /\ sync[s].at = "measuring" /\ rpcClient[c] # 0
        /\ client' = [client EXCEPT ![c] = rpcClient[c]]
        /\ UNCHANGED <<locked, stolen, status, monitor>>
    BY <1>3 DEF SyncAsk
  <2>2. CASE UNCHANGED sync
    BY <1>0, <2>1, <2>2
    DEF LockInv, LockHeldOnce, PassedAreMeasured, SpreadIsMeasured
  <2>3. CASE sync' = [sync EXCEPT ![s] = [at |-> sync[s].at,
          todo |-> sync[s].todo \ {c}, measured |-> sync[s].measured \cup {c}]]
    BY <1>0, <2>1, <2>3
    DEF LockInv, LockHeldOnce, PassedAreMeasured, SpreadIsMeasured, Goroutine
  <2> QED  BY <1>0, <1>3, <2>2, <2>3 DEF SyncAsk, Goroutine
<1>4. ASSUME NEW s \in Slot, SyncAverage(s) PROVE LockInv'
  BY <1>0, <1>4 DEF SyncAverage, LockInv, LockHeldOnce, PassedAreMeasured,
                    SpreadIsMeasured
<1>5. ASSUME NEW s \in Slot, NEW c \in Client, SyncSpread(s, c) PROVE LockInv'
  <2>1. CASE UNCHANGED lockInvVars
    BY <2>1, SameLockInv
  <2>2. CASE /\ sync' = [sync EXCEPT ![s].todo = @ \ {c}]
             /\ sync[s].at = "spreading"
             /\ UNCHANGED <<locked, stolen, status, client, monitor>>
    <3>1. sync' = [sync EXCEPT ![s] = [at |-> sync[s].at,
                      todo |-> sync[s].todo \ {c}, measured |-> sync[s].measured]]
      BY <2>2, VisitType DEF TypeOK
    <3> QED
      BY <1>0, <2>2, <3>1
      DEF LockInv, LockHeldOnce, PassedAreMeasured, SpreadIsMeasured, Goroutine
  <2> QED  BY <1>5, <2>1, <2>2 DEF SyncSpread, Fails, lockInvVars
<1>6. ASSUME NEW s \in Slot, SyncUnlock(s) PROVE LockInv'
  BY <1>0, <1>6
  DEF SyncUnlock, Unlock, LockInv, LockHeldOnce, PassedAreMeasured,
                    SpreadIsMeasured
<1>7. CASE MonitorLock
  BY <1>0, <1>7 DEF MonitorLock, LockInv, LockHeldOnce, PassedAreMeasured,
                    SpreadIsMeasured
<1>8. ASSUME NEW c \in Client, MonitorRecovers(c) PROVE LockInv'
  BY <1>0, <1>8 DEF MonitorRecovers, LockInv, LockHeldOnce, PassedAreMeasured,
                    SpreadIsMeasured
<1>9. ASSUME NEW c \in Client, MonitorPasses(c) PROVE LockInv'
  <2>1. CASE UNCHANGED lockInvVars
    BY <2>1, SameLockInv
  <2>2. CASE /\ monitor' = [monitor EXCEPT !.todo = @ \ {c}]
             /\ UNCHANGED <<locked, stolen, status, client, sync>>
    BY <1>0, <2>2
    DEF LockInv, LockHeldOnce, PassedAreMeasured, SpreadIsMeasured
  <2> QED  BY <1>9, <2>1, <2>2 DEF MonitorPasses, Fails, lockInvVars
<1>10. CASE MonitorUnlock
  BY <1>0, <1>10
  DEF MonitorUnlock, Unlock, LockInv, LockHeldOnce, PassedAreMeasured,
                    SpreadIsMeasured
<1> QED
  BY <1>1, <1>2, <1>3, <1>4, <1>5, <1>6, <1>7, <1>8, <1>9, <1>10
  DEF SyncHolds, MonitorHolds

LEMMA NextLockInv == TypeOK /\ LockInv /\ [Next]_vars => LockInv'
<1> SUFFICES ASSUME TypeOK, LockInv, [Next]_vars PROVE LockInv'
  OBVIOUS
<1>1. CASE UNCHANGED vars
  BY <1>1, SameLockInv DEF vars, lockInvVars, serverVars, lockVars
<1>2. CASE \E c \in Client : ClientStep(c) \/ Handler(c)
  BY <1>2, ClientLockInv, HandlerLockInv
<1> QED  BY <1>1, <1>2, ReplyLockInv, GoroutineLockInv DEF Next

(* Mutual exclusion of syncClocks and monitorConnections, until a rejected    *)
(* Connect unlocks twice.                                                     *)
THEOREM MutualExclusion == Spec => []LockHeldOnce
<1>1. LockInv => LockHeldOnce
  BY DEF LockInv
<1> QED
  BY InitTypeOK, NextTypeOK, InitLockInv, NextLockInv, <1>1, PTL DEF Spec

(* syncClocks sends an offset only to a client it has measured.               *)
THEOREM MeasuredBeforeSet == Spec => []SpreadIsMeasured
<1>1. LockInv => SpreadIsMeasured
  BY DEF LockInv
<1> QED
  BY InitTypeOK, NextTypeOK, InitLockInv, NextLockInv, <1>1, PTL DEF Spec

-----------------------------------------------------------------------------
(* The map of the connections. A client that has come past Register, now or   *)
(* in an earlier start, is in it.                                             *)
PastRegister(c) ==
    \/ idFile[c] # "none"
    \/ proc[c] \in {"creating", "writing", "playing"}
    \/ getting[c] = "promoting"

MapInv ==
    /\ \A c \in Client : PastRegister(c) => status[c] # "ABSENT"
    /\ NamesDistinct

LEMMA InitMapInv == Init => MapInv
BY DEF Init, MapInv, PastRegister, NamesDistinct, Named, Known

(* A step that takes nobody past Register nor into or out of the map *)
LEMMA SameMapInv ==
    ASSUME MapInv, UNCHANGED <<displayNames, registering>>,
           \A c \in Client : /\ status'[c] = "ABSENT" <=> status[c] = "ABSENT"
                             /\ PastRegister(c)' => PastRegister(c)
    PROVE  MapInv'
<1>1. Known' = Known
  BY DEF Known
<1>2. Named' = Named
  BY <1>1 DEF Named
<1> QED  BY <1>2 DEF MapInv, NamesDistinct

LEMMA ClientMapInv ==
    ASSUME TypeOK, MapInv, NEW c \in Client, ClientStep(c)
    PROVE  MapInv'
<1>1. UNCHANGED <<status, displayNames, registering, getting>>
  BY DEF ClientStep, Start, CreateIDFile, WriteIDFile, Dial, SendID, Crash,
         Suspend, Resume, Report, serverVars, handlerVars
<1>2. ASSUME NEW d \in Client, PastRegister(d)' PROVE PastRegister(d)
  BY <1>1, <1>2
  DEF ClientStep, Start, CreateIDFile, WriteIDFile, Dial, SendID, Crash,
      Suspend, Resume, Report, Goes, clientVars, TypeOK, ClientTypeOK, PastRegister
<1> QED  BY <1>1, <1>2, SameMapInv

LEMMA HandlerMapInv ==
    ASSUME TypeOK, MapInv, NEW c \in Client, Handler(c)
    PROVE  MapInv'
<1> USE DEF serverVars, clientVars, handlerVars
<1>0. /\ status \in [Client -> Status] /\ proc \in [Client -> Proc]
      /\ getting \in [Client -> {"idle", "reading", "promoting"}]
  BY DEF TypeOK, ServerTypeOK, HandlerTypeOK, ClientTypeOK
<1>1. CASE RegisterName(c)
  <2>1. CASE UNCHANGED <<displayNames, registering>>
    <3>1. /\ UNCHANGED <<status, idFile, getting>>
          /\ proc' = proc \/ proc' = [proc EXCEPT ![c] = "off"]
      BY <1>1 DEF RegisterName
    <3>2. \A d \in Client : PastRegister(d)' => PastRegister(d)
      BY <1>0, <3>1 DEF PastRegister
    <3> QED  BY <2>1, <3>1, <3>2, SameMapInv
  <2>2. CASE /\ NameFree(c)
             /\ displayNames' = displayNames \cup {NameOf[c]}
             /\ registering' = registering \cup {Call(c)}
             /\ UNCHANGED proc
    <3>1. UNCHANGED <<status, idFile, getting>>
      BY <1>1 DEF RegisterName
    <3>2. Named' = Named \cup {c}
      <4>1. Known' = Known
        BY <3>1 DEF Known
      <4>2. Call(c).id = c
        OBVIOUS
      <4>3. {r.id : r \in registering \cup {Call(c)}} =
              {r.id : r \in registering} \cup {c}
        BY <4>2
      <4> QED  BY <2>2, <4>1, <4>3 DEF Named
    <3>3. \A d \in Named : NameOf[d] # NameOf[c]
      BY <2>2 DEF MapInv, NamesDistinct, NameFree
    <3>4. NamesDistinct'
      BY <2>2, <3>2, <3>3 DEF MapInv, NamesDistinct
    <3> QED  BY <2>2, <3>1, <3>4 DEF MapInv, PastRegister
  <2> QED  BY <1>1, <2>1, <2>2 DEF RegisterName
<1>2. CASE RejectConnect(c) \/ GetNodes(c) \/ NotifyFailure(c)
  <2>1. /\ UNCHANGED <<displayNames, registering, idFile, proc>>
        /\ getting' = getting \/ getting' = [getting EXCEPT ![c] = "reading"]
        /\ \/ status' = status
           \/ status' = [status EXCEPT ![c] =
                            IF @ = "CONNECTED" THEN "DISCONNECTED" ELSE @]
    BY <1>2 DEF RejectConnect, GetNodes, NotifyFailure
  <2>2. \A d \in Client : /\ status'[d] = "ABSENT" <=> status[d] = "ABSENT"
                          /\ PastRegister(d)' => PastRegister(d)
    BY <1>0, <2>1 DEF PastRegister
  <2> QED  BY <2>1, <2>2, SameMapInv
<1>3. CASE Connect(c) \/ Disconnect(c) \/ GetNodesPromotes(c)
  <2>1. /\ UNCHANGED <<displayNames, registering, idFile>>
        /\ \/ status' = [status EXCEPT ![c] = "CONNECTED"]
           \/ status' = [status EXCEPT ![c] = "NOTINGAME"]
        /\ status[c] # "ABSENT"
        /\ \/ proc' = proc \/ proc' = [proc EXCEPT ![c] = "playing"]
           \/ proc' = [proc EXCEPT ![c] = "off"]
        /\ getting' = getting \/ getting' = [getting EXCEPT ![c] = "idle"]
    BY <1>3 DEF Connect, Disconnect, GetNodesPromotes, MapInv, PastRegister
  <2>2. \A d \in Client : status'[d] = "ABSENT" <=> status[d] = "ABSENT"
    BY <1>0, <2>1
  <2>3. \A d \in Client : PastRegister(d)' => PastRegister(d) \/ d = c
    BY <1>0, <2>1 DEF PastRegister
  <2> QED  BY <2>1, <2>2, <2>3 DEF MapInv, NamesDistinct, Named, Known
<1>4. CASE GetNodesReads(c)
  <2>1. /\ UNCHANGED <<displayNames, registering, idFile, proc, status>>
        /\ \/ getting' = getting
           \/ getting' = [getting EXCEPT ![c] =
                IF status[c] = "RECONNECTED" THEN "promoting" ELSE "idle"]
    BY <1>4 DEF GetNodesReads, Fails
  <2>2. \A d \in Client : PastRegister(d)' => status[d] # "ABSENT"
    BY <1>0, <2>1 DEF PastRegister, MapInv
  <2> QED  BY <2>1, <2>2 DEF MapInv, NamesDistinct, Named, Known
<1> QED  BY <1>1, <1>2, <1>3, <1>4 DEF Handler

LEMMA ReplyMapInv ==
    ASSUME TypeOK, MapInv,
           \/ \E r \in registering : RegisterConnection(r)
           \/ \E r \in rejecting : ReturnRejection(r)
           \/ AwaitClient
    PROVE  MapInv'
<1> USE DEF serverVars, clientVars, handlerVars
<1>0. /\ status \in [Client -> Status] /\ proc \in [Client -> Proc]
      /\ registering \subseteq [id : Client, start : Nat]
      /\ rejecting \subseteq [id : Client, start : Nat]
  BY DEF TypeOK, ServerTypeOK, HandlerTypeOK, ClientTypeOK
<1>1. ASSUME NEW r \in registering, RegisterConnection(r) PROVE MapInv'
  <2>1. /\ registering' = registering \ {r} /\ r.id \in Client
        /\ status' = [status EXCEPT ![r.id] = "NOTINGAME"]
        /\ proc' = [proc EXCEPT ![r.id] =
                      IF starts[r.id] = r.start /\ @ = "registering"
                      THEN "creating" ELSE @]
        /\ UNCHANGED <<displayNames, idFile, getting>>
    BY <1>0, <1>1 DEF RegisterConnection
  <2>2. \A c \in Client : PastRegister(c)' => PastRegister(c) \/ c = r.id
    BY <1>0, <2>1 DEF PastRegister
  <2>3. Named' \subseteq Named /\ \A c \in Client : status'[c] = "ABSENT" =>
                                status[c] = "ABSENT" /\ c # r.id
    BY <1>0, <2>1 DEF Named, Known
  <2>4. NamesDistinct'
    BY <2>1, <2>3 DEF MapInv, NamesDistinct
  <2> QED  BY <2>2, <2>3, <2>4 DEF MapInv
<1>2. ASSUME NEW r \in rejecting, ReturnRejection(r) PROVE MapInv'
  <2>1. /\ UNCHANGED <<status, displayNames, registering, idFile, getting>>
        /\ proc' = [proc EXCEPT ![r.id] =
                      IF starts[r.id] = r.start THEN "off" ELSE @]
    BY <1>2 DEF ReturnRejection
  <2>2. \A c \in Client : PastRegister(c)' => PastRegister(c)
    BY <1>0, <2>1 DEF PastRegister
  <2> QED  BY <2>1, <2>2, SameMapInv
<1>3. CASE AwaitClient
  <2>1. UNCHANGED <<status, displayNames, registering, idFile, getting, proc>>
    BY <1>3 DEF AwaitClient, Fails
  <2> QED  BY <2>1, SameMapInv DEF PastRegister
<1> QED  BY <1>1, <1>2, <1>3

LEMMA GoroutineMapInv ==
    ASSUME TypeOK, MapInv,
           \/ \E s \in Slot : SyncLock(s) \/ SyncHolds(s)
           \/ MonitorLock \/ MonitorHolds
    PROVE  MapInv'
<1> DEFINE Kept == UNCHANGED <<displayNames, registering, idFile, getting, proc>>
           Recovers(c) == /\ status[c] = "DISCONNECTED"
                          /\ status' = [status EXCEPT ![c] = "RECONNECTED"]
<1>1. ASSUME NEW s \in Slot, SyncLock(s) \/ SyncHolds(s)
      PROVE  Kept /\ status' = status
  <2> USE DEF serverVars, handlerVars, clientVars
  <2>1. CASE SyncLock(s)
    BY <2>1 DEF SyncLock
  <2>2. CASE SyncAverage(s)
    BY <2>2 DEF SyncAverage
  <2>3. CASE SyncUnlock(s)
    BY <2>3 DEF SyncUnlock
  <2>4. ASSUME NEW c \in Client, SyncMeasure(s, c) PROVE Kept /\ status' = status
    BY <2>4 DEF SyncMeasure, Fails
  <2>5. ASSUME NEW c \in Client, SyncAsk(s, c) PROVE Kept /\ status' = status
    BY <2>5 DEF SyncAsk
  <2>6. ASSUME NEW c \in Client, SyncSpread(s, c) PROVE Kept /\ status' = status
    BY <2>6 DEF SyncSpread, Fails
  <2> HIDE DEF Kept
  <2> QED  BY <1>1, <2>1, <2>2, <2>3, <2>4, <2>5, <2>6 DEF SyncHolds
<1>2. ASSUME MonitorLock \/ MonitorUnlock PROVE Kept /\ status' = status
  BY <1>2 DEF MonitorLock, MonitorUnlock, serverVars, handlerVars, clientVars
<1>3. ASSUME NEW c \in Client, MonitorRecovers(c) PROVE Kept /\ Recovers(c)
  BY <1>3 DEF MonitorRecovers, handlerVars, clientVars
<1>4. ASSUME NEW c \in Client, MonitorPasses(c) PROVE Kept /\ status' = status
  BY <1>4 DEF MonitorPasses, Fails, serverVars, handlerVars, clientVars
<1>5. Kept /\ (status' = status \/ \E c \in Client : Recovers(c))
  <2>1. CASE MonitorLock \/ MonitorHolds
    <3> HIDE DEF Kept, Recovers
    <3> QED  BY <1>2, <1>3, <1>4, <2>1 DEF MonitorHolds
  <2> HIDE DEF Kept, Recovers
  <2> QED  BY <1>1, <2>1
<1>6. \A c \in Client : status'[c] = "ABSENT" <=> status[c] = "ABSENT"
  BY <1>5 DEF TypeOK, ServerTypeOK
<1> QED  BY <1>5, <1>6, SameMapInv DEF PastRegister

LEMMA NextMapInv == TypeOK /\ MapInv /\ [Next]_vars => MapInv'
<1> SUFFICES ASSUME TypeOK, MapInv, [Next]_vars PROVE MapInv'
  OBVIOUS
<1>1. CASE UNCHANGED vars
  BY <1>1, SameMapInv
  DEF vars, PastRegister, serverVars, handlerVars, clientVars
<1>2. CASE \E c \in Client : ClientStep(c) \/ Handler(c)
  BY <1>2, ClientMapInv, HandlerMapInv
<1> QED  BY <1>1, <1>2, ReplyMapInv, GoroutineMapInv DEF Next

(* Register's two critical sections keep the display names distinct.          *)
THEOREM DistinctNames == Spec => []NamesDistinct
<1>1. MapInv => NamesDistinct
  BY DEF MapInv
<1> QED
  BY InitTypeOK, NextTypeOK, InitMapInv, NextMapInv, <1>1, PTL DEF Spec

(* An ID that a client has kept on disk is in the server's map.               *)
THEOREM KnownIDs == Spec => []IDsAreKnown
<1>1. MapInv => IDsAreKnown
  BY DEF MapInv, PastRegister, IDsAreKnown, Known
<1> QED
  BY InitTypeOK, NextTypeOK, InitMapInv, NextMapInv, <1>1, PTL DEF Spec

-----------------------------------------------------------------------------
(* The handles. The entries of a client stand in the queue in the order of its*)
(* starts, from the one the server has the handle of to the running one, so   *)
(* that what awaitClientConnections takes out of it is never an older handle  *)
(* than the one it replaces.                                                  *)
HandlesInOrder ==
    /\ \A c \in Client : rpcClient[c] <= starts[c] /\ client[c] <= starts[c]
    /\ \A i \in DOMAIN dialled : /\ rpcClient[dialled[i].id] <= dialled[i].start
                                 /\ dialled[i].start <= starts[dialled[i].id]
    /\ \A i, j \in DOMAIN dialled :
         i < j /\ dialled[i].id = dialled[j].id =>
           dialled[i].start <= dialled[j].start

DialledIsOpen ==
    \A c \in Client : proc[c] = "dialled" =>
      \E i \in DOMAIN dialled : /\ dialled[i].id = c /\ dialled[i].at = "open"
                                /\ dialled[i].start = starts[c]

HandleInv == HandlesInOrder /\ DialledIsOpen /\ HandleOnItsWay

LEMMA InitHandleInv == Init => HandleInv
BY DEF Init, HandleInv, HandlesInOrder, DialledIsOpen, HandleOnItsWay

(* What is in the queue *)
LEMMA QueueType ==
    ASSUME TypeOK
    PROVE  /\ dialled \in Seq(Dialled)
           /\ DOMAIN dialled = 1..Len(dialled) /\ Len(dialled) \in Nat
           /\ \A i \in DOMAIN dialled : /\ dialled[i].id \in Client
                                        /\ dialled[i].start \in Nat
           /\ \A c \in Client : /\ starts[c] \in Nat /\ rpcClient[c] \in Nat
                                /\ client[c] \in Nat
<1>1. dialled \in Seq(Dialled)
  BY DEF TypeOK, GoroutineTypeOK, Dialled
<1>2. \A i \in 1..Len(dialled) : dialled[i] \in Dialled
  BY <1>1
<1>3. \A c \in Client : /\ starts[c] \in Nat /\ rpcClient[c] \in Nat
                        /\ client[c] \in Nat
  BY DEF TypeOK, ServerTypeOK, ClientTypeOK
<1>4. DOMAIN dialled = 1..Len(dialled) /\ Len(dialled) \in Nat
  BY <1>1
<1> QED  BY <1>1, <1>2, <1>3, <1>4 DEF Dialled

(* Who neither starts, dials nor sends the ID leaves the queue as it is *)
Settles(c) ==
    \/ proc'[c] = proc[c]
    \/ proc'[c] \notin {"dialled", "connecting", "playing"}
    \/ proc[c] = "connecting" /\ proc'[c] = "playing"

LEMMA SameHandleInv ==
    ASSUME TypeOK, HandleInv, UNCHANGED <<rpcClient, dialled, starts>>,
           \A c \in Client : /\ client'[c] \in {client[c], 0, rpcClient[c]}
                             /\ Settles(c)
    PROVE  HandleInv'
<1>1. HandlesInOrder'
  BY QueueType DEF HandleInv, HandlesInOrder
<1>2. DialledIsOpen'
  BY DEF HandleInv, DialledIsOpen, Settles
<1>3. HandleOnItsWay'
  BY DEF HandleInv, HandleOnItsWay, Settles
<1> QED  BY <1>1, <1>2, <1>3 DEF HandleInv

(* Entries(c, to) changes the state of open entries of c and nothing else *)
LEMMA EntriesKeep ==
    ASSUME TypeOK, NEW c \in Client, NEW to \in {"sent", "closed"},
           dialled' = Entries(c, to)
    PROVE  /\ DOMAIN dialled' = DOMAIN dialled
           /\ \A i \in DOMAIN dialled :
                /\ dialled'[i].id = dialled[i].id
                /\ dialled'[i].start = dialled[i].start
                /\ dialled'[i].zero = dialled[i].zero
                /\ dialled'[i].at =
                     IF dialled[i].id = c /\ dialled[i].at = "open"
                     THEN to ELSE dialled[i].at
<1>1. \A i \in DOMAIN dialled : dialled[i] \in Dialled
  BY QueueType
<1>2. \A i \in DOMAIN dialled :
        dialled'[i] = IF dialled[i].id = c /\ dialled[i].at = "open"
                      THEN [dialled[i] EXCEPT !.at = to] ELSE dialled[i]
  BY DEF Entries
<1> QED  BY <1>1, <1>2 DEF Entries, Dialled

LEMMA ClientHandleInv ==
    ASSUME TypeOK, HandleInv, NEW c \in Client, ClientStep(c)
    PROVE  HandleInv'
<1>0. proc \in [Client -> Proc] /\ starts \in [Client -> Nat]
  BY DEF TypeOK, ClientTypeOK
<1>1. UNCHANGED <<rpcClient, client>>
  BY DEF ClientStep, Start, CreateIDFile, WriteIDFile, Dial, SendID, Crash,
         Suspend, Resume, Report, serverVars
<1>2. CASE Start(c)
  <2>1. /\ UNCHANGED dialled
        /\ starts' = [starts EXCEPT ![c] = @ + 1]
        /\ \E to \in {"registering", "dialling"} : proc' = [proc EXCEPT ![c] = to]
    BY <1>2 DEF Start, Goes
  <2>2. HandlesInOrder'
    BY <1>0, <1>1, <2>1, QueueType DEF HandleInv, HandlesInOrder
  <2>3. DialledIsOpen'
    BY <1>0, <2>1 DEF HandleInv, DialledIsOpen
  <2>4. HandleOnItsWay'
    BY <1>0, <1>1, <2>1 DEF HandleInv, HandleOnItsWay
  <2> QED  BY <2>2, <2>3, <2>4 DEF HandleInv
<1>3. CASE Dial(c)
  <2> DEFINE d == [id |-> c, zero |-> idFile[c] = "empty",
                   start |-> starts[c], at |-> "open"]
  <2>1. /\ dialled' = Append(dialled, d) /\ UNCHANGED starts
        /\ proc' = [proc EXCEPT ![c] = "dialled"]
    BY <1>3 DEF Dial, Goes
  <2>2. d.id = c /\ d.start = starts[c] /\ d.at = "open"
    OBVIOUS
  <2> HIDE DEF d
  <2> DEFINE n == Len(dialled)
  <2>3. /\ n \in Nat /\ DOMAIN dialled = 1..n /\ DOMAIN dialled' = 1..(n + 1)
        /\ \A i \in 1..n : dialled'[i] = dialled[i]
        /\ dialled'[n + 1] = d
    BY <2>1, QueueType, AppendProperties
  <2> HIDE DEF n
  <2>4. \A i \in 1..(n + 1) : i \in 1..n \/ i = n + 1
    BY <2>3
  <2>5. \A i \in 1..n : i \in 1..(n + 1)
    BY <2>3
  <2>6. HandlesInOrder'
    <3>1. \A i \in 1..(n + 1) : /\ rpcClient[dialled'[i].id] <= dialled'[i].start
                                /\ dialled'[i].start <= starts[dialled'[i].id]
      <4>1. \A i \in 1..n : /\ rpcClient[dialled[i].id] <= dialled[i].start
                            /\ dialled[i].start <= starts[dialled[i].id]
        BY <2>3 DEF HandleInv, HandlesInOrder
      <4>2. rpcClient[d.id] <= d.start /\ d.start <= starts[d.id]
        BY <2>2, QueueType DEF HandleInv, HandlesInOrder
      <4> QED  BY <2>3, <2>4, <4>1, <4>2
    <3>2. ASSUME NEW i \in 1..(n + 1), NEW j \in 1..(n + 1), i < j,
                 dialled'[i].id = dialled'[j].id
          PROVE  dialled'[i].start <= dialled'[j].start
      <4>1. i \in 1..n
        BY <2>3, <3>2
      <4>2. CASE j \in 1..n
        BY <2>3, <3>2, <4>1, <4>2 DEF HandleInv, HandlesInOrder
      <4>3. CASE j = n + 1
        <5>1. dialled[i].id = c
          BY <2>2, <2>3, <3>2, <4>1, <4>3
        <5>2. dialled[i].start <= starts[c]
          BY <2>3, <4>1, <5>1 DEF HandleInv, HandlesInOrder
        <5> QED  BY <2>2, <2>3, <4>1, <4>3, <5>2
      <4> QED  BY <2>4, <4>2, <4>3
    <3>3. \A e \in Client : rpcClient[e] <= starts[e] /\ client[e] <= starts[e]
      BY DEF HandleInv, HandlesInOrder
    <3> QED  BY <1>1, <2>1, <2>3, <3>1, <3>2, <3>3 DEF HandlesInOrder
  <2>7. DialledIsOpen'
    <3> SUFFICES ASSUME NEW e \in Client, proc'[e] = "dialled"
                 PROVE  \E i \in 1..(n + 1) : /\ dialled'[i].id = e
                                              /\ dialled'[i].at = "open"
                                              /\ dialled'[i].start = starts[e]
      BY <2>1, <2>3 DEF DialledIsOpen
    <3>1. CASE e = c
      BY <2>2, <2>3, <3>1
    <3>2. CASE e # c
      <4>1. proc[e] = "dialled"
        BY <1>0, <2>1, <3>2
      <4>2. PICK i \in 1..n : /\ dialled[i].id = e /\ dialled[i].at = "open"
                              /\ dialled[i].start = starts[e]
        BY <2>3, <4>1 DEF HandleInv, DialledIsOpen
      <4> QED  BY <2>3, <2>5, <4>2
    <3> QED  BY <3>1, <3>2
  <2>8. HandleOnItsWay'
    <3> SUFFICES ASSUME NEW e \in Client, proc'[e] \in {"connecting", "playing"},
                        rpcClient[e] # starts[e]
                 PROVE  \E i \in 1..(n + 1) : /\ dialled'[i].id = e
                                              /\ dialled'[i].at = "sent"
                                              /\ dialled'[i].start = starts[e]
      BY <1>1, <2>1, <2>3 DEF HandleOnItsWay
    <3>1. proc[e] \in {"connecting", "playing"}
      BY <1>0, <2>1
    <3>2. PICK i \in 1..n : /\ dialled[i].id = e /\ dialled[i].at = "sent"
                            /\ dialled[i].start = starts[e]
      BY <2>3, <3>1 DEF HandleInv, HandleOnItsWay
    <3> QED  BY <2>3, <2>5, <3>2
  <2> QED  BY <2>6, <2>7, <2>8 DEF HandleInv
<1>4. CASE SendID(c)
  <2>1. /\ dialled' = Entries(c, "sent") /\ UNCHANGED starts
        /\ proc[c] = "dialled" /\ proc' = [proc EXCEPT ![c] = "connecting"]
    BY <1>4 DEF SendID, Goes
  <2>2. /\ DOMAIN dialled' = DOMAIN dialled
        /\ \A i \in DOMAIN dialled :
             /\ dialled'[i].id = dialled[i].id
             /\ dialled'[i].start = dialled[i].start
             /\ dialled'[i].at = IF dialled[i].id = c /\ dialled[i].at = "open"
                                 THEN "sent" ELSE dialled[i].at
    BY <2>1, EntriesKeep
  <2>3. HandlesInOrder'
    BY <1>1, <2>1, <2>2 DEF HandleInv, HandlesInOrder
  <2>4. DialledIsOpen'
    BY <1>0, <2>1, <2>2 DEF HandleInv, DialledIsOpen
  <2>5. HandleOnItsWay'
    <3> SUFFICES ASSUME NEW e \in Client, proc'[e] \in {"connecting", "playing"},
                        rpcClient[e] # starts[e]
                 PROVE  \E i \in DOMAIN dialled : /\ dialled'[i].id = e
                                                  /\ dialled'[i].at = "sent"
                                                  /\ dialled'[i].start = starts[e]
      BY <1>1, <2>1, <2>2 DEF HandleOnItsWay
    <3>1. CASE e = c
      BY <2>1, <2>2, <3>1 DEF HandleInv, DialledIsOpen
    <3>2. CASE e # c
      <4>1. proc[e] \in {"connecting", "playing"}
        BY <1>0, <2>1, <3>2
      <4> QED  BY <2>2, <4>1 DEF HandleInv, HandleOnItsWay
    <3> QED  BY <3>1, <3>2
  <2> QED  BY <2>3, <2>4, <2>5 DEF HandleInv
<1>5. CASE Crash(c)
  <2>1. /\ dialled' = Entries(c, "closed") /\ UNCHANGED starts
        /\ proc' = [proc EXCEPT ![c] = "off"]
    BY <1>5 DEF Crash
  <2>2. /\ DOMAIN dialled' = DOMAIN dialled
        /\ \A i \in DOMAIN dialled :
             /\ dialled'[i].id = dialled[i].id
             /\ dialled'[i].start = dialled[i].start
             /\ dialled'[i].at = IF dialled[i].id = c /\ dialled[i].at = "open"
                                 THEN "closed" ELSE dialled[i].at
    BY <2>1, EntriesKeep
  <2>3. HandlesInOrder'
    BY <1>1, <2>1, <2>2 DEF HandleInv, HandlesInOrder
  <2>4. DialledIsOpen'
    <3> SUFFICES ASSUME NEW e \in Client, proc'[e] = "dialled"
                 PROVE  \E i \in DOMAIN dialled : /\ dialled'[i].id = e
                                                  /\ dialled'[i].at = "open"
                                                  /\ dialled'[i].start = starts[e]
      BY <2>1, <2>2 DEF DialledIsOpen
    <3>1. proc[e] = "dialled" /\ e # c
      BY <1>0, <2>1
    <3> QED  BY <2>2, <3>1 DEF HandleInv, DialledIsOpen
  <2>5. HandleOnItsWay'
    <3> SUFFICES ASSUME NEW e \in Client, proc'[e] \in {"connecting", "playing"},
                        rpcClient[e] # starts[e]
                 PROVE  \E i \in DOMAIN dialled : /\ dialled'[i].id = e
                                                  /\ dialled'[i].at = "sent"
                                                  /\ dialled'[i].start = starts[e]
      BY <1>1, <2>1, <2>2 DEF HandleOnItsWay
    <3>1. proc[e] \in {"connecting", "playing"}
      BY <1>0, <2>1
    <3> QED  BY <2>2, <3>1 DEF HandleInv, HandleOnItsWay
  <2> QED  BY <2>3, <2>4, <2>5 DEF HandleInv
<1>6. CASE CreateIDFile(c) \/ WriteIDFile(c) \/ Suspend(c) \/ Resume(c) \/ Report(c)
  <2>1. /\ UNCHANGED <<dialled, starts>>
        /\ \/ UNCHANGED proc
           \/ \E to \in {"writing", "dialling"} : proc' = [proc EXCEPT ![c] = to]
    BY <1>6
    DEF CreateIDFile, WriteIDFile, Goes, Suspend, Resume, Report, clientVars
  <2>2. \A e \in Client : Settles(e)
    BY <1>0, <2>1 DEF Settles
  <2> QED  BY <1>1, <2>1, <2>2, SameHandleInv
<1> QED  BY <1>2, <1>3, <1>4, <1>5, <1>6 DEF ClientStep

LEMMA HandlerHandleInv ==
    ASSUME TypeOK, HandleInv, NEW c \in Client, Handler(c)
    PROVE  HandleInv'
<1>0. /\ proc \in [Client -> Proc] /\ client \in [Client -> Nat]
  BY DEF TypeOK, ServerTypeOK, ClientTypeOK
<1>1. UNCHANGED <<rpcClient, dialled, starts>>
  BY DEF Handler, RegisterName, RejectConnect, Connect, Disconnect, GetNodes,
         GetNodesReads, GetNodesPromotes, NotifyFailure, Fails, serverVars,
         clientVars
<1>2. \A e \in Client : client'[e] \in {client[e], 0, rpcClient[e]}
  <2>1. client' = client \/ client' = [client EXCEPT ![c] = 0]
    BY DEF Handler, RegisterName, RejectConnect, Connect, Disconnect, GetNodes,
           GetNodesReads, GetNodesPromotes, NotifyFailure, Fails, serverVars
  <2> QED  BY <1>0, <2>1
<1>3. \A e \in Client : Settles(e)
  <2>1. \/ proc' = proc \/ proc' = [proc EXCEPT ![c] = "off"]
        \/ proc[c] = "connecting" /\ proc' = [proc EXCEPT ![c] = "playing"]
    BY DEF Handler, RegisterName, RejectConnect, Connect, Disconnect, GetNodes,
           GetNodesReads, GetNodesPromotes, NotifyFailure, Fails, clientVars
  <2> QED  BY <1>0, <2>1 DEF Settles
<1> QED  BY <1>1, <1>2, <1>3, SameHandleInv

(* awaitClientConnections takes the head of the queue *)
LEMMA AwaitHandleInv ==
    ASSUME TypeOK, HandleInv, AwaitClient
    PROVE  HandleInv'
<1> DEFINE d == Head(dialled)
           n == Len(dialled)
<1>1. CASE /\ dialled # <<>> /\ d.id \in Client /\ d.at = "sent"
           /\ dialled' = Tail(dialled)
           /\ rpcClient' = [rpcClient EXCEPT ![d.id] = d.start]
           /\ UNCHANGED <<client, starts, proc>>
  <2>1. /\ n \in Nat /\ n > 0 /\ DOMAIN dialled = 1..n /\ d = dialled[1]
        /\ DOMAIN dialled' = 1..(n - 1)
        /\ \A i \in 1..(n - 1) : dialled'[i] = dialled[i + 1]
    BY <1>1, QueueType, HeadTailProperties
  <2>2. rpcClient \in [Client -> Nat]
    BY DEF TypeOK, ServerTypeOK
  <2> HIDE DEF n, d
  <2>3. /\ \A i \in 1..(n - 1) : i + 1 \in 1..n /\ 1 < i + 1
        /\ \A i, j \in 1..(n - 1) : i < j => i + 1 < j + 1
        /\ \A i \in 1..n : i = 1 \/ (i - 1 \in 1..(n - 1) /\ (i - 1) + 1 = i)
        /\ 1 \in 1..n
    BY <2>1
  <2>4. /\ rpcClient[d.id] <= d.start /\ d.start <= starts[d.id]
        /\ d.start \in Nat
    BY <2>1, <2>3, QueueType DEF HandleInv, HandlesInOrder
  <2>5. HandlesInOrder'
    <3>1. \A c \in Client : rpcClient'[c] <= starts[c] /\ client[c] <= starts[c]
      BY <1>1, <2>2, <2>4 DEF HandleInv, HandlesInOrder
    <3>2. \A i \in 1..(n - 1) : /\ rpcClient'[dialled'[i].id] <= dialled'[i].start
                                /\ dialled'[i].start <= starts[dialled'[i].id]
      <4> SUFFICES ASSUME NEW i \in 1..(n - 1)
                   PROVE  /\ rpcClient'[dialled[i + 1].id] <= dialled[i + 1].start
                          /\ dialled[i + 1].start <= starts[dialled[i + 1].id]
        BY <2>1
      <4>1. i + 1 \in DOMAIN dialled /\ dialled[i + 1].id \in Client
        BY <2>1, <2>3, QueueType
      <4>2. d.id = dialled[i + 1].id => d.start <= dialled[i + 1].start
        BY <2>1, <2>3, <4>1 DEF HandleInv, HandlesInOrder
      <4>3. /\ rpcClient[dialled[i + 1].id] <= dialled[i + 1].start
            /\ dialled[i + 1].start <= starts[dialled[i + 1].id]
        BY <4>1 DEF HandleInv, HandlesInOrder
      <4> QED  BY <1>1, <2>2, <4>1, <4>2, <4>3
    <3>3. \A i, j \in 1..(n - 1) : i < j /\ dialled'[i].id = dialled'[j].id =>
                                     dialled'[i].start <= dialled'[j].start
      BY <2>1, <2>3 DEF HandleInv, HandlesInOrder
    <3> QED  BY <1>1, <2>1, <3>1, <3>2, <3>3 DEF HandlesInOrder
  <2>6. DOMAIN dialled' = 1..(n - 1) /\ starts' = starts /\ proc' = proc
    BY <1>1, <2>1
  <2>7. DialledIsOpen'
    <3> SUFFICES ASSUME NEW c \in Client, proc[c] = "dialled"
                 PROVE  \E i \in 1..(n - 1) : /\ dialled'[i].id = c
                                              /\ dialled'[i].at = "open"
                                              /\ dialled'[i].start = starts[c]
      BY <2>6 DEF DialledIsOpen
    <3>1. PICK i \in 1..n : /\ dialled[i].id = c /\ dialled[i].at = "open"
                            /\ dialled[i].start = starts[c]
      BY <2>1 DEF HandleInv, DialledIsOpen
    <3>2. dialled[1].at = "sent"
      BY <1>1, <2>1
    <3>3. i # 1
      BY <3>1, <3>2
    <3> QED  BY <2>1, <2>3, <3>1, <3>3
  <2>8. HandleOnItsWay'
    <3> SUFFICES ASSUME NEW c \in Client, proc[c] \in {"connecting", "playing"},
                        rpcClient'[c] # starts[c]
                 PROVE  \E i \in 1..(n - 1) : /\ dialled'[i].id = c
                                              /\ dialled'[i].at = "sent"
                                              /\ dialled'[i].start = starts[c]
      BY <2>6 DEF HandleOnItsWay
    <3>1. rpcClient[c] # starts[c]
      BY <1>1, <2>2, <2>4, QueueType
    <3>2. PICK i \in 1..n : /\ dialled[i].id = c /\ dialled[i].at = "sent"
                            /\ dialled[i].start = starts[c]
      BY <2>1, <3>1 DEF HandleInv, HandleOnItsWay
    <3>3. i # 1
      BY <1>1, <2>1, <2>2, <3>2
    <3> QED  BY <2>1, <2>3, <3>2, <3>3
  <2> QED  BY <2>5, <2>7, <2>8 DEF HandleInv
<1>2. CASE UNCHANGED <<rpcClient, dialled, starts, client, proc>>
  BY <1>2, SameHandleInv DEF Settles
<1>3. dialled # <<>> => d \in Dialled
  BY QueueType
<1> QED
  BY <1>1, <1>2, <1>3
  DEF AwaitClient, Fails, serverVars, clientVars, Known, Dialled

LEMMA ReplyHandleInv ==
    ASSUME TypeOK, HandleInv,
           \/ \E r \in registering : RegisterConnection(r)
           \/ \E r \in rejecting : ReturnRejection(r)
    PROVE  HandleInv'
<1>1. UNCHANGED <<rpcClient, dialled, starts, client>>
  BY DEF RegisterConnection, ReturnRejection, serverVars
<1>2. \A c \in Client : proc'[c] = proc[c] \/ proc'[c] \in {"creating", "off"}
  BY DEF RegisterConnection, ReturnRejection, TypeOK, ClientTypeOK
<1> QED  BY <1>1, <1>2, SameHandleInv DEF Settles

(* The goroutines change nothing of the queue and the clients; one of them    *)
(* takes the handle that the queue has brought, one finds who is back.        *)
LEMMA GoroutineKeeps ==
    ASSUME TypeOK,
           \/ \E s \in Slot : SyncLock(s) \/ SyncHolds(s)
           \/ MonitorLock \/ MonitorHolds
    PROVE  /\ UNCHANGED <<stolen, rpcClient, handlerVars, dialled, clientVars, left>>
           /\ \A c \in Client :
                /\ client'[c] \in {client[c], rpcClient[c]}
                /\ status'[c] = status[c] \/ status[c] = "DISCONNECTED"
<1> USE DEF serverVars, lockVars
<1> DEFINE Kept == UNCHANGED <<stolen, rpcClient, handlerVars, dialled,
                               clientVars, left>>
           Idle == Kept /\ UNCHANGED <<client, status>>
           Takes(c) == /\ Kept /\ UNCHANGED status
                       /\ client' = [client EXCEPT ![c] = rpcClient[c]]
           Finds(c) == /\ Kept /\ UNCHANGED client
                       /\ status[c] = "DISCONNECTED"
                       /\ status' = [status EXCEPT ![c] = "RECONNECTED"]
<1>0. client \in [Client -> Nat] /\ status \in [Client -> Status]
  BY DEF TypeOK, ServerTypeOK
<1>1. ASSUME NEW s \in Slot, SyncLock(s) \/ SyncAverage(s) \/ SyncUnlock(s)
      PROVE  Idle
  BY <1>1 DEF SyncLock, SyncAverage, SyncUnlock
<1>2. ASSUME NEW s \in Slot, NEW c \in Client, SyncMeasure(s, c) \/ SyncSpread(s, c)
      PROVE  Idle
  BY <1>2 DEF SyncMeasure, SyncSpread, Fails
<1>3. ASSUME NEW s \in Slot, NEW c \in Client, SyncAsk(s, c) PROVE Takes(c)
  BY <1>3 DEF SyncAsk
<1>4. ASSUME MonitorLock \/ MonitorUnlock PROVE Idle
  BY <1>4 DEF MonitorLock, MonitorUnlock
<1>5. ASSUME NEW c \in Client, MonitorRecovers(c) PROVE Finds(c)
  BY <1>5 DEF MonitorRecovers
<1>6. ASSUME NEW c \in Client, MonitorPasses(c) PROVE Idle
  BY <1>6 DEF MonitorPasses, Fails
<1>7. Idle \/ \E c \in Client : Takes(c) \/ Finds(c)
  <2> HIDE DEF Idle, Takes, Finds
  <2>1. CASE MonitorLock \/ MonitorHolds
    BY <1>4, <1>5, <1>6, <2>1 DEF MonitorHolds
  <2>2. CASE \E s \in Slot : SyncLock(s) \/ SyncHolds(s)
    BY <1>1, <1>2, <1>3, <2>2 DEF SyncHolds
  <2> QED  BY <2>1, <2>2
<1> HIDE DEF Kept
<1>8. Kept
  BY <1>7
<1>9. \/ UNCHANGED <<client, status>>
      \/ \E c \in Client :
           \/ /\ UNCHANGED status
              /\ client' = [client EXCEPT ![c] = rpcClient[c]]
           \/ /\ UNCHANGED client /\ status[c] = "DISCONNECTED"
              /\ status' = [status EXCEPT ![c] = "RECONNECTED"]
  BY <1>7
<1>10. \A c \in Client : /\ client'[c] \in {client[c], rpcClient[c]}
                         /\ status'[c] = status[c] \/ status[c] = "DISCONNECTED"
  BY <1>0, <1>9
<1> QED  BY <1>8, <1>10 DEF Kept

LEMMA NextHandleInv == TypeOK /\ HandleInv /\ [Next]_vars => HandleInv'
<1> SUFFICES ASSUME TypeOK, HandleInv, [Next]_vars PROVE HandleInv'
  OBVIOUS
<1>1. CASE UNCHANGED vars
  BY <1>1, SameHandleInv DEF vars, serverVars, clientVars, Settles
<1>2. CASE \E c \in Client : ClientStep(c) \/ Handler(c)
  BY <1>2, ClientHandleInv, HandlerHandleInv
<1>3. CASE \/ \E s \in Slot : SyncLock(s) \/ SyncHolds(s)
           \/ MonitorLock \/ MonitorHolds
  <2>1. /\ UNCHANGED <<rpcClient, dialled, starts, proc>>
        /\ \A c \in Client : client'[c] \in {client[c], rpcClient[c]}
    BY <1>3, GoroutineKeeps DEF clientVars
  <2> QED  BY <2>1, SameHandleInv DEF Settles
<1> QED  BY <1>1, <1>2, <1>3, ReplyHandleInv, AwaitHandleInv DEF Next

(* A client that connects or plays is known to the server by the handle of    *)
(* its running process, now or when the queue has come to it, whatever        *)
(* processes of it have dialled, died and left entries before.                *)
THEOREM HandlesArrive == Spec => []HandleOnItsWay
<1>1. HandleInv => HandleOnItsWay
  BY DEF HandleInv
<1> QED
  BY InitTypeOK, NextTypeOK, InitHandleInv, NextHandleInv, <1>1, PTL DEF Spec

-----------------------------------------------------------------------------
(* Why the server ends. Only a kill leaves an empty ID file or a connection   *)
(* that is closed before its ID is sent; and as long as each client plays one *)
(* game and none is killed or suspended, nobody's Connect is rejected, so that*)
(* the lock stays with its holder, and whoever is CONNECTED plays and answers.*)

(* A client that waits for its rejection does nothing else *)
RejectedWait ==
    \A r \in rejecting : /\ r.start <= starts[r.id]
                         /\ r.start = starts[r.id] =>
                              proc[r.id] \in {"connecting", "off"}

(* Whoever has dialled has its ID on disk *)
DiallersHaveIDs ==
    /\ \A i \in DOMAIN dialled : idFile[dialled[i].id] # "none"
    /\ \A c \in Client :
         /\ proc[c] # "off" => starts[c] > 0
         /\ proc[c] \in {"dialling", "dialled", "connecting", "playing"} =>
              idFile[c] # "none"

Unkilled ==
    crashes = 0 =>
      /\ \A c \in Client : idFile[c] = "empty" => proc[c] = "writing"
      /\ \A i \in DOMAIN dialled : dialled[i].at # "closed" /\ ~dialled[i].zero
      /\ fault \notin {"read error", "client not connected"}

OneGame == crashes = 0 /\ stops = 0 /\ \A c \in Client : starts[c] <= 1

PlaysOnce(c) ==
    /\ ~suspended[c]
    /\ status[c] \in {"ABSENT", "NOTINGAME", "CONNECTED"}
    /\ getting[c] # "promoting"
    /\ status[c] = "CONNECTED" => proc[c] = "playing"
    /\ left[c] => proc[c] = "off" /\ starts[c] = 1
    /\ c \in reports => left[c]

Peaceful ==
    OneGame => /\ ~stolen /\ rejecting = {}
               /\ fault \in {"none", "no rpcClient", "concurrent map read"}
               /\ \A c \in Client : PlaysOnce(c)

CauseInv == RejectedWait /\ DiallersHaveIDs /\ Unkilled /\ Peaceful

LEMMA InitCauseInv == Init => CauseInv
BY DEF Init, CauseInv, RejectedWait, DiallersHaveIDs, Unkilled, Peaceful,
       OneGame, PlaysOnce

(* What keeps the first three parts: of the clients, only what their processes*)
(* do of themselves; of the queue, what is added to it and that it is closed. *)
LEMMA StartsStay ==
    ASSUME TypeOK, CauseInv, UNCHANGED <<starts, idFile, crashes>>,
           rejecting' \subseteq rejecting,
           \A i \in DOMAIN dialled' : \E j \in DOMAIN dialled :
                                        dialled'[i] = dialled[j],
           \A c \in Client :
             \/ proc'[c] = proc[c]
             \/ proc[c] # "writing" /\ proc'[c] = "off"
             \/ proc[c] = "connecting" /\ proc'[c] = "playing"
                  /\ Call(c) \notin rejecting
             \/ proc[c] = "registering" /\ proc'[c] = "creating",
           fault' \in {"read error", "client not connected"} =>
             fault' = fault \/ crashes # 0
    PROVE  RejectedWait' /\ DiallersHaveIDs' /\ Unkilled'
<1>0. /\ rejecting \subseteq [id : Client, start : Nat]
      /\ crashes \in Nat
      /\ \A i \in DOMAIN dialled : dialled[i].id \in Client
  BY QueueType DEF TypeOK, HandlerTypeOK, ClientTypeOK
<1>1. RejectedWait'
  <2> SUFFICES ASSUME NEW r \in rejecting
               PROVE  /\ r.start <= starts[r.id]
                      /\ r.start = starts[r.id] =>
                           proc'[r.id] \in {"connecting", "off"}
    BY DEF RejectedWait
  <2>1. r.id \in Client /\ (r.start = starts[r.id] => r = Call(r.id))
    BY <1>0
  <2>2. /\ r.start <= starts[r.id]
        /\ r.start = starts[r.id] => proc[r.id] \in {"connecting", "off"}
    BY DEF CauseInv, RejectedWait
  <2> QED  BY <2>1, <2>2
<1>2. DiallersHaveIDs'
  BY DEF CauseInv, DiallersHaveIDs
<1>3. Unkilled'
  <2> SUFFICES ASSUME crashes = 0
               PROVE  /\ \A c \in Client : idFile[c] = "empty" => proc'[c] = "writing"
                      /\ \A i \in DOMAIN dialled' :
                           dialled'[i].at # "closed" /\ ~dialled'[i].zero
                      /\ fault' \notin {"read error", "client not connected"}
    BY DEF Unkilled
  <2>1. /\ \A c \in Client : idFile[c] = "empty" => proc[c] = "writing"
        /\ \A j \in DOMAIN dialled :
             dialled[j].at # "closed" /\ ~dialled[j].zero
        /\ fault \notin {"read error", "client not connected"}
    BY DEF CauseInv, Unkilled
  <2>2. \A i \in DOMAIN dialled' :
          dialled'[i].at # "closed" /\ ~dialled'[i].zero
    BY <2>1
  <2>3. fault' \notin {"read error", "client not connected"}
    BY <2>1
  <2>4. \A c \in Client : idFile[c] = "empty" => proc'[c] = "writing"
    BY <2>1
  <2> QED  BY <2>2, <2>3, <2>4
<1> QED  BY <1>1, <1>2, <1>3

LEMMA ClientStartsStay ==
    ASSUME TypeOK, CauseInv, NEW c \in Client, ClientStep(c)
    PROVE  RejectedWait' /\ DiallersHaveIDs' /\ Unkilled'
<1>0. /\ proc \in [Client -> Proc] /\ starts \in [Client -> Nat]
      /\ idFile \in [Client -> {"none", "empty", "written"}]
      /\ rejecting \subseteq [id : Client, start : Nat]
      /\ crashes \in Nat
      /\ \A i \in DOMAIN dialled : dialled[i].id \in Client
  BY QueueType DEF TypeOK, HandlerTypeOK, ClientTypeOK
<1>1. UNCHANGED <<fault, rejecting>>
  BY DEF ClientStep, Start, CreateIDFile, WriteIDFile, Dial, SendID, Crash,
         Suspend, Resume, Report, handlerVars
<1>2. CASE Start(c)
  <2>1. /\ UNCHANGED <<dialled, idFile, crashes>>
        /\ proc[c] = "off"
        /\ starts' = [starts EXCEPT ![c] = @ + 1]
        /\ proc' = [proc EXCEPT ![c] = IF idFile[c] = "none" THEN "registering"
                                                             ELSE "dialling"]
    BY <1>2 DEF Start, Goes
  <2>2. RejectedWait'
    BY <1>0, <1>1, <2>1 DEF CauseInv, RejectedWait
  <2>3. DiallersHaveIDs'
    BY <1>0, <2>1 DEF CauseInv, DiallersHaveIDs
  <2>4. Unkilled'
    BY <1>0, <1>1, <2>1 DEF CauseInv, Unkilled
  <2> QED  BY <2>2, <2>3, <2>4
<1>3. CASE CreateIDFile(c) \/ WriteIDFile(c)
  <2>1. /\ UNCHANGED <<dialled, starts, crashes>>
        /\ \/ /\ proc[c] = "creating" /\ proc' = [proc EXCEPT ![c] = "writing"]
              /\ idFile' = [idFile EXCEPT ![c] = "empty"]
           \/ /\ proc[c] = "writing" /\ proc' = [proc EXCEPT ![c] = "dialling"]
              /\ idFile' = [idFile EXCEPT ![c] = "written"]
    BY <1>3 DEF CreateIDFile, WriteIDFile, Goes
  <2>2. RejectedWait'
    BY <1>0, <1>1, <2>1 DEF CauseInv, RejectedWait
  <2>3. DiallersHaveIDs'
    BY <1>0, <2>1 DEF CauseInv, DiallersHaveIDs
  <2>4. Unkilled'
    BY <1>0, <1>1, <2>1 DEF CauseInv, Unkilled
  <2> QED  BY <2>2, <2>3, <2>4
<1>4. CASE Dial(c)
  <2> DEFINE d == [id |-> c, zero |-> idFile[c] = "empty",
                   start |-> starts[c], at |-> "open"]
  <2>1. /\ dialled' = Append(dialled, d) /\ UNCHANGED <<starts, idFile, crashes>>
        /\ proc[c] = "dialling" /\ proc' = [proc EXCEPT ![c] = "dialled"]
    BY <1>4 DEF Dial, Goes
  <2>2. d.id = c /\ d.at = "open" /\ d.zero = (idFile[c] = "empty")
    OBVIOUS
  <2> HIDE DEF d
  <2>3. \A i \in DOMAIN dialled' :
          dialled'[i] = d \/ \E j \in DOMAIN dialled : dialled'[i] = dialled[j]
    <3>1. /\ DOMAIN dialled' = 1..(Len(dialled) + 1)
          /\ DOMAIN dialled = 1..Len(dialled) /\ Len(dialled) \in Nat
          /\ \A i \in 1..Len(dialled) : dialled'[i] = dialled[i]
          /\ dialled'[Len(dialled) + 1] = d
      BY <2>1, QueueType, AppendProperties
    <3>2. \A i \in 1..(Len(dialled) + 1) :
            i \in 1..Len(dialled) \/ i = Len(dialled) + 1
      BY <3>1
    <3> QED  BY <3>1, <3>2
  <2>4. RejectedWait'
    BY <1>0, <1>1, <2>1 DEF CauseInv, RejectedWait
  <2>5. DiallersHaveIDs'
    BY <1>0, <2>1, <2>2, <2>3 DEF CauseInv, DiallersHaveIDs
  <2>6. Unkilled'
    <3> SUFFICES ASSUME crashes = 0
                 PROVE  /\ \A e \in Client : idFile[e] = "empty" => proc'[e] = "writing"
                        /\ \A i \in DOMAIN dialled' :
                             dialled'[i].at # "closed" /\ ~dialled'[i].zero
                        /\ fault \notin {"read error", "client not connected"}
      BY <1>1, <2>1 DEF Unkilled
    <3>1. /\ \A e \in Client : idFile[e] = "empty" => proc[e] = "writing"
          /\ \A j \in DOMAIN dialled :
               dialled[j].at # "closed" /\ ~dialled[j].zero
          /\ fault \notin {"read error", "client not connected"}
      BY DEF CauseInv, Unkilled
    <3>2. idFile[c] # "empty"
      BY <2>1, <3>1
    <3>3. \A e \in Client \ {c} : proc'[e] = proc[e]
      BY <1>0, <2>1
    <3>4. d.at # "closed" /\ ~d.zero
      BY <2>2, <3>2
    <3>5. \A i \in DOMAIN dialled' :
            dialled'[i].at # "closed" /\ ~dialled'[i].zero
      BY <2>3, <3>1, <3>4
    <3> QED  BY <3>1, <3>2, <3>3, <3>5
  <2> QED  BY <2>4, <2>5, <2>6
<1>5. CASE SendID(c)
  <2>1. /\ dialled' = Entries(c, "sent") /\ UNCHANGED <<starts, idFile, crashes>>
        /\ proc[c] = "dialled" /\ proc' = [proc EXCEPT ![c] = "connecting"]
    BY <1>5 DEF SendID, Goes
  <2>2. /\ DOMAIN dialled' = DOMAIN dialled
        /\ \A i \in DOMAIN dialled :
             /\ dialled'[i].id = dialled[i].id
             /\ dialled'[i].zero = dialled[i].zero
             /\ dialled'[i].at \in {dialled[i].at, "sent"}
    BY <2>1, EntriesKeep
  <2>3. RejectedWait'
    BY <1>0, <1>1, <2>1 DEF CauseInv, RejectedWait
  <2>4. DiallersHaveIDs'
    BY <1>0, <2>1, <2>2 DEF CauseInv, DiallersHaveIDs
  <2>5. Unkilled'
    BY <1>0, <1>1, <2>1, <2>2 DEF CauseInv, Unkilled
  <2> QED  BY <2>3, <2>4, <2>5
<1>6. CASE Crash(c)
  <2>1. /\ dialled' = Entries(c, "closed") /\ UNCHANGED <<starts, idFile>>
        /\ crashes' = crashes + 1 /\ proc' = [proc EXCEPT ![c] = "off"]
    BY <1>6 DEF Crash
  <2>2. /\ DOMAIN dialled' = DOMAIN dialled
        /\ \A i \in DOMAIN dialled : dialled'[i].id = dialled[i].id
    BY <2>1, EntriesKeep
  <2>3. RejectedWait'
    BY <1>0, <1>1, <2>1 DEF CauseInv, RejectedWait
  <2>4. DiallersHaveIDs'
    BY <1>0, <2>1, <2>2 DEF CauseInv, DiallersHaveIDs
  <2>5. crashes' # 0
    BY <1>0, <2>1
  <2>6. Unkilled'
    BY <2>5 DEF Unkilled
  <2> QED  BY <2>3, <2>4, <2>6
<1>7. CASE Suspend(c) \/ Resume(c) \/ Report(c)
  <2>1. UNCHANGED <<dialled, starts, idFile, crashes, proc>>
    BY <1>7 DEF Suspend, Resume, Report, clientVars
  <2> QED  BY <1>1, <2>1, StartsStay
<1> QED  BY <1>2, <1>3, <1>4, <1>5, <1>6, <1>7 DEF ClientStep

LEMMA HandlerStartsStay ==
    ASSUME TypeOK, CauseInv, NEW c \in Client, Handler(c)
    PROVE  \/ RejectedWait' /\ DiallersHaveIDs' /\ Unkilled'
           \/ RejectConnect(c)
<1> SUFFICES ASSUME ~RejectConnect(c)
             PROVE  RejectedWait' /\ DiallersHaveIDs' /\ Unkilled'
  OBVIOUS
<1>0. proc \in [Client -> Proc]
  BY DEF TypeOK, ClientTypeOK
<1>1. /\ UNCHANGED <<starts, idFile, crashes, dialled, rejecting>>
      /\ fault' \in {fault, "concurrent map read"}
  BY DEF Handler, RegisterName, Connect, Disconnect, GetNodes, GetNodesReads,
         GetNodesPromotes, NotifyFailure, Fails, handlerVars, clientVars
<1>2. \/ proc' = proc
      \/ proc[c] # "writing" /\ proc' = [proc EXCEPT ![c] = "off"]
      \/ /\ proc[c] = "connecting" /\ Call(c) \notin rejecting
         /\ proc' = [proc EXCEPT ![c] = "playing"]
  BY DEF Handler, RegisterName, Connect, Disconnect, GetNodes, GetNodesReads,
         GetNodesPromotes, NotifyFailure, Fails, clientVars
<1>3. \A d \in Client : \/ proc'[d] = proc[d]
                        \/ proc[d] # "writing" /\ proc'[d] = "off"
                        \/ proc[d] = "connecting" /\ proc'[d] = "playing"
                             /\ Call(d) \notin rejecting
  BY <1>0, <1>2
<1> QED  BY <1>1, <1>3, StartsStay

(* The handler of a Connect that is rejected; the client waits *)
LEMMA RejectStartsStay ==
    ASSUME TypeOK, CauseInv, NEW c \in Client, RejectConnect(c)
    PROVE  RejectedWait' /\ DiallersHaveIDs' /\ Unkilled'
<1>1. /\ UNCHANGED <<starts, idFile, crashes, dialled, proc, fault>>
      /\ rejecting' = rejecting \cup {Call(c)} /\ proc[c] = "connecting"
  BY DEF RejectConnect, clientVars
<1>2. Call(c).id = c /\ Call(c).start = starts[c] /\ starts[c] \in Nat
  BY DEF TypeOK, ClientTypeOK
<1>3. RejectedWait'
  BY <1>1, <1>2 DEF CauseInv, RejectedWait
<1> QED  BY <1>1, <1>3 DEF CauseInv, DiallersHaveIDs, Unkilled

(* What the head of the queue can do to awaitClientConnections *)
LEMMA AwaitFaults ==
    ASSUME TypeOK, MapInv, CauseInv, AwaitClient
    PROVE  /\ fault' # fault => crashes # 0
           /\ \A i \in DOMAIN dialled' : \E j \in DOMAIN dialled :
                dialled'[i] = dialled[j]
           /\ UNCHANGED <<locked, stolen, status, handlerVars, clientVars, left>>
<1> DEFINE d == Head(dialled)
<1>1. /\ dialled # <<>> /\ UNCHANGED <<lockVars, status, handlerVars, clientVars, left>>
      /\ \/ d.at = "closed" /\ UNCHANGED dialled
         \/ (d.zero \/ d.id \notin Known) /\ UNCHANGED dialled
         \/ dialled' = Tail(dialled) /\ UNCHANGED fault
  BY DEF AwaitClient, Fails, serverVars
<1>2. /\ 1 \in DOMAIN dialled /\ d = dialled[1] /\ d.id \in Client
      /\ \A i \in DOMAIN Tail(dialled) : i + 1 \in DOMAIN dialled
                                         /\ Tail(dialled)[i] = dialled[i + 1]
  BY <1>1, QueueType, HeadTailProperties
<1> HIDE DEF d
<1>3. d.id \in Known
  <2>1. idFile[d.id] # "none"
    BY <1>2 DEF CauseInv, DiallersHaveIDs
  <2> QED  BY <1>2, <2>1 DEF MapInv, PastRegister, Known
<1>4. d.at = "closed" \/ d.zero => crashes # 0
  BY <1>2 DEF CauseInv, Unkilled
<1>5. \A i \in DOMAIN dialled' : \E j \in DOMAIN dialled : dialled'[i] = dialled[j]
  BY <1>1, <1>2
<1> QED  BY <1>1, <1>3, <1>4, <1>5 DEF lockVars

LEMMA ReplyStartsStay ==
    ASSUME TypeOK, MapInv, CauseInv,
           \/ \E r \in registering : RegisterConnection(r)
           \/ \E r \in rejecting : ReturnRejection(r)
           \/ AwaitClient
    PROVE  RejectedWait' /\ DiallersHaveIDs' /\ Unkilled'
<1>0. /\ proc \in [Client -> Proc]
      /\ registering \subseteq [id : Client, start : Nat]
      /\ rejecting \subseteq [id : Client, start : Nat]
  BY DEF TypeOK, HandlerTypeOK, ClientTypeOK
<1>1. ASSUME NEW r \in registering, RegisterConnection(r)
      PROVE  RejectedWait' /\ DiallersHaveIDs' /\ Unkilled'
  <2>1. /\ UNCHANGED <<starts, idFile, crashes, dialled, rejecting, fault>>
        /\ proc' = [proc EXCEPT ![r.id] =
                      IF starts[r.id] = r.start /\ @ = "registering"
                      THEN "creating" ELSE @]
    BY <1>1 DEF RegisterConnection
  <2>2. \A c \in Client : \/ proc'[c] = proc[c]
                          \/ proc[c] = "registering" /\ proc'[c] = "creating"
    BY <1>0, <2>1
  <2> QED  BY <2>1, <2>2, StartsStay
<1>2. ASSUME NEW r \in rejecting, ReturnRejection(r)
      PROVE  RejectedWait' /\ DiallersHaveIDs' /\ Unkilled'
  <2>1. /\ UNCHANGED <<starts, idFile, crashes, dialled>>
        /\ rejecting' = rejecting \ {r}
        /\ fault' \in {fault, "unlock of unlocked mutex"}
        /\ proc' = [proc EXCEPT ![r.id] =
                      IF starts[r.id] = r.start THEN "off" ELSE @]
    BY <1>2 DEF ReturnRejection, Unlock
  <2>2. starts[r.id] = r.start => proc[r.id] \in {"connecting", "off"}
    BY DEF CauseInv, RejectedWait
  <2>3. \A c \in Client : \/ proc'[c] = proc[c]
                          \/ proc[c] # "writing" /\ proc'[c] = "off"
    BY <1>0, <2>1, <2>2
  <2> QED  BY <2>1, <2>3, StartsStay
<1>3. CASE AwaitClient
  <2>1. /\ fault' # fault => crashes # 0
        /\ \A i \in DOMAIN dialled' : \E j \in DOMAIN dialled :
             dialled'[i] = dialled[j]
        /\ UNCHANGED <<rejecting, starts, idFile, crashes, proc>>
    BY <1>3, AwaitFaults DEF handlerVars, clientVars
  <2> QED  BY <2>1, StartsStay
<1> QED  BY <1>1, <1>2, <1>3

(* One game each: what the counters say of a state they say of those before   *)
LEMMA PeacefulBefore ==
    ASSUME CauseInv, OneGame
    PROVE  /\ ~stolen /\ rejecting = {}
           /\ fault \in {"none", "no rpcClient", "concurrent map read"}
           /\ \A c \in Client : PlaysOnce(c)
           /\ \A c \in Client : idFile[c] = "empty" => proc[c] = "writing"
BY DEF CauseInv, Peaceful, Unkilled, OneGame

LEMMA ClientPeaceful ==
    ASSUME TypeOK, CauseInv, NEW c \in Client, ClientStep(c)
    PROVE  Peaceful'
<1> SUFFICES ASSUME OneGame'
             PROVE  /\ ~stolen' /\ rejecting' = {}
                    /\ fault' \in {"none", "no rpcClient", "concurrent map read"}
                    /\ \A d \in Client : PlaysOnce(d)'
  BY DEF Peaceful
<1>0. /\ proc \in [Client -> Proc] /\ starts \in [Client -> Nat]
      /\ suspended \in [Client -> BOOLEAN] /\ crashes \in Nat /\ stops \in Nat
  BY DEF TypeOK, ClientTypeOK
<1>1. UNCHANGED <<fault, stolen, rejecting, status, getting, left>>
  BY DEF ClientStep, Start, CreateIDFile, WriteIDFile, Dial, SendID, Crash,
         Suspend, Resume, Report, handlerVars, lockVars, serverVars
<1>2. CASE Start(c)
  <2>1. /\ proc[c] = "off" /\ UNCHANGED <<suspended, reports, crashes, stops>>
        /\ starts' = [starts EXCEPT ![c] = @ + 1]
        /\ \E to \in Proc : proc' = [proc EXCEPT ![c] = to]
    BY <1>2 DEF Start, Goes, handlerVars, Proc
  <2>2. OneGame /\ starts[c] = 0
    BY <1>0, <2>1 DEF OneGame
  <2>3. \A d \in Client : PlaysOnce(d)
    BY <2>2, PeacefulBefore
  <2>4. ~left[c] /\ status[c] # "CONNECTED"
    BY <2>1, <2>2, <2>3 DEF PlaysOnce
  <2>5. \A d \in Client \ {c} : proc'[d] = proc[d] /\ starts'[d] = starts[d]
    BY <1>0, <2>1
  <2>6. \A d \in Client : PlaysOnce(d)'
    BY <1>1, <2>1, <2>3, <2>4, <2>5 DEF PlaysOnce
  <2> QED  BY <1>1, <2>2, <2>6, PeacefulBefore
<1>3. CASE CreateIDFile(c) \/ WriteIDFile(c) \/ Dial(c) \/ SendID(c)
  <2>1. /\ UNCHANGED <<suspended, reports, crashes, stops, starts>>
        /\ proc[c] \notin {"off", "playing"}
        /\ \E to \in Proc : proc' = [proc EXCEPT ![c] = to]
    BY <1>3
    DEF CreateIDFile, WriteIDFile, Dial, SendID, Goes, handlerVars, Proc
  <2>2. OneGame
    BY <2>1 DEF OneGame
  <2>3. \A d \in Client : PlaysOnce(d)
    BY <2>2, PeacefulBefore
  <2>4. ~left[c] /\ status[c] # "CONNECTED"
    BY <2>1, <2>3 DEF PlaysOnce
  <2>5. \A d \in Client \ {c} : proc'[d] = proc[d]
    BY <1>0, <2>1
  <2>6. \A d \in Client : PlaysOnce(d)'
    BY <1>1, <2>1, <2>3, <2>4, <2>5 DEF PlaysOnce
  <2> QED  BY <1>1, <2>2, <2>6, PeacefulBefore
<1>4. CASE Crash(c) \/ Suspend(c)
  <2>1. crashes' = crashes + 1 \/ stops' = stops + 1
    BY <1>4 DEF Crash, Suspend
  <2>2. crashes' # 0 \/ stops' # 0
    BY <1>0, <2>1
  <2> QED  BY <2>2 DEF OneGame
<1>5. CASE Resume(c)
  <2>1. UNCHANGED <<reports, crashes, stops, starts>> /\ suspended[c]
    BY <1>5 DEF Resume, handlerVars
  <2>2. OneGame
    BY <2>1 DEF OneGame
  <2> QED  BY <2>1, <2>2, PeacefulBefore DEF PlaysOnce
<1>6. CASE Report(c)
  <2>1. /\ UNCHANGED <<crashes, stops, starts, suspended, proc>>
        /\ c \in Known /\ (status[c] = "NOTINGAME" => left[c])
        /\ proc[c] # "playing" \/ suspended[c]
        /\ reports' = reports \cup {c}
    BY <1>6 DEF Report, clientVars
  <2>2. OneGame
    BY <2>1 DEF OneGame
  <2>3. \A d \in Client : PlaysOnce(d)
    BY <2>2, PeacefulBefore
  <2>4. left[c]
    BY <2>1, <2>3 DEF PlaysOnce, Known
  <2>5. \A d \in Client : PlaysOnce(d)'
    BY <1>1, <2>1, <2>3, <2>4 DEF PlaysOnce
  <2> QED  BY <1>1, <2>2, <2>5, PeacefulBefore
<1> QED  BY <1>2, <1>3, <1>4, <1>5, <1>6 DEF ClientStep

(* No Connect is rejected, and none that plays is reported *)
LEMMA HandlerPeaceful ==
    ASSUME TypeOK, MapInv, CauseInv, NEW c \in Client, Handler(c)
    PROVE  Peaceful'
<1> SUFFICES ASSUME OneGame'
             PROVE  /\ ~stolen' /\ rejecting' = {}
                    /\ fault' \in {"none", "no rpcClient", "concurrent map read"}
                    /\ \A d \in Client : PlaysOnce(d)'
  BY DEF Peaceful
<1>0. /\ proc \in [Client -> Proc] /\ status \in [Client -> Status]
      /\ starts \in [Client -> Nat]
      /\ getting \in [Client -> {"idle", "reading", "promoting"}]
      /\ left \in [Client -> BOOLEAN]
  BY DEF TypeOK, ServerTypeOK, HandlerTypeOK, ClientTypeOK
<1>1. UNCHANGED <<stolen, starts, crashes, stops, suspended>>
  BY DEF Handler, RegisterName, RejectConnect, Connect, Disconnect, GetNodes,
         GetNodesReads, GetNodesPromotes, NotifyFailure, Fails, lockVars, clientVars
<1>2. OneGame
  BY <1>1 DEF OneGame
<1>3. /\ ~stolen /\ rejecting = {}
      /\ fault \in {"none", "no rpcClient", "concurrent map read"}
      /\ \A d \in Client : PlaysOnce(d)
      /\ \A d \in Client : idFile[d] = "empty" => proc[d] = "writing"
  BY <1>2, PeacefulBefore
<1>4. ~RejectConnect(c)
  <2> SUFFICES ASSUME proc[c] = "connecting"
               PROVE  idFile[c] # "empty" /\ status[c] \notin {"ABSENT", "CONNECTED"}
    BY DEF RejectConnect
  <2>1. idFile[c] # "none"
    BY DEF CauseInv, DiallersHaveIDs
  <2> QED  BY <1>3, <2>1 DEF PlaysOnce, MapInv, PastRegister
<1>5. ~GetNodesPromotes(c)
  BY <1>3 DEF PlaysOnce, GetNodesPromotes
<1>6. CASE RegisterName(c)
  <2>1. /\ UNCHANGED <<fault, rejecting, status, getting, left, reports>>
        /\ proc' \in {proc, [proc EXCEPT ![c] = "off"]}
        /\ proc[c] = "registering"
    BY <1>6 DEF RegisterName
  <2>2. \A d \in Client : proc'[d] = proc[d] \/ (d = c /\ proc'[d] = "off")
    BY <1>0, <2>1
  <2> QED  BY <1>1, <1>3, <2>1, <2>2 DEF PlaysOnce
<1>7. CASE Connect(c)
  <2>1. /\ UNCHANGED <<fault, rejecting, getting, reports>>
        /\ proc[c] = "connecting" /\ proc' = [proc EXCEPT ![c] = "playing"]
        /\ status' = [status EXCEPT ![c] = "CONNECTED"]
        /\ left' = [left EXCEPT ![c] = FALSE]
    BY <1>7 DEF Connect, handlerVars
  <2>2. c \notin reports
    BY <1>3, <2>1 DEF PlaysOnce
  <2>3. PlaysOnce(c)'
    BY <1>0, <1>1, <1>3, <2>1, <2>2 DEF PlaysOnce
  <2>4. \A d \in Client \ {c} : /\ proc'[d] = proc[d] /\ left'[d] = left[d]
                                /\ status'[d] = status[d]
    BY <1>0, <2>1
  <2>5. \A d \in Client \ {c} : PlaysOnce(d)'
    BY <1>1, <1>3, <2>1, <2>4 DEF PlaysOnce
  <2> QED  BY <1>1, <1>3, <2>1, <2>3, <2>5
<1>8. CASE Disconnect(c)
  <2>1. /\ UNCHANGED <<fault, rejecting, getting, reports>>
        /\ proc[c] = "playing" /\ proc' = [proc EXCEPT ![c] = "off"]
        /\ status' = [status EXCEPT ![c] = "NOTINGAME"]
        /\ left' = [left EXCEPT ![c] = TRUE]
    BY <1>8 DEF Disconnect, handlerVars
  <2>2. starts[c] = 1
    BY <1>0, <1>2, <2>1 DEF CauseInv, DiallersHaveIDs, OneGame
  <2>3. PlaysOnce(c)'
    BY <1>0, <1>1, <1>3, <2>1, <2>2 DEF PlaysOnce
  <2>4. \A d \in Client \ {c} : /\ proc'[d] = proc[d] /\ left'[d] = left[d]
                                /\ status'[d] = status[d]
    BY <1>0, <2>1
  <2>5. \A d \in Client \ {c} : PlaysOnce(d)'
    BY <1>1, <1>3, <2>1, <2>4 DEF PlaysOnce
  <2> QED  BY <1>1, <1>3, <2>1, <2>3, <2>5
<1>9. CASE GetNodes(c) \/ GetNodesReads(c)
  <2>1. /\ UNCHANGED <<rejecting, status, left, reports, proc>>
        /\ fault' \in {fault, "concurrent map read"}
        /\ getting' \in {getting, [getting EXCEPT ![c] = "reading"],
             [getting EXCEPT ![c] = IF status[c] = "RECONNECTED" THEN "promoting"
                                                                 ELSE "idle"]}
    BY <1>9 DEF GetNodes, GetNodesReads, Fails, serverVars, handlerVars, clientVars
  <2>2. status[c] # "RECONNECTED"
    BY <1>3 DEF PlaysOnce
  <2>3. \A d \in Client : getting'[d] # "promoting" \/ getting'[d] = getting[d]
    BY <1>0, <2>1, <2>2
  <2> QED  BY <1>1, <1>3, <2>1, <2>3 DEF PlaysOnce
<1>10. CASE NotifyFailure(c)
  <2>1. /\ UNCHANGED <<fault, rejecting, getting, left, proc>>
        /\ c \in reports /\ reports' = reports \ {c}
        /\ status' = [status EXCEPT ![c] =
                         IF @ = "CONNECTED" THEN "DISCONNECTED" ELSE @]
    BY <1>10 DEF NotifyFailure, clientVars
  <2>2. status[c] # "CONNECTED"
    BY <1>3, <2>1 DEF PlaysOnce
  <2>3. status' = status
    BY <1>0, <2>1, <2>2
  <2> QED  BY <1>1, <1>3, <2>1, <2>3 DEF PlaysOnce
<1> QED  BY <1>4, <1>5, <1>6, <1>7, <1>8, <1>9, <1>10 DEF Handler

LEMMA ReplyPeaceful ==
    ASSUME TypeOK, MapInv, CauseInv,
           \/ \E r \in registering : RegisterConnection(r)
           \/ \E r \in rejecting : ReturnRejection(r)
           \/ AwaitClient
    PROVE  Peaceful'
<1> SUFFICES ASSUME OneGame'
             PROVE  /\ ~stolen' /\ rejecting' = {}
                    /\ fault' \in {"none", "no rpcClient", "concurrent map read"}
                    /\ \A d \in Client : PlaysOnce(d)'
  BY DEF Peaceful
<1>0. /\ proc \in [Client -> Proc] /\ status \in [Client -> Status]
  BY DEF TypeOK, ServerTypeOK, ClientTypeOK
<1>1. UNCHANGED <<starts, crashes, stops>>
  BY AwaitFaults DEF RegisterConnection, ReturnRejection, clientVars
<1>2. OneGame /\ crashes = 0
  BY <1>1 DEF OneGame
<1>3. /\ ~stolen /\ rejecting = {}
      /\ fault \in {"none", "no rpcClient", "concurrent map read"}
      /\ \A d \in Client : PlaysOnce(d)
  BY <1>2, PeacefulBefore
<1>4. ASSUME NEW r \in registering, RegisterConnection(r)
      PROVE  /\ UNCHANGED <<fault, stolen, rejecting>>
             /\ \A d \in Client : PlaysOnce(d)'
  <2>1. /\ UNCHANGED <<fault, stolen, rejecting, getting, left, reports, suspended>>
        /\ status' = [status EXCEPT ![r.id] = "NOTINGAME"]
        /\ proc' = [proc EXCEPT ![r.id] =
                      IF starts[r.id] = r.start /\ @ = "registering"
                      THEN "creating" ELSE @]
    BY <1>4 DEF RegisterConnection, lockVars
  <2>2. \A d \in Client : /\ status'[d] \in {status[d], "NOTINGAME"}
                          /\ \/ proc'[d] = proc[d]
                             \/ proc[d] = "registering"
    BY <1>0, <2>1
  <2>3. \A d \in Client :
          /\ proc[d] = "registering" => ~left[d] /\ status[d] # "CONNECTED"
          /\ status'[d] = "CONNECTED" => status[d] = "CONNECTED"
    BY <1>3, <2>2 DEF PlaysOnce
  <2> QED  BY <1>1, <1>3, <2>1, <2>2, <2>3 DEF PlaysOnce
<1>5. ASSUME AwaitClient
      PROVE  /\ UNCHANGED <<fault, stolen, rejecting>>
             /\ \A d \in Client : PlaysOnce(d)'
  <2>1. UNCHANGED <<fault, stolen, rejecting, status, getting, left, reports,
                    suspended, proc>>
    BY <1>2, <1>5, AwaitFaults DEF handlerVars, clientVars
  <2> QED  BY <1>1, <1>3, <2>1 DEF PlaysOnce
<1>6. UNCHANGED <<fault, stolen, rejecting>> /\ \A d \in Client : PlaysOnce(d)'
  BY <1>3, <1>4, <1>5
<1> QED  BY <1>3, <1>6

(* A client that is CONNECTED answers on the only handle it has given *)
LEMMA ConnectedAnswer ==
    ASSUME TypeOK, HandleInv, CauseInv, OneGame, NEW c \in Client,
           status[c] = "CONNECTED", NEW h \in {rpcClient[c], client[c]}, h # 0
    PROVE  Answers(c, h)
<1>1. starts[c] \in Nat /\ h \in Nat
  BY QueueType
<1>2. starts[c] <= 1 /\ h <= starts[c]
  BY DEF OneGame, HandleInv, HandlesInOrder
<1>3. proc[c] = "playing" /\ ~suspended[c]
  BY PeacefulBefore DEF PlaysOnce
<1> QED  BY <1>1, <1>2, <1>3 DEF Answers

(* What can go wrong under the lock, and does not in one game *)
LEMMA GoroutineFaults ==
    ASSUME TypeOK, LockInv, HandleInv, CauseInv,
           \/ \E s \in Slot : SyncLock(s) \/ SyncHolds(s)
           \/ MonitorLock \/ MonitorHolds
    PROVE  /\ fault' \notin {"read error", "client not connected"} \/ fault' = fault
           /\ OneGame => fault' \in {fault, "no rpcClient"}
<1> DEFINE Safe == /\ \/ fault' \notin {"read error", "client not connected"}
                      \/ fault' = fault
                   /\ OneGame => fault' \in {fault, "no rpcClient"}
<1>1. ASSUME NEW s \in Slot, SyncLock(s) \/ SyncAverage(s) PROVE Safe
  BY <1>1 DEF SyncLock, SyncAverage
<1>2. ASSUME NEW s \in Slot, NEW c \in Client, SyncMeasure(s, c) PROVE Safe
  BY <1>2 DEF SyncMeasure, Fails
<1>3. ASSUME NEW s \in Slot, NEW c \in Client, SyncAsk(s, c) PROVE Safe
  <2>1. /\ status[c] = "CONNECTED" /\ rpcClient[c] # 0
        /\ \/ UNCHANGED fault
           \/ ~Answers(c, rpcClient[c]) /\ fault' = "TimeRequest failed"
    BY <1>3 DEF SyncAsk
  <2>2. OneGame => Answers(c, rpcClient[c])
    BY <2>1, ConnectedAnswer
  <2> QED  BY <2>1, <2>2
<1>4. ASSUME NEW s \in Slot, NEW c \in Client, SyncSpread(s, c) PROVE Safe
  <2>1. /\ sync[s].at = "spreading"
        /\ \/ UNCHANGED fault
           \/ /\ status[c] = "CONNECTED" /\ client[c] = 0
              /\ fault' = "nil client"
           \/ /\ status[c] = "CONNECTED" /\ client[c] # 0
              /\ ~Answers(c, client[c]) /\ fault' = "SetOffset failed"
    BY <1>4 DEF SyncSpread, Fails
  <2>2. OneGame /\ status[c] = "CONNECTED" => client[c] # 0
    BY <2>1, PeacefulBefore DEF LockInv, SpreadIsMeasured
  <2>3. OneGame /\ status[c] = "CONNECTED" /\ client[c] # 0 => Answers(c, client[c])
    BY ConnectedAnswer
  <2> QED  BY <2>1, <2>2, <2>3
<1>5. ASSUME locked \/ ~OneGame, Unlock PROVE Safe
  BY <1>5 DEF Unlock
<1>6. ASSUME NEW s \in Slot, SyncUnlock(s) PROVE Safe
  <2>1. OneGame => locked
    BY <1>6, PeacefulBefore DEF SyncUnlock, LockInv, LockHeldOnce, HoldsLock
  <2> QED  BY <1>5, <1>6, <2>1 DEF SyncUnlock
<1>7. ASSUME MonitorLock PROVE Safe
  BY <1>7 DEF MonitorLock
<1>8. ASSUME MonitorUnlock PROVE Safe
  <2>1. OneGame => locked
    BY <1>8, PeacefulBefore DEF MonitorUnlock, LockInv, LockHeldOnce
  <2> QED  BY <1>5, <1>8, <2>1 DEF MonitorUnlock
<1>9. ASSUME NEW c \in Client, MonitorRecovers(c) \/ MonitorPasses(c) PROVE Safe
  <2>1. OneGame => status[c] # "DISCONNECTED"
    BY PeacefulBefore DEF PlaysOnce
  <2> QED  BY <1>9, <2>1 DEF MonitorRecovers, MonitorPasses, Fails
<1> HIDE DEF Safe
<1>10. Safe
  BY <1>1, <1>2, <1>3, <1>4, <1>6, <1>7, <1>8, <1>9 DEF SyncHolds, MonitorHolds
<1> QED  BY <1>10 DEF Safe

LEMMA GoroutineCauseInv ==
    ASSUME TypeOK, LockInv, HandleInv, CauseInv,
           \/ \E s \in Slot : SyncLock(s) \/ SyncHolds(s)
           \/ MonitorLock \/ MonitorHolds
    PROVE  CauseInv'
<1>1. /\ UNCHANGED <<stolen, rejecting, getting, reports, dialled, proc, starts,
                     idFile, suspended, crashes, stops, left>>
      /\ \A c \in Client : status'[c] = status[c] \/ status[c] = "DISCONNECTED"
  BY GoroutineKeeps DEF handlerVars, clientVars
<1>2. /\ fault' \notin {"read error", "client not connected"} \/ fault' = fault
      /\ OneGame => fault' \in {fault, "no rpcClient"}
  BY GoroutineFaults
<1>3. RejectedWait' /\ DiallersHaveIDs' /\ Unkilled'
  BY <1>1, <1>2, StartsStay
<1>4. Peaceful'
  <2> SUFFICES ASSUME OneGame
               PROVE  /\ ~stolen' /\ rejecting' = {}
                      /\ fault' \in {"none", "no rpcClient", "concurrent map read"}
                      /\ \A d \in Client : PlaysOnce(d)'
    BY <1>1 DEF Peaceful, OneGame
  <2>1. /\ ~stolen /\ rejecting = {}
        /\ fault \in {"none", "no rpcClient", "concurrent map read"}
        /\ \A d \in Client : PlaysOnce(d)
    BY PeacefulBefore
  <2>2. \A c \in Client : status'[c] = status[c]
    BY <1>1, <2>1 DEF PlaysOnce
  <2>3. \A d \in Client : PlaysOnce(d)'
    BY <1>1, <2>1, <2>2 DEF PlaysOnce
  <2> QED  BY <1>1, <1>2, <2>1, <2>3
<1> QED  BY <1>3, <1>4 DEF CauseInv

LEMMA NextCauseInv ==
    TypeOK /\ LockInv /\ MapInv /\ HandleInv /\ CauseInv /\ [Next]_vars => CauseInv'
<1> SUFFICES ASSUME TypeOK, LockInv, MapInv, HandleInv, CauseInv, [Next]_vars
             PROVE  CauseInv'
  OBVIOUS
<1>1. CASE UNCHANGED vars
  BY <1>1
  DEF vars, lockVars, serverVars, handlerVars, clientVars, CauseInv, RejectedWait,
      DiallersHaveIDs, Unkilled, Peaceful, OneGame, PlaysOnce
<1>2. ASSUME NEW c \in Client, ClientStep(c) PROVE CauseInv'
  BY <1>2, ClientStartsStay, ClientPeaceful DEF CauseInv
<1>3. ASSUME NEW c \in Client, Handler(c) PROVE CauseInv'
  BY <1>3, HandlerStartsStay, RejectStartsStay, HandlerPeaceful DEF CauseInv
<1>4. CASE \/ \E r \in registering : RegisterConnection(r)
           \/ \E r \in rejecting : ReturnRejection(r)
           \/ AwaitClient
  BY <1>4, ReplyStartsStay, ReplyPeaceful DEF CauseInv
<1> QED  BY <1>1, <1>2, <1>3, <1>4, GoroutineCauseInv DEF Next

(* A client can end the server only by playing twice, or by being killed or   *)
(* suspended; what awaitClientConnections ends the server for takes a kill.   *)
THEOREM FaultsCaused == Spec => []FaultsHaveCause
<1>1. TypeOK /\ CauseInv => FaultsHaveCause
  <2>1. TypeOK => (crashes # 0 => crashes > 0)
    BY DEF TypeOK, ClientTypeOK
  <2> QED
    BY <2>1 DEF CauseInv, Unkilled, Peaceful, OneGame, FaultsHaveCause
<1> QED
  BY InitTypeOK, NextTypeOK, InitLockInv, NextLockInv, InitMapInv, NextMapInv,
     InitHandleInv, NextHandleInv, InitCauseInv, NextCauseInv, <1>1, PTL
  DEF Spec

=============================================================================
