----------------------------- MODULE TankServer -----------------------------
(* The game server (server.go) and the part of a client's main() that joins,  *)
(* plays and leaves (client.go, clocks.go).                                   *)
(*                                                                            *)
(* The server runs an RPC handler per request, one goroutine syncClocks for   *)
(* each accepted Connect, monitorConnections and awaitClientConnections. They *)
(* share the map `connections` and its lock. A handler that calls nobody      *)
(* while it holds the lock is one step, enabled when the lock is free;        *)
(* syncClocks and monitorConnections call clients under the lock and take a   *)
(* step per client. A client is identified with its ID; whatever ends the     *)
(* server process (log.Fatal, a nil dereference, the runtime's own checks) is *)
(* a value of `fault`, after which the server does nothing.                   *)
EXTENDS Integers, SequencesExt

CONSTANTS
    Client,      \* the client IDs
    Name,        \* the display names
    NameOf,      \* NameOf[c]: the display name c is started with
    Addr,        \* the addresses a client may be started with
    NoPeer,      \* the zero PeerInfo
    Slot,        \* slots for the syncClocks goroutines
    MaxStarts,   \* MaxStarts[c]: bound on the starts of c
    MaxCrashes,  \* bound on the number of killed clients
    MaxStops     \* bound on the number of suspended clients

ASSUME ServerAssumption ==
    /\ NameOf \in [Client -> Name]
    /\ NoPeer \notin [id : Client, addr : Addr]
    /\ MaxStarts \in [Client -> Nat]
    /\ {MaxCrashes, MaxStops} \subseteq Nat

VARIABLES
    fault,         \* why the server has ended, or "none"
    locked,        \* the lock of `connections` is taken
    stolen,        \* a handler has released a lock it did not hold (history)
    displayNames,  \* the registered names
    status,        \* status[c], "ABSENT" when connections.m has no c
    address,       \* address[c]: Connection.address
    rpcClient,     \* rpcClient[c]: the start of c whose handle it is, 0 for nil
    client,        \* client[c]: the same for Connection.client
    partner,       \* partner[c]: Connection.partner
    registering,   \* Register calls between their two critical sections
    rejecting,     \* Connect calls between their two unlocks
    getting,       \* getting[c]: where a GetNodes call of c is
    reports,       \* NotifyFailure calls not handled yet, by the client blamed
    dialled,       \* awaitClientConnections' accept queue
    sync,          \* sync[s]: the goroutine in slot s
    monitor,       \* monitorConnections: whether it holds the lock, its rest
    proc,          \* proc[c]: where the process of c is
    starts,        \* starts[c]: how often c was started
    idFile,        \* idFile[c]: the file that keeps c's ID
    addrOf,        \* addrOf[c]: the address of the running process
    suspended,     \* suspended[c]: the process is stopped
    left,          \* left[c]: c has left since it last connected
    crashes, stops

serverVars  == <<displayNames, status, address, rpcClient, client, partner>>
handlerVars == <<registering, rejecting, getting, reports>>
clientVars  == <<proc, starts, idFile, addrOf, suspended, crashes, stops>>
lockVars    == <<locked, stolen>>
vars == <<fault, lockVars, serverVars, handlerVars, dialled, sync, monitor,
          clientVars, left>>

Status == {"ABSENT", "DISCONNECTED", "CONNECTED", "RECONNECTED", "NOTINGAME"}
Proc   == {"off", "registering", "creating", "writing", "dialling", "dialled",
           "connecting", "playing"}
Peer   == [id : Client, addr : Addr]
Fault  == {"none", "unlock of unlocked mutex", "concurrent map read",
           "read error", "client not connected", "no rpcClient",
           "TimeRequest failed", "SetOffset failed", "nil client"}

Known == {c \in Client : status[c] # "ABSENT"}

(* The process that gave the handle h answers calls on it *)
Answers(c, h) ==
    /\ h # 0
    /\ h = starts[c]
    /\ proc[c] \in {"connecting", "playing"}
    /\ ~suspended[c]

(* A call that the running process of c has made *)
Call(c) == [id |-> c, start |-> starts[c]]

Running == fault = "none"

(* The server ends *)
Fails(why) ==
    /\ fault' = why
    /\ UNCHANGED <<lockVars, serverVars, handlerVars, dialled, sync, monitor,
                   clientVars, left>>

Init ==
    /\ fault = "none"
    /\ locked = FALSE /\ stolen = FALSE
    /\ displayNames = {}
    /\ status = [c \in Client |-> "ABSENT"]
    /\ address \in [Client -> Addr] /\ addrOf = address
    /\ rpcClient = [c \in Client |-> 0] /\ client = [c \in Client |-> 0]
    /\ partner = [c \in Client |-> NoPeer]
    /\ registering = {} /\ rejecting = {} /\ reports = {}
    /\ getting = [c \in Client |-> "idle"]
    /\ dialled = <<>>
    /\ sync = [s \in Slot |-> [at |-> "free", todo |-> {}, measured |-> {}]]
    /\ monitor = [at |-> "sleeping", todo |-> {}]
    /\ proc = [c \in Client |-> "off"]
    /\ starts = [c \in Client |-> 0]
    /\ idFile = [c \in Client |-> "none"]
    /\ suspended = [c \in Client |-> FALSE]
    /\ left = [c \in Client |-> FALSE]
    /\ crashes = 0 /\ stops = 0

-----------------------------------------------------------------------------
(* The client process                                                         *)

(* A running process of c takes its next step on its own *)
Goes(c, from, to) ==
    /\ Running
    /\ proc[c] = from /\ ~suspended[c]
    /\ proc' = [proc EXCEPT ![c] = to]

(* main: register, unless there is an ID file (findIDFile) *)
Start(c) ==
    /\ starts[c] < MaxStarts[c]
    /\ Goes(c, "off", IF idFile[c] = "none" THEN "registering" ELSE "dialling")
    /\ starts' = [starts EXCEPT ![c] = @ + 1]
    /\ \E a \in Addr : addrOf' = [addrOf EXCEPT ![c] = a]
    /\ UNCHANGED <<fault, lockVars, serverVars, handlerVars, dialled, sync,
                   monitor, idFile, suspended, crashes, stops, left>>

(* os.Create makes an empty ID file *)
CreateIDFile(c) ==
    /\ Goes(c, "creating", "writing")
    /\ idFile' = [idFile EXCEPT ![c] = "empty"]
    /\ UNCHANGED <<fault, lockVars, serverVars, handlerVars, dialled, sync,
                   monitor, starts, addrOf, suspended, crashes, stops, left>>

(* WriteString fills it *)
WriteIDFile(c) ==
    /\ Goes(c, "writing", "dialling")
    /\ idFile' = [idFile EXCEPT ![c] = "written"]
    /\ UNCHANGED <<fault, lockVars, serverVars, handlerVars, dialled, sync,
                   monitor, starts, addrOf, suspended, crashes, stops, left>>

(* ClockWorker dials the server's second port; an empty ID file was read as   *)
(* the ID 0, which is nobody's                                                *)
Dial(c) ==
    /\ Goes(c, "dialling", "dialled")
    /\ dialled' = Append(dialled, [id |-> c, zero |-> idFile[c] = "empty",
                                   start |-> starts[c], at |-> "open"])
    /\ UNCHANGED <<fault, lockVars, serverVars, handlerVars, sync, monitor,
                   starts, idFile, addrOf, suspended, crashes, stops, left>>

(* Every entry of c that is still open gets the state `to` *)
Entries(c, to) ==
    [i \in DOMAIN dialled |->
       IF dialled[i].id = c /\ dialled[i].at = "open"
       THEN [dialled[i] EXCEPT !.at = to] ELSE dialled[i]]

(* ClockWorker listens, sends the ID and reports ready; main goes on *)
SendID(c) ==
    /\ Goes(c, "dialled", "connecting")
    /\ dialled' = Entries(c, "sent")
    /\ UNCHANGED <<fault, lockVars, serverVars, handlerVars, sync, monitor,
                   starts, idFile, addrOf, suspended, crashes, stops, left>>

(* The process is killed, or ends in a log.Fatal of its own *)
Crash(c) ==
    /\ Running
    /\ crashes < MaxCrashes
    /\ proc[c] # "off"
    /\ crashes' = crashes + 1
    /\ proc' = [proc EXCEPT ![c] = "off"]
    /\ suspended' = [suspended EXCEPT ![c] = FALSE]
    /\ dialled' = Entries(c, "closed")
    /\ UNCHANGED <<fault, lockVars, serverVars, handlerVars, sync, monitor,
                   starts, idFile, addrOf, stops, left>>

Suspend(c) ==
    /\ Running
    /\ stops < MaxStops
    /\ proc[c] # "off" /\ ~suspended[c]
    /\ stops' = stops + 1
    /\ suspended' = [suspended EXCEPT ![c] = TRUE]
    /\ UNCHANGED <<fault, lockVars, serverVars, handlerVars, dialled, sync,
                   monitor, proc, starts, idFile, addrOf, crashes, left>>

Resume(c) ==
    /\ Running
    /\ suspended[c]
    /\ suspended' = [suspended EXCEPT ![c] = FALSE]
    /\ UNCHANGED <<fault, lockVars, serverVars, handlerVars, dialled, sync,
                   monitor, proc, starts, idFile, addrOf, crashes, stops, left>>

(* A player's heartbeat worker finds its peer c silent and calls NotifyFailure; *)
(* c is nobody's peer before it has connected once                            *)
Report(c) ==
    /\ Running
    /\ c \in Known
    /\ status[c] = "NOTINGAME" => left[c]
    /\ proc[c] # "playing" \/ suspended[c]
    /\ \E p \in Client \ {c} : proc[p] = "playing" /\ ~suspended[p]
    /\ reports' = reports \cup {c}
    /\ UNCHANGED <<fault, lockVars, serverVars, registering, rejecting, getting,
                   dialled, sync, monitor, clientVars, left>>

-----------------------------------------------------------------------------
(* The lock of `connections`                                                  *)

Free == Running /\ ~locked

(* Unlock: fatal if the lock is not taken, and blind to who took it *)
Unlock ==
    \/ /\ locked
       /\ locked' = FALSE
       /\ UNCHANGED fault
    \/ /\ ~locked
       /\ fault' = "unlock of unlocked mutex"
       /\ UNCHANGED locked

(* Variant for the mutants: the fields of PeerInfo mixed up *)
PartnersByName(c) ==
    {[id |-> d, addr |-> NameOf[d]] :
       d \in {e \in Client \ {c} : status[e] = "CONNECTED"}}

(* The connected clients other than c, as a PeerInfo each *)
Partners(c) ==
    {[id |-> d, addr |-> address[d]] :
       d \in {e \in Client \ {c} : status[e] = "CONNECTED"}}

-----------------------------------------------------------------------------
(* RPC handlers                                                               *)

(* Variant: the names are looked for in the map of connections *)
NameFreeInMap(c) == \A d \in Known : NameOf[d] # NameOf[c]

NameFree(c) == NameOf[c] \notin displayNames

(* Variant: the client need not wait for the second section *)
RegisterNameReplies(c) ==
    /\ Running
    /\ proc[c] = "registering" /\ ~suspended[c]
    /\ NameFree(c)
    /\ displayNames' = displayNames \cup {NameOf[c]}
    /\ registering' = registering \cup {Call(c)}
    /\ proc' = [proc EXCEPT ![c] = "creating"]
    /\ UNCHANGED <<fault, lockVars, status, address, rpcClient, client, partner,
                   rejecting, getting, reports, dialled, sync, monitor, starts,
                   idFile, addrOf, suspended, crashes, stops, left>>

(* Register, first critical section, under the lock of displayNames: a name   *)
(* in use is rejected and the client ends                                     *)
RegisterName(c) ==
    /\ Running
    /\ proc[c] = "registering" /\ ~suspended[c]
    /\ Call(c) \notin registering
    /\ \/ /\ ~NameFree(c)
          /\ proc' = [proc EXCEPT ![c] = "off"]
          /\ UNCHANGED <<displayNames, registering>>
       \/ /\ NameFree(c)
          /\ displayNames' = displayNames \cup {NameOf[c]}
          /\ registering' = registering \cup {Call(c)}
          /\ UNCHANGED proc
    /\ UNCHANGED <<fault, lockVars, status, address, rpcClient, client, partner,
                   rejecting, getting, reports, dialled, sync, monitor, starts,
                   idFile, addrOf, suspended, crashes, stops, left>>

(* Register, second critical section, under the lock of connections; the      *)
(* client, if it is still there, has its ID                                   *)
RegisterConnection(r) ==
    /\ Free
    /\ r \in registering
    /\ registering' = registering \ {r}
    /\ status' = [status EXCEPT ![r.id] = "NOTINGAME"]
    /\ proc' = [proc EXCEPT ![r.id] =
                  IF starts[r.id] = r.start /\ @ = "registering"
                  THEN "creating" ELSE @]
    /\ UNCHANGED <<fault, lockVars, displayNames, address, rpcClient, client,
                   partner, rejecting, getting, reports, dialled, sync, monitor,
                   starts, idFile, addrOf, suspended, crashes, stops, left>>

(* Connect of an unknown or a connected client: the lock is released at once  *)
RejectConnect(c) ==
    /\ Free
    /\ proc[c] = "connecting" /\ ~suspended[c]
    /\ Call(c) \notin rejecting
    /\ idFile[c] = "empty" \/ status[c] \in {"ABSENT", "CONNECTED"}
    /\ rejecting' = rejecting \cup {Call(c)}
    /\ UNCHANGED <<fault, lockVars, serverVars, registering, getting, reports,
                   dialled, sync, monitor, clientVars, left>>

(* ... and released again before the handler returns; the client ends *)
ReturnRejection(r) ==
    /\ Running
    /\ r \in rejecting
    /\ Unlock
    /\ stolen' = TRUE
    /\ rejecting' = rejecting \ {r}
    /\ proc' = [proc EXCEPT ![r.id] =
                  IF starts[r.id] = r.start THEN "off" ELSE @]
    /\ suspended' = [suspended EXCEPT ![r.id] = @ /\ starts[r.id] # r.start]
    /\ UNCHANGED <<serverVars, registering, getting, reports, dialled, sync,
                   monitor, starts, idFile, addrOf, crashes, stops, left>>

(* Connect otherwise: a new Connection with the handle of the old, some other *)
(* connected client as partner, and a goroutine for syncClocks                *)
Connect(c) ==
    /\ Free
    /\ proc[c] = "connecting" /\ ~suspended[c]
    /\ Call(c) \notin rejecting
    /\ idFile[c] # "empty" /\ status[c] \notin {"ABSENT", "CONNECTED"}
    /\ status' = [status EXCEPT ![c] = "CONNECTED"]
    /\ address' = [address EXCEPT ![c] = addrOf[c]]
    /\ client' = [client EXCEPT ![c] = 0]
    /\ \/ \E p \in Partners(c) : partner' = [partner EXCEPT ![c] = p]
       \/ Partners(c) = {} /\ partner' = [partner EXCEPT ![c] = NoPeer]
    /\ \E s \in Slot :
         /\ sync[s].at = "free"
         /\ sync' = [sync EXCEPT ![s].at = "waiting"]
    /\ proc' = [proc EXCEPT ![c] = "playing"]
    /\ left' = [left EXCEPT ![c] = FALSE]
    /\ UNCHANGED <<fault, lockVars, displayNames, rpcClient, handlerVars,
                   dialled, monitor, starts, idFile, addrOf, suspended, crashes,
                   stops>>

(* Variant: the server is not told which client leaves *)
DisconnectUnmarked(c) ==
    /\ Free
    /\ proc[c] = "playing" /\ ~suspended[c]
    /\ proc' = [proc EXCEPT ![c] = "off"]
    /\ left' = [left EXCEPT ![c] = TRUE]
    /\ UNCHANGED <<fault, lockVars, serverVars, handlerVars, dialled, sync,
                   monitor, starts, idFile, addrOf, suspended, crashes, stops>>

(* Disconnect: the player leaves, and the client's main() returns *)
Disconnect(c) ==
    /\ Free
    /\ proc[c] = "playing" /\ ~suspended[c]
    /\ status' = [status EXCEPT ![c] = "NOTINGAME"]
    /\ proc' = [proc EXCEPT ![c] = "off"]
    /\ left' = [left EXCEPT ![c] = TRUE]
    /\ UNCHANGED <<fault, lockVars, displayNames, address, rpcClient, client,
                   partner, handlerVars, dialled, sync, monitor, starts, idFile,
                   addrOf, suspended, crashes, stops>>

(* The partner of c is not there or is marked disconnected *)
NeedsPartner(c) ==
    partner[c] # NoPeer =>
      status[partner[c].id] \in {"ABSENT", "DISCONNECTED"}

(* GetNodes, first part: replace the partner if need be. The reply, sent at   *)
(* the end, is the partner of this moment if it is connected.                 *)
GetNodes(c) ==
    /\ Free
    /\ proc[c] = "playing" /\ ~suspended[c]
    /\ getting[c] = "idle"
    /\ \/ /\ NeedsPartner(c) /\ Partners(c) # {}
          /\ \E p \in Partners(c) : partner' = [partner EXCEPT ![c] = p]
       \/ /\ ~NeedsPartner(c) \/ Partners(c) = {}
          /\ UNCHANGED partner
    /\ getting' = [getting EXCEPT ![c] = "reading"]
    /\ UNCHANGED <<fault, lockVars, displayNames, status, address, rpcClient,
                   client, registering, rejecting, reports, dialled, sync,
                   monitor, clientVars, left>>

(* GetNodes reads the status without the lock; a holder of the lock that is   *)
(* writing to the map makes the runtime end the server                        *)
GetNodesReads(c) ==
    /\ Running
    /\ getting[c] = "reading"
    /\ \/ /\ getting' = [getting EXCEPT ![c] =
                           IF status[c] = "RECONNECTED" THEN "promoting"
                                                        ELSE "idle"]
          /\ UNCHANGED <<fault, lockVars, serverVars, registering, rejecting,
                         reports, dialled, sync, monitor, clientVars, left>>
       \/ /\ locked
          /\ Fails("concurrent map read")

(* GetNodes, last part: a reconnected client is connected again *)
GetNodesPromotes(c) ==
    /\ Free
    /\ getting[c] = "promoting"
    /\ getting' = [getting EXCEPT ![c] = "idle"]
    /\ status' = [status EXCEPT ![c] = "CONNECTED"]
    /\ UNCHANGED <<fault, lockVars, displayNames, address, rpcClient, client,
                   partner, registering, rejecting, reports, dialled, sync,
                   monitor, clientVars, left>>

(* NotifyFailure *)
NotifyFailure(c) ==
    /\ Free
    /\ c \in reports
    /\ reports' = reports \ {c}
    /\ status' = [status EXCEPT ![c] =
                    IF @ = "CONNECTED" THEN "DISCONNECTED" ELSE @]
    /\ UNCHANGED <<fault, lockVars, displayNames, address, rpcClient, client,
                   partner, registering, rejecting, getting, dialled, sync,
                   monitor, clientVars, left>>

-----------------------------------------------------------------------------
(* Variant: a goroutine for each connection, which reads on its own *)
AwaitClients ==
    /\ Running /\ ~locked
    /\ \E i \in DOMAIN dialled :
         /\ dialled[i].at = "sent" /\ ~dialled[i].zero /\ dialled[i].id \in Known
         /\ dialled' = RemoveAt(dialled, i)
         /\ rpcClient' = [rpcClient EXCEPT ![dialled[i].id] = dialled[i].start]
    /\ UNCHANGED <<fault, lockVars, displayNames, status, address, client,
                   partner, handlerVars, sync, monitor, clientVars, left>>

(* awaitClientConnections: one connection at a time. It blocks in Read until  *)
(* the ID is there; a connection closed before that, and an ID that is not in *)
(* the map, end the server.                                                   *)
AwaitClient ==
    /\ Running
    /\ dialled # <<>>
    /\ LET d == Head(dialled)
       IN  \/ /\ d.at = "closed"
              /\ Fails("read error")
           \/ /\ d.at = "sent" /\ ~locked
              /\ d.zero \/ d.id \notin Known
              /\ Fails("client not connected")
           \/ /\ d.at = "sent" /\ ~locked
              /\ ~d.zero /\ d.id \in Known
              /\ dialled' = Tail(dialled)
              /\ rpcClient' = [rpcClient EXCEPT ![d.id] = d.start]
              /\ UNCHANGED <<fault, lockVars, displayNames, status, address,
                             client, partner, handlerVars, sync, monitor,
                             clientVars, left>>

-----------------------------------------------------------------------------
(* syncClocks, in slot s                                                      *)

(* Take the lock and range over the map *)
SyncLock(s) ==
    /\ Free
    /\ sync[s].at = "waiting"
    /\ locked' = TRUE
    /\ sync' = [sync EXCEPT ![s] =
                  [at |-> "measuring", todo |-> Known, measured |-> {}]]
    /\ UNCHANGED <<fault, stolen, serverVars, handlerVars, dialled, monitor,
                   clientVars, left>>

(* The first loop passes over a client that is not connected; one without a   *)
(* handle ends the server                                                     *)
SyncMeasure(s, c) ==
    /\ Running
    /\ sync[s].at = "measuring" /\ c \in sync[s].todo
    /\ \/ /\ status[c] # "CONNECTED"
          /\ sync' = [sync EXCEPT ![s].todo = @ \ {c}]
          /\ UNCHANGED <<fault, lockVars, serverVars, handlerVars, dialled,
                         monitor, clientVars, left>>
       \/ /\ status[c] = "CONNECTED" /\ rpcClient[c] = 0
          /\ Fails("no rpcClient")

(* Variant: a client that does not answer is passed over *)
SyncAskOrSkip(s, c) ==
    /\ Running
    /\ sync[s].at = "measuring" /\ c \in sync[s].todo
    /\ status[c] = "CONNECTED" /\ rpcClient[c] # 0
    /\ client' = [client EXCEPT ![c] = rpcClient[c]]
    /\ sync' = [sync EXCEPT ![s].todo = @ \ {c}, ![s].measured =
                  IF Answers(c, rpcClient[c]) THEN @ \cup {c} ELSE @]
    /\ UNCHANGED <<fault, lockVars, displayNames, status, address, rpcClient,
                   partner, handlerVars, dialled, monitor, clientVars, left>>

(* A connected client's handle becomes connection.client and is asked for the *)
(* time. The call of a silent client fails after doApiCall's TIMEOUT, unless  *)
(* the client answers by then.                                                *)
SyncAsk(s, c) ==
    /\ Running
    /\ sync[s].at = "measuring" /\ c \in sync[s].todo
    /\ status[c] = "CONNECTED" /\ rpcClient[c] # 0
    /\ client' = [client EXCEPT ![c] = rpcClient[c]]
    /\ \/ /\ Answers(c, rpcClient[c])
          /\ sync' = [sync EXCEPT ![s].todo = @ \ {c},
                                  ![s].measured = @ \cup {c}]
          /\ UNCHANGED fault
       \/ /\ ~Answers(c, rpcClient[c])
          /\ fault' = "TimeRequest failed"
          /\ UNCHANGED sync
    /\ UNCHANGED <<lockVars, displayNames, status, address, rpcClient, partner,
                   handlerVars, dialled, monitor, clientVars, left>>

(* The average is known: range over the map again *)
SyncAverage(s) ==
    /\ Running
    /\ sync[s].at = "measuring" /\ sync[s].todo = {}
    /\ sync' = [sync EXCEPT ![s].at = "spreading", ![s].todo = Known]
    /\ UNCHANGED <<fault, lockVars, serverVars, handlerVars, dialled, monitor,
                   clientVars, left>>

(* One client of the second loop *)
SyncSpread(s, c) ==
    /\ Running
    /\ sync[s].at = "spreading" /\ c \in sync[s].todo
    /\ \/ /\ status[c] = "CONNECTED" => Answers(c, client[c])
          /\ sync' = [sync EXCEPT ![s].todo = @ \ {c}]
          /\ UNCHANGED <<fault, lockVars, serverVars, handlerVars, dialled,
                         monitor, clientVars, left>>
       \/ /\ status[c] = "CONNECTED" /\ client[c] = 0
          /\ Fails("nil client")
       \/ /\ status[c] = "CONNECTED" /\ client[c] # 0
          /\ ~Answers(c, client[c])
          /\ Fails("SetOffset failed")

SyncUnlock(s) ==
    /\ Running
    /\ sync[s].at = "spreading" /\ sync[s].todo = {}
    /\ Unlock
    /\ sync' = [sync EXCEPT ![s] = [at |-> "free", todo |-> {}, measured |-> {}]]
    /\ UNCHANGED <<stolen, serverVars, handlerVars, dialled, monitor,
                   clientVars, left>>

-----------------------------------------------------------------------------
(* monitorConnections                                                         *)

(* Variant: the lock is not waited for *)
MonitorLockNow ==
    /\ Running
    /\ monitor.at = "sleeping"
    /\ locked' = TRUE
    /\ monitor' = [at |-> "testing", todo |-> Known]
    /\ UNCHANGED <<fault, stolen, serverVars, handlerVars, dialled, sync,
                   clientVars, left>>

MonitorLock ==
    /\ Free
    /\ monitor.at = "sleeping"
    /\ locked' = TRUE
    /\ monitor' = [at |-> "testing", todo |-> Known]
    /\ UNCHANGED <<fault, stolen, serverVars, handlerVars, dialled, sync,
                   clientVars, left>>

(* Variant: the recovery is not written down *)
MonitorForgets(c) ==
    /\ Running
    /\ c \in monitor.todo
    /\ status[c] = "DISCONNECTED" /\ Answers(c, client[c])
    /\ monitor' = [monitor EXCEPT !.todo = @ \ {c}]
    /\ UNCHANGED <<fault, lockVars, serverVars, handlerVars, dialled, sync,
                   clientVars, left>>

(* Recover reaches the disconnected client c within its second *)
MonitorRecovers(c) ==
    /\ Running
    /\ c \in monitor.todo
    /\ status[c] = "DISCONNECTED" /\ Answers(c, client[c])
    /\ status' = [status EXCEPT ![c] = "RECONNECTED"]
    /\ monitor' = [monitor EXCEPT !.todo = @ \ {c}]
    /\ UNCHANGED <<fault, lockVars, displayNames, address, rpcClient, client,
                   partner, handlerVars, dialled, sync, clientVars, left>>

(* It does not, or c is not disconnected; connection.client may be nil *)
MonitorPasses(c) ==
    /\ Running
    /\ c \in monitor.todo
    /\ \/ /\ status[c] = "DISCONNECTED" => client[c] # 0
          /\ monitor' = [monitor EXCEPT !.todo = @ \ {c}]
          /\ UNCHANGED <<fault, lockVars, serverVars, handlerVars, dialled, sync,
                         clientVars, left>>
       \/ /\ status[c] = "DISCONNECTED" /\ client[c] = 0
          /\ Fails("nil client")

(* Variant: the lock is kept *)
MonitorKeepsLock ==
    /\ Running
    /\ monitor.at = "testing" /\ monitor.todo = {}
    /\ monitor' = [at |-> "sleeping", todo |-> {}]
    /\ UNCHANGED <<fault, lockVars, serverVars, handlerVars, dialled, sync,
                   clientVars, left>>

MonitorUnlock ==
    /\ Running
    /\ monitor.at = "testing" /\ monitor.todo = {}
    /\ Unlock
    /\ monitor' = [at |-> "sleeping", todo |-> {}]
    /\ UNCHANGED <<stolen, serverVars, handlerVars, dialled, sync, clientVars,
                   left>>

-----------------------------------------------------------------------------
ClientStep(c) ==
    \/ Start(c) \/ CreateIDFile(c) \/ WriteIDFile(c) \/ Dial(c) \/ SendID(c)
    \/ Crash(c) \/ Suspend(c) \/ Resume(c) \/ Report(c)

Handler(c) ==
    \/ RegisterName(c) \/ RejectConnect(c) \/ Connect(c) \/ Disconnect(c)
    \/ GetNodes(c) \/ GetNodesReads(c) \/ GetNodesPromotes(c)
    \/ NotifyFailure(c)

(* The steps of a goroutine that holds the lock *)
SyncHolds(s) ==
    \/ SyncAverage(s) \/ SyncUnlock(s)
    \/ \E c \in Client :
         SyncMeasure(s, c) \/ SyncAsk(s, c) \/ SyncSpread(s, c)

MonitorHolds ==
    \/ MonitorUnlock
    \/ \E c \in Client : MonitorRecovers(c) \/ MonitorPasses(c)

Next ==
    \/ \E c \in Client : ClientStep(c) \/ Handler(c)
    \/ \E r \in registering : RegisterConnection(r)
    \/ \E r \in rejecting : ReturnRejection(r)
    \/ AwaitClient
    \/ \E s \in Slot : SyncLock(s) \/ SyncHolds(s)
    \/ MonitorLock \/ MonitorHolds

Spec == Init /\ [][Next]_vars

(* The server's goroutines keep running, for the calls they make under the    *)
(* lock end with an answer or a timeout (clientlib/clock.go:83-91), and the   *)
(* lock of `connections`, which hands itself to a waiter that has waited for a*)
(* millisecond, passes nobody over for ever. A client that answers is in time *)
(* again and again.                                                           *)
Fairness ==
    /\ \A s \in Slot : SF_vars(SyncLock(s)) /\ WF_vars(SyncHolds(s))
    /\ SF_vars(MonitorLock) /\ WF_vars(MonitorHolds)
    /\ \A c \in Client : SF_vars(MonitorRecovers(c))

FairSpec == Spec /\ Fairness

-----------------------------------------------------------------------------
(* Properties                                                                 *)

ServerTypeOK ==
    /\ fault \in Fault
    /\ locked \in BOOLEAN /\ stolen \in BOOLEAN
    /\ displayNames \subseteq Name
    /\ status \in [Client -> Status]
    /\ address \in [Client -> Addr]
    /\ rpcClient \in [Client -> Nat] /\ client \in [Client -> Nat]
    /\ partner \in [Client -> Peer \cup {NoPeer}]

HandlerTypeOK ==
    /\ registering \subseteq [id : Client, start : Nat]
    /\ rejecting \subseteq [id : Client, start : Nat]
    /\ getting \in [Client -> {"idle", "reading", "promoting"}]
    /\ reports \subseteq Client

GoroutineTypeOK ==
    /\ dialled \in Seq([id : Client, zero : BOOLEAN, start : Nat,
                        at : {"open", "sent", "closed"}])
    /\ sync \in [Slot -> [at : {"free", "waiting", "measuring", "spreading"},
                          todo : SUBSET Client, measured : SUBSET Client]]
    /\ monitor \in [at : {"sleeping", "testing"}, todo : SUBSET Client]

ClientTypeOK ==
    /\ proc \in [Client -> Proc]
    /\ starts \in [Client -> Nat]
    /\ idFile \in [Client -> {"none", "empty", "written"}]
    /\ addrOf \in [Client -> Addr]
    /\ suspended \in [Client -> BOOLEAN] /\ left \in [Client -> BOOLEAN]
    /\ crashes \in Nat /\ stops \in Nat

(* Every variable keeps its type.                                             *)
TypeOK == ServerTypeOK /\ HandlerTypeOK /\ GoroutineTypeOK /\ ClientTypeOK

(* The clients a display name is taken by: those in the map and those between *)
(* Register's two critical sections                                           *)
Named == Known \cup {r.id : r \in registering}

(* REPORT.md:165-167: the display names of the players are distinct and are   *)
(* all in the server's set, although Register gives up the lock of the names  *)
(* before it takes that of the connections.                                   *)
NamesDistinct ==
    /\ \A c, d \in Named : NameOf[c] = NameOf[d] => c = d
    /\ \A c \in Named : NameOf[c] \in displayNames

(* A client that has its ID on disk is in the server's map, whenever the      *)
(* client or its Register call was cut off: only an empty ID file can make    *)
(* awaitClientConnections meet an ID that it does not know (server.go:669).   *)
IDsAreKnown == \A c \in Client : idFile[c] # "none" => c \in Known

(* A client that waits for its Connect or plays has its handle at the server, *)
(* or in the queue of awaitClientConnections (client.go:197 waits for the ID  *)
(* to be sent, not to be read): the handle of an earlier process never comes  *)
(* to replace that of the running one (server.go:673).                        *)
HandleOnItsWay ==
    \A c \in Client :
      proc[c] \in {"connecting", "playing"} =>
        \/ rpcClient[c] = starts[c]
        \/ \E i \in DOMAIN dialled :
             /\ dialled[i].id = c /\ dialled[i].start = starts[c]
             /\ dialled[i].at = "sent"

HoldsLock(s) == sync[s].at \in {"measuring", "spreading"}

(* As long as no rejected Connect has released the lock a second time, one    *)
(* goroutine at most is in a critical section that calls clients, and the     *)
(* lock is taken exactly then.                                                *)
LockHeldOnce ==
    ~stolen =>
      /\ locked <=> monitor.at = "testing" \/ \E s \in Slot : HoldsLock(s)
      /\ monitor.at = "testing" => \A s \in Slot : ~HoldsLock(s)
      /\ \A s, t \in Slot : HoldsLock(s) /\ HoldsLock(t) => s = t

(* syncClocks sets the offset of no client that it has not measured: without  *)
(* a stolen lock nobody becomes CONNECTED between its two loops, so m[key] is *)
(* no missing entry (a zero offset) and connection.client is not nil.         *)
SpreadIsMeasured ==
    ~stolen =>
      \A s \in Slot : sync[s].at = "spreading" =>
        \A c \in Client : status[c] = "CONNECTED" =>
          c \in sync[s].measured /\ client[c] # 0

(* The clients cannot end the server as long as each plays one game and none  *)
(* is killed or suspended; what is left are the races of the server's own     *)
(* goroutines. And only a kill can break awaitClientConnections.              *)
FaultsHaveCause ==
    /\ fault \in {"read error", "client not connected"} => crashes > 0
    /\ crashes = 0 /\ stops = 0 /\ (\A c \in Client : starts[c] <= 1) =>
         fault \in {"none", "no rpcClient", "concurrent map read"}

(* A client that is marked DISCONNECTED but answers is found by               *)
(* monitorConnections, whatever holds the lock in between (REPORT.md:74).     *)
RecoveredEventually ==
    \A c \in Client :
      []<>~(Running /\ status[c] = "DISCONNECTED" /\ Answers(c, client[c]))

(* Every syncClocks goroutine gets the lock and gives it back: no handler     *)
(* keeps the lock of the connections, and nobody waits for ever.              *)
SyncsFinish ==
    \A s \in Slot : sync[s].at = "waiting" ~> ~Running \/ sync[s].at = "free"

=============================================================================
