# A TLA+ specification of P2P Battle Tanks

This directory specifies CS416-Tanks: a game in which every player's client
simulates its own tank and floods its moves, shots and deaths over a
peer-to-peer overlay, while a central server registers the players, introduces
them to each other, synchronises their clocks, keeps track of who is connected
and finds the players that keep each other's statistics. Line numbers refer to
the Go sources in `src/`.

    cd tla
    tlc -workers 2 -config FloodOrder.cfg MCUpdateFlood     # one run
    tlapm UpdateFloodProofs.tla                             # one proof module

## The system

Two programs, `server/server.go` and `client/*.go`, with the libraries
`serverlib` (RPC stubs of the server), `clientlib` (updates, the UDP protocol
between players, RPC stubs of a client), `clocklib` (a clock with an offset) and
`crdtlib` (types of the key-value store).

| component | state | operations | who it talks to |
| --- | --- | --- | --- |
| Server: players and connections (`server.go` 371-679) | `displayNames`, `connections.m` (status, address, handles, partner per client) under one lock each | `Register`, `Connect`, `Disconnect`, `GetNodes`, `NotifyFailure`; goroutines `monitorConnections`, `awaitClientConnections` | RPCs from clients; `Recover` to clients; reads a client's ID on a second port |
| Server: clocks (`server.go` 304-369, `clocklib.go`) | the server's offset, the map `m` of a round | `syncClocks`, a goroutine per accepted `Connect` | `TimeRequest` and `SetOffset` to every connected client, under the lock of the connections |
| Server and client: statistics (`server.go` 130-293, `crdt.go`, `clocks.go` 23-84) | `keyToClients`, a map and files per client | `KVGet`, `KVPut`, `KVClientGet`, `KVClientPut`; the goroutines that count (`client.go` 306-317, 351-362) | RPCs both ways, under both of the server's locks |
| Client: start (`client.go` 79-242, `clocks.go` 138-182) | the ID file | `main`, `findIDFile`, `ClockWorker` | `Register`, `Connect`, `Disconnect`; the second port |
| Client: game updates (`state.go`, `client.go` 246-427, `bot.go`, `peers.go` 118-157) | `history`, `historyMap`, `records`; `players`, `bullets`, `alive`; three channels | `RecordWorker`, `OutgoingWorker`, `ListenerWorker`, the main loop or `GenerateMoves` | channels inside the client, UDP between clients |
| Client: peers (`peers.go`, `clocks.go` 105-134) | `peers` under `peerLock` | `PeerWorker`, `HeartbeatWorker`, `HeartbeatMonitorWorker`, `Register`, `NotifyFailure`, `Recover`, `Ping` | `GetNodes`, `NotifyFailure` to the server; UDP and RPC between clients |
| Client: channels and locks (all of the client) | three channels of 1000, `peerLock` | what each goroutine waits for | the server's lock |
| Client: bullets (`client.go` 291-322, `bullet.go`) | `bullets` | `doUpdateBullets`, `FireBullet` | the main loop |

What is hard in it: nothing is ordered (UDP, flooding over several paths), each
client judges updates by a clock that the server moves while it does so, two
threads of a client keep maps of the same players, the server calls clients
while it holds the locks its handlers need, and clients call the server while
they hold the lock its calls need, clients are killed and come back with the
identity in their ID file at any moment, and most errors end the process. The
list of hazards, each with its line and the property that covers it, is in
`PROJECT.json`.

What makes each component correct:

* game updates: a flood ends; an update is not passed on twice; a node does not
  go back to an older state of another player; the screen agrees with the
  records; everybody ends up with everybody's last position and hears of deaths;
  a record changes only by what its player, or one who believed it, said;
* connections: names, IDs and handles stay consistent through crashes; the lock
  is held once and always given back; a client that was wrongly given up is
  found again; no client can end the server by failing;
* clocks: a round brings a client's clock to the server's;
* peers: every link is watched from one side at least; the dead are forgotten by
  everybody, the living by nobody, and who comes back is back for everybody;
* statistics: what was stored stays stored through crashes; a player who counts
  one thing at a time loses none; every call is answered;
* channels: it is known in which ways a client can come to a stop;
* bullets: none in the window is lost or doubled, all vanish in the end.

## Modules

| module | models |
| --- | --- |
| `UpdateFlood` | the updates of all clients, from the frame that makes one to the screens that show it |
| `GameReplicas` | what that flood promises, without channels, packets, clocks and histories |
| `MCUpdateFlood` | two small overlays, clocks and fields for TLC |
| `UpdateFloodProofs` | theorems about `UpdateFlood`: types, histories, records, the refinement, the screens |
| `UpdateFloodArrivals` | theorems about `UpdateFlood`: what comes to everybody in the end |
| `TankServer` | the server's connections with all its goroutines, and the clients' processes as far as they deal with the server |
| `MCTankServer` | names and restarts for TLC |
| `TankServerProofs` | theorems about `TankServer` |
| `ClockSync` | the values of clocks and offsets in `syncClocks` |
| `MCClockSync` | three raw clocks that are apart |
| `ClockSyncProofs` | theorems about `ClockSync` |
| `PeerNet` | the peer maps of all clients, their heartbeats, and the server's part in finding and losing peers |
| `MCPeerNet` | three players of whom one is the hub |
| `PeerNetProofs` | theorems about `PeerNet` |
| `StatsStore` | the key-value store: server, replicas, files, and the goroutines that count |
| `MCStatsStore` | three clients and three increments |
| `StatsStoreProofs` | theorems about `StatsStore` |
| `ClientChannels` | the goroutines of one client and what they wait for |
| `ClientChannelsProofs` | theorems about `ClientChannels` |
| `Bullets` | the slice of bullets under `doUpdateBullets` |
| `MCBullets` | four bullets |
| `BulletsProofs` | theorems about `Bullets` |

The modules cut the system along what they abstract, and they meet in these
places:

* `TankServer` and `ClockSync` model the same goroutine from two sides:
  `TankServer` its control, with clients that fail under it and the other holders
  of the lock; `ClockSync` its arithmetic. They meet in the theorem
  `MeasuredBeforeSet` of `TankServerProofs`: nobody becomes connected between the
  two loops of a round, which `ClockSync` assumes by letting connections change
  between rounds only.
* `UpdateFlood` takes its clock offsets from the action `SetOffset`, which allows
  any of the constant `Offsets` at any time, and its overlay from `InitPeers`
  and `RemovePeer`, which removes any peer at any time; `PeerNet` says when
  peers really are removed and comes with the overlay's growth.
* `PeerNet` composes the clients' peers with the server's `GetNodes`,
  `NotifyFailure` and `monitorConnections`, reduced to status and partner, as in
  `TankServer`; what ends the server is left to `TankServer`.
* `ClientChannels` has the channels that `UpdateFlood` takes to be unbounded: as
  long as a client is in neither `MainCycle` nor `LockCycle`, `KeepsRecording`
  is the fairness of `RecordWorker` that `UpdateFlood` assumes.
* `StatsStore` has the lock of the connections in common with `TankServer`; a
  handler of `TankServer` that uses it is one step here.

### UpdateFlood and GameReplicas

A nonce is the index of its update in the sequence `issued` (64-bit random
numbers that never collide); queues, packets and histories hold nonces. Both
channels that `RecordWorker` writes, `UpdateChannel` and `OutgoingUpdates`, get
the same updates in the same order, so they are one sequence `shown[n]` with a
position for each reader, `painted[n]` and `sent[n]`. Channels are unbounded
here. The window is a line of integers and a tick of the clock is the unit of
time; angles are left out, and because an angle can make `RecordWorker` refuse
another player's shot, `MayRefuse` lets it refuse any.

| action | code |
| --- | --- |
| `Frame`, `BotFrame` | `doLocalInput` and `FireBullet`; one turn of `GenerateMoves` |
| `Hit` | the branch of `doUpdateBullets` for a hit |
| `RemovePeer` | `removePeer`, for whatever reason it is called |
| `TakeUpdate`, `RecordUpdate` | one turn of `RecordWorker`, in two steps because it reads the clock twice, for the age of the update and again in `pruneHistory` |
| `AcceptUpdate` | one update of `doAcceptUpdates` |
| `SendUpdate` | one update of `OutgoingWorker` |
| `Listen`, `Lose` | `ListenerWorker` and `NotifyUpdate`; UDP |
| `Tick`, `SetOffset` | true time; `ClockController.SetOffset` |

`Clock(n)` is true time, plus the error of n's raw clock (`Skew`), plus its
offset. A person moves by the raw clock; a bot subtracts a time of the offset
clock from one of the raw clock (`bot.go` 27-32), and so does `BotFrame`. The
packets in flight are a set: a node sends each packet once per passing on, and a
second copy of a packet that is still in flight adds nothing but a second
arrival, which two paths of the overlay give as well.

`ForwardSpec` restricts `Spec` to the executions in which no clock is set back (in
the run `FloodOnce` all are: its only `SetOffset` finds the offset 0);
`FairSpec` adds weak fairness of the workers.

`GameReplicas` is the abstract specification. Every player has a board, its
records. `Publish` appends updates, `Tell(n)` tells n of one: the first to be
told is the player it is of (anybody, of a lost peer), later ones are told by
whoever was told before. `Moves`, `Shoots` and `Dies` say what it does to the
board: a move never takes another's tank back in time, a shot is one of a tank
on the board, a death takes the tank off. The refinement mapping `Replicas` is
read off the clients' state, `told[n]` being the nonces in `shown[n]` and
`board` being `records`. `KeepsReplicas` is that `UpdateFlood` implements it:
packets, duplicates, pruned nonces and skewed clocks are stutters.

### TankServer

A handler that calls nobody while it holds the lock of the connections is one
step, enabled while the lock is free. `syncClocks` and `monitorConnections` take
the lock, make one step per client, and release it. Go's mutex knows no owner:
`Unlock` releases whatever is locked and ends the process if nothing is, which
is how the second `Unlock` of a rejected `Connect` acts (`stolen` records that
it happened). Whatever ends the server, `log.Fatal`, a nil dereference or the
runtime's check for concurrent map access, is a value of `fault`.

| action | code |
| --- | --- |
| `Start`, `CreateIDFile`, `WriteIDFile` | `main`: `findIDFile` or `Register`, then the ID file in two steps, between which the process can be killed |
| `Dial`, `SendID` | `ClockWorker` up to `ready` |
| `RegisterName`, `RegisterConnection` | `Register`'s two critical sections |
| `Connect`, `RejectConnect`, `ReturnRejection` | `Connect`; the rejection is two steps because it unlocks twice |
| `Disconnect`, `NotifyFailure` | the handlers of that name |
| `GetNodes`, `GetNodesReads`, `GetNodesPromotes` | `GetNodes`: critical section, unlocked read, second critical section |
| `AwaitClient` | one connection of `awaitClientConnections` |
| `SyncLock` ... `SyncUnlock` | `syncClocks` |
| `MonitorLock` ... `MonitorUnlock` | `monitorConnections` |
| `Report` | `handleDisconnection` of some player about a silent one |
| `Crash`, `Suspend`, `Resume` | the player's process is killed, stopped, continued |

A client is identified with its ID; `starts[c]` numbers its processes, and a
handle (`rpcClient`, `client`) is the number of the process that gave it. A call
of a client whose process ends is handled if its handler had begun (a `Register`
between its sections, a rejection between its unlocks) and dropped otherwise.
`Read` either gets all 8 bytes of an ID or none.

### ClockSync

The clients' raw clocks run at the server's rate and are `Skew[c]` ahead of it.
A measurement with delays `d1` and `d2` is `ClientOffset(c, d1, d2)`, computed
as in lines 329-343 with `after - before` halved; `Quot` is Go's division, which
truncates towards zero. Each `Connect` asks for a round (`due`), which begins
when its goroutine gets the lock: other clients may have connected, left, or
failed and come back by then (`Reconnect` is the promotion in `GetNodes`, which
asks for no round).

### PeerNet

All players have joined; `Init` is the star of `InitPicks` with every pick
registered. What a player does under `peerLock` is one step, with the calls it
makes there. A peer is in `peers[n]`, and n may have a `HeartbeatWorker`
(`beating`) for those that registered with it and a `HeartbeatMonitorWorker`
(`watching`) for those it picked, both of which find out at their next turn that
the peer has been removed. Whether a heartbeat is too old depends on clocks
whose offset may be set between (peers.go 217 compares a time of the offset
clock with the raw one), so it may be found too old at any time.

| action | code |
| --- | --- |
| `Beat` | a turn of `HeartbeatWorker`: end, a heartbeat that is noted, or `Ping` and `handleDisconnection` |
| `Monitor` | a turn of `HeartbeatMonitorWorker`: end, nothing, another `Register`, or `handleDisconnection` |
| `GetMorePeers` | `PeerWorker`, `getMorePeers`, `newPeer` and the server's `GetNodes` with its promotion |
| `TakeRegister`, `EnterPeer` | `Register` before and after the dialling, between which the map may change |
| `TakeFailure` | `NotifyFailure`, with the next hop of the flood |
| `Recover` | a turn of `monitorConnections` that succeeds |
| `Suspend`, `Resume`, `Crash`, `Restart`, `Lose` | processes and packets |

A connection is broken (`broken`) for good once the process it leads to is gone,
even if another one has been started for the same player. A player restarts only
when the server has heard of its failure (`Restart`), because the server would
not survive the other case (`TankServer`).

### StatsStore

The key is the ID of the player who counts, a value is the set of increments
that it contains: `{}` for zero, and `v \cup {i}` for adding one, so that a lost
increment can be named. `stage[i]` is where the goroutine that counts `i` is,
`get[i]` and `put[i]` are where the server's handlers for it are, and the locks
are read off these (`KeysFree`, `ConnsFree`): `KVGet` takes `keyToClients` and
then the connections, `KVPut` the other way round. A handler goes on when its
caller has given up.

| action | code |
| --- | --- |
| `Begin`, `ReadOwn`, `GetFails`, `PutFails` | the goroutines of `client.go` 306-317 and 351-362 with `KVGet` and `KVPut` of `crdt.go`, and the 20 s of `doApiCall` |
| `GetLocksKeys`, `GetAnswers` | `KVGet` of the server, with `KVClientGet` |
| `PutLocksConns`, `PutLocksKeys` | `KVPut` of the server up to the loop: the locks and the choice of clients |
| `PutCalls`, `PutStored`, `PutDone` | that loop, a client in two steps: `KVClientPut` sets the map and truncates the file; then the file is written and the list gets the client |
| `Leave`, `Join`, `Attach` | `NotifyFailure`; `Connect` or the promotion in `GetNodes`; `awaitClientConnections` |
| `Crash`, `Restart` | the process is killed; `KVStoreSetup` |

`last` and `wrote` record what the last `KVPut` of a key was given and whom it
has written; `raced` who has counted two things at a time.

### ClientChannels

Each goroutine of a client is a small automaton, a channel is the number of
updates in it, and `peerLock` is "free" or what its holder is doing. A holder
may be at a send on `RecordUpdates` (`removePeer` in `NotifyFailure`,
`handleDisconnection` and `Recover`) or at a call of the server (`Report`,
`GetMorePeers`), which the server serves while nobody holds its lock; the server
holds it while it waits for a `Recover`, for a second at most
(`RecoverTimeout`). Names of actions are those of the functions, in the order in
which a goroutine goes through them. A call the server leaves unanswered for
20 s ends the process, and is left out.

### Bullets

`array` is the array behind the slice as far as the `range` of the current frame
reads it, `size` is `len(bullets)`, and `i` is where the range is. Go's `range`
evaluates the slice once, so it goes on to the old length; `append(bullets[:i],
bullets[i+1:]...)` writes the same array (`Shifted`) and `bullets[:i]` reslices it,
to a longer slice if `i` is beyond `len(bullets)` by then (`Kill`). A bullet is
`left[b]` away from the edge of the window, which it never enters again.
`StartFrame` and `UpdateBullet` are `doUpdateBullets`; `Fire` is `FireBullet` or
a shot that `doAcceptUpdates` takes in, both between two loops of the main thread.

## Properties and runs

Every run is exhaustive within its bounds. The games never end in the models
either, but the counters have bounds, so that most runs have
`CHECK_DEADLOCK FALSE`: a state in which the bounds are used up and all work is
done has no successor, and a client in one of the cycles of `ClientChannels`
really stops. `BulletsLoop` is checked for deadlock.

### Runs that pass

| run | what it checks | instance |
| --- | --- | --- |
| `FloodOnce` | `HistoryExact`: slice and map of the history agree. `FreshAtMostOnce`: nothing inside the window is passed on twice while clocks go forward. `FloodDiesOut`: the flood comes to rest | 3 nodes, each other's peers; one update; time up to 3 with window 1, so that it is pruned everywhere; one `SetOffset` |
| `FloodOrder` | `ScreenMatchesRecords`, `KeepsReplicas`, `ShotsComeFromTanks`, types | a person with the Enter key and a bot; 3 updates of all kinds, a removed peer, a lost packet |
| `FloodArrives` | `DeathsReachAll`, `Converged` | 3 nodes on a line, the middle one's clock ahead; three moves, shots and deaths from one end, in every order of arrival |
| `ServerLock` | `LockHeldOnce`, `SpreadIsMeasured`, `NamesDistinct`, `IDsAreKnown`, `HandleOnItsWay`, `FaultsHaveCause`, types | 3 clients, two of them with the same name, one crash, one restart, 2 `syncClocks` at a time (their slots are symmetric) |
| `ServerRecovers` | `RecoveredEventually`, `SyncsFinish` | 2 clients, one suspended for a while |
| `SyncRounds` | `FirstRoundSynchronises`, `AverageIsBetween`, types | 3 clients with clocks at -3, 4 and 0, 3 rounds, delays 0 to 2 |
| `StatsCounted` | `CopiesDurable`, `PutReplicates`, `Counted`, `CallsEnd`, types | 3 clients, one of them outside at first, one with a key above 2^63; two increments of one player and one of another; replication factor 2; one failure |
| `PeersWatch` | `EveryPeerWatched`, `NoFalseAlarm`, `GoneForgotten`, `PicksHeal`, `AllBackIn`, types | a hub and two leaves, one of which may be killed or suspended and started again; one lost packet; TTL 1 |
| `ChannelsFull` | `CyclesStay`, `KeepsRecording`, `LockComesFree`, types | channels with room for 1, up to 2 peers, up to 2 unfinished calls of `Recover`; a person or a bot |
| `BulletsLoop` | `InFlightOnce`, `OnlyLastRunsAhead`, `BulletsVanish`, types, no deadlock | 4 bullets up to 3 from the edge, frames in which they fly 1 or 2 |

Why the bounds are enough. A flood's hazards need two paths to a node (triangle)
or a node in the middle (line); three nodes have both. Three updates are the
most any of the properties relates (a shot, its position, a death). Time has to
pass the window once. For the server, a property about two holders of a lock
needs two goroutines besides the monitor, one about identities a crash and a
restart, and one about names two clients that share one; the third client is
there to play with whichever gets it. For the clocks, the second and the third
round show what rounds do to the offsets of the ones before. Delays with an odd
sum exercise the truncation. In `FloodArrives` time goes on once, so that a
tank can have moved; with a window of 3 nothing comes too late, and
`DeathsReachAll` and `Converged` speak of executions in which nothing did.

For the statistics, two increments of one key are what it takes to lose one, a
third of another key is what it takes to cross the two locks with a stranger,
and a replication factor of 2 with three clients makes the choice of a replica
matter, as 3 would with four. For the peers, three players and a TTL of 1 let a
`FAILURE` come to a player that has already heard of it from another and be sent
on once more; a larger TTL makes more of the same. The hub as the one that fails
has been checked too, with `Mortal = {a}` and neither restarts nor losses (about
a million states). For channels the capacity does not matter: the proofs hold
for all, and with 2 instead of 1 the liveness properties were checked for one
peer and for one `Recover`. Four bullets are one to remove, one to skip, and two
more behind them; with 3 to fly and steps of 1, the last bullet can be moved
twice while it is inside.

Some of the properties hold under conditions that their definitions name.
`Converged` and `DeathsReachAll` are about an `Undisturbed` network: no packet
lost, no update too old, no clock set. `Converged` then still has to show that
the speed check, which refuses moves that arrive in the wrong order, never
refuses the last. What lost packets cannot do is `KeepsReplicas`, which has no
such condition; nothing sends a lost packet again, so that with losses no update
need arrive. `AverageIsBetween` is about rounds before the server's own clock is
set: after that, the total starts with its offset. `FaultsHaveCause` says what is left of the report's "The game
survived these disconnections" (line 132): a client can end the server only by
being killed, suspended or started again. `LockHeldOnce` and `SpreadIsMeasured`
hold until a rejected `Connect` steals the lock. `Counted` is about executions
without failures and players who count one thing at a time: it says that there
is no third way to lose a count. `CopiesDurable` is about the clients the last
`KVPut` has written, with failures and restarts, and about keys below 2^63.
`PutReplicates` is about the `KVPut`s that are answered: one that fails in the
middle ends the server, and what it has left behind is under "Other deviations".
`CallsEnd` excepts the two known ways in which a call is never answered, the end
of the server and the two locks taken crosswise.
`AllBackIn` is as much of the report's line 36 as the code keeps; the run
`PeersReturn` shows the rest.

### Fairness

`UpdateFlood!Fairness`: every worker is a goroutine in an endless loop, and with
unbounded channels none of its steps waits for anybody: weak fairness. Nothing
is assumed of players, of the server's `SetOffset`, of lost packets or of time.

`TankServer!Fairness`: the goroutines of the server that have the lock go on
(weak fairness), because each call to a client under it has a timeout
(`doApiCall`, `clientlib/clock.go` 83-91). `sync.Mutex` starves nobody, so that
whoever waits for the lock gets it although others take it in between (strong
fairness). `MonitorRecovers` is strongly fair because a client that answers does
so within the second that `Recover` has, in one of the monitor's rounds.
Nothing is assumed of clients.

`PeerNet!Fairness`: the heartbeat workers, `PeerWorker`, the listener and the
server's monitor are endless loops (weak fairness); a packet that is not lost
arrives. A suspended process need not come back, nobody need fail.

`StatsStore!Fairness`: the server's handlers go on, and so does the client's
goroutine once it has its answer (weak fairness is enough for the locks, since
each increment takes them once or twice). A deadline need not be reached, and no
client need come back.

`ClientChannels!Fairness`: goroutines run (weak fairness); a goroutine that
waits to send on a channel or for a mutex is served in turn, and is not passed
over for ever although the channel or the mutex is taken by others in between
(strong fairness of `MainSends`, `SendOutgoing`, the sends of `removePeer` and
the calls of the server). Nothing is assumed of players, packets, disconnections
or the server's `CallRecover`.

`Bullets!FairSpec`: the main loop draws frame after frame.

### The runs that find a violation

`PeersReturn` shows a statement of the repository that the code does not keep.
A recovered player is RECONNECTED until its own `GetNodes` makes it CONNECTED
(`server.go` 593), and `PeerWorker` calls that only while there are too few
peers (`peers.go` 51). If the leaves around a recovered hub register with it
before it asks, it has enough peers: it stays RECONNECTED, and the server
never gives its address to anybody again (586) nor gives those whose partner it
is another one (568), contrary to "the server can then resume
returning its address to other nodes" (`REPORT.md` 36).

`SyncRepeats` does the same for the clocks. A client's measured offset includes
the one it has from an earlier round, and `SetOffset` replaces that one
(`server.go` 343-355, `clocklib.go` 18): after its second round a client is off
from the server by minus the offset the first round gave it, and not "synchronised
with the rest of the network" (`REPORT.md` 95, and 38 for a whole round). That
this, to within half a round trip, is all that goes wrong in a round is the
part `RoundUndoesOffset` of the invariant in `ClockSyncProofs`.

### Other deviations

The models also have executions in which the code does the following; no run is
kept for them.

Game updates (`UpdateFlood`):

* A move that was under way when its player died is accepted after the death,
  which only deletes the record (`state.go` 89, 120), and brings the tank back,
  although an update is to be refused if "the player associated with the update
  is ... dead" (REPORT.md 67).
* Time passes between the age check of `RecordWorker` (`state.go` 67) and
  `pruneHistory` (43): the nonce of an update just young enough is pruned, and
  the update is passed on once more, although it was seen (76). After
  `SetOffset` has set a clock back, what was pruned is young again.
* A shot is compared with no earlier update of its player (90), so that an old
  one is accepted after newer moves (REPORT.md 65). Honest shots near the corner
  of the window are refused (104).

The server (`TankServer`, `ClockSync`):

* `Connect`'s `syncClocks` overtakes `awaitClientConnections`, for which the
  client does not wait, finds `rpcClient` nil and ends the server (`server.go`
  326).
* A client that is killed and started again before its failure is reported has
  its `Connect` rejected, and the second unlock of the rejection (450 and 459,
  435 and 444) ends the server or releases another goroutine's lock.
* A client that is killed or suspended while it is CONNECTED makes `TimeRequest`
  or `SetOffset` fail, and `syncClocks` ends the server (337, 361);
  one that is killed between dialling the second port and sending its ID, or
  before its ID file is filled, ends it in `awaitClientConnections` (657, 670).
  `fault` has a value for each.
* A client reported before its first round has no `connection.client`, which
  `monitorConnections` dereferences (631).
* `GetNodes` makes a client CONNECTED again that has left between its unlocked
  read and its second critical section (593).
* `GetNodes` finds a new partner only for a client whose partner is unknown or
  DISCONNECTED (568): one whose partner has left the game gets nobody, although
  it may request "more player addresses from the server as needed" (REPORT.md
  34). A partner is a copy of addresses, which stay when the partner comes back
  at others (588).
* From the second round of `syncClocks` on, the total starts with the server's own
  accumulated offset (315), although the clients' offsets are measured from the
  clock that has it: the average is no mean of offsets from the server's clock.

Peers (`PeerNet`):

* `Heartbeat` ignores those that are no peers (`clocks.go` 109), so that a player
  may have a peer that has forgotten it until `HeartbeatMonitorWorker` registers
  once more; where only a `HeartbeatWorker` watches, the link stays one-way.
* When a hub dies, the players around it ask only while they have fewer than
  `MinimumPeerConnections` peers (`peers.go` 51) and are given one partner each;
  they may come to form groups that never meet.

Statistics (`StatsStore`):

* Two goroutines of one player that count at the same time both read the same
  value, and one increment is lost (`client.go` 306-317, 351-362; REPORT.md 78).
* `KVGet` and `KVPut` take the two locks in opposite orders (`Crossed`;
  `server.go` 133 and 202), and then block each other and every other handler.
* `KVGet` asks the last CONNECTED client in the list (144-150), which may be one
  that was away when the others were written.
* An error of a replica's `KVClientGet` becomes the value zero
  (`clientlib/clock.go` 104), and the client ignores the error of `KVGet`
  (`client.go` 309): a count goes on from zero and is put back so.
* A replica that fails `KVClientPut` ends the server (`server.go` 272), with the
  other replicas left different, and a client killed in `WriteKVPair` leaves an
  empty file over which `KVStoreSetup` panics at every later start (`crdt.go`
  37): a killed player that the game does not survive (REPORT.md 132).
* `Atoi` fails on keys of 2^63 and more (`crdt.go` 38), half of all: they come
  back as one other key.

Channels and bullets (`ClientChannels`, `Bullets`):

* `MainCycle` and `LockCycle` are two ways in which a client with full channels
  stops for ever; it still answers `Ping`, so that its peers keep it.
* `doUpdateBullets` skips the bullet after a removed one, moves the last one more
  than once, and brings bullets outside the window back when `bullets[:i]` makes
  the slice longer (300). They go in a later frame.
* A bot's main thread takes in shots and never updates them (`client.go` 249):
  its list grows for ever.

## Proofs

TLAPS proves the following for every value of the constants that satisfies the
`ASSUME`s of the modules: any number of clients, any overlay, any clocks, any
bounds. Every invariant that a passing run checks is stated by a theorem.

* `UpdateFloodProofs!TypeCorrect`. `TypeOK` is inductive as it stands. Its parts
  `PlayTypeOK`, `QueueTypeOK`, `ReaderTypeOK` and `RecordTypeOK` are proved one
  by one; the lemma `IssuedGrows` carries the nonces in queues over a step that
  issues updates.
* `HistoryAgrees`: `TypeOK /\ HistoryExact` is inductive. That the slice holds
  no nonce twice (`IsInjective`) is needed: otherwise removing one entry would
  take a nonce out of the map that the slice still has.
* `FreshOnceOnly` (for `ForwardSpec`): the invariant is `FreshKept`, that
  whatever a node has passed on and is still inside its window is in
  `historyMap`. It is inductive because a clock that goes forward makes no
  update young again (`FreshBefore`) and `PrunesTo` removes only old ones.
* `RecordsGoForward`: a node's record of another player never goes back in time
  (`RecordNeverRegresses`), from `TypeOK` alone; a distance is not negative, so
  that the speed check cannot hold for a time difference that is
  (`NoNegativeTime`, which needs `Speed > 0`). No run lists it: it is what
  `GameReplicas!Moves` asks of times, so that `KeepsReplicas` checks it too.
* `FloodImplementsReplicas`: the refinement. The invariant
  `Provenance` says where what is on its way comes from: the sender of a packet
  has passed its update on itself, and an update in a queue was issued by the
  queue's player or passed on by somebody. Without it a client could be told of
  something nobody has said.
* `ScreenAgrees` and `ShotsNeedTanks`: the invariant `SameHistory` reads both the
  main thread's map and the records off the one sequence `shown[n]`: a player is
  on record iff some position of it in the sequence has no later death (`On`),
  and on the screen iff so up to `painted[n]`; and a shot in the sequence comes
  after a tank. The two maps agree because both are functions of one history.
* `UpdateFloodArrivals!DeathsArrive`: the invariant `Spreads` says of an update
  that nobody refuses and nothing disturbs (no loss, nothing too old, no clock
  set) how far its flood has come: its player has it, and of each node that has
  sent it on, every peer but that player has it, in its queue at least, or the
  packet is under way. When all is at rest, the nodes that have it are closed
  under `peers`, and `Reach` is the smallest such set: that is why no induction
  over paths is needed. A death by a shot is never refused, so that it spreads.
* `MovesArrive`: of the moves only the last one has to spread, and it does, since
  nobody who looks at it refuses it. `SpeedKept` gives the reason: a player has
  come no farther than its speed allows since each of its moves, hence the last
  one is plausible against any older one on record (`RecordsTold`: a record
  always is one of the player's moves). An older move that comes after it is not
  newer, and refused or equal (`LastOnRecord`). The player itself trusts its own
  moves without a check; there the order of the queue does it (`LastInLine`),
  and that `OutgoingWorker` never sends a player its own updates. The theorem
  has the hypothesis `~Teleport`: the Enter key moves a tank faster than the
  check allows, so that others refuse its last move, and the run that checks
  `Converged` leaves the key out too.
* `TankServerProofs!TypeCorrect`; `MutualExclusion` and `MeasuredBeforeSet`. The
  invariant `LockInv` adds `PassedAreMeasured` to the two properties: in the
  first loop, every connected client the loop has passed is measured and has
  its handle. Mutual exclusion is what keeps it: `Connect` and
  `GetNodesPromotes`, which make clients connected, need the lock.
* `DistinctNames` and `KnownIDs`: the invariant `MapInv` adds to `NamesDistinct`
  that a process past `Register` is in the map.
* `HandlesArrive`: the invariant `HandleInv` orders the handles. A client's entries
  in the queue of `awaitClientConnections` stand in the order of its starts,
  from the process whose handle the server has to the one that runs
  (`HandlesInOrder`), so that what is taken out of the queue never replaces a
  later handle by an earlier one; and who has dialled has its connection there
  (`DialledIsOpen`).
* `FaultsCaused`: the invariant `CauseInv`, together with the three above. A
  connection is closed before its ID is sent only by a kill (`Unkilled`); and as
  long as each client plays one game and none is killed or suspended
  (`Peaceful`) nobody's `Connect` is rejected, so that the lock stays with its
  holder, and whoever is CONNECTED plays and answers (`PlaysOnce`).
* `ClockSyncProofs!TypeCorrect` and `FirstRound`: the invariant `RoundInv` says of
  a round how far it has come: every client the first loop has visited has a
  measurement that is right to within half a round trip (`MeasureError`), every
  client the second has visited has the new offset. What a finished round has
  done to a clock follows (`RoundUndoesOffset`); a first round had nothing to
  undo. `AverageLiesBetween`: the invariant `AverageInv` bounds the total of the
  measurements by their number times the earliest and the latest clock visited,
  a quotient truncated towards zero stays between such bounds (`QuotBetween`).
* `PeerNetProofs!TypeCorrect`; `PeersAreWatched`: `EveryPeerWatched` is inductive
  with the types. `NoFalseAlarms`: the invariant `Trust` says that a player which
  never failed is up and CONNECTED, in nobody's broken connection, and that no
  FAILURE on its way is about it.
* `StatsStoreProofs!TypeCorrect` and `StoredStays`. The invariant `StoreInv` adds
  to `CopiesDurable` what the locks are for: one `KVPut` at a time is past them
  (`OneStores`), it does not write again whom it has written (`LoopInv`), and
  while it writes a client that client's file is empty (`WritingInv`).
* `PutsReplicate`: the invariant `ChosenInv` says that whom a `KVPut` in its loop
  has written and has still to write are CONNECTED, are all of the key's list that
  are, and are enough. `TargetsCount` and `TargetsOnce` give it for the choice
  (the clients of the list are taken in its order, as many as there are, so none
  is left out, and none is taken twice, so that the count is that of clients);
  both locks keep everybody from coming and going until the loop is done.
* `NothingLost`: the invariant `CountInv`. A `KVGet` past its lock finds no `KVPut`
  in its loop (`KeysOwned`); a player that counts one thing at a time has one
  goroutine under way (`OneAtATime`); and while nothing fails the clients of a
  key's list are connected and have its last value or are about to get it
  (`CalmCopies`), and what a goroutine is about to store contains what was stored
  and its own increment (`CalmValues`).
* `ClientChannelsProofs!ChannelsTyped` and `CyclesAreForever`, for any capacity.
  The invariant adds `HoldersHavePeers` to `TypeOK`: whoever holds `peerLock` to
  drop a peer has one, since `peers` changes under that lock only; and the main
  thread of a bot only accepts. Without the first, a holder with nothing to send
  could leave the cycle.
* `BulletsProofs!LoopTyped`, `InFlightKept` and `LastRunsAhead`, for any number of
  bullets. The invariant adds two facts to the properties: behind the slice the
  array holds only copies of its last bullet, which ends the slice too while the
  range is inside it (`TailIsLast`), and what the range has still to read it has
  not yet moved, but for that bullet and those outside (`UnreadUnmoved`).
  `TailIsLast` is why a longer slice (`bullets[:i]`) doubles no bullet that is
  inside the window.

Only model-checked: the liveness properties `FloodDiesOut`,
`RecoveredEventually`, `SyncsFinish`, `LockComesFree`, `KeepsRecording`,
`BulletsVanish`, `GoneForgotten`, `PicksHeal`, `AllBackIn` and `CallsEnd`. Liveness
under fairness is out of the prover's reach. No proof needs induction over data:
`Reach` is defined as a smallest closed set, not by paths.

## Not modelled

* Angles, pictures, drawing, the window, flags, logs (GoVector, Dinv) and the
  parser of logs in `dtrace_parsers`: no part in the properties.
* The encoding of messages: messages are values.
* Collisions of random IDs and nonces. Data races inside a client between the
  main thread and a bot's goroutine: a turn of a bot is one step.
* A failed `Read` of part of an ID, and calls that reach the server after
  their client has ended.
* Errors of the file system.
* The client's Dial to the server and to its own address, and what happens after
  the server has ended: every client ends with it at its next call.

## Plan

1. `KeepsRecording` against `UpdateFlood`: bounded channels as a refinement of
   the unbounded ones.
2. `PeerNet` and `UpdateFlood` composed: the flood on an overlay that loses and
   regains links.
