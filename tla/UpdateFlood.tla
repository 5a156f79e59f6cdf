---------------------------- MODULE UpdateFlood ----------------------------
(* How a move, a shot or a death travels from one player to all the others.   *)
(*                                                                            *)
(* Every client stamps its updates with its own offset clock and a random     *)
(* nonce and puts them on the channel RecordUpdates (client.go, bot.go).      *)
(* RecordWorker (state.go) discards what is too old, what it has seen and     *)
(* what it does not believe, and puts the rest on two channels: UpdateChannel,*)
(* which the main thread paints, and OutgoingUpdates, which OutgoingWorker    *)
(* (peers.go) sends over UDP to every peer but the one the update is about.   *)
(* ListenerWorker puts what arrives on RecordUpdates again, so that an update *)
(* floods the overlay, and only the history of nonces makes the flood end.    *)
(*                                                                            *)
(* A nonce is the index of its update in `issued`, and messages and queues    *)
(* carry nonces. Both channels RecordWorker writes receive the same updates   *)
(* in the same order: `shown` is that order and `painted` and `sent` say how  *)
(* far each reader has come. The screen is a line of integers; angles are     *)
(* left out.                                                                  *)
EXTENDS Integers, SequencesExt

CONSTANTS
    Node,         \* the players; a player and its process are the same node
    Bots,         \* the nodes started with -bot
    InitPeers,    \* InitPeers[n]: the peers n sends to at the start
    NoNode,       \* the OtherPlayer 0 of a death nobody caused
    Skew,         \* Skew[n]: how far n's raw clock is ahead of true time
    Window,       \* -TimeDelta: the age beyond which an update is ignored
    Place,        \* the positions inside the window
    Centre,       \* where every player starts
    Speed,        \* PlayerSpeed: what a player covers in a tick (a bot, less)
    Muzzle,       \* how far from its tank a shot appears
    Offsets,      \* the clock offsets the server may set
    Kinds,        \* the kinds of update this instance issues
    Active,       \* the nodes that issue them
    Teleport,     \* whether the Enter key is used (it moves a tank at will)
    MaxNow,       \* bound on true time
    MaxUpdates,   \* bound on the number of updates
    MaxRemovals,  \* bound on the deaths reported by removePeer
    MaxSyncs,     \* bound on the calls of SetOffset
    MaxLost       \* bound on the packets UDP loses

Abs(i) == IF i < 0 THEN -i ELSE i

ASSUME NodeAssumption ==
    /\ Bots \subseteq Node
    /\ NoNode \notin Node
    /\ InitPeers \in [Node -> SUBSET Node]
ASSUME ClockAssumption ==
    /\ Skew \in [Node -> Int]
    /\ Offsets \subseteq Int
    /\ Window \in Nat
ASSUME PlaceAssumption ==
    /\ Place \subseteq Int
    /\ Centre \in Place
    /\ Speed \in Nat \ {0}
    /\ Muzzle \in Nat
ASSUME BoundAssumption ==
    /\ Active \subseteq Node
    /\ Kinds \subseteq {"POSITION", "FIRE", "DEAD"}
    /\ Teleport \in BOOLEAN
    /\ {MaxNow, MaxUpdates, MaxRemovals, MaxSyncs, MaxLost} \subseteq Nat

VARIABLES
    now,            \* true time
    offset,         \* offset[n]: the ClockManager's offset
    syncs,          \* how often an offset was set
    issued,         \* every update so far, by nonce
    pos,            \* pos[n]: localPlayer.Pos
    lastFrame,      \* lastFrame[n]: when n last moved its tank, as n has it
    alive,          \* alive[n]: n has not been hit
    peers,          \* peers[n]: n's peer map
    net,            \* packets in flight
    lost,           \* packets lost so far
    recordUpdates,  \* recordUpdates[n]: the channel RecordUpdates
    taking,         \* taking[n]: nonce past RecordWorker's age check, or 0
    history,        \* history[n]: nonces seen, oldest arrival first
    historyMap,     \* historyMap[n]: the same nonces as a set
    records,        \* records[n]: player -> its PlayerRecord
    shown,          \* shown[n]: the nonces put on both outgoing channels
    painted,        \* painted[n]: how many of them doAcceptUpdates took
    sent,           \* sent[n]: how many of them OutgoingWorker took
    players,        \* players[n]: the tanks n draws beside its own
    expired         \* an update was ignored for its age (history variable)

clockVars  == <<now, offset, syncs>>
playerVars == <<pos, lastFrame, alive>>
recordVars == <<history, historyMap, records, shown>>
paintVars  == <<painted, players>>
vars == <<clockVars, issued, playerVars, peers, net, lost, recordUpdates,
          taking, recordVars, paintVars, sent, expired>>

Nonce    == DOMAIN issued
Update   == [kind : {"POSITION", "FIRE", "DEAD"}, player : Node,
             other : Node \cup {NoNode}, pos : Int, time : Int]
Record   == [time : Int, pos : Int]

Clock(n) == now + Skew[n] + offset[n]
Fence(n) == Clock(n) - Window

(* update.Time is not before the fence of n's clock *)
Fresh(n, k) == issued[k].time >= Fence(n)

Dist(p, q) == Abs(p - q)

-----------------------------------------------------------------------------
Init ==
    /\ now = 0
    /\ offset = [n \in Node |-> 0]
    /\ syncs = 0
    /\ issued = <<>>
    /\ pos = [n \in Node |-> Centre]
    /\ lastFrame = [n \in Node |-> 0]
    /\ alive = [n \in Node |-> TRUE]
    /\ peers = InitPeers
    /\ net = {}
    /\ lost = 0
    /\ recordUpdates = [n \in Node |-> <<>>]
    /\ taking = [n \in Node |-> 0]
    /\ history = [n \in Node |-> <<>>]
    /\ historyMap = [n \in Node |-> {}]
    /\ records = [n \in Node |-> [p \in {} |-> [time |-> 0, pos |-> 0]]]
    /\ shown = [n \in Node |-> <<>>]
    /\ painted = [n \in Node |-> 0]
    /\ sent = [n \in Node |-> 0]
    /\ players = [n \in Node |-> {}]
    /\ expired = FALSE

-----------------------------------------------------------------------------
(* The sources of updates                                                     *)

Position(n, p) == [kind |-> "POSITION", player |-> n, other |-> NoNode,
                   pos |-> p, time |-> Clock(n)]
Shot(n, p)     == [kind |-> "FIRE", player |-> n, other |-> NoNode,
                   pos |-> p, time |-> Clock(n)]
(* Variant for the mutants: DeadPlayer with its arguments the other way round *)
DeathSwapped(n, p, q) == [kind |-> "DEAD", player |-> q, other |-> p,
                          pos |-> 0, time |-> Clock(n)]

Death(n, p, q) == [kind |-> "DEAD", player |-> p, other |-> q,
                   pos |-> 0, time |-> Clock(n)]

(* Give the updates of `new` their nonces and put them on RecordUpdates *)
Issue(n, new) ==
    /\ Len(issued) + Len(new) <= MaxUpdates
    /\ issued' = issued \o new
    /\ recordUpdates' = [recordUpdates EXCEPT
         ![n] = @ \o [i \in 1..Len(new) |-> Len(issued) + i]]
    /\ UNCHANGED <<clockVars, peers, net, lost, taking, recordVars, paintVars,
                   sent, expired>>

(* The tank is at p, and the next move counts from t *)
MovesTo(n, p, t) ==
    /\ pos' = [pos EXCEPT ![n] = p]
    /\ lastFrame' = [lastFrame EXCEPT ![n] = t]
    /\ UNCHANGED alive

(* doLocalInput: a frame of a person's client. A key moves the tank by Speed  *)
(* for each tick since the last frame; with Enter it jumps to the mouse. A    *)
(* shot leaves from the new position but is queued before the update that     *)
(* tells of it.                                                               *)
Frame(n, p) ==
    /\ n \notin Bots
    /\ alive[n]
    /\ "POSITION" \in Kinds
    /\ Teleport \/ Dist(p, pos[n]) <= Speed * (now - lastFrame[n])
    /\ MovesTo(n, p, now)
    /\ \/ Issue(n, <<Position(n, p)>>)
       \/ /\ "FIRE" \in Kinds
          /\ \E q \in {p - Muzzle, p + Muzzle} :
               Issue(n, <<Shot(n, q), Position(n, p)>>)

(* GenerateMoves: a turn of a bot, which takes the time since its last one by *)
(* the raw clock but notes the time of this one by the offset clock, so that  *)
(* the difference may be too long or negative. It fires only if it sees       *)
(* somebody, and after its position is queued.                                *)
BotFrame(n, p) ==
    /\ n \in Bots
    /\ "POSITION" \in Kinds
    /\ Dist(p, pos[n]) <= Speed * Abs(now - lastFrame[n])
    /\ MovesTo(n, p, now + offset[n])
    /\ \/ Issue(n, <<Position(n, p)>>)
       \/ /\ "FIRE" \in Kinds
          /\ players[n] # {}
          /\ \E q \in {p - Muzzle, p + Muzzle} :
               Issue(n, <<Position(n, p), Shot(n, q)>>)

(* The shots n has put on its screen: its own, and those it was told of *)
BulletsOf(n) ==
    {k \in Nonce : /\ issued[k].kind = "FIRE"
                   /\ \/ issued[k].player = n
                      \/ \E i \in 1..painted[n] : shown[n][i] = k}

(* doUpdateBullets finds that a bullet hit the local player. A bot never runs *)
(* it, and alive is never set again.                                          *)
Hit(n) ==
    /\ n \notin Bots
    /\ alive[n]
    /\ "DEAD" \in Kinds
    /\ alive' = [alive EXCEPT ![n] = FALSE]
    /\ \E k \in BulletsOf(n) : Issue(n, <<Death(n, n, issued[k].player)>>)
    /\ UNCHANGED <<pos, lastFrame>>

(* removePeer, reached from a missed heartbeat, a NotifyFailure or a Recover: *)
(* n declares the peer p dead and stops sending to it                         *)
RemovePeer(n, p) ==
    /\ p \in peers[n]
    /\ "DEAD" \in Kinds
    /\ Cardinality({k \in Nonce : issued[k].kind = "DEAD"
                                  /\ issued[k].other = NoNode}) < MaxRemovals
    /\ Len(issued) < MaxUpdates
    /\ issued' = Append(issued, Death(n, p, NoNode))
    /\ recordUpdates' = [recordUpdates EXCEPT ![n] = Append(@, Len(issued) + 1)]
    /\ peers' = [peers EXCEPT ![n] = @ \ {p}]
    /\ UNCHANGED <<clockVars, playerVars, net, lost, taking, recordVars,
                   paintVars, sent, expired>>

-----------------------------------------------------------------------------
(* RecordWorker                                                               *)

(* Take an update off the channel and compare its age with the clock *)
TakeUpdate(n) ==
    /\ taking[n] = 0
    /\ recordUpdates[n] # <<>>
    /\ LET k == Head(recordUpdates[n])
       IN  /\ taking' = [taking EXCEPT ![n] = IF Fresh(n, k) THEN k ELSE 0]
           /\ expired' = (expired \/ ~Fresh(n, k))
    /\ recordUpdates' = [recordUpdates EXCEPT ![n] = Tail(@)]
    /\ UNCHANGED <<clockVars, issued, playerVars, peers, net, lost, recordVars,
                   paintVars, sent>>

(* Variant: the fence itself is pruned *)
PrunesFence(n, cut) ==
    /\ \A i \in 1..cut : issued[history[n][i]].time <= Fence(n)
    /\ cut < Len(history[n]) => issued[history[n][cut + 1]].time > Fence(n)

(* pruneHistory reads the clock once more and removes the first `cut` entries:*)
(* it stops at the first that is not before the fence                         *)
PrunesTo(n, cut) ==
    /\ \A i \in 1..cut : ~Fresh(n, history[n][i])
    /\ cut < Len(history[n]) => Fresh(n, history[n][cut + 1])

Kept(n, cut)    == SubSeq(history[n], cut + 1, Len(history[n]))

(* Variant: the slice is pruned, the map is not *)
KeptMapAll(n, cut) == historyMap[n]

KeptMap(n, cut) == historyMap[n] \ {history[n][i] : i \in 1..cut}

(* Variants: the speed check forgets which of the two positions is the later; *)
(* shots are believed of anybody; a death only of a known player              *)
PlausibleEitherWay(n, u) ==
    LET r == records[n][u.player]
    IN  CASE u.kind = "DEAD" -> TRUE
          [] u.kind = "FIRE" -> u.player \in DOMAIN records[n] \cup {n}
          [] u.kind = "POSITION" ->
               u.player \in DOMAIN records[n] \ {n} =>
                 Dist(u.pos, r.pos) <= 10 * Speed * Abs(u.time - r.time)
PlausibleAnyShot(n, u) ==
    LET r == records[n][u.player]
    IN  u.kind = "POSITION" /\ u.player \in DOMAIN records[n] \ {n} =>
          Dist(u.pos, r.pos) <= 10 * Speed * (u.time - r.time)
PlausibleKnown(n, u) ==
    u.kind \in {"DEAD", "FIRE"} /\ u.player # n => u.player \in DOMAIN records[n]

(* Whether RecordWorker believes update u. Nothing but a position has to be   *)
(* inside the window; a node's own moves and shots are trusted.               *)
Plausible(n, u) ==
    LET r == records[n][u.player]
    IN  CASE u.kind = "DEAD" -> TRUE
          [] u.kind = "FIRE" ->
               u.player # n =>
                 /\ u.player \in DOMAIN records[n]
                 /\ 2 * Dist(r.pos, u.pos) <= Abs(r.pos)
          [] u.kind = "POSITION" ->
               /\ u.pos \in Place
               /\ u.player \in DOMAIN records[n] \ {n} =>
                    Dist(u.pos, r.pos) <= 10 * Speed * (u.time - r.time)

(* Variant: a death leaves the record *)
RecordedDead(n, u) ==
    IF u.kind # "POSITION" THEN records[n]
    ELSE [p \in DOMAIN records[n] \cup {u.player} |->
            IF p = u.player THEN [time |-> u.time, pos |-> u.pos]
                            ELSE records[n][p]]

(* The records after a plausible update *)
Recorded(n, u) ==
    CASE u.kind = "DEAD" ->
           [p \in DOMAIN records[n] \ {u.player} |-> records[n][p]]
      [] u.kind = "FIRE" -> records[n]
      [] u.kind = "POSITION" ->
           [p \in DOMAIN records[n] \cup {u.player} |->
              IF p = u.player THEN [time |-> u.time, pos |-> u.pos]
                              ELSE records[n][p]]

(* RecordWorker may also doubt the angle of another's shot, which is left out *)
MayRefuse(n, u) == Plausible(n, u) => u.kind = "FIRE" /\ u.player # n

(* Prune the history; ignore a nonce it still holds; otherwise write it down  *)
(* and, if the update is believed, record it and pass it on.                  *)
RecordUpdate(n) ==
    /\ taking[n] # 0
    /\ taking' = [taking EXCEPT ![n] = 0]
    /\ \E cut \in 0..Len(history[n]) :
         LET k == taking[n]
             u == issued[k]
         IN  /\ PrunesTo(n, cut)
             /\ \/ /\ k \in KeptMap(n, cut)
                   /\ history' = [history EXCEPT ![n] = Kept(n, cut)]
                   /\ historyMap' = [historyMap EXCEPT ![n] = KeptMap(n, cut)]
                   /\ UNCHANGED <<records, shown>>
                \/ /\ k \notin KeptMap(n, cut)
                   /\ history' = [history EXCEPT ![n] = Append(Kept(n, cut), k)]
                   /\ historyMap' =
                        [historyMap EXCEPT ![n] = KeptMap(n, cut) \cup {k}]
                   /\ \/ /\ Plausible(n, u)
                         /\ records' = [records EXCEPT ![n] = Recorded(n, u)]
                         /\ shown' = [shown EXCEPT ![n] = Append(@, k)]
                      \/ /\ MayRefuse(n, u)
                         /\ UNCHANGED <<records, shown>>
    /\ UNCHANGED <<clockVars, issued, playerVars, peers, net, lost,
                   recordUpdates, paintVars, sent, expired>>

-----------------------------------------------------------------------------
(* The readers of what RecordWorker passes on                                 *)

(* doAcceptUpdates takes one update from UpdateChannel: whatever its kind, a  *)
(* player not on the screen is put there first; its own updates are skipped   *)
AcceptUpdate(n) ==
    /\ painted[n] < Len(shown[n])
    /\ painted' = [painted EXCEPT ![n] = @ + 1]
    /\ LET u == issued[shown[n][painted[n] + 1]]
       IN  players' = [players EXCEPT
             ![n] = IF u.player = n THEN @
                    ELSE IF u.kind = "DEAD" THEN @ \ {u.player}
                    ELSE @ \cup {u.player}]
    /\ UNCHANGED <<clockVars, issued, playerVars, peers, net, lost,
                   recordUpdates, taking, recordVars, sent, expired>>

(* Variants: only a node's own updates are sent; an update stays on the channel*)
SendOwnUpdate(n) ==
    /\ sent[n] < Len(shown[n])
    /\ sent' = [sent EXCEPT ![n] = @ + 1]
    /\ LET k == shown[n][sent[n] + 1]
       IN  net' = net \cup [from : {n}, nonce : {k},
                            to : {p \in peers[n] : issued[k].player = n}]
    /\ UNCHANGED <<clockVars, issued, playerVars, peers, lost, recordUpdates,
                   taking, recordVars, paintVars, expired>>
SendAgain(n) ==
    /\ sent[n] < Len(shown[n])
    /\ LET k == shown[n][sent[n] + 1]
       IN  net' = net \cup [from : {n}, nonce : {k},
                            to : peers[n] \ {issued[k].player}]
    /\ UNCHANGED <<clockVars, issued, playerVars, peers, lost, recordUpdates,
                   taking, recordVars, paintVars, sent, expired>>

(* OutgoingWorker sends one update to every peer but the player it is about *)
SendUpdate(n) ==
    /\ sent[n] < Len(shown[n])
    /\ sent' = [sent EXCEPT ![n] = @ + 1]
    /\ LET k == shown[n][sent[n] + 1]
       IN  net' = net \cup [from : {n}, nonce : {k},
                            to : peers[n] \ {issued[k].player}]
    /\ UNCHANGED <<clockVars, issued, playerVars, peers, lost, recordUpdates,
                   taking, recordVars, paintVars, expired>>

(* ListenerWorker: a packet arrives, in any order *)
Listen(n) ==
    /\ \E m \in net :
         /\ m.to = n
         /\ net' = net \ {m}
         /\ recordUpdates' = [recordUpdates EXCEPT ![n] = Append(@, m.nonce)]
    /\ UNCHANGED <<clockVars, issued, playerVars, peers, lost, taking,
                   recordVars, paintVars, sent, expired>>

(* UDP loses a packet *)
Lose ==
    /\ lost < MaxLost
    /\ lost' = lost + 1
    /\ \E m \in net : net' = net \ {m}
    /\ UNCHANGED <<clockVars, issued, playerVars, peers, recordUpdates, taking,
                   recordVars, paintVars, sent, expired>>

-----------------------------------------------------------------------------
(* Clocks                                                                     *)

Tick ==
    /\ now < MaxNow
    /\ now' = now + 1
    /\ UNCHANGED <<offset, syncs, issued, playerVars, peers, net, lost,
                   recordUpdates, taking, recordVars, paintVars, sent, expired>>

(* The server's SetOffset call overwrites the offset while the workers run *)
SetOffset(n, o) ==
    /\ syncs < MaxSyncs
    /\ syncs' = syncs + 1
    /\ offset' = [offset EXCEPT ![n] = o]
    /\ UNCHANGED <<now, issued, playerVars, peers, net, lost, recordUpdates,
                   taking, recordVars, paintVars, sent, expired>>

-----------------------------------------------------------------------------
Worker(n) ==
    \/ TakeUpdate(n)
    \/ RecordUpdate(n)
    \/ AcceptUpdate(n)
    \/ SendUpdate(n)
    \/ Listen(n)

Player(n) ==
    \/ \E p \in Place : Frame(n, p) \/ BotFrame(n, p)
    \/ Hit(n)
    \/ \E p \in Node : RemovePeer(n, p)

Next ==
    \/ \E n \in Node : Worker(n)
    \/ \E n \in Active : Player(n)
    \/ \E n \in Node, o \in Offsets : SetOffset(n, o)
    \/ Lose
    \/ Tick

Spec == Init /\ [][Next]_vars

(* Every worker is a goroutine in an endless loop, and a packet that UDP does *)
(* not lose arrives. Players, the server and time itself owe nothing.         *)
Fairness ==
    \A n \in Node : /\ WF_vars(TakeUpdate(n))
                    /\ WF_vars(RecordUpdate(n))
                    /\ WF_vars(AcceptUpdate(n))
                    /\ WF_vars(SendUpdate(n))
                    /\ WF_vars(Listen(n))

FairSpec == Spec /\ Fairness

(* The executions in which no clock is set back *)
ForwardNext == Next /\ \A n \in Node : Clock(n)' >= Clock(n)
ForwardSpec == Init /\ [][ForwardNext]_vars

(* Properties                                                                 *)

PlayTypeOK ==
    /\ now \in Nat /\ syncs \in Nat /\ lost \in Nat
    /\ offset \in [Node -> Int]
    /\ issued \in Seq(Update)
    /\ pos \in [Node -> Int] /\ lastFrame \in [Node -> Int]
    /\ alive \in [Node -> BOOLEAN]
    /\ peers \in [Node -> SUBSET Node] /\ players \in [Node -> SUBSET Node]
    /\ expired \in BOOLEAN

QueueTypeOK ==
    /\ net \in SUBSET [from : Node, to : Node, nonce : Nonce]
    /\ recordUpdates \in [Node -> Seq(Nonce)]
    /\ taking \in [Node -> Nonce \cup {0}]
    /\ history \in [Node -> Seq(Nonce)]
    /\ historyMap \in [Node -> SUBSET Nonce]
    /\ shown \in [Node -> Seq(Nonce)]

ReaderTypeOK ==
    /\ painted \in [Node -> Nat] /\ sent \in [Node -> Nat]
    /\ \A n \in Node : painted[n] <= Len(shown[n]) /\ sent[n] <= Len(shown[n])

RecordTypeOK ==
    /\ records = [n \in Node |-> records[n]]
    /\ \A n \in Node : /\ DOMAIN records[n] \subseteq Node
                       /\ records[n] \in [DOMAIN records[n] -> Record]

(* Every variable keeps its type; nonces in queues, histories and packets are *)
(* those of updates that were issued, and no reader passes the writer.        *)
TypeOK == PlayTypeOK /\ QueueTypeOK /\ ReaderTypeOK /\ RecordTypeOK

(* pruneHistory takes an entry off the slice and out of the map together, and *)
(* RecordWorker adds to both: the map holds the nonces of the slice, and the  *)
(* slice holds none twice (else a prune would forget a nonce it still holds). *)
HistoryExact ==
    \A n \in Node : /\ historyMap[n] = Range(history[n])
                    /\ IsInjective(history[n])

FreshOnce(n) ==
    shown'[n] # shown[n] =>
      LET k == shown'[n][Len(shown'[n])]
      IN  Fresh(n, k) => k \notin Range(shown[n])

(* While the clocks only go forward, RecordWorker never passes an update on a *)
(* second time that is still young enough when the history is pruned: what    *)
(* the fence has not reached is still in the history.                         *)
FreshAtMostOnce == [][\A n \in Node : FreshOnce(n)]_vars

RecordsAdvance(n) ==
    \A p \in (DOMAIN records[n] \cap DOMAIN records'[n]) \ {n} :
      records'[n][p].time >= records[n][p].time

(* While n keeps a record of another player, the record's time does not go    *)
(* back: the speed check refuses a position older than the last one.          *)
RecordNeverRegresses == [][\A n \in Node : RecordsAdvance(n)]_vars

(* Once the main thread has taken all RecordWorker gave it, the tanks it draws*)
(* are those of the other players RecordWorker has a record of: the two       *)
(* threads keep separate maps and agree only through the channel.             *)
ScreenMatchesRecords ==
    \A n \in Node :
      painted[n] = Len(shown[n]) => players[n] = DOMAIN records[n] \ {n}

(* A shot is painted only beside a tank: doAcceptUpdates would create the tank*)
(* of an unknown player for any update, but RecordWorker passes a shot on     *)
(* only after a position of the same player, and the channel keeps the order. *)
ShotsComeFromTanks ==
    [][\A n \in Node :
         players'[n] \ players[n] # {} =>
           issued[shown[n][painted'[n]]].kind = "POSITION"]_vars

(* No update is on its way anywhere *)
Idle ==
    /\ net = {}
    /\ \A n \in Node : /\ recordUpdates[n] = <<>>
                       /\ taking[n] = 0
                       /\ painted[n] = Len(shown[n])
                       /\ sent[n] = Len(shown[n])

(* The nodes an update can reach from n over the peers in use: those in every *)
(* set that holds n and the peers of its members                              *)
Reach(n) ==
    {m \in Node : \A S \in SUBSET Node :
                    n \in S /\ (\A q \in S : peers[q] \subseteq S) => m \in S}

(* No packet was lost, no update came too late and no clock was set *)
Undisturbed == lost = 0 /\ ~expired /\ syncs = 0

Died(p) == \E k \in Nonce : issued[k].kind = "DEAD" /\ issued[k].player = p

(* Flooded positions converge: when an undisturbed network has come to rest,  *)
(* every node a living player reaches has that player's last position, in     *)
(* whatever order its moves arrived and although the speed check of           *)
(* RecordWorker refused some of them.                                         *)
Converged ==
    Idle /\ Undisturbed =>
      \A p \in Node : ~Died(p) =>
        \A n \in Reach(p) :
          (\E k \in Nonce : issued[k].kind = "POSITION" /\ issued[k].player = p)
            => p \in DOMAIN records[n] /\ records[n][p].pos = pos[p]

(* A flood ends: once the players issue no more updates, the workers come to  *)
(* rest, although every node sends on what it receives (OutgoingWorker) to    *)
(* peers that send it back.                                                   *)
FloodDiesOut == <>[]Idle

(* A death by a shot has come to every node its victim reaches when an        *)
(* undisturbed network has come to rest: OutgoingWorker leaves out only the   *)
(* player the update is about, and RecordWorker never doubts a death.         *)
DeathsReachAll ==
    Idle /\ Undisturbed =>
      \A k \in Nonce : issued[k].kind = "DEAD" /\ issued[k].other # NoNode =>
        \A n \in Reach(issued[k].player) : k \in Range(shown[n])

(* What the players are promised (GameReplicas), read off the state of the    *)
(* clients: a player has been told what RecordWorker passed on, and its board *)
(* is RecordWorker's map of records.                                          *)
Replicas == INSTANCE GameReplicas WITH
    told  <- [n \in Node |-> Range(shown[n])],
    board <- records

(* The clients keep that promise: no packet, duplicate, prune or clock makes  *)
(* RecordWorker change a record but by an update its player issued or another *)
(* client believed before, and no shot or stale move gets past it.            *)
KeepsReplicas == Replicas!Spec

=============================================================================
