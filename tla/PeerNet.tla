------------------------------ MODULE PeerNet ------------------------------
(* Who sends to whom: the peer maps of the players (peers.go), the heartbeats *)
(* that watch over them, and the server's part in finding and losing peers.   *)
(*                                                                            *)
(* PeerWorker asks the server for a partner while a player has too few peers, *)
(* dials it and sends it a REGISTER over UDP; the partner dials back and      *)
(* enters the player as well. The one who picked runs HeartbeatMonitorWorker, *)
(* which waits for heartbeats; the one who was registered with runs           *)
(* HeartbeatWorker, which sends them. Either declares a peer that does not    *)
(* answer a Ping disconnected: it tells the server, drops the peer and floods *)
(* FAILURE messages for a few hops. The server recovers a disconnected player *)
(* that answers again by a Recover, which empties its peer map.               *)
(*                                                                            *)
(* All players have joined; what peerLock protects is one step, and so is a   *)
(* call made under it. Whether a last heartbeat is too old depends on clocks  *)
(* whose offset may be set (LastHeartbeat is taken from the offset clock and  *)
(* compared with the raw one), so it may be found old at any time.            *)
EXTENDS Integers, FiniteSetsExt

CONSTANTS
    Node,          \* the players
    NoNode,        \* nobody
    InitPicks,     \* InitPicks[n]: the partner n picked when it joined
    MinPeers,      \* MinimumPeerConnections
    TTL,           \* FAILURE_NOTIFICATION_TTL, 3 in the code
    Mortal,        \* the players that may be killed or suspended
    MaxFailures,   \* bound on killed and suspended processes
    MaxRestarts,   \* bound on restarted ones
    MaxLost        \* bound on lost packets

ASSUME PeerAssumption ==
    /\ NoNode \notin Node
    /\ InitPicks \in [Node -> Node \cup {NoNode}] /\ Mortal \subseteq Node
    /\ \A n \in Node : InitPicks[n] # n
    /\ {MinPeers, TTL, MaxFailures, MaxRestarts, MaxLost} \subseteq Nat

VARIABLES
    proc,         \* proc[n]: the process of n runs, is suspended or is gone
    peers,        \* peers[n]: the peer map of n
    broken,       \* broken[n]: those n last dialled in a process now gone
    beating,      \* beating[n]: n has a HeartbeatWorker for these
    watching,     \* watching[n]: n has a HeartbeatMonitorWorker for these
    heard,        \* heard[n]: watched peers whose LastHeartbeat is young
    registering,  \* registering[n]: whom n's listener has dialled in Register
    net,          \* UDP packets in flight
    status,       \* status[n]: the server's Connection.status
    partner,      \* partner[n]: the server's Connection.partner
    failures, restarts, lost,
    failed        \* the players that were ever killed or suspended (history)

workerVars == <<beating, watching, heard>>
serverVars == <<status, partner>>
faultVars  == <<failures, restarts, lost, failed>>
vars == <<proc, peers, broken, workerVars, registering, net, serverVars,
          faultVars>>

Message == [kind : {"REGISTER"}, to : Node, about : Node, ttl : {0}] \cup
           [kind : {"FAILURE"}, to : Node, about : Node, ttl : 0..TTL]

Up(n) == proc[n] = "up"

(* Variant: the error of a Ping is dropped *)
AnswersAlways(n, m) == Up(n)

(* A call of n on its connection to m is answered *)
Answers(n, m) == Up(m) /\ m \notin broken[n]

(* What arrives of the packets ms: a port nobody listens on takes none *)
Delivered(ms) == {x \in ms : proc[x.to] # "gone"}

(* Everybody has joined, and every pick was registered with *)
Init ==
    /\ proc = [n \in Node |-> "up"]
    /\ watching = [n \in Node |-> {InitPicks[n]} \ {NoNode}]
    /\ beating = [n \in Node |-> {m \in Node : InitPicks[m] = n}]
    /\ peers = [n \in Node |-> watching[n] \cup beating[n]]
    /\ heard = watching
    /\ broken = [n \in Node |-> {}]
    /\ registering = [n \in Node |-> NoNode]
    /\ net = {}
    /\ status = [n \in Node |-> "CONNECTED"]
    /\ partner = InitPicks
    /\ failures = 0 /\ restarts = 0 /\ lost = 0
    /\ failed = {}

-----------------------------------------------------------------------------
(* Dropping a peer                                                            *)

(* NotifyFailure of the server, called by handleDisconnection *)
Reported(m) == [status EXCEPT ![m] = IF @ = "CONNECTED" THEN "DISCONNECTED" ELSE @]

(* Variants: a FAILURE names its sender; a hop adds to the TTL *)
FailuresOfSender(n, m, ttl) ==
    [kind : {"FAILURE"}, to : peers[n] \ {m}, about : {n}, ttl : {ttl}]
FailuresGrow(n, m, ttl) ==
    [kind : {"FAILURE"}, to : peers[n] \ {m}, about : {m}, ttl : {ttl + 1}]

(* FAILURE messages from n to the peers it has left *)
Failures(n, m, ttl) ==
    [kind : {"FAILURE"}, to : peers[n] \ {m}, about : {m}, ttl : {ttl}]

(* handleDisconnection, for a peer that does not answer a Ping: the caller's  *)
(* worker ends (the other, if there is one, ends at its next turn)            *)
HandleDisconnection(n, m) ==
    /\ status' = Reported(m)
    /\ peers' = [peers EXCEPT ![n] = @ \ {m}]
    /\ heard' = [heard EXCEPT ![n] = @ \ {m}]
    /\ net' = net \cup Delivered(Failures(n, m, TTL))

(* Variant: only a new partner is sent a REGISTER *)
RegistersOnce(n, m) ==
    [kind : {"REGISTER"}, to : {m} \ watching[n], about : {n}, ttl : {0}]

(* The REGISTER of n at m *)
Registers(n, m) ==
    [kind : {"REGISTER"}, to : {m}, about : {n}, ttl : {0}]

-----------------------------------------------------------------------------
(* The heartbeat workers                                                      *)

(* Heartbeat of n at m, which notes it if n is its peer *)
Noted(n, m) == [heard EXCEPT ![m] = @ \cup ({n} \cap peers[m] \cap watching[m])]

(* HeartbeatWorker: it ends when m is no peer any more. Its heartbeat is noted*)
(* by m if n is a peer of m; if it fails and a Ping fails too, m is dropped.  *)
Beat(n, m) ==
    /\ Up(n) /\ m \in beating[n]
    /\ \/ /\ m \notin peers[n]
          /\ beating' = [beating EXCEPT ![n] = @ \ {m}]
          /\ UNCHANGED <<peers, heard, net, status>>
       \/ /\ m \in peers[n] /\ Answers(n, m)
          /\ heard' = Noted(n, m)
          /\ UNCHANGED <<peers, beating, net, status>>
       \/ /\ m \in peers[n] /\ ~Answers(n, m)
          /\ beating' = [beating EXCEPT ![n] = @ \ {m}]
          /\ HandleDisconnection(n, m)
    /\ UNCHANGED <<proc, broken, watching, registering, partner, faultVars>>

(* HeartbeatMonitorWorker: a young heartbeat grows old. When it is too old, m *)
(* is pinged, and dropped, or sent another REGISTER.                          *)
Monitor(n, m) ==
    /\ Up(n) /\ m \in watching[n]
    /\ \/ /\ m \notin peers[n]
          /\ watching' = [watching EXCEPT ![n] = @ \ {m}]
          /\ UNCHANGED <<peers, heard, net, status>>
       \/ /\ m \in peers[n] /\ m \in heard[n]
          /\ heard' = [heard EXCEPT ![n] = @ \ {m}]
          /\ UNCHANGED <<peers, watching, net, status>>
       \/ /\ m \in peers[n] /\ Answers(n, m)
          /\ heard' = [heard EXCEPT ![n] = @ \cup {m}]
          /\ net' = net \cup Registers(n, m)
          /\ UNCHANGED <<peers, watching, status>>
       \/ /\ m \in peers[n] /\ ~Answers(n, m)
          /\ watching' = [watching EXCEPT ![n] = @ \ {m}]
          /\ HandleDisconnection(n, m)
    /\ UNCHANGED <<proc, broken, beating, registering, partner, faultVars>>

-----------------------------------------------------------------------------
(* Getting peers                                                              *)

(* GetNodes of the server looks for another partner only if there is none or  *)
(* it is marked disconnected                                                  *)
Partners(n) ==
    LET others == {m \in Node \ {n} : status[m] = "CONNECTED"}
        lacks  == partner[n] # NoNode => status[partner[n]] = "DISCONNECTED"
    IN  IF lacks /\ others # {} THEN others ELSE {partner[n]}

(* Variant: GetNodes leaves the caller's status alone *)
Unpromoted(n) == status

(* GetNodes: a RECONNECTED caller is CONNECTED again *)
Promoted(n) ==
    [status EXCEPT ![n] = IF @ = "RECONNECTED" THEN "CONNECTED" ELSE @]

(* PeerWorker and getMorePeers: the server names the partner if it is         *)
(* CONNECTED. A new one is dialled (that fails only if its process is gone)   *)
(* and sent a REGISTER.                                                       *)
GetMorePeers(n) ==
    /\ Up(n)
    /\ Cardinality(peers[n]) < MinPeers
    /\ \E p \in Partners(n) :
         /\ partner' = [partner EXCEPT ![n] = p]
         /\ \/ /\ p # NoNode /\ p \notin peers[n]
               /\ status[p] = "CONNECTED" /\ proc[p] # "gone"
               /\ peers' = [peers EXCEPT ![n] = @ \cup {p}]
               /\ broken' = [broken EXCEPT ![n] = @ \ {p}]
               /\ watching' = [watching EXCEPT ![n] = @ \cup {p}]
               /\ heard' = [heard EXCEPT ![n] = @ \cup {p}]
               /\ net' = net \cup Registers(n, p)
            \/ /\ p \in peers[n] \cup {NoNode} \/ status[p] # "CONNECTED"
                    \/ proc[p] = "gone"
               /\ UNCHANGED <<peers, broken, watching, heard, net>>
    /\ status' = Promoted(n)
    /\ UNCHANGED <<proc, beating, registering, faultVars>>

(* The listener takes a packet when it is not in the middle of a Register *)
Listening(n) == Up(n) /\ registering[n] = NoNode

(* Register, first part: nothing to do for a peer, else dial it *)
TakeRegister(n, m) ==
    /\ Listening(n)
    /\ LET x == [kind |-> "REGISTER", to |-> n, about |-> m, ttl |-> 0]
       IN  x \in net /\ net' = net \ {x}
    /\ \/ /\ m \notin peers[n] /\ proc[m] # "gone"
          /\ registering' = [registering EXCEPT ![n] = m]
          /\ broken' = [broken EXCEPT ![n] = @ \ {m}]
       \/ /\ m \in peers[n] \/ proc[m] = "gone"
          /\ UNCHANGED <<registering, broken>>
    /\ UNCHANGED <<proc, peers, workerVars, serverVars, faultVars>>

(* Variant: no HeartbeatWorker is started for the new peer *)
EnterPeerSilently(n) ==
    /\ Up(n) /\ registering[n] # NoNode
    /\ peers' = [peers EXCEPT ![n] = @ \cup {registering[n]}]
    /\ registering' = [registering EXCEPT ![n] = NoNode]
    /\ UNCHANGED <<proc, broken, workerVars, net, serverVars, faultVars>>

(* Register, second part: m is entered, whether it has become a peer or not *)
EnterPeer(n) ==
    /\ Up(n) /\ registering[n] # NoNode
    /\ LET m == registering[n]
       IN  /\ peers' = [peers EXCEPT ![n] = @ \cup {m}]
           /\ heard' = [heard EXCEPT ![n] = @ \cup ({m} \cap watching[n])]
           /\ beating' = [beating EXCEPT ![n] = @ \cup {m}]
    /\ registering' = [registering EXCEPT ![n] = NoNode]
    /\ UNCHANGED <<proc, broken, watching, net, serverVars, faultVars>>

(* NotifyFailure: drop m and pass the message on *)
TakeFailure(n) ==
    /\ Listening(n)
    /\ \E x \in net :
         /\ x.kind = "FAILURE" /\ x.to = n
         /\ peers' = [peers EXCEPT ![n] = @ \ {x.about}]
         /\ heard' = [heard EXCEPT ![n] = @ \ {x.about}]
         /\ net' = (net \ {x}) \cup
              IF x.ttl > 0 THEN Delivered(Failures(n, x.about, x.ttl - 1)) ELSE {}
    /\ UNCHANGED <<proc, broken, beating, watching, registering, serverVars,
                   faultVars>>

-----------------------------------------------------------------------------
(* monitorConnections: a disconnected player answers Recover and has no peers *)
Recover(n) ==
    /\ status[n] = "DISCONNECTED" /\ Up(n)
    /\ status' = [status EXCEPT ![n] = "RECONNECTED"]
    /\ peers' = [peers EXCEPT ![n] = {}]
    /\ heard' = [heard EXCEPT ![n] = {}]
    /\ UNCHANGED <<proc, broken, beating, watching, registering, net, partner,
                   faultVars>>

-----------------------------------------------------------------------------
(* Failures                                                                   *)

Fails(n, how) ==
    /\ Up(n)
    /\ failures < MaxFailures
    /\ failures' = failures + 1
    /\ failed' = failed \cup {n}
    /\ proc' = [proc EXCEPT ![n] = how]

Suspend(n) ==
    /\ Fails(n, "suspended")
    /\ UNCHANGED <<peers, broken, workerVars, registering, net, serverVars,
                   restarts, lost>>

Resume(n) ==
    /\ proc[n] = "suspended"
    /\ proc' = [proc EXCEPT ![n] = "up"]
    /\ UNCHANGED <<peers, broken, workerVars, registering, net, serverVars,
                   faultVars>>

(* The process of n is gone, with its maps, workers and sockets *)
Crash(n) ==
    /\ Fails(n, "gone")
    /\ peers' = [peers EXCEPT ![n] = {}]
    /\ heard' = [heard EXCEPT ![n] = {}]
    /\ beating' = [beating EXCEPT ![n] = {}]
    /\ watching' = [watching EXCEPT ![n] = {}]
    /\ registering' = [registering EXCEPT ![n] = NoNode]
    /\ broken' = [m \in Node |-> IF m = n THEN {} ELSE broken[m] \cup {n}]
    /\ net' = {x \in net : x.to # n}
    /\ UNCHANGED <<serverVars, restarts, lost>>

(* n is started again and connects, which the server survives only if it has  *)
(* heard of the failure (TankServer); its partner is any CONNECTED player     *)
Restart(n) ==
    /\ proc[n] = "gone" /\ status[n] # "CONNECTED"
    /\ restarts < MaxRestarts
    /\ restarts' = restarts + 1
    /\ proc' = [proc EXCEPT ![n] = "up"]
    /\ status' = [status EXCEPT ![n] = "CONNECTED"]
    /\ LET others == {m \in Node \ {n} : status[m] = "CONNECTED"}
       IN  \E p \in IF others = {} THEN {NoNode} ELSE others :
             partner' = [partner EXCEPT ![n] = p]
    /\ UNCHANGED <<peers, broken, workerVars, registering, net, failures, lost,
                   failed>>

Lose ==
    /\ lost < MaxLost
    /\ lost' = lost + 1
    /\ \E x \in net : net' = net \ {x}
    /\ UNCHANGED <<proc, peers, broken, workerVars, registering, serverVars,
                   failures, restarts, failed>>

-----------------------------------------------------------------------------
Next ==
    \/ \E n, m \in Node : Beat(n, m) \/ Monitor(n, m) \/ TakeRegister(n, m)
    \/ \E n \in Node : \/ GetMorePeers(n)
                       \/ EnterPeer(n)
                       \/ TakeFailure(n)
                       \/ Recover(n)
    \/ \E n \in Mortal : \/ Suspend(n)
                         \/ Resume(n)
                         \/ Crash(n)
                         \/ Restart(n)
    \/ Lose

Spec == Init /\ [][Next]_vars

(* Every worker and the listener are goroutines in endless loops, and so is   *)
(* the server's monitor. A packet that is not lost arrives. A suspended       *)
(* process need not come back.                                                *)
Fairness ==
    /\ \A n \in Node : /\ WF_vars(GetMorePeers(n)) /\ WF_vars(EnterPeer(n))
                       /\ WF_vars(TakeFailure(n)) /\ WF_vars(Recover(n))
                       /\ \A m \in Node \ {n} : /\ WF_vars(Beat(n, m))
                                               /\ WF_vars(Monitor(n, m))
                                               /\ WF_vars(TakeRegister(n, m))

FairSpec == Spec /\ Fairness

-----------------------------------------------------------------------------
(* Properties                                                                 *)

(* Every variable keeps its type *)
TypeOK ==
    /\ proc \in [Node -> {"up", "suspended", "gone"}]
    /\ {peers, broken, beating, watching, heard} \subseteq [Node -> SUBSET Node]
    /\ registering \in [Node -> Node \cup {NoNode}]
    /\ net \in SUBSET Message
    /\ status \in [Node -> {"CONNECTED", "DISCONNECTED", "RECONNECTED"}]
    /\ partner \in [Node -> Node \cup {NoNode}]
    /\ {failures, restarts, lost} \subseteq Nat
    /\ failed \in SUBSET Node

(* Every entry of a peer map has a worker that would notice the peer's end: a *)
(* worker that finds its peer gone from the map ends, but one that is entered *)
(* again meanwhile brings its own.                                            *)
EveryPeerWatched ==
    \A n \in Node : peers[n] \subseteq beating[n] \cup watching[n]

(* Two players that were never killed or suspended do not lose each other:    *)
(* whatever is reported, flooded and recovered concerns those that failed.    *)
NoFalseAlarm ==
    [][\A n, m \in Node \ failed' : m \in peers[n] => m \in peers'[n]]_vars

(* A process that is gone for good is dropped by all the players that run, and*)
(* not got back from the server.                                              *)
GoneForgotten ==
    \A m \in Mortal :
      <>[](proc[m] = "gone") => <>[](\A n \in Node : m \notin peers[n])

(* The link of a player to a partner it picked heals: in the end the partner  *)
(* has the player too, although the REGISTER may be lost and a late FAILURE   *)
(* message may remove one that has come back.                                 *)
PicksHeal ==
    <>[](\A n, m \in Node :
           m \in watching[n] \cap peers[n] /\ Up(n) /\ Up(m) => n \in peers[m])

(* A player that was taken for dead and runs again is back in the end. Recover*)
(* and GetNodes make it CONNECTED unless others have given it enough peers,   *)
(* and a player is left alone only if its partner stays RECONNECTED so.       *)
AllBackIn ==
    (\A n \in Node : <>[]Up(n)) =>
      <>[](\A n \in Node :
             /\ status[n] # "DISCONNECTED"
             /\ Cardinality(peers[n]) < MinPeers => status[n] = "CONNECTED"
             /\ peers[n] = {} =>
                  \E m \in Node : m = partner[n] /\ status[m] = "RECONNECTED")

(* REPORT.md:36: once a node has reconnected, the server "can then resume     *)
(* returning its address to other nodes", which GetNodes does of CONNECTED    *)
(* players only.                                                              *)
ReturnedAgain ==
    (\A n \in Node : <>[]Up(n)) =>
      <>[](\A n \in Node : status[n] = "CONNECTED")

=============================================================================
