---------------------------- MODULE PeerNetProofs -----------------------------
(* What holds of the peers of any number of players, whatever MinPeers, TTL   *)
(* and the bounds on failures and losses are: the types, that every peer is   *)
(* watched over, and that players that never failed do not lose each other.   *)
EXTENDS PeerNet, TLAPS

(* What a player sends *)
LEMMA RegistersType ==
    \A n, m \in Node : Registers(n, m) \subseteq Message
BY DEF Registers, Message

LEMMA FailuresType ==
    ASSUME TypeOK, NEW n \in Node, NEW m \in Node, NEW ttl \in 0..TTL
    PROVE  Delivered(Failures(n, m, ttl)) \subseteq Message
<1>1. peers[n] \subseteq Node
  BY DEF TypeOK
<1> QED  BY <1>1 DEF Delivered, Failures, Message

(* handleDisconnection keeps the types *)
LEMMA HandleDisconnectionTypes ==
    ASSUME TypeOK, NEW n \in Node, NEW m \in Node, HandleDisconnection(n, m)
    PROVE  /\ status' \in [Node -> {"CONNECTED", "DISCONNECTED", "RECONNECTED"}]
           /\ peers' \in [Node -> SUBSET Node] /\ heard' \in [Node -> SUBSET Node]
           /\ net' \in SUBSET Message
<1>1. Delivered(Failures(n, m, TTL)) \subseteq Message
  BY FailuresType, PeerAssumption
<1> QED  BY <1>1 DEF TypeOK, HandleDisconnection, Reported

LEMMA PartnersType ==
    ASSUME TypeOK, NEW n \in Node
    PROVE  Partners(n) \subseteq Node \cup {NoNode}
BY DEF TypeOK, Partners

LEMMA InitTypeOK == Init => TypeOK
<1> SUFFICES ASSUME Init PROVE TypeOK
  OBVIOUS
<1>1. /\ proc \in [Node -> {"up", "suspended", "gone"}]
      /\ registering \in [Node -> Node \cup {NoNode}]
      /\ net \in SUBSET Message
      /\ status \in [Node -> {"CONNECTED", "DISCONNECTED", "RECONNECTED"}]
      /\ {failures, restarts, lost} \subseteq Nat /\ failed \in SUBSET Node
  BY DEF Init
<1>2. partner \in [Node -> Node \cup {NoNode}]
  BY PeerAssumption DEF Init
<1>3. /\ watching \in [Node -> SUBSET Node] /\ beating \in [Node -> SUBSET Node]
      /\ broken \in [Node -> SUBSET Node]
  <2>1. \A n \in Node : {InitPicks[n]} \ {NoNode} \subseteq Node
    BY PeerAssumption
  <2> QED  BY <2>1 DEF Init
<1>4. peers \in [Node -> SUBSET Node] /\ heard \in [Node -> SUBSET Node]
  BY <1>3 DEF Init
<1> QED  BY <1>1, <1>2, <1>3, <1>4 DEF TypeOK

-----------------------------------------------------------------------------
(* Types                                                                      *)

LEMMA WorkersTypeOK ==
    ASSUME TypeOK, NEW n \in Node, NEW m \in Node, Beat(n, m) \/ Monitor(n, m)
    PROVE  TypeOK'
<1>1. UNCHANGED <<proc, broken, registering, partner, faultVars>>
  BY DEF Beat, Monitor
<1>2. /\ beating' \in [Node -> SUBSET Node]
      /\ watching' \in [Node -> SUBSET Node]
  BY DEF TypeOK, Beat, Monitor
<1>3. /\ status' \in [Node -> {"CONNECTED", "DISCONNECTED", "RECONNECTED"}]
      /\ peers' \in [Node -> SUBSET Node] /\ heard' \in [Node -> SUBSET Node]
      /\ net' \in SUBSET Message
  <2>1. CASE HandleDisconnection(n, m)
    BY <2>1, HandleDisconnectionTypes
  <2>2. CASE UNCHANGED <<peers, status, net>> /\ heard' = Noted(n, m)
    BY <2>2 DEF TypeOK, Noted
  <2>3. CASE UNCHANGED <<peers, status, net, heard>>
    BY <2>3 DEF TypeOK
  <2>4. CASE /\ UNCHANGED <<peers, status, net>>
             /\ heard' = [heard EXCEPT ![n] = @ \ {m}]
    BY <2>4 DEF TypeOK
  <2>5. CASE /\ UNCHANGED <<peers, status>>
             /\ heard' = [heard EXCEPT ![n] = @ \cup {m}]
             /\ net' = net \cup Registers(n, m)
    BY <2>5, RegistersType DEF TypeOK
  <2> QED  BY <2>1, <2>2, <2>3, <2>4, <2>5 DEF Beat, Monitor
<1> QED  BY <1>1, <1>2, <1>3 DEF TypeOK, faultVars

LEMMA GetMorePeersTypeOK ==
    ASSUME TypeOK, NEW n \in Node, GetMorePeers(n)
    PROVE  TypeOK'
<1>1. PICK p \in Partners(n) :
         /\ partner' = [partner EXCEPT ![n] = p]
         /\ \/ /\ p # NoNode
               /\ peers' = [peers EXCEPT ![n] = @ \cup {p}]
               /\ broken' = [broken EXCEPT ![n] = @ \ {p}]
               /\ watching' = [watching EXCEPT ![n] = @ \cup {p}]
               /\ heard' = [heard EXCEPT ![n] = @ \cup {p}]
               /\ net' = net \cup Registers(n, p)
            \/ UNCHANGED <<peers, broken, watching, heard, net>>
  BY DEF GetMorePeers
<1>2. p \in Node \cup {NoNode}
  BY PartnersType
<1>3. UNCHANGED <<proc, beating, registering, faultVars>>
  BY DEF GetMorePeers
<1>4. status' \in [Node -> {"CONNECTED", "DISCONNECTED", "RECONNECTED"}]
  BY DEF TypeOK, GetMorePeers, Promoted
<1>5. partner' \in [Node -> Node \cup {NoNode}]
  BY <1>1, <1>2 DEF TypeOK
<1>6. CASE UNCHANGED <<peers, broken, watching, heard, net>>
  BY <1>3, <1>4, <1>5, <1>6 DEF TypeOK, faultVars
<1>7. CASE /\ p # NoNode
           /\ peers' = [peers EXCEPT ![n] = @ \cup {p}]
           /\ broken' = [broken EXCEPT ![n] = @ \ {p}]
           /\ watching' = [watching EXCEPT ![n] = @ \cup {p}]
           /\ heard' = [heard EXCEPT ![n] = @ \cup {p}]
           /\ net' = net \cup Registers(n, p)
  <2>1. p \in Node
    BY <1>2, <1>7
  <2>2. {peers', broken', watching', heard'} \subseteq [Node -> SUBSET Node]
    BY <1>7, <2>1 DEF TypeOK
  <2>3. net' \in SUBSET Message
    BY <1>7, <2>1, RegistersType DEF TypeOK
  <2> QED  BY <1>3, <1>4, <1>5, <2>2, <2>3 DEF TypeOK, faultVars
<1> QED  BY <1>1, <1>6, <1>7

LEMMA ListenerTypeOK ==
    ASSUME TypeOK, NEW n \in Node,
           (\E m \in Node : TakeRegister(n, m)) \/ EnterPeer(n) \/ TakeFailure(n)
    PROVE  TypeOK'
<1> USE DEF workerVars, serverVars, faultVars
<1>1. ASSUME NEW m \in Node, TakeRegister(n, m) PROVE TypeOK'
  <2>1. /\ registering' \in [Node -> Node \cup {NoNode}]
        /\ broken' \in [Node -> SUBSET Node]
        /\ net' \in SUBSET Message
    BY <1>1 DEF TypeOK, TakeRegister
  <2> QED  BY <1>1, <2>1 DEF TypeOK, TakeRegister
<1>2. CASE EnterPeer(n)
  <2>1. /\ registering' \in [Node -> Node \cup {NoNode}]
        /\ {peers', heard', beating'} \subseteq [Node -> SUBSET Node]
    BY <1>2 DEF TypeOK, EnterPeer
  <2> QED  BY <1>2, <2>1 DEF TypeOK, EnterPeer
<1>3. CASE TakeFailure(n)
  <2>1. PICK x \in net :
           /\ x.kind = "FAILURE" /\ x.to = n
           /\ peers' = [peers EXCEPT ![n] = @ \ {x.about}]
           /\ heard' = [heard EXCEPT ![n] = @ \ {x.about}]
           /\ net' = (net \ {x}) \cup
                IF x.ttl > 0 THEN Delivered(Failures(n, x.about, x.ttl - 1))
                             ELSE {}
    BY <1>3 DEF TakeFailure
  <2>2. x.about \in Node /\ (x.ttl > 0 => x.ttl - 1 \in 0..TTL)
    BY <2>1, PeerAssumption DEF TypeOK, Message
  <2>3. net' \in SUBSET Message
    <3>1. x.ttl > 0 => Delivered(Failures(n, x.about, x.ttl - 1)) \subseteq Message
      BY <2>2, FailuresType
    <3> QED  BY <2>1, <3>1 DEF TypeOK
  <2>4. {peers', heard'} \subseteq [Node -> SUBSET Node]
    BY <2>1 DEF TypeOK
  <2> QED  BY <1>3, <2>3, <2>4 DEF TypeOK, TakeFailure
<1> QED  BY <1>1, <1>2, <1>3

LEMMA FaultsTypeOK ==
    ASSUME TypeOK, NEW n \in Node,
           \/ Recover(n)
           \/ Suspend(n) \/ Resume(n) \/ Crash(n) \/ Restart(n)
    PROVE  TypeOK'
<1> USE DEF workerVars, serverVars, faultVars
<1>1. CASE Recover(n)
  BY <1>1 DEF TypeOK, Recover
<1>2. CASE Suspend(n)
  BY <1>2 DEF TypeOK, Suspend, Fails
<1>3. CASE Resume(n)
  BY <1>3 DEF TypeOK, Resume
<1>4. CASE Crash(n)
  <2>1. /\ {peers', heard', beating', watching', broken'}
             \subseteq [Node -> SUBSET Node]
        /\ registering' \in [Node -> Node \cup {NoNode}]
        /\ net' \in SUBSET Message
    BY <1>4 DEF TypeOK, Crash
  <2>2. /\ proc' \in [Node -> {"up", "suspended", "gone"}]
        /\ failures' \in Nat /\ failed' \in SUBSET Node
    BY <1>4 DEF TypeOK, Crash, Fails
  <2> QED  BY <1>4, <2>1, <2>2 DEF TypeOK, Crash
<1>5. CASE Restart(n)
  <2>1. partner' \in [Node -> Node \cup {NoNode}]
    BY <1>5 DEF TypeOK, Restart
  <2> QED  BY <1>5, <2>1 DEF TypeOK, Restart
<1> QED  BY <1>1, <1>2, <1>3, <1>4, <1>5

LEMMA NextTypeOK == TypeOK /\ [Next]_vars => TypeOK'
<1> SUFFICES ASSUME TypeOK, [Next]_vars PROVE TypeOK'
  OBVIOUS
<1>1. CASE UNCHANGED vars
  BY <1>1 DEF vars, workerVars, serverVars, faultVars, TypeOK
<1>2. Mortal \subseteq Node
  BY PeerAssumption
<1>3. CASE Lose
  BY <1>3 DEF TypeOK, Lose, workerVars, serverVars
<1> QED
  BY <1>1, <1>2, <1>3, WorkersTypeOK, GetMorePeersTypeOK, ListenerTypeOK, FaultsTypeOK
  DEF Next

(* Every variable of the players and of the server keeps its type, whatever   *)
(* fails and is lost.                                                         *)
THEOREM TypeCorrect == Spec => []TypeOK
BY InitTypeOK, NextTypeOK, PTL DEF Spec
-----------------------------------------------------------------------------
(* Every peer has a worker                                                    *)

(* A worker that ends leaves no peer behind, and a peer that is entered brings*)
(* a worker: of the variables, only the peer maps and the workers matter.     *)
LEMMA WorkersWatch ==
    ASSUME TypeOK, EveryPeerWatched, NEW n \in Node, NEW m \in Node,
           Beat(n, m) \/ Monitor(n, m)
    PROVE  EveryPeerWatched'
<1>1. \A k \in Node \ {n} : /\ peers'[k] = peers[k]
                            /\ beating'[k] = beating[k]
                            /\ watching'[k] = watching[k]
  BY DEF TypeOK, Beat, Monitor, HandleDisconnection
<1>2. CASE UNCHANGED <<peers, beating, watching>>
  BY <1>2 DEF EveryPeerWatched
<1>3. CASE m \notin peers'[n]
  <2>1. /\ peers'[n] \subseteq peers[n]
        /\ beating[n] \ {m} \subseteq beating'[n]
        /\ watching[n] \ {m} \subseteq watching'[n]
    BY DEF TypeOK, Beat, Monitor, HandleDisconnection
  <2> QED  BY <1>1, <1>3, <2>1 DEF EveryPeerWatched
<1>4. UNCHANGED <<peers, beating, watching>> \/ m \notin peers'[n]
  BY DEF TypeOK, Beat, Monitor, HandleDisconnection
<1> QED  BY <1>2, <1>3, <1>4

LEMMA OthersWatch ==
    ASSUME TypeOK, EveryPeerWatched, NEW n \in Node,
           \/ GetMorePeers(n) \/ EnterPeer(n) \/ TakeFailure(n)
           \/ Recover(n) \/ Crash(n)
    PROVE  EveryPeerWatched'
<1>1. CASE GetMorePeers(n)
  BY <1>1 DEF TypeOK, EveryPeerWatched, GetMorePeers
<1>2. CASE EnterPeer(n)
  BY <1>2 DEF TypeOK, EveryPeerWatched, EnterPeer
<1>3. CASE TakeFailure(n)
  BY <1>3 DEF TypeOK, EveryPeerWatched, TakeFailure
<1>4. CASE Recover(n)
  BY <1>4 DEF TypeOK, EveryPeerWatched, Recover
<1>5. CASE Crash(n)
  BY <1>5 DEF TypeOK, EveryPeerWatched, Crash
<1> QED  BY <1>1, <1>2, <1>3, <1>4, <1>5

LEMMA NextWatched ==
    TypeOK /\ EveryPeerWatched /\ [Next]_vars => EveryPeerWatched'
<1> SUFFICES ASSUME TypeOK, EveryPeerWatched, [Next]_vars
             PROVE  EveryPeerWatched'
  OBVIOUS
<1>1. CASE UNCHANGED <<peers, beating, watching>>
  BY <1>1 DEF EveryPeerWatched
<1>2. CASE UNCHANGED vars
  BY <1>1, <1>2 DEF vars, workerVars
<1>3. Mortal \subseteq Node
  BY PeerAssumption
<1>4. CASE Lose \/ \E n \in Node : \/ \E m \in Node : TakeRegister(n, m)
                                   \/ Suspend(n) \/ Resume(n) \/ Restart(n)
  BY <1>1, <1>4 DEF Lose, TakeRegister, Suspend, Resume, Restart, workerVars
<1> QED  BY <1>2, <1>3, <1>4, WorkersWatch, OthersWatch DEF Next

(* A player that sends its game to another one watches over it: no entry of a *)
(* peer map is ever without the HeartbeatWorker or HeartbeatMonitorWorker that*)
(* would find its process gone.                                               *)
THEOREM PeersAreWatched == Spec => []EveryPeerWatched
<1>1. Init => EveryPeerWatched
  BY DEF Init, EveryPeerWatched
<1> QED  BY <1>1, InitTypeOK, NextTypeOK, NextWatched, PTL DEF Spec

-----------------------------------------------------------------------------
(* Players that never failed                                                  *)

(* What the others and the server think of a player that was never killed or  *)
(* suspended: it answers whoever calls it, and nobody says that it does not.  *)
Trusted(m) ==
    /\ proc[m] = "up" /\ status[m] = "CONNECTED"
    /\ \A n \in Node : m \notin broken[n]
    /\ \A x \in net : x.kind = "FAILURE" => x.about # m

Trust == \A m \in Node \ failed : Trusted(m)

(* Only those that have failed are reported to the server and flooded *)
LEMMA HandleDisconnectionTrust ==
    ASSUME TypeOK, Trust, NEW n \in Node, NEW m \in Node, ~Answers(n, m),
           HandleDisconnection(n, m), UNCHANGED <<proc, broken, failed>>
    PROVE  Trust' /\ m \in failed
<1>1. m \in failed
  BY DEF Trust, Trusted, Answers, Up
<1>2. \A k \in Node \ failed : status'[k] = status[k]
  BY <1>1 DEF TypeOK, HandleDisconnection, Reported
<1>3. \A x \in net' : x \in net \/ x.about = m
  BY DEF HandleDisconnection, Delivered, Failures
<1> QED  BY <1>1, <1>2, <1>3 DEF Trust, Trusted

LEMMA WorkersTrust ==
    ASSUME TypeOK, Trust, NEW n \in Node, NEW m \in Node,
           Beat(n, m) \/ Monitor(n, m)
    PROVE  Trust' /\ \A k, l \in Node \ failed' : l \in peers[k] => l \in peers'[k]
<1>1. UNCHANGED <<proc, broken, failed>>
  BY DEF Beat, Monitor, faultVars
<1>2. CASE ~Answers(n, m) /\ HandleDisconnection(n, m)
  <2>1. Trust' /\ m \in failed
    BY <1>1, <1>2, HandleDisconnectionTrust
  <2> QED  BY <1>1, <1>2, <2>1 DEF TypeOK, HandleDisconnection
<1>3. CASE UNCHANGED <<peers, status>> /\ net' \subseteq net \cup Registers(n, m)
  <2>1. \A x \in net' : x.kind = "FAILURE" => x \in net
    BY <1>3 DEF Registers
  <2> QED  BY <1>1, <1>3, <2>1 DEF Trust, Trusted
<1> QED  BY <1>2, <1>3 DEF Beat, Monitor

LEMMA GetMorePeersTrust ==
    ASSUME TypeOK, Trust, NEW n \in Node, GetMorePeers(n)
    PROVE  Trust' /\ \A k, l \in Node \ failed' : l \in peers[k] => l \in peers'[k]
<1>1. UNCHANGED <<proc, failed>>
  BY DEF GetMorePeers, faultVars
<1>2. \A k \in Node : status[k] = "CONNECTED" => status'[k] = "CONNECTED"
  BY DEF TypeOK, GetMorePeers, Promoted
<1>3. \A k \in Node : broken'[k] \subseteq broken[k] /\ peers[k] \subseteq peers'[k]
  BY DEF TypeOK, GetMorePeers
<1>4. \A x \in net' : x.kind = "FAILURE" => x \in net
  BY DEF GetMorePeers, Registers
<1> QED  BY <1>1, <1>2, <1>3, <1>4 DEF Trust, Trusted

LEMMA ListenerTrust ==
    ASSUME TypeOK, Trust, NEW n \in Node,
           (\E m \in Node : TakeRegister(n, m)) \/ EnterPeer(n) \/ TakeFailure(n)
    PROVE  Trust' /\ \A k, l \in Node \ failed' : l \in peers[k] => l \in peers'[k]
<1> USE DEF workerVars, serverVars, faultVars
<1>1. ASSUME NEW m \in Node, TakeRegister(n, m) PROVE Trust' /\ UNCHANGED <<peers, failed>>
  BY <1>1 DEF TypeOK, Trust, Trusted, TakeRegister
<1>2. CASE EnterPeer(n)
  BY <1>2 DEF TypeOK, Trust, Trusted, EnterPeer
<1>3. CASE TakeFailure(n)
  <2>1. PICK x \in net :
           /\ x.kind = "FAILURE" /\ x.to = n
           /\ peers' = [peers EXCEPT ![n] = @ \ {x.about}]
           /\ net' = (net \ {x}) \cup
                IF x.ttl > 0 THEN Delivered(Failures(n, x.about, x.ttl - 1))
                             ELSE {}
    BY <1>3 DEF TakeFailure
  <2>2. \A y \in net' : y \in net \/ y.about = x.about
    BY <2>1 DEF Delivered, Failures
  <2>3. \A m \in Node \ failed : x.about # m
    BY <2>1 DEF Trust, Trusted
  <2>4. Trust'
    BY <1>3, <2>2, <2>3 DEF TakeFailure, Trust, Trusted
  <2>5. UNCHANGED failed
    BY <1>3 DEF TakeFailure
  <2> QED  BY <2>1, <2>3, <2>4, <2>5 DEF TypeOK
<1> QED  BY <1>1, <1>2, <1>3

LEMMA FaultsTrust ==
    ASSUME TypeOK, Trust, NEW n \in Node,
           Recover(n) \/ Suspend(n) \/ Resume(n) \/ Crash(n) \/ Restart(n)
    PROVE  Trust' /\ \A k, l \in Node \ failed' : l \in peers[k] => l \in peers'[k]
<1> USE DEF workerVars, serverVars, faultVars
<1>1. n \in failed'
  BY DEF Trust, Trusted, Recover, Suspend, Resume, Crash, Restart, Fails
<1>2. failed \subseteq failed'
  BY DEF Recover, Suspend, Resume, Crash, Restart, Fails
<1>3. \A k \in Node \ {n} : /\ proc'[k] = proc[k] /\ status'[k] = status[k]
                            /\ peers'[k] = peers[k]
                            /\ \A m \in Node : k \in broken'[m] => k \in broken[m]
  BY DEF TypeOK, Recover, Suspend, Resume, Crash, Restart, Fails
<1>4. net' \subseteq net
  BY DEF Recover, Suspend, Resume, Crash, Restart
<1> QED  BY <1>1, <1>2, <1>3, <1>4 DEF Trust, Trusted

LEMMA NextTrust ==
    TypeOK /\ Trust /\ [Next]_vars =>
      Trust' /\ \A k, l \in Node \ failed' : l \in peers[k] => l \in peers'[k]
<1> SUFFICES ASSUME TypeOK, Trust, [Next]_vars
             PROVE  /\ Trust'
                    /\ \A k, l \in Node \ failed' : l \in peers[k] => l \in peers'[k]
  OBVIOUS
<1>1. CASE Lose \/ UNCHANGED vars
  BY <1>1 DEF Lose, Trust, Trusted, vars, serverVars, faultVars
<1>2. CASE \E n \in Node : \/ \E m \in Node : Beat(n, m) \/ Monitor(n, m)
                           \/ GetMorePeers(n)
                           \/ \E m \in Node : TakeRegister(n, m)
                           \/ EnterPeer(n) \/ TakeFailure(n)
  BY <1>2, WorkersTrust, GetMorePeersTrust, ListenerTrust
<1>3. CASE \E n \in Node : \/ Recover(n) \/ Suspend(n) \/ Resume(n)
                           \/ Crash(n) \/ Restart(n)
  BY <1>3, FaultsTrust
<1>4. Mortal \subseteq Node
  BY PeerAssumption
<1> QED  BY <1>1, <1>2, <1>3, <1>4 DEF Next

LEMMA Trusting == Spec => [](TypeOK /\ Trust)
<1>1. Init => Trust
  BY DEF Init, Trust, Trusted
<1> QED  BY <1>1, InitTypeOK, NextTypeOK, NextTrust, PTL DEF Spec

(* Whatever is reported to the server, flooded in FAILURE messages and undone *)
(* by Recover concerns players that failed: those that did not keep each      *)
(* other, however many hops a message takes and whatever packets are lost.    *)
THEOREM NoFalseAlarms == Spec => NoFalseAlarm
<1>1. TypeOK /\ Trust /\ [Next]_vars =>
        [\A n, m \in Node \ failed' : m \in peers[n] => m \in peers'[n]]_vars
  BY NextTrust
<1> QED  BY <1>1, Trusting, PTL DEF Spec, NoFalseAlarm
=============================================================================
