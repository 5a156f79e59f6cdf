------------------------ MODULE ClientChannelsProofs ------------------------
(* Types, bounds and the two cycles of a client's goroutines, for channels of *)
(* any capacity and any number of peers.                                      *)
EXTENDS ClientChannels, TLAPS

(* The invariant: a holder of peerLock that is going to drop a peer has one,  *)
(* since peers change under peerLock alone; a Recover that clears them is a   *)
(* call that has not ended; and the main thread of a bot only accepts.        *)
HoldersHavePeers ==
    /\ peerLock \in {"reporting", "dropping", "failing"} => peers > 0
    /\ peerLock = "failing" => listener = "failure"
    /\ peerLock = "clearing" => recovers > 0
    /\ isBot => mainThread = "accept"

IInv == TypeOK /\ HoldersHavePeers

LEMMA InitIInv == Init => IInv
BY ChannelAssumption DEF Init, IInv, TypeOK, HoldersHavePeers, Sends, Removing

(* Sending fills no channel beyond its capacity *)
LEMMA SendFits ==
    ASSUME recordUpdates \in 0..Cap, SendRecord
    PROVE  recordUpdates' \in 0..Cap
BY ChannelAssumption DEF SendRecord

LEMMA NextIInv == IInv /\ [Next]_vars => IInv'
<1> SUFFICES ASSUME IInv, [Next]_vars PROVE IInv'
  OBVIOUS
<1> USE ChannelAssumption
    DEF IInv, TypeOK, HoldersHavePeers, Sends, Removing, channels, player, server
<1>1. CASE UpdateBullets
  <2>1. alive' \in BOOLEAN /\ mainThread' \in {"dead", "input", "accept"}
    BY <1>1 DEF UpdateBullets
  <2>2. isBot => mainThread # "bullets"
    OBVIOUS
  <2>3. ~isBot
    BY <1>1, <2>2 DEF UpdateBullets
  <2>4. UNCHANGED <<channels, isBot, generateMoves, recordWorker,
                    outgoingWorker, listener, peerLock, peers, server>>
    BY <1>1 DEF UpdateBullets
  <2>5. TypeOK'
    BY <2>1, <2>4
  <2>6. HoldersHavePeers'
    BY <2>3, <2>4
  <2> QED
    BY <2>5, <2>6
<1>2. CASE LocalInput
  BY <1>2 DEF LocalInput
<1>3. CASE MainSends
  BY <1>3, SendFits DEF MainSends, SendRecord
<1>4. CASE AcceptUpdates
  BY <1>4 DEF AcceptUpdates
<1>5. CASE BotSends
  BY <1>5, SendFits DEF BotSends, SendRecord
<1>6. CASE TakeUpdate \/ ShowUpdate \/ PassUpdate
  BY <1>6 DEF TakeUpdate, ShowUpdate, PassUpdate
<1>7. CASE TakeOutgoing \/ SendOutgoing
  BY <1>7 DEF TakeOutgoing, SendOutgoing
<1>8. CASE Receive \/ NotifyFailure \/ Register
  BY <1>8 DEF Receive, NotifyFailure, Register
<1>9. CASE NotifyUpdate
  BY <1>9, SendFits DEF NotifyUpdate, SendRecord
<1>10. CASE FailureDrops
  BY <1>10, SendFits DEF FailureDrops, SendRecord
<1>11. CASE EnterPeer
  BY <1>11 DEF EnterPeer, MorePeers
<1>12. CASE Disconnection \/ Report \/ AskPeers
  BY <1>12 DEF Disconnection, Report, AskPeers
<1>13. CASE DropPeer
  BY <1>13, SendFits DEF DropPeer, SendRecord
<1>14. CASE GetMorePeers
  BY <1>14 DEF GetMorePeers, MorePeers
<1>15. CASE CallRecover \/ Recover \/ RecoverTimeout
  BY <1>15 DEF CallRecover, Recover, RecoverTimeout
<1>16. CASE ClearPeer
  BY <1>16, SendFits DEF ClearPeer, SendRecord
<1>17. CASE Recovered
  BY <1>17 DEF Recovered
<1>18. CASE UNCHANGED vars
  BY <1>18 DEF vars
<1> QED
  BY <1>1, <1>2, <1>3, <1>4, <1>5, <1>6, <1>7, <1>8, <1>9, <1>10, <1>11, <1>12,
     <1>13, <1>14, <1>15, <1>16, <1>17, <1>18
  DEF Next

(* No channel is ever fuller than its capacity, and no peer is dropped that is*)
(* not there.                                                                 *)
THEOREM ChannelsTyped == Spec => []TypeOK
<1>1. IInv => TypeOK
  BY DEF IInv
<1> QED  BY <1>1, InitIInv, NextIInv, PTL DEF Spec

LEMMA MainCycleStays ==
    ASSUME IInv, [Next]_vars, MainCycle
    PROVE  MainCycle'
<1> USE DEF MainCycle, IInv, TypeOK, HoldersHavePeers, Sends, channels, player
<1>1. ~SendRecord
  BY ChannelAssumption DEF SendRecord
<1>2. CASE UpdateBullets \/ LocalInput \/ MainSends \/ AcceptUpdates \/ BotSends
  BY <1>1, <1>2
  DEF UpdateBullets, LocalInput, MainSends, AcceptUpdates, BotSends
<1>3. CASE TakeUpdate \/ ShowUpdate \/ PassUpdate \/ TakeOutgoing \/ SendOutgoing
  BY <1>3, ChannelAssumption
  DEF TakeUpdate, ShowUpdate, PassUpdate, TakeOutgoing, SendOutgoing
<1>4. CASE Receive \/ NotifyUpdate \/ NotifyFailure \/ Register \/ EnterPeer
  BY <1>1, <1>4 DEF Receive, NotifyUpdate, NotifyFailure, Register, EnterPeer
<1>5. CASE FailureDrops \/ DropPeer \/ ClearPeer
  BY <1>1, <1>5 DEF FailureDrops, DropPeer, ClearPeer
<1>6. CASE \/ Disconnection \/ Report \/ AskPeers \/ GetMorePeers
           \/ CallRecover \/ Recover \/ Recovered \/ RecoverTimeout
  BY <1>6
  DEF Disconnection, Report, AskPeers, GetMorePeers, CallRecover, Recover,
      Recovered, RecoverTimeout
<1>7. CASE UNCHANGED vars
  BY <1>7 DEF vars
<1> QED  BY <1>2, <1>3, <1>4, <1>5, <1>6, <1>7 DEF Next

LEMMA LockCycleStays ==
    ASSUME IInv, [Next]_vars, LockCycle
    PROVE  LockCycle'
<1> USE DEF LockCycle, IInv, TypeOK, HoldersHavePeers, Removing, channels, player
<1>1. ~SendRecord
  BY ChannelAssumption DEF SendRecord
<1>2. CASE UpdateBullets \/ LocalInput \/ MainSends \/ AcceptUpdates \/ BotSends
  BY <1>1, <1>2
  DEF UpdateBullets, LocalInput, MainSends, AcceptUpdates, BotSends
<1>3. CASE TakeUpdate \/ ShowUpdate \/ PassUpdate \/ TakeOutgoing \/ SendOutgoing
  BY <1>3, ChannelAssumption
  DEF TakeUpdate, ShowUpdate, PassUpdate, TakeOutgoing, SendOutgoing
<1>4. CASE Receive \/ NotifyUpdate \/ NotifyFailure \/ Register \/ EnterPeer
  BY <1>1, <1>4 DEF Receive, NotifyUpdate, NotifyFailure, Register, EnterPeer
<1>5. CASE FailureDrops \/ DropPeer \/ ClearPeer
  BY <1>1, <1>5 DEF FailureDrops, DropPeer, ClearPeer
<1>6. CASE \/ Disconnection \/ Report \/ AskPeers \/ GetMorePeers
           \/ CallRecover \/ Recover \/ Recovered \/ RecoverTimeout
  BY <1>6
  DEF Disconnection, Report, AskPeers, GetMorePeers, CallRecover, Recover,
      Recovered, RecoverTimeout
<1>7. CASE UNCHANGED vars
  BY <1>7 DEF vars
<1> QED  BY <1>2, <1>3, <1>4, <1>5, <1>6, <1>7 DEF Next

(* A client whose goroutines wait for each other in one of the two ways does  *)
(* so for ever, whatever the capacity of the channels.                        *)
THEOREM CyclesAreForever == Spec => CyclesStay
<1>1. IInv /\ [Next]_vars =>
        [(MainCycle => MainCycle') /\ (LockCycle => LockCycle')]_vars
  BY MainCycleStays, LockCycleStays
<1> QED  BY <1>1, InitIInv, NextIInv, PTL DEF Spec, CyclesStay

=============================================================================
