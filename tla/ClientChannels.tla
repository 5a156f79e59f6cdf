--------------------------- MODULE ClientChannels ---------------------------
(* The goroutines of one client and what they wait for: three channels with   *)
(* room for Cap updates each, peerLock, and the server's lock.                *)
(*                                                                            *)
(* Everything that produces updates sends them on RecordUpdates: the main     *)
(* thread (or a bot's GenerateMoves), ListenerWorker, and removePeer, which   *)
(* does so under peerLock. RecordWorker takes them from there and sends them  *)
(* on UpdateChannel, which the main thread empties once a frame, and then on  *)
(* OutgoingUpdates, which OutgoingWorker empties, with peerLock. Calls of the *)
(* server are made under peerLock (GetNodes, NotifyFailure), and the server   *)
(* calls Recover, which needs peerLock, under the lock those calls need.      *)
(*                                                                            *)
(* Only the number of updates in a channel counts here, what they say and     *)
(* where they come from is UpdateFlood. A call the server leaves unanswered   *)
(* for 20 seconds ends the process and is left out.                           *)
EXTENDS Integers

CONSTANTS
    Cap,         \* the capacity of each channel, 1000 in the code
    MaxPeers,    \* bound on the peers of the client
    MaxRecovers  \* bound on the unfinished calls of Recover

ASSUME ChannelAssumption ==
    Cap \in Nat \ {0} /\ MaxPeers \in Nat /\ MaxRecovers \in Nat

VARIABLES
    isBot,            \* started with -bot
    alive,            \* the player has not been hit
    recordUpdates, updateChannel, outgoingUpdates,  \* updates in each channel
    mainThread,       \* what the main thread does
    generateMoves,    \* what the bot's goroutine sends next
    recordWorker, outgoingWorker, listener,  \* what these goroutines do
    peerLock,         \* "free", or what its holder does
    peers,            \* the number of peers
    recovers,         \* calls of Recover that wait for peerLock or hold it
    serverLock        \* "free", or "recover": the server waits for Recover

channels == <<recordUpdates, updateChannel, outgoingUpdates>>
player   == <<isBot, alive, mainThread, generateMoves>>
server   == <<recovers, serverLock>>
vars == <<channels, player, recordWorker, outgoingWorker, listener, peerLock,
          peers, server>>

Sends == {"dead", "fire", "move"}

(* What a holder of peerLock may be doing when it sends on RecordUpdates *)
Removing == {"dropping", "failing", "clearing"}

Init ==
    /\ isBot \in BOOLEAN
    /\ alive = TRUE
    /\ recordUpdates = 0 /\ updateChannel = 0 /\ outgoingUpdates = 0
    /\ mainThread = IF isBot THEN "accept" ELSE "bullets"
    /\ generateMoves = "move"
    /\ recordWorker = "take" /\ outgoingWorker = "take" /\ listener = "idle"
    /\ peerLock = "free"
    /\ peers = 0
    /\ recovers = 0 /\ serverLock = "free"

(* Variant: a full channel loses the update *)
SendOrDrop ==
    /\ recordUpdates' = IF recordUpdates < Cap THEN recordUpdates + 1
                                               ELSE recordUpdates
    /\ UNCHANGED <<updateChannel, outgoingUpdates>>

(* RecordUpdates <- update *)
SendRecord ==
    /\ recordUpdates < Cap
    /\ recordUpdates' = recordUpdates + 1
    /\ UNCHANGED <<updateChannel, outgoingUpdates>>

-----------------------------------------------------------------------------
(* The player                                                                 *)

(* A frame: doUpdateBullets, where a living player may be hit ... *)
UpdateBullets ==
    /\ mainThread = "bullets"
    /\ \/ /\ alive
          /\ alive' = FALSE
          /\ mainThread' = "dead"
       \/ /\ mainThread' = IF alive THEN "input" ELSE "accept"
          /\ UNCHANGED alive
    /\ UNCHANGED <<channels, isBot, generateMoves, recordWorker, outgoingWorker,
                   listener, peerLock, peers, server>>

(* ... doLocalInput of the living, with a shot or without ... *)
LocalInput ==
    /\ mainThread = "input"
    /\ mainThread' \in {"fire", "move"}
    /\ UNCHANGED <<channels, isBot, alive, generateMoves, recordWorker,
                   outgoingWorker, listener, peerLock, peers, server>>

(* ... which sends what it has to tell ... *)
MainSends ==
    /\ mainThread \in Sends
    /\ SendRecord
    /\ mainThread' = IF mainThread = "fire" THEN "move" ELSE "accept"
    /\ UNCHANGED <<isBot, alive, generateMoves, recordWorker, outgoingWorker,
                   listener, peerLock, peers, server>>

(* ... and doAcceptUpdates, which ends when UpdateChannel is empty. The main  *)
(* thread of a bot does nothing else.                                         *)
AcceptUpdates ==
    /\ mainThread = "accept"
    /\ \/ /\ updateChannel > 0
          /\ updateChannel' = updateChannel - 1
          /\ UNCHANGED mainThread
       \/ /\ updateChannel = 0 /\ ~isBot
          /\ mainThread' = "bullets"
          /\ UNCHANGED updateChannel
    /\ UNCHANGED <<recordUpdates, outgoingUpdates, isBot, alive, generateMoves,
                   recordWorker, outgoingWorker, listener, peerLock, peers,
                   server>>

(* GenerateMoves sends a position and perhaps a shot *)
BotSends ==
    /\ isBot
    /\ SendRecord
    /\ generateMoves' \in
         IF generateMoves = "move" THEN {"move", "fire"} ELSE {"move"}
    /\ UNCHANGED <<isBot, alive, mainThread, recordWorker, outgoingWorker,
                   listener, peerLock, peers, server>>

-----------------------------------------------------------------------------
(* RecordWorker and OutgoingWorker                                            *)

(* An update is taken, and refused or passed on *)
TakeUpdate ==
    /\ recordWorker = "take"
    /\ recordUpdates > 0
    /\ recordUpdates' = recordUpdates - 1
    /\ recordWorker' \in {"take", "show"}
    /\ UNCHANGED <<updateChannel, outgoingUpdates, player, outgoingWorker,
                   listener, peerLock, peers, server>>

ShowUpdate ==
    /\ recordWorker = "show"
    /\ updateChannel < Cap
    /\ updateChannel' = updateChannel + 1
    /\ recordWorker' = "send"
    /\ UNCHANGED <<recordUpdates, outgoingUpdates, player, outgoingWorker,
                   listener, peerLock, peers, server>>

PassUpdate ==
    /\ recordWorker = "send"
    /\ outgoingUpdates < Cap
    /\ outgoingUpdates' = outgoingUpdates + 1
    /\ recordWorker' = "take"
    /\ UNCHANGED <<recordUpdates, updateChannel, player, outgoingWorker,
                   listener, peerLock, peers, server>>

TakeOutgoing ==
    /\ outgoingWorker = "take"
    /\ outgoingUpdates > 0
    /\ outgoingUpdates' = outgoingUpdates - 1
    /\ outgoingWorker' = "lock"
    /\ UNCHANGED <<recordUpdates, updateChannel, player, recordWorker, listener,
                   peerLock, peers, server>>

(* UDP takes the packets at once, so peerLock is not kept *)
SendOutgoing ==
    /\ outgoingWorker = "lock"
    /\ peerLock = "free"
    /\ outgoingWorker' = "take"
    /\ UNCHANGED <<channels, player, recordWorker, listener, peerLock, peers,
                   server>>

-----------------------------------------------------------------------------
(* ListenerWorker                                                             *)

Receive ==
    /\ listener = "idle"
    /\ listener' \in {"update", "failure", "register"}
    /\ UNCHANGED <<channels, player, recordWorker, outgoingWorker, peerLock,
                   peers, server>>

NotifyUpdate ==
    /\ listener = "update"
    /\ SendRecord
    /\ listener' = "idle"
    /\ UNCHANGED <<player, recordWorker, outgoingWorker, peerLock, peers, server>>

(* Variant: a peer is dropped whether it is known or not *)
NotifyFailureUnknown ==
    /\ listener = "failure"
    /\ peerLock = "free"
    /\ peerLock' = "failing"
    /\ UNCHANGED <<channels, player, recordWorker, outgoingWorker, listener,
                   peers, server>>

(* NotifyFailure takes peerLock and drops the peer, if it is one *)
NotifyFailure ==
    /\ listener = "failure"
    /\ peerLock = "free"
    /\ \/ /\ peers > 0
          /\ peerLock' = "failing"
          /\ UNCHANGED listener
       \/ /\ listener' = "idle"
          /\ UNCHANGED peerLock
    /\ UNCHANGED <<channels, player, recordWorker, outgoingWorker, peers, server>>

FailureDrops ==
    /\ peerLock = "failing"
    /\ SendRecord
    /\ peers' = peers - 1
    /\ peerLock' = "free"
    /\ listener' = "idle"
    /\ UNCHANGED <<player, recordWorker, outgoingWorker, server>>

(* Register looks under peerLock, dials without it, and enters under it *)
Register ==
    /\ listener = "register"
    /\ peerLock = "free"
    /\ listener' \in {"idle", "enter"}
    /\ UNCHANGED <<channels, player, recordWorker, outgoingWorker, peerLock,
                   peers, server>>

MorePeers == IF peers < MaxPeers THEN peers + 1 ELSE peers

EnterPeer ==
    /\ listener = "enter"
    /\ peerLock = "free"
    /\ peers' = MorePeers
    /\ listener' = "idle"
    /\ UNCHANGED <<channels, player, recordWorker, outgoingWorker, peerLock,
                   server>>

-----------------------------------------------------------------------------
(* The heartbeat workers, PeerWorker and Recover                              *)

(* A heartbeat worker whose Ping failed reports the peer ... *)
Disconnection ==
    /\ peerLock = "free"
    /\ peers > 0
    /\ peerLock' = "reporting"
    /\ UNCHANGED <<channels, player, recordWorker, outgoingWorker, listener,
                   peers, server>>

Report ==
    /\ peerLock = "reporting"
    /\ serverLock = "free"
    /\ peerLock' = "dropping"
    /\ UNCHANGED <<channels, player, recordWorker, outgoingWorker, listener,
                   peers, server>>

(* ... and drops it *)
DropPeer ==
    /\ peerLock = "dropping"
    /\ SendRecord
    /\ peers' = peers - 1
    /\ peerLock' = "free"
    /\ UNCHANGED <<player, recordWorker, outgoingWorker, listener, server>>

(* PeerWorker *)
AskPeers ==
    /\ peerLock = "free"
    /\ peers < MaxPeers
    /\ peerLock' = "asking"
    /\ UNCHANGED <<channels, player, recordWorker, outgoingWorker, listener,
                   peers, server>>

(* Variant: PeerWorker goes on without giving peerLock back *)
GetMorePeersLocked ==
    /\ peerLock = "asking"
    /\ serverLock = "free"
    /\ peers' \in {peers, MorePeers}
    /\ UNCHANGED <<channels, player, recordWorker, outgoingWorker, listener,
                   peerLock, server>>

GetMorePeers ==
    /\ peerLock = "asking"
    /\ serverLock = "free"
    /\ peers' \in {peers, MorePeers}
    /\ peerLock' = "free"
    /\ UNCHANGED <<channels, player, recordWorker, outgoingWorker, listener,
                   server>>

(* monitorConnections calls Recover under the server's lock *)
CallRecover ==
    /\ serverLock = "free"
    /\ recovers < MaxRecovers
    /\ recovers' = recovers + 1
    /\ serverLock' = "recover"
    /\ UNCHANGED <<channels, player, recordWorker, outgoingWorker, listener,
                   peerLock, peers>>

(* A call of Recover has its turn ... *)
Recover ==
    /\ recovers > 0
    /\ peerLock = "free"
    /\ peerLock' = "clearing"
    /\ UNCHANGED <<channels, player, recordWorker, outgoingWorker, listener,
                   peers, server>>

ClearPeer ==
    /\ peerLock = "clearing"
    /\ peers > 0
    /\ SendRecord
    /\ peers' = peers - 1
    /\ UNCHANGED <<player, recordWorker, outgoingWorker, listener, peerLock,
                   server>>

(* ... and ends: the server goes on if this was the call it waits for *)
Recovered ==
    /\ peerLock = "clearing"
    /\ peers = 0
    /\ peerLock' = "free"
    /\ recovers' = recovers - 1
    /\ serverLock' \in IF recovers = 1 THEN {"free"} ELSE {serverLock, "free"}
    /\ UNCHANGED <<channels, player, recordWorker, outgoingWorker, listener,
                   peers>>

(* Variant: Recover is called without a timeout *)
RecoverNoTimeout ==
    /\ serverLock = "recover" /\ recovers = 0
    /\ serverLock' = "free"
    /\ UNCHANGED <<channels, player, recordWorker, outgoingWorker, listener,
                   peerLock, peers, recovers>>

(* CONNECTIVITY_TIMEOUT: the server waits no longer, the call stays *)
RecoverTimeout ==
    /\ serverLock = "recover"
    /\ serverLock' = "free"
    /\ UNCHANGED <<channels, player, recordWorker, outgoingWorker, listener,
                   peerLock, peers, recovers>>

-----------------------------------------------------------------------------
Next ==
    \/ UpdateBullets \/ LocalInput \/ MainSends \/ AcceptUpdates \/ BotSends
    \/ TakeUpdate \/ ShowUpdate \/ PassUpdate \/ TakeOutgoing \/ SendOutgoing
    \/ Receive \/ NotifyUpdate \/ NotifyFailure \/ FailureDrops
    \/ Register \/ EnterPeer
    \/ Disconnection \/ Report \/ DropPeer \/ AskPeers \/ GetMorePeers
    \/ CallRecover \/ Recover \/ ClearPeer \/ Recovered \/ RecoverTimeout

Spec == Init /\ [][Next]_vars

(* Goroutines run, and calls time out. Senders that wait for a channel and    *)
(* goroutines that wait for a mutex are served in turn, so that what is free  *)
(* again and again is got.                                                    *)
Fairness ==
    /\ WF_vars(UpdateBullets \/ LocalInput \/ AcceptUpdates)
    /\ SF_vars(MainSends)
    /\ WF_vars(TakeUpdate \/ ShowUpdate \/ PassUpdate)
    /\ WF_vars(TakeOutgoing) /\ SF_vars(SendOutgoing)
    /\ SF_vars(FailureDrops \/ DropPeer \/ ClearPeer)
    /\ SF_vars(Report \/ GetMorePeers)
    /\ WF_vars(Recovered) /\ WF_vars(RecoverTimeout)

FairSpec == Spec /\ Fairness

-----------------------------------------------------------------------------
(* Properties                                                                 *)

(* Every variable keeps its type, and no channel holds more than its capacity *)
TypeOK ==
    /\ isBot \in BOOLEAN /\ alive \in BOOLEAN
    /\ recordUpdates \in 0..Cap
    /\ updateChannel \in 0..Cap
    /\ outgoingUpdates \in 0..Cap
    /\ mainThread \in Sends \cup {"bullets", "input", "accept"}
    /\ generateMoves \in {"move", "fire"}
    /\ recordWorker \in {"take", "show", "send"}
    /\ outgoingWorker \in {"take", "lock"}
    /\ listener \in {"idle", "update", "failure", "register", "enter"}
    /\ peerLock \in Removing \cup {"free", "reporting", "asking"}
    /\ peers \in 0..MaxPeers
    /\ recovers \in 0..MaxRecovers
    /\ serverLock \in {"free", "recover"}

(* The main thread waits for RecordWorker, which waits for the main thread *)
MainCycle ==
    /\ mainThread \in Sends /\ recordUpdates = Cap
    /\ recordWorker = "show" /\ updateChannel = Cap

(* A holder of peerLock waits for RecordWorker, which waits for               *)
(* OutgoingWorker, which waits for peerLock                                   *)
LockCycle ==
    /\ peerLock \in Removing /\ peers > 0 /\ recordUpdates = Cap
    /\ recordWorker = "send" /\ outgoingUpdates = Cap
    /\ outgoingWorker = "lock"

(* Nothing gets a client out of either cycle: what the others do, the server's*)
(* timeout included, takes nothing from a channel and does not free peerLock. *)
CyclesStay == [][(MainCycle => MainCycle') /\ (LockCycle => LockCycle')]_vars

(* Those are the only ways in which a client can come to a stop: in any other *)
(* case RecordWorker comes back to RecordUpdates again and again. A bot never *)
(* gets into the first, since its main thread sends nothing.                  *)
KeepsRecording ==
    \/ []<>(recordWorker = "take")
    \/ <>[](MainCycle /\ ~isBot)
    \/ <>[]LockCycle

(* peerLock comes free again and again, although the server waits for it      *)
(* (Recover) while its holder waits for the server (GetNodes, NotifyFailure), *)
(* unless the client has come to a stop.                                      *)
LockComesFree ==
    \/ []<>(peerLock = "free")
    \/ <>[](MainCycle \/ LockCycle)

=============================================================================
