----------------------------- MODULE ClockSync -----------------------------
(* The clock values behind syncClocks (server.go): the Berkeley algorithm     *)
(* with the server as master, over the offset clocks of clocklib.             *)
(*                                                                            *)
(* Raw clocks run at one rate, so only their differences matter: Skew[c] is   *)
(* how far c's raw clock is ahead of the server's. A round measures every     *)
(* connected client in turn, averages, and sets every client's offset and at  *)
(* last the server's own. Connections change between rounds only, because a   *)
(* round holds the lock of the connections (TankServer!SpreadIsMeasured); a   *)
(* round may be long after the Connect that asked for it.                     *)
EXTENDS Integers

CONSTANTS
    Client,     \* the clients
    Skew,       \* their raw clocks against the server's
    MaxDelay,   \* bound on the delay of a message
    MaxRounds   \* bound on the rounds

ASSUME SyncAssumption ==
    /\ Skew \in [Client -> Int]
    /\ MaxDelay \in Nat
    /\ MaxRounds \in Nat

VARIABLES
    connected,     \* the clients whose status is CONNECTED
    failed,        \* those no longer CONNECTED whose process goes on
    due,           \* the goroutines syncClocks that wait for the lock
    offset,        \* offset[c]: what the client's ClockManager adds
    serverOffset,  \* what the server's adds
    phase,         \* "idle", "measuring" or "spreading"
    todo,          \* the clients the current loop has still to visit
    measured,      \* measured[c]: the server's map m
    total, num,    \* offsetTotal and offsetNum
    average,       \* offsetAverage
    rounds,        \* rounds asked for so far
    synced,        \* the clients of the last round that are still there (history)
    before         \* before[c]: c's offset when it was measured (history)

connVars  == <<connected, failed, due, rounds>>
roundVars == <<phase, todo, measured, total, num, average, before>>
vars == <<connVars, roundVars, offset, serverOffset, synced>>

(* Go divides integers towards zero *)
Quot(a, n) == IF a >= 0 THEN a \div n ELSE -((-a) \div n)

(* The client's clock against the server's *)
Difference(c) == Skew[c] + offset[c] - serverOffset

Init ==
    /\ connected = {} /\ failed = {}
    /\ due = 0
    /\ offset = [c \in Client |-> 0]
    /\ serverOffset = 0
    /\ phase = "idle" /\ todo = {}
    /\ measured = [c \in Client |-> 0]
    /\ total = 0 /\ num = 1 /\ average = 0
    /\ rounds = 0
    /\ synced = {}
    /\ before = [c \in Client |-> 0]

-----------------------------------------------------------------------------
(* A client connects, as a new process with the offset 0, and asks for a round*)
Connect(c) ==
    /\ phase = "idle"
    /\ rounds < MaxRounds
    /\ c \notin connected
    /\ connected' = connected \cup {c}
    /\ failed' = failed \ {c}
    /\ due' = due + 1
    /\ rounds' = rounds + 1
    /\ offset' = [offset EXCEPT ![c] = 0]
    /\ UNCHANGED <<roundVars, serverOffset, synced>>

(* Disconnect, or NotifyFailure about a process that is gone *)
Leave(c) ==
    /\ phase = "idle"
    /\ c \in connected
    /\ connected' = connected \ {c}
    /\ synced' = synced \ {c}
    /\ UNCHANGED <<failed, due, rounds, roundVars, offset, serverOffset>>

(* NotifyFailure about a process that goes on, and the GetNodes that makes it *)
(* CONNECTED again after monitorConnections reached it: no round is asked for *)
Fail(c) ==
    /\ phase = "idle"
    /\ c \in connected
    /\ connected' = connected \ {c}
    /\ failed' = failed \cup {c}
    /\ synced' = synced \ {c}
    /\ UNCHANGED <<due, rounds, roundVars, offset, serverOffset>>
Reconnect(c) ==
    /\ phase = "idle"
    /\ c \in failed
    /\ failed' = failed \ {c}
    /\ connected' = connected \cup {c}
    /\ UNCHANGED <<due, rounds, roundVars, offset, serverOffset, synced>>

(* Variant for the mutants: the master is not counted *)
StartRoundUncounted ==
    /\ phase = "idle"
    /\ due > 0
    /\ due' = due - 1
    /\ phase' = "measuring" /\ todo' = connected
    /\ measured' = [c \in Client |-> 0]
    /\ total' = serverOffset /\ num' = 0
    /\ synced' = {}
    /\ UNCHANGED <<connected, failed, rounds, average, before, offset,
                   serverOffset>>

(* syncClocks gets the lock. Its total starts with the server's own offset and*)
(* its count with the server; nobody may be CONNECTED any more.               *)
StartRound ==
    /\ phase = "idle"
    /\ due > 0
    /\ due' = due - 1
    /\ phase' = "measuring" /\ todo' = connected
    /\ measured' = [c \in Client |-> 0]
    /\ total' = serverOffset /\ num' = 1
    /\ synced' = {}
    /\ UNCHANGED <<connected, failed, rounds, average, before, offset,
                   serverOffset>>

(* What the server takes for c's offset when its request needs d1 and the     *)
(* answer d2: half the round trip is added to the time c read. Times count    *)
(* from the moment the server's raw clock shows 0 and the request leaves.     *)
ClientOffset(c, d1, d2) ==
    LET sent  == serverOffset
        t     == d1 + Skew[c] + offset[c]
        after == d1 + d2 + serverOffset
    IN  t + Quot(after - sent, 2) - after

(* Variant: the client is not counted *)
MeasureUncounted(c, d1, d2) ==
    /\ phase = "measuring"
    /\ c \in todo
    /\ todo' = todo \ {c}
    /\ measured' = [measured EXCEPT ![c] = ClientOffset(c, d1, d2)]
    /\ before' = [before EXCEPT ![c] = offset[c]]
    /\ total' = total + ClientOffset(c, d1, d2)
    /\ UNCHANGED <<connVars, offset, serverOffset, phase, average, synced, num>>

Measure(c, d1, d2) ==
    /\ phase = "measuring"
    /\ c \in todo
    /\ todo' = todo \ {c}
    /\ measured' = [measured EXCEPT ![c] = ClientOffset(c, d1, d2)]
    /\ before' = [before EXCEPT ![c] = offset[c]]
    /\ total' = total + ClientOffset(c, d1, d2)
    /\ num' = num + 1
    /\ UNCHANGED <<connVars, offset, serverOffset, phase, average, synced>>

Average ==
    /\ phase = "measuring"
    /\ todo = {}
    /\ average' = Quot(total, num)
    /\ phase' = "spreading" /\ todo' = connected
    /\ UNCHANGED <<connVars, offset, serverOffset, measured, total, num, synced,
                   before>>

(* Variant: the average is forgotten *)
SetOffsetBack(c) ==
    /\ phase = "spreading"
    /\ c \in todo
    /\ todo' = todo \ {c}
    /\ offset' = [offset EXCEPT ![c] = -measured[c]]
    /\ UNCHANGED <<connVars, serverOffset, phase, measured, total, num, average,
                   synced, before>>

(* The client's ClockManager replaces its offset by the one it is sent *)
SetOffset(c) ==
    /\ phase = "spreading"
    /\ c \in todo
    /\ todo' = todo \ {c}
    /\ offset' = [offset EXCEPT ![c] = average - measured[c]]
    /\ UNCHANGED <<connVars, serverOffset, phase, measured, total, num, average,
                   synced, before>>

(* The server adds the average to its own *)
Finish ==
    /\ phase = "spreading"
    /\ todo = {}
    /\ serverOffset' = serverOffset + average
    /\ phase' = "idle"
    /\ synced' = connected
    /\ UNCHANGED <<connVars, offset, todo, measured, total, num, average, before>>

Next ==
    \/ \E c \in Client : \/ Connect(c) \/ Leave(c) \/ Fail(c) \/ Reconnect(c)
                         \/ \E d1, d2 \in 0..MaxDelay : Measure(c, d1, d2)
                         \/ SetOffset(c)
    \/ StartRound
    \/ Average
    \/ Finish

Spec == Init /\ [][Next]_vars

-----------------------------------------------------------------------------
(* Properties                                                                 *)

(* Every variable keeps its type; the divisor of the average is never 0. *)
TypeOK ==
    /\ connected \subseteq Client /\ failed \subseteq Client
    /\ due \in Nat
    /\ offset \in [Client -> Int]
    /\ serverOffset \in Int
    /\ phase \in {"idle", "measuring", "spreading"}
    /\ todo \subseteq Client
    /\ measured \in [Client -> Int]
    /\ total \in Int /\ num \in Nat \ {0} /\ average \in Int
    /\ rounds \in Nat
    /\ synced \subseteq Client
    /\ before \in [Client -> Int]

(* How far a measurement can be off *)
HalfTrip == (MaxDelay + 1) \div 2

(* REPORT.md:38 for the first round of a client (its offset was 0): its clock *)
(* then agrees with the server's to within half a round trip, although other  *)
(* clients' rounds moved the server's clock before.                           *)
FirstRoundSynchronises ==
    \A c \in synced : before[c] = 0 => /\ Difference(c) <= HalfTrip
                                       /\ Difference(c) >= -HalfTrip

(* The clocks that a round has measured, as they were: the server's own, which*)
(* is not set yet, and the clients'                                           *)
Clocks == {0} \cup {Skew[c] + before[c] : c \in connected}

(* REPORT.md:38, "calculates the average time": while the server's own clock  *)
(* is still unset, a round brings it to a time between the earliest and the   *)
(* latest of the clocks, to within half a round trip, whatever the order of   *)
(* the clients, the delays and the rounding of the division.                  *)
AverageIsBetween ==
    [][phase = "spreading" /\ phase' = "idle" /\ serverOffset = 0 =>
         \E lo, hi \in Clocks : /\ lo - HalfTrip <= serverOffset'
                               /\ serverOffset' <= hi + HalfTrip]_vars

(* REPORT.md:38 and 95 for every round: the offset that the server sends a    *)
(* client synchronises its clock. Not so from the client's second round on:   *)
(* its measurement includes the offset it has, which SetOffset replaces.      *)
RoundSynchronises ==
    \A c \in synced : /\ Difference(c) <= HalfTrip
                      /\ Difference(c) >= -HalfTrip

=============================================================================
