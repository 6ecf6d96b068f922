---------------------------- MODULE WebSocketLink ---------------------------
(***************************************************************************)
(* The websocket between a tank node and the hub: WebSocketsClient::loop() *)
(* on the node, with its reconnections and heartbeats, and the hub's slot  *)
(* for it.  The hub sends no heartbeats of its own.                        *)
(*                                                                         *)
(* Both loops make thousands of passes a second and the timeouts are       *)
(* seconds: time passes only when nothing can be read.  The hub's loop     *)
(* stands still while a pump command waits for its answer (busy).          *)
(***************************************************************************)
EXTENDS Integers, Sequences

CONSTANTS
    PingInterval,           \* enableHeartbeat(15000, 3000, 2)
    PongTimeout,
    DisconnectTimeoutCount,
    ReconnectInterval,      \* setReconnectInterval(5000)
    TcpTimeout,             \* WEBSOCKETS_TCP_TIMEOUT
    Slots,                  \* WEBSOCKETS_SERVER_CLIENT_MAX
    MaxFaults               \* bound on resets, outages and pump commands

ASSUME IntervalsAssumption ==
    /\ PongTimeout \in Nat
    /\ PingInterval \in Nat
    /\ DisconnectTimeoutCount \in Nat
    /\ ReconnectInterval \in Nat \ {0}
    /\ TcpTimeout \in Nat
    /\ Slots \in Nat \ {0}
    /\ MaxFaults \in Nat

VARIABLES
    conn,               \* the client's TCP connection
    status,             \* _client.status
    connx_status,       \* the flag the sketch's callback keeps
    pongReceived, pongTimeoutCount,
    pingAge,            \* time since lastPing
    failAge,            \* time since _lastConnectionFail
    attemptAge,         \* time since the last attempt; since _lastHeaderSent in "header"
    toServer, toClient, \* frames sent and not read
    server,             \* the hub's end of the connection
    dead,               \* slots held by ends whose client is gone
    reachable, busy,    \* the node's WiFi and the hub's thread
    calm,               \* history: on this connection the hub was always there and free
    spurious,           \* history: calm connections the heartbeats dropped in a row
    faults

heartbeatVars == <<pongReceived, pongTimeoutCount, pingAge>>
clientVars    == <<conn, status, connx_status, heartbeatVars, failAge, attemptAge>>
lineVars      == <<toServer, toClient>>
hubVars       == <<server, dead, busy>>
historyVars   == <<calm, spurious>>
wsVars        == <<clientVars, lineVars, hubVars, reachable, historyVars, faults>>

\* An age counts up to one more than what it is compared with.
PingOverdue   == PingInterval + 1
AttemptCap    == ReconnectInterval + TcpTimeout + 1
Older(age, cap) == IF age < cap THEN age + 1 ELSE cap

Init ==
    /\ conn = "setup"
    /\ status = "none"
    /\ connx_status = FALSE
    /\ pongReceived = FALSE
    /\ pongTimeoutCount = 0
    /\ pingAge = 0
    /\ failAge = 0
    /\ attemptAge = AttemptCap
    /\ toServer = <<>>
    /\ toClient = <<>>
    /\ server = "gone"
    /\ dead = 0
    /\ reachable = TRUE
    /\ busy = FALSE
    /\ calm = FALSE
    /\ spurious = 0
    /\ faults = 0

-----------------------------------------------------------------------------
(* The client: one action is one pass of its loop().                        *)

\* setup() ends when the WiFi is there; millis() has counted since the reset,
\* and begin() sets every time to zero.
Boot ==
    /\ conn = "setup" /\ reachable
    /\ conn' = "none"
    /\ UNCHANGED <<status, connx_status, heartbeatVars, failAge, attemptAge,
                   lineVars, hubVars, reachable, historyVars, faults>>

\* The hub's end of a connection whose client said nothing keeps its slot.
Orphaned == IF server = "gone" \/ (server = "backlog" /\ dead = Slots) THEN dead ELSE dead + 1

\* Mutant: the callback is not called.
ClientDisconnectSilent ==
    /\ conn' = "none"
    /\ status' = "none"
    /\ UNCHANGED connx_status
    /\ failAge' = 0
    /\ toServer' = <<>>
    /\ toClient' = <<>>
    /\ server' = "gone"
    /\ dead' \in IF reachable THEN {dead} ELSE {dead, Orphaned}

\* Mutant: the time is not noted.
ClientDisconnectUntimed ==
    /\ conn' = "none"
    /\ status' = "none"
    /\ connx_status' = FALSE
    /\ UNCHANGED failAge
    /\ toServer' = <<>>
    /\ toClient' = <<>>
    /\ server' = "gone"
    /\ dead' \in IF reachable THEN {dead} ELSE {dead, Orphaned}

\* clientDisconnect, with the DISCONNECTED callback.  Without WiFi the end of
\* the connection may never come to the hub.
clientDisconnect ==
    /\ conn' = "none"
    /\ status' = "none"
    /\ connx_status' = FALSE
    /\ failAge' = 0
    /\ toServer' = <<>>
    /\ toClient' = <<>>
    /\ server' = "gone"
    /\ dead' \in IF reachable THEN {dead} ELSE {dead, Orphaned}

\* clientIsConnected, in loop() or in sendTXT: what is no longer connected is
\* cleaned up, a failed attempt as well.
NoticeLoss ==
    /\ conn \in {"failed", "closed"}
    /\ clientDisconnect
    /\ UNCHANGED <<heartbeatVars, attemptAge, busy, reachable, historyVars, faults>>

MayConnect == conn = "none" /\ failAge >= ReconnectInterval

\* Mutant: _lastHeaderSent is not noted.
ConnectHeaderUntimed ==
    /\ MayConnect /\ reachable
    /\ conn' = "up"
    /\ status' = "header"
    /\ toServer' = <<"upgrade">>
    /\ server' = "backlog"
    /\ failAge' = ReconnectInterval
    /\ calm' = ~busy
    /\ UNCHANGED <<connx_status, heartbeatVars, attemptAge, toClient, dead, busy, reachable,
                   spurious, faults>>

\* connect() and connectedCb.  The hub's TCP takes the connection even while
\* its thread is busy.  _lastConnectionFail = 0 is long ago.
Connect ==
    /\ MayConnect /\ reachable
    /\ conn' = "up"
    /\ status' = "header"
    /\ toServer' = <<"upgrade">>
    /\ server' = "backlog"
    /\ failAge' = ReconnectInterval
    /\ attemptAge' = 0
    /\ calm' = ~busy
    /\ UNCHANGED <<connx_status, heartbeatVars, toClient, dead, busy, reachable, spurious, faults>>

ConnectFails ==
    /\ MayConnect /\ (busy \/ ~reachable)
    /\ conn' = "failed"
    /\ failAge' = 0
    /\ attemptAge' = 0
    /\ UNCHANGED <<status, connx_status, heartbeatVars, lineVars, hubVars, reachable,
                   historyVars, faults>>

HeaderLate == status = "header" /\ attemptAge > TcpTimeout

HeaderTimeout ==
    /\ conn = "up" /\ HeaderLate
    /\ clientDisconnect
    /\ UNCHANGED <<heartbeatVars, attemptAge, busy, reachable, historyVars, faults>>

\* handleClientData reads one frame; the heartbeat is looked at after it.
Frame           == IF toClient = <<>> THEN "nothing" ELSE Head(toClient)
StatusAfterRead ==
    CASE Frame = "accept" -> "connected"
      [] Frame = "close"  -> "none"
      [] OTHER            -> status
PongAfterRead   == pongReceived \/ Frame = "pong"
Answer          == IF Frame = "ping" THEN <<"pong">> ELSE <<>>

\* What is sent to a peer that is gone is read by nobody.
Send(frames) == toServer' = IF server = "gone" THEN toServer ELSE toServer \o frames

ReadFrame ==
    /\ toClient' = IF toClient = <<>> THEN toClient ELSE Tail(toClient)
    /\ status' = StatusAfterRead
    /\ connx_status' = (connx_status \/ Frame = "accept")
    /\ UNCHANGED <<conn, failAge, attemptAge, server, dead>>

\* The hub has closed: its answer, a close frame, goes to nobody.
ReadClose ==
    /\ conn = "up" /\ ~HeaderLate
    /\ Frame = "close"
    /\ clientDisconnect
    /\ UNCHANGED <<heartbeatVars, attemptAge, busy, reachable, historyVars, faults>>

Beats    == conn = "up" /\ ~HeaderLate /\ StatusAfterRead = "connected"
PingDue  == pingAge > PingInterval
PongLate == ~PongAfterRead /\ pingAge > PongTimeout

\* Mutant: a timeout is not counted.
NoMore == pongTimeoutCount

\* pongTimeoutCount is a uint8_t.
OneMore  == (pongTimeoutCount + 1) % 256
TooMany  == DisconnectTimeoutCount # 0 /\ OneMore >= DisconnectTimeoutCount

\* Mutant: the next ping waits for its interval.
ForcePingLater == 0

\* lastPing is set back by more than the interval.
ForcePing == PingOverdue

\* handleHBPing sends one; a pong read in this very pass is forgotten.
PingPass ==
    /\ Beats /\ PingDue
    /\ ReadFrame
    /\ Send(Append(Answer, "ping"))
    /\ pingAge' = 0
    /\ pongReceived' = FALSE
    /\ UNCHANGED <<pongTimeoutCount, busy, reachable, historyVars, faults>>

\* The ping cannot be sent: disconnected, and handleHBTimeout still runs.
PingFails ==
    /\ Beats /\ PingDue
    /\ server = "gone"
    /\ clientDisconnect
    /\ pongReceived' = PongAfterRead
    /\ pongTimeoutCount' = IF PongAfterRead THEN 0 ELSE OneMore
    /\ UNCHANGED <<pingAge, attemptAge, busy, reachable, historyVars, faults>>

QuietPass ==
    /\ Beats /\ ~PingDue /\ ~PongLate
    /\ ReadFrame
    /\ Send(Answer)
    /\ pongReceived' = PongAfterRead
    /\ pongTimeoutCount' = IF PongAfterRead THEN 0 ELSE pongTimeoutCount
    /\ spurious' = IF PongAfterRead THEN 0 ELSE spurious
    /\ UNCHANGED <<pingAge, busy, reachable, calm, faults>>

\* handleHBTimeout: no pong in time.
TimeoutPass ==
    /\ Beats /\ ~PingDue /\ PongLate /\ ~TooMany
    /\ ReadFrame
    /\ Send(Answer)
    /\ pongTimeoutCount' = OneMore
    /\ pingAge' = ForcePing
    /\ UNCHANGED <<pongReceived, busy, reachable, historyVars, faults>>

HeartbeatDrops ==
    /\ Beats /\ ~PingDue /\ PongLate /\ TooMany
    /\ clientDisconnect
    /\ pongTimeoutCount' = OneMore
    /\ pingAge' = ForcePing
    /\ spurious' = IF calm THEN spurious + 1 ELSE spurious
    /\ UNCHANGED <<pongReceived, attemptAge, busy, reachable, calm, faults>>

-----------------------------------------------------------------------------
(* The hub: handleNewClients and handleClientData of its slot.              *)

HubRuns == reachable /\ ~busy

HubAccepts ==
    /\ HubRuns /\ server = "backlog" /\ dead < Slots
    /\ server' = "header"
    /\ UNCHANGED <<clientVars, lineVars, dead, busy, reachable, historyVars, faults>>

\* Mutant: nobody is turned away.
HubTakesAll ==
    /\ HubRuns /\ server = "backlog" /\ dead = Slots
    /\ server' = "header"
    /\ UNCHANGED <<clientVars, lineVars, dead, busy, reachable, historyVars, faults>>

\* No free slot: the connection is closed at once.
HubRefuses ==
    /\ HubRuns /\ server = "backlog" /\ dead = Slots
    /\ server' = "gone"
    /\ conn' = "closed"
    /\ toServer' = <<>>
    /\ UNCHANGED <<status, connx_status, heartbeatVars, failAge, attemptAge, toClient, dead,
                   busy, reachable, historyVars, faults>>

\* handleHeader: the answer, and a first ping.
HubUpgrades ==
    /\ HubRuns /\ server = "header" /\ toServer # <<>>
    /\ server' = "connected"
    /\ toServer' = Tail(toServer)
    /\ toClient' = toClient \o <<"accept", "ping">>
    /\ UNCHANGED <<clientVars, dead, busy, reachable, historyVars, faults>>

HubReads ==
    /\ HubRuns /\ server = "connected" /\ toServer # <<>>
    /\ toServer' = Tail(toServer)
    /\ toClient' = IF Head(toServer) = "ping" THEN Append(toClient, "pong") ELSE toClient
    /\ UNCHANGED <<clientVars, hubVars, reachable, historyVars, faults>>

-----------------------------------------------------------------------------
(* Time and faults.                                                         *)

\* Nothing can be read or is to be sent.
Settled ==
    /\ toClient = <<>>
    /\ Beats => ~PingDue /\ ~PongLate
    /\ HubRuns => server # "backlog" /\ toServer = <<>>

Tick ==
    /\ Settled
    /\ pingAge' = Older(pingAge, PingOverdue)
    /\ failAge' = Older(failAge, ReconnectInterval)
    /\ attemptAge' = Older(attemptAge, AttemptCap)
    /\ UNCHANGED <<conn, status, connx_status, pongReceived, pongTimeoutCount,
                   lineVars, hubVars, reachable, historyVars, faults>>

Fault == faults < MaxFaults /\ faults' = faults + 1

\* After a fault a connection may be lost, however well the hub answers again.
NotCalm == calm' = FALSE /\ spurious' = 0

\* A pump command waits for the board; it may wait for ever.
PumpCommand ==
    /\ Fault /\ ~busy
    /\ busy' = TRUE
    /\ NotCalm
    /\ UNCHANGED <<clientVars, lineVars, server, dead, reachable>>

PumpAnswered ==
    /\ busy
    /\ busy' = FALSE
    /\ UNCHANGED <<clientVars, lineVars, server, dead, reachable, historyVars, faults>>

WiFiLost ==
    /\ Fault /\ reachable
    /\ reachable' = FALSE
    /\ NotCalm
    /\ UNCHANGED <<clientVars, lineVars, hubVars>>

WiFiBack ==
    /\ ~reachable
    /\ reachable' = TRUE
    /\ UNCHANGED <<clientVars, lineVars, hubVars, historyVars, faults>>

\* The hub resets, and the network it provides with it.
HubReset ==
    /\ Fault
    /\ reachable' = FALSE
    /\ busy' = FALSE
    /\ server' = "gone"
    /\ dead' = 0
    /\ toServer' = <<>>
    /\ NotCalm
    /\ UNCHANGED <<clientVars, toClient>>

\* The node's TCP gives up, or is told that its peer is gone.
TcpGivesUp ==
    /\ conn = "up" /\ (server = "gone" \/ ~reachable)
    /\ conn' = "closed"
    /\ toServer' = <<>>
    /\ toClient' = <<>>
    /\ server' = "gone"
    /\ dead' = Orphaned
    /\ UNCHANGED <<status, connx_status, heartbeatVars, failAge, attemptAge, busy, reachable,
                   historyVars, faults>>

\* ESP.reset() or a power failure: the hub is not told.
NodeReset ==
    /\ Fault
    /\ conn' = "setup"
    /\ status' = "none"
    /\ connx_status' = FALSE
    /\ pongReceived' = FALSE
    /\ pongTimeoutCount' = 0
    /\ pingAge' = 0
    /\ failAge' = 0
    /\ toServer' = <<>>
    /\ toClient' = <<>>
    /\ server' = "gone"
    /\ dead' = Orphaned
    /\ NotCalm
    /\ UNCHANGED <<attemptAge, busy, reachable>>

\* The hub disconnects the slot of a tank it has not heard of for long: the
\* slot may be held by an end whose client is gone ...
SlotFreed ==
    /\ HubRuns /\ dead > 0
    /\ dead' = dead - 1
    /\ UNCHANGED <<clientVars, lineVars, server, busy, reachable, historyVars, faults>>

\* ... or by this very node, silent or not: the number kept for a tank may be
\* that of a slot given on to another.  A client that has been upgraded is sent
\* a close frame, and can read what was sent to it before.
HubDisconnects ==
    /\ HubRuns /\ server \in {"header", "connected"}
    /\ server' = "gone"
    /\ toServer' = <<>>
    /\ IF server = "connected" THEN toClient' = Append(toClient, "close") /\ UNCHANGED conn
                               ELSE conn' = "closed" /\ UNCHANGED toClient
    /\ NotCalm
    /\ UNCHANGED <<status, connx_status, heartbeatVars, failAge, attemptAge, dead, busy,
                   reachable, faults>>

-----------------------------------------------------------------------------
ClientLoop ==
    \/ Boot
    \/ NoticeLoss
    \/ Connect
    \/ ConnectFails
    \/ HeaderTimeout
    \/ ReadClose
    \/ PingPass
    \/ PingFails
    \/ QuietPass
    \/ TimeoutPass
    \/ HeartbeatDrops

HubLoop == HubAccepts \/ HubRefuses \/ HubUpgrades \/ HubReads

Environment ==
    \/ PumpCommand \/ PumpAnswered
    \/ WiFiLost \/ WiFiBack
    \/ HubReset \/ NodeReset
    \/ TcpGivesUp
    \/ SlotFreed \/ HubDisconnects

Next == ClientLoop \/ HubLoop \/ Tick \/ Environment

Spec == Init /\ [][Next]_wsVars

(* Both loops run and time passes.  Nothing is assumed of the WiFi, of the  *)
(* pump's answer, or of TCP noticing a dead peer.                           *)
Fairness == WF_wsVars(ClientLoop) /\ WF_wsVars(HubLoop) /\ WF_wsVars(Tick)

FairSpec == Spec /\ Fairness

-----------------------------------------------------------------------------
TypeOK ==
    /\ conn \in {"setup", "none", "failed", "up", "closed"}
    /\ status \in {"none", "header", "connected"}
    /\ connx_status \in BOOLEAN
    /\ pongReceived \in BOOLEAN
    /\ pongTimeoutCount \in 0..255
    /\ pingAge \in 0..PingOverdue
    /\ failAge \in 0..ReconnectInterval
    /\ attemptAge \in 0..AttemptCap
    /\ toServer \in Seq({"upgrade", "ping", "pong"})
    /\ toClient \in Seq({"accept", "ping", "pong", "close"})
    /\ server \in {"gone", "backlog", "header", "connected"}
    /\ dead \in 0..Slots
    /\ reachable \in BOOLEAN
    /\ busy \in BOOLEAN
    /\ calm \in BOOLEAN
    /\ spurious \in Nat
    /\ faults \in 0..MaxFaults

(* The sketch sends reports while connx_status is set and counts down to a  *)
(* reset while it is not (websocket_clientJ_tanky.ino, lines 181 and 190):  *)
(* it is the library's status, however a connection began or ended.         *)
StatusIsReported == connx_status <=> status = "connected"

(* "do not flood the server" (WebSocketsClient.cpp, line 208): between two  *)
(* attempts there is the reconnect interval, also when the first succeeded, *)
(* and across resets of the node.                                           *)
DoesNotFlood ==
    [][conn = "none" /\ conn' \in {"up", "failed"} => attemptAge >= ReconnectInterval]_wsVars

(* The counters of the heartbeat outlive a connection, so a connection to a *)
(* hub that answers at once may be dropped; but not the next one as well.   *)
DropsAtMostOnce == spurious <= 1

(* A peer that is gone without a word is noticed, by the heartbeat or by    *)
(* the wait for the header.                                                 *)
GonePeerIsNoticed == conn = "up" /\ server = "gone" ~> ~(conn = "up" /\ server = "gone")

(* The wait for the hub's header ends, though its thread may be busy for    *)
(* ever.                                                                    *)
HeaderWaitEnds == status = "header" ~> status # "header"

(* Neither a dead peer nor a hub that does not answer keeps the node's       *)
(* connection for ever.                                                     *)
DeadEndsAreLeft == GonePeerIsNoticed /\ HeaderWaitEnds

(* With WiFi, a hub that runs and a slot that is free, the node is          *)
(* connected in the end and stays so, unless the hub disconnects it again   *)
(* and again.                                                               *)
StaysConnected ==
    <>[](HubRuns /\ dead < Slots) => <>[]connx_status \/ []<><<HubDisconnects>>_wsVars

=============================================================================
