------------------------------- MODULE TankHub ------------------------------
(***************************************************************************)
(* The WiFi module that serves the tanks and the phone app                 *)
(* (websocket_pump_itx_tanky.ino) on top of the websocket server of        *)
(* libraries/WebSockets, and commands the pump board over PumpLink.        *)
(*                                                                         *)
(* One thread runs loop(): webSocket.loop() accepts clients and then reads *)
(* at most one frame of each client slot; is_tanks_connected and           *)
(* pump_operator look at the tank table; send_data_to_app reports to the   *)
(* app.  A pump command, whether it comes from pump_operator or from a     *)
(* frame of the app, stops this thread until the board has answered, while *)
(* the clients outside go on sending, leaving and dying.                   *)
(*                                                                         *)
(* The link is untouched: every step here is a step of PumpLink or leaves  *)
(* its variables alone.                                                    *)
(***************************************************************************)
EXTENDS PumpLink, FiniteSets

CONSTANTS
    Apps,               \* the phones
    NoPeer,             \* nobody is at the other end
    NumSlots,           \* WEBSOCKETS_SERVER_CLIENT_MAX
    Levels,             \* the percentages a tank may report
    DisconnectAfter,    \* disconnect_count_value, in passes of loop()
    SendAfter,          \* send_data_after, in passes of loop()
    MaxInbox,           \* bound on the unread frames of a connection
    MaxBreaks           \* bound on connections lost or peers vanished

ASSUME PeersAssumption ==
    NoPeer \notin Valves /\ NoPeer \notin Apps /\ Apps \cap Valves = {}

ASSUME HubBoundsAssumption ==
    /\ NumSlots \in Nat \ {0}
    /\ Levels \subseteq Int
    /\ DisconnectAfter \in Nat
    /\ SendAfter \in Nat
    /\ MaxInbox \in Nat
    /\ MaxBreaks \in Nat

VARIABLES
    phase,              \* where in loop() the thread is
    slot,               \* the client slot handleClientData looks at next
    conn,               \* per slot: "free", "open", "lost" (closed by the peer)
    owner,              \* per slot: who is really at the other end
    inbox,              \* per slot: frames not yet read
    tank,               \* tankArray, indexed by valve number
    app_num,            \* APP.websock_num
    data_flag,
    breaks

serverVars == <<slot, conn, owner, inbox>>
hubVariables == <<phase, slot, conn, owner, inbox, tank, app_num, data_flag, breaks>>
allVars == <<vars, hubVariables>>

def_web_no   == -1
OnCondition  == 75
OffCondition == 100

Slots == 0 .. NumSlots - 1
Peers == Valves \cup Apps

Report(t, l) == [kind |-> "report", valve |-> t, level |-> l]
Hello        == [kind |-> "hello", valve |-> NoValve, level |-> 0]
AppOn(v)     == [kind |-> "on", valve |-> v, level |-> 0]
AppOff       == [kind |-> "off", valve |-> NoValve, level |-> 0]

(* The frames a peer sends.                                                 *)
FramesOf(p) ==
    IF p \in Valves THEN {Report(p, l) : l \in Levels}
    ELSE {Hello, AppOff} \cup {AppOn(v) : v \in Requests}

Frames == UNION {FramesOf(p) : p \in Peers}

(* A tank that has never reported: the empty level reads as 0.              *)
UnknownTank == [level |-> 0, websock_num |-> def_web_no, disconnect_count |-> 0]

IsConnected(t) == tank[t].websock_num # def_web_no

HubInit ==
    /\ Init
    /\ phase = "accept"
    /\ slot = 0
    /\ conn = [s \in Slots |-> "free"]
    /\ owner = [s \in Slots |-> NoPeer]
    /\ inbox = [s \in Slots |-> <<>>]
    /\ tank = [t \in Valves |-> UnknownTank]
    /\ app_num = def_web_no
    /\ data_flag = SendAfter
    /\ breaks = 0

-----------------------------------------------------------------------------
(* The websocket server.                                                    *)

(* clientIsConnected: a connection the peer has closed still counts while   *)
(* it holds unread data; one that is really over is cleaned up on the spot. *)
Connected(s) == conn[s] = "open" \/ (conn[s] = "lost" /\ inbox[s] # <<>>)

(* Mutant: webSocketEvent ignores DISCONNECTED.                             *)
FreedUnnoticed(S) ==
    /\ conn'  = [s \in Slots |-> IF s \in S THEN "free" ELSE conn[s]]
    /\ owner' = [s \in Slots |-> IF s \in S THEN NoPeer ELSE owner[s]]
    /\ inbox' = [s \in Slots |-> IF s \in S THEN <<>> ELSE inbox[s]]
    /\ UNCHANGED app_num

(* clientDisconnect of a set of slots: their entries are free again, and    *)
(* webSocketEvent(DISCONNECTED) forgets the app, and only the app.          *)
Freed(S) ==
    /\ conn'  = [s \in Slots |-> IF s \in S THEN "free" ELSE conn[s]]
    /\ owner' = [s \in Slots |-> IF s \in S THEN NoPeer ELSE owner[s]]
    /\ inbox' = [s \in Slots |-> IF s \in S THEN <<>> ELSE inbox[s]]
    /\ app_num' = IF app_num \in {s \in S : conn[s] # "free"}
                  THEN def_web_no ELSE app_num

Overdue == {s \in Slots : conn[s] = "lost" /\ ~Connected(s)}

(* newClient: the first slot that is not connected.  The slots before it    *)
(* are connected, so at most its own old connection is cleaned up.  When    *)
(* every slot is taken the caller is turned away.                           *)
Accept(p) ==
    /\ pc = "loop" /\ phase = "accept"
    /\ \A s \in Slots : owner[s] # p
    /\ \E s \in Slots :
         /\ ~Connected(s)
         /\ \A r \in 0..(s - 1) : Connected(r)
         /\ conn'  = [conn  EXCEPT ![s] = "open"]
         /\ owner' = [owner EXCEPT ![s] = p]
         /\ app_num' = IF app_num = s /\ conn[s] = "lost" THEN def_web_no ELSE app_num
    /\ UNCHANGED <<vars, phase, slot, inbox, tank, data_flag, breaks>>

AcceptDone ==
    /\ pc = "loop" /\ phase = "accept"
    /\ phase' = "clients"
    /\ slot' = 0
    /\ UNCHANGED <<vars, conn, owner, inbox, tank, app_num, data_flag, breaks>>

NextSlot ==
    /\ slot' = IF slot + 1 \in Slots THEN slot + 1 ELSE 0
    /\ phase' = IF slot + 1 \in Slots THEN "clients" ELSE "operate"

ReadFrame(kind) ==
    /\ pc = "loop" /\ phase = "clients"
    /\ inbox[slot] # <<>>
    /\ Head(inbox[slot]).kind = kind
    /\ NextSlot

Popped == inbox' = [inbox EXCEPT ![slot] = Tail(@)]

(* Nothing to read in this slot, or a lost connection to clean up.          *)
SkipSlot ==
    /\ pc = "loop" /\ phase = "clients"
    /\ inbox[slot] = <<>>
    /\ NextSlot
    /\ Freed({slot} \cap Overdue)
    /\ UNCHANGED <<vars, tank, data_flag, breaks>>

-----------------------------------------------------------------------------
(* webSocketEvent(TEXT).                                                    *)

update_tank_data ==
    /\ ReadFrame("report")
    /\ Popped
    /\ LET f == Head(inbox[slot])
       IN  tank' = [tank EXCEPT ![f.valve] =
                      [level |-> f.level, websock_num |-> slot,
                       disconnect_count |-> DisconnectAfter]]
    /\ UNCHANGED <<vars, conn, owner, app_num, data_flag, breaks>>

(* "6,app".  There is one app; whoever says hello while it is registered,   *)
(* the registered app included, is disconnected.                            *)
RegisterApp ==
    /\ ReadFrame("hello")
    /\ app_num = def_web_no
    /\ app_num' = slot
    /\ Popped
    /\ UNCHANGED <<vars, conn, owner, tank, data_flag, breaks>>

RefuseApp ==
    /\ ReadFrame("hello")
    /\ app_num # def_web_no
    /\ Freed({slot})
    /\ UNCHANGED <<vars, tank, data_flag, breaks>>

(* on_of_from_app, from any client.                                         *)
AppStarts ==
    /\ ReadFrame("on")
    /\ Popped
    /\ please_on_the_pump(Head(inbox[slot]).valve)
    /\ UNCHANGED <<conn, owner, tank, app_num, data_flag, breaks>>

AppStops ==
    /\ ReadFrame("off")
    /\ Popped
    /\ please_off_the_pump
    /\ UNCHANGED <<conn, owner, tank, app_num, data_flag, breaks>>

AppIgnored ==
    /\ \/ ReadFrame("on") /\ OnValve # default_no
       \/ ReadFrame("off") /\ OnValve = default_no
    /\ Popped
    /\ UNCHANGED <<vars, conn, owner, tank, app_num, data_flag, breaks>>

-----------------------------------------------------------------------------
(* is_tanks_connected: a tank that has been silent for too long is marked   *)
(* disconnected, and whoever holds the slot it last reported on is thrown   *)
(* out.                                                                     *)
(* Mutant: the count is let run below zero.                                 *)
SilentTooLate == {t \in Valves : IsConnected(t) /\ tank[t].disconnect_count < 0}

Silent == {t \in Valves : IsConnected(t) /\ tank[t].disconnect_count <= 0}

(* Mutant: the slot is thrown out but the tank not marked.                  *)
TankStaysMarked(t) ==
    IF IsConnected(t) /\ t \notin Silent
    THEN [tank[t] EXCEPT !.disconnect_count = @ - 1] ELSE tank[t]

TankAfterCheck(t) ==
    IF t \in Silent THEN [tank[t] EXCEPT !.websock_num = def_web_no]
    ELSE IF IsConnected(t) THEN [tank[t] EXCEPT !.disconnect_count = @ - 1]
    ELSE tank[t]

is_tanks_connected ==
    /\ tank' = [t \in Valves |-> TankAfterCheck(t)]
    /\ Freed({tank[t].websock_num : t \in Silent})

(* pump_operator, on the table is_tanks_connected leaves.                   *)
(* Mutants: boundaries missed, a tank that is not heard of started, and one *)
(* that went silent not stopped.                                            *)
LowStrictly(t)  == tank'[t].level < OnCondition /\ tank'[t].websock_num # def_web_no
LowUnheard(t)   == tank'[t].level <= OnCondition
OverStrictly(t) == tank'[t].level > OffCondition \/ tank'[t].websock_num = def_web_no
OverLevelOnly(t) == tank'[t].level >= OffCondition

Low(t)  == tank'[t].level <= OnCondition /\ tank'[t].websock_num # def_web_no
Over(t) == tank'[t].level >= OffCondition \/ tank'[t].websock_num = def_web_no

OperatorStarts ==
    \E t \in Valves :
      /\ Low(t)
      /\ \A u \in Valves : u < t => ~Low(u)
      /\ please_on_the_pump(t)

OperatorStops ==
    /\ OnValve # default_no
    /\ Over(OnValve)
    /\ please_off_the_pump

OperatorWaits ==
    /\ IF OnValve = default_no THEN \A t \in Valves : ~Low(t)
                               ELSE ~Over(OnValve)
    /\ UNCHANGED vars

Operate ==
    /\ pc = "loop" /\ phase = "operate"
    /\ is_tanks_connected
    /\ OperatorStarts \/ OperatorStops \/ OperatorWaits
    /\ phase' = "send"
    /\ UNCHANGED <<slot, data_flag, breaks>>

(* sendTXT finds a connection that is over as any other look at it does.    *)
send_data_to_app ==
    /\ pc = "loop" /\ phase = "send"
    /\ phase' = "accept"
    /\ LET due == app_num # def_web_no /\ data_flag <= 0
       IN  /\ data_flag' = IF app_num = def_web_no THEN data_flag
                           ELSE IF due THEN SendAfter ELSE data_flag - 1
           /\ Freed(IF due THEN {app_num} \cap Overdue ELSE {})
    /\ UNCHANGED <<vars, slot, tank, breaks>>

-----------------------------------------------------------------------------
(* Outside.                                                                 *)

Send_frame(p) ==
    \E s \in Slots, f \in FramesOf(p) :
      /\ conn[s] = "open" /\ owner[s] = p
      /\ Len(inbox[s]) < MaxInbox
      /\ inbox' = [inbox EXCEPT ![s] = Append(@, f)]
      /\ UNCHANGED <<vars, phase, slot, conn, owner, tank, app_num, data_flag, breaks>>

(* A peer closes its connection, or its own end of it is reset, with or     *)
(* without the loss of what the hub has not read yet.                       *)
Close(s) ==
    /\ conn[s] = "open"
    /\ breaks < MaxBreaks
    /\ breaks' = breaks + 1
    /\ conn' = [conn EXCEPT ![s] = "lost"]
    /\ owner' = [owner EXCEPT ![s] = NoPeer]
    /\ \E kept \in {<<>>, inbox[s]} : inbox' = [inbox EXCEPT ![s] = kept]
    /\ UNCHANGED <<vars, phase, slot, tank, app_num, data_flag>>

(* A peer loses power or the network: nothing tells the hub.                *)
Vanish(s) ==
    /\ owner[s] # NoPeer
    /\ breaks < MaxBreaks
    /\ breaks' = breaks + 1
    /\ owner' = [owner EXCEPT ![s] = NoPeer]
    /\ UNCHANGED <<vars, phase, slot, conn, inbox, tank, app_num, data_flag>>

(* The hub restarts with an empty table and no clients.                     *)
HubRestart ==
    /\ HubReset
    /\ phase' = "accept"
    /\ slot' = 0
    /\ conn' = [s \in Slots |-> "free"]
    /\ owner' = [s \in Slots |-> NoPeer]
    /\ inbox' = [s \in Slots |-> <<>>]
    /\ tank' = [t \in Valves |-> UnknownTank]
    /\ app_num' = def_web_no
    /\ data_flag' = SendAfter
    /\ UNCHANGED breaks

(* The steps of the serial link that are not calls of the hub's loop.       *)
LinkStep ==
    /\ Await \/ ReadSerial \/ ControllerReset
    /\ UNCHANGED hubVariables

-----------------------------------------------------------------------------
ServeClient ==
    \/ update_tank_data
    \/ RegisterApp
    \/ RefuseApp
    \/ AppStarts
    \/ AppStops
    \/ AppIgnored
    \/ SkipSlot

LoopStep == AcceptDone \/ ServeClient \/ Operate \/ send_data_to_app

HubNext ==
    \/ LoopStep
    \/ LinkStep
    \/ HubRestart
    \/ \E p \in Peers : Accept(p) \/ Send_frame(p)
    \/ \E s \in Slots : Close(s) \/ Vanish(s)

HubSpec == HubInit /\ [][HubNext]_allVars

(* The hub's thread goes on, in its loop and in its waits, and so does the  *)
(* pump board's.  Nothing is assumed of the clients or of the network.      *)
HubFairness ==
    /\ WF_allVars(LoopStep)
    /\ WF_allVars(Await /\ UNCHANGED hubVariables)
    /\ WF_allVars(ReadSerial /\ UNCHANGED hubVariables)

FairHubSpec == HubSpec /\ HubFairness

-----------------------------------------------------------------------------
(* Every variable of the hub has its type.                                  *)
HubTypeOK ==
    /\ phase \in {"accept", "clients", "operate", "send"}
    /\ slot \in Slots
    /\ conn \in [Slots -> {"free", "open", "lost"}]
    /\ owner \in [Slots -> Peers \cup {NoPeer}]
    /\ inbox \in [Slots -> Seq(Frames)]
    /\ tank \in [Valves -> [level : Levels \cup {0},
                            websock_num : Slots \cup {def_web_no},
                            disconnect_count : 0..DisconnectAfter]]
    /\ app_num \in Slots \cup {def_web_no}
    /\ data_flag \in 0..SendAfter
    /\ breaks \in 0..MaxBreaks

(* The app the hub reports to and refuses others for is a client that is    *)
(* still in its slot, and that said hello there: however slots are lost,    *)
(* thrown out and given away, APP.websock_num never names another's slot.   *)
AppSlotIsAnApps ==
    app_num # def_web_no =>
        conn[app_num] # "free" /\ owner[app_num] \in Apps \cup {NoPeer}

(* When pump_operator has had its turn, and every command it gave has been  *)
(* answered, a pump that runs is filling a tank whose last report is below  *)
(* 100 and that has not gone silent; the table it decided on is still the   *)
(* table after the seconds it waited for the board.                         *)
RunsForAHungryTank ==
    hubResets = 0 /\ ctlResets = 0 /\ pc = "loop" /\ phase = "send" /\ pump_pin =>
        \A t \in open : tank[t].level < OffCondition /\ IsConnected(t)

(* The link is used as PumpLink says: nothing the hub, its clients or the   *)
(* network do is more than a start, a stop, a poll or a reset there.        *)
ImplementsLink == Spec

(* Whatever clients send, close or leave hanging, and however often a       *)
(* command makes the loop wait: it comes to pump_operator again and again.  *)
OperatorKeepsLooking == []<><<Operate>>_allVars

(* A tank that falls silent for ever, whatever its connection still looks   *)
(* like, does not keep the pump running.                                    *)
Unheard(t) == \A s \in Slots : owner[s] # t
SilentTankIsNotFilled ==
    \A t \in Valves : <>[]Unheard(t) => []<>(t \notin open)

(* A pump that fills a tank that reports full is stopped, unless the tank   *)
(* reports otherwise first.                                                 *)
FullTankIsStopped ==
    \A t \in Valves :
        OnValve = t /\ tank[t].level >= OffCondition
            ~> OnValve # t \/ tank[t].level < OffCondition

(* While a tank that is connected reports little water the pump comes on,   *)
(* for that tank or another.                                                *)
LowTankStartsPump ==
    \A t \in Valves :
        tank[t].level <= OnCondition /\ IsConnected(t)
            ~> OnValve # default_no \/ tank[t].level > OnCondition \/ ~IsConnected(t)

(* Line 25: "def_web_no defines that tank is not connected".  So a tank     *)
(* that is not so marked is not recorded on the connection of another.      *)
RecordedOnOwnConnection ==
    \A t \in Valves :
        IsConnected(t) => owner[tank[t].websock_num] \in {t, NoPeer}

=============================================================================
