------------------------------ MODULE LegacyHub -----------------------------
(***************************************************************************)
(* The pump hub before the present one                                     *)
(* (WebSocket_server_wifi_module.ino).  Tanks, pump and app are all        *)
(* clients of its websocket server, each says hello once and is from then  *)
(* on known by the number of its client slot.                              *)
(*                                                                         *)
(* loop() is webSocket.loop(): accept clients, then read one frame of each *)
(* slot.  webSocketEvent answers inside it; each text it sends is a look   *)
(* at a connection, and a connection found to be over is cleaned up, with  *)
(* the callback DISCONNECTED, in the middle of the handler.                *)
(*                                                                         *)
(* A record whose websock_num is default_websock has the default Id_name,  *)
(* and only such a record: the two are set and cleared together.           *)
(***************************************************************************)
EXTENDS Integers, Sequences

CONSTANTS
    Tanks,              \* the tanks, by their number
    Pump,
    App,
    NoPeer,             \* nobody has connected to a slot
    NumSlots,           \* WEBSOCKETS_SERVER_CLIENT_MAX
    Levels,             \* the distances a tank may report, in cm
    MaxInbox,           \* bound on the unread frames of a connection
    MaxBreaks           \* bound on connections lost, peers vanished, resets

ASSUME LegacyPeersAssumption ==
    /\ Tanks \subseteq 1..4
    /\ Pump \notin Tanks /\ App \notin Tanks /\ Pump # App
    /\ NoPeer \notin Tanks \cup {Pump, App}

ASSUME LegacyBoundsAssumption ==
    /\ NumSlots \in 1..10
    /\ Levels \subseteq Nat
    /\ MaxInbox \in Nat
    /\ MaxBreaks \in Nat

VARIABLES
    phase,              \* "accept" or "clients": where in webSocket.loop()
    slot,               \* the client slot handleClientData looks at next
    conn,               \* "free", "open", "lost" (closed by the peer, and the
                        \* server has not looked), "dead" (the peer vanished)
    owner,              \* who connected to the slot
    inbox,              \* frames not yet read
    tank_num,           \* tank_arry[i].websock_num
    level,              \* tank_arry[i].level
    pump_num,           \* pump_array[0].websock_num
    water_status,       \* pump_array[0].water_status
    app_num,            \* app_array[0].websock_num
    sent,               \* what the last step sent to the pump
    breaks

server == <<phase, slot, conn, owner, inbox>>
records == <<tank_num, level, pump_num, water_status, app_num>>
vars == <<server, records, sent, breaks>>

safety_height == 15
default_websock == 10

Slots == 0 .. NumSlots - 1
Peers == Tanks \cup {Pump, App}
Bits == {0, 1}

TankHello(t)   == [kind |-> "tank", no |-> t, value |-> 0]
Report(t, l)   == [kind |-> "report", no |-> t, value |-> l]
PumpHello      == [kind |-> "pump", no |-> 5, value |-> 0]
Status(b)      == [kind |-> "status", no |-> 5, value |-> b]
AppHello       == [kind |-> "app", no |-> 0, value |-> 0]
Command(b, v)  == [kind |-> "command", no |-> v, value |-> b]

(* The frames of a peer: "tank,1" and "1,40"; "pump,5" and "5,1"; "app,0"   *)
(* and "0,(1,2)".                                                           *)
FramesOf(p) ==
    CASE p \in Tanks -> {TankHello(p)} \cup {Report(p, l) : l \in Levels}
      [] p = Pump    -> {PumpHello} \cup {Status(b) : b \in Bits}
      [] p = App     -> {AppHello} \cup {Command(b, v) : b \in Bits, v \in Tanks}
      [] OTHER       -> {}

(* The texts "(x,y)" for the pump: switch valve y on or off.  A safety call *)
(* is the hub's own, the others are the app's.                              *)
NoText == [safety |-> FALSE, bit |-> 0, valve |-> 0]
Text(safety, b, v) == [safety |-> safety, bit |-> b, valve |-> v]

Init ==
    /\ phase = "accept"
    /\ slot = 0
    /\ conn = [s \in Slots |-> "free"]
    /\ owner = [s \in Slots |-> NoPeer]
    /\ inbox = [s \in Slots |-> <<>>]
    /\ tank_num = [t \in Tanks |-> default_websock]
    /\ level = [t \in Tanks |-> 0]
    /\ pump_num = default_websock
    /\ water_status = 0
    /\ app_num = default_websock
    /\ sent = NoText
    /\ breaks = 0

-----------------------------------------------------------------------------
(* Mutants: the tanks are not looked at; the pump's number is not compared. *)
ForgottenButTanks(S, a, p, w, t) ==
    /\ app_num' = IF a \in S THEN default_websock ELSE a
    /\ pump_num' = IF p \in S \ {a} THEN default_websock ELSE p
    /\ water_status' = IF p \in S \ {a} THEN 0 ELSE w
    /\ tank_num' = t

ForgottenWithPump(S, a, p, w, t) ==
    /\ app_num' = IF a \in S THEN default_websock ELSE a
    /\ pump_num' = IF S \ {a} # {} THEN default_websock ELSE p
    /\ water_status' = IF S \ {a} # {} THEN 0 ELSE w
    /\ tank_num' = [i \in Tanks |-> IF t[i] \in S \ {a, p} THEN default_websock ELSE t[i]]

(* webSocketEvent(DISCONNECTED) for each slot of S: app, pump or the first  *)
(* tank of that number, on the records a (app), p (pump), w (its status)    *)
(* and t (tanks).                                                           *)
Forgotten(S, a, p, w, t) ==
    /\ app_num' = IF a \in S THEN default_websock ELSE a
    /\ pump_num' = IF p \in S \ {a} THEN default_websock ELSE p
    /\ water_status' = IF p \in S \ {a} THEN 0 ELSE w
    /\ tank_num' =
         [i \in Tanks |->
            IF t[i] \in S \ {a, p} /\ \A j \in Tanks : j < i => t[j] # t[i]
            THEN default_websock ELSE t[i]]

(* clientDisconnect of the slots S, box being what is unread.               *)
Freed(S, box) ==
    /\ conn'  = [s \in Slots |-> IF s \in S THEN "free" ELSE conn[s]]
    /\ owner' = [s \in Slots |-> IF s \in S THEN NoPeer ELSE owner[s]]
    /\ inbox' = [s \in Slots |-> IF s \in S THEN <<>> ELSE box[s]]

(* clientIsConnected cleans up what is lost and has nothing left to read.   *)
Over(s, box) == conn[s] = "lost" /\ box[s] = <<>>

Connected(s) == conn[s] # "free" /\ ~Over(s, inbox)

(* newClient: the first slot that is not connected, after its cleanup.      *)
Accept(q) ==
    /\ phase = "accept"
    /\ \A s \in Slots : ~(owner[s] = q /\ conn[s] = "open")
    /\ \E s \in Slots :
         /\ ~Connected(s)
         /\ \A r \in 0..(s - 1) : Connected(r)
         /\ conn'  = [conn  EXCEPT ![s] = "open"]
         /\ owner' = [owner EXCEPT ![s] = q]
         /\ Forgotten({s} \cap {r \in Slots : conn[r] = "lost"},
                      app_num, pump_num, water_status, tank_num)
    /\ sent' = NoText
    /\ UNCHANGED <<phase, slot, inbox, level, breaks>>

AcceptDone ==
    /\ phase = "accept"
    /\ phase' = "clients"
    /\ slot' = 0
    /\ sent' = NoText
    /\ UNCHANGED <<conn, owner, inbox, records, breaks>>

(* Mutant: the loop over the slots takes one too many.                      *)
NextSlotTooFar ==
    /\ phase = "clients"
    /\ slot' = IF slot < NumSlots THEN slot + 1 ELSE 0
    /\ phase' = IF slot < NumSlots THEN "clients" ELSE "accept"

NextSlot ==
    /\ phase = "clients"
    /\ slot' = IF slot + 1 \in Slots THEN slot + 1 ELSE 0
    /\ phase' = IF slot + 1 \in Slots THEN "clients" ELSE "accept"

(* Mutant: a slot without data is passed over without a look.               *)
SkipSlotUnseen ==
    /\ inbox[slot] = <<>>
    /\ NextSlot
    /\ sent' = NoText
    /\ UNCHANGED <<conn, owner, inbox, records, breaks>>

SkipSlot ==
    /\ inbox[slot] = <<>>
    /\ NextSlot
    /\ LET S == {s \in {slot} : Over(s, inbox)}
       IN  /\ Freed(S, inbox)
           /\ Forgotten(S, app_num, pump_num, water_status, tank_num)
    /\ sent' = NoText
    /\ UNCHANGED <<level, breaks>>

-----------------------------------------------------------------------------
(* webSocketEvent(TEXT).  Every branch ends with the echo to the sender.    *)

ReadFrame(kind) ==
    /\ inbox[slot] # <<>>
    /\ Head(inbox[slot]).kind = kind
    /\ NextSlot
    /\ UNCHANGED breaks

(* The records after the branch are a, p, w and t; texts go to the slots in *)
(* To and back to the sender.                                               *)
Answer(To, a, p, w, t) ==
    LET left == [inbox EXCEPT ![slot] = Tail(@)]
        S    == {s \in Slots \cap (To \cup {slot}) : Over(s, left)}
    IN  Freed(S, left) /\ Forgotten(S, a, p, w, t)

please_operate_the_pump(text) ==
    sent' = IF pump_num # default_websock THEN text ELSE NoText

(* The client the data goes to, if an app is registered.                    *)
send_data_to_app == IF app_num # default_websock THEN {app_num} ELSE {}

TankConnects ==
    /\ ReadFrame("tank")
    /\ Answer({}, app_num, pump_num, water_status,
              [tank_num EXCEPT ![Head(inbox[slot]).no] = slot])
    /\ sent' = NoText
    /\ UNCHANGED level

PumpConnects ==
    /\ ReadFrame("pump")
    /\ Answer({}, app_num, slot, water_status, tank_num)
    /\ sent' = NoText
    /\ UNCHANGED level

AppConnects ==
    /\ ReadFrame("app")
    /\ Answer({}, slot, pump_num, water_status, tank_num)
    /\ sent' = NoText
    /\ UNCHANGED level

(* The report of a tank.  What is compared with safety_height is the number *)
(* of the tank.                                                             *)
TankReports ==
    /\ ReadFrame("report")
    /\ LET f == Head(inbox[slot])
       IN  /\ level' = [level EXCEPT ![f.no] = f.value]
           /\ IF f.no <= safety_height
              THEN please_operate_the_pump(Text(TRUE, 0, f.no))
              ELSE sent' = NoText
    /\ Answer(send_data_to_app \cup {pump_num}, app_num, pump_num, water_status, tank_num)

AppCommands ==
    /\ ReadFrame("command")
    /\ LET f == Head(inbox[slot])
       IN  please_operate_the_pump(Text(FALSE, f.value, f.no))
    /\ Answer({pump_num}, app_num, pump_num, water_status, tank_num)
    /\ UNCHANGED level

PumpReports ==
    /\ ReadFrame("status")
    /\ Answer(send_data_to_app, app_num, pump_num, Head(inbox[slot]).value, tank_num)
    /\ sent' = NoText
    /\ UNCHANGED level

-----------------------------------------------------------------------------
(* Outside.                                                                 *)

SendFrame(s) ==
    /\ conn[s] = "open"
    /\ Len(inbox[s]) < MaxInbox
    /\ \E f \in FramesOf(owner[s]) : inbox' = [inbox EXCEPT ![s] = Append(@, f)]
    /\ sent' = NoText
    /\ UNCHANGED <<phase, slot, conn, owner, records, breaks>>

(* A peer closes its connection, or resets it and what it had sent is lost. *)
Close(s) ==
    /\ conn[s] = "open" /\ breaks < MaxBreaks
    /\ breaks' = breaks + 1
    /\ conn' = [conn EXCEPT ![s] = "lost"]
    /\ \E kept \in {<<>>, inbox[s]} : inbox' = [inbox EXCEPT ![s] = kept]
    /\ sent' = NoText
    /\ UNCHANGED <<phase, slot, owner, records>>

(* A peer loses power or the network.  The hub sends no heartbeat.          *)
Vanish(s) ==
    /\ conn[s] = "open" /\ breaks < MaxBreaks
    /\ breaks' = breaks + 1
    /\ conn' = [conn EXCEPT ![s] = "dead"]
    /\ sent' = NoText
    /\ UNCHANGED <<phase, slot, owner, inbox, records>>

HubReset ==
    /\ breaks < MaxBreaks
    /\ breaks' = breaks + 1
    /\ phase' = "accept"
    /\ slot' = 0
    /\ conn' = [s \in Slots |-> "free"]
    /\ owner' = [s \in Slots |-> NoPeer]
    /\ inbox' = [s \in Slots |-> <<>>]
    /\ tank_num' = [t \in Tanks |-> default_websock]
    /\ level' = [t \in Tanks |-> 0]
    /\ pump_num' = default_websock
    /\ water_status' = 0
    /\ app_num' = default_websock
    /\ sent' = NoText

-----------------------------------------------------------------------------
ServeClient ==
    \/ TankConnects
    \/ PumpConnects
    \/ AppConnects
    \/ TankReports
    \/ AppCommands
    \/ PumpReports
    \/ SkipSlot

LoopStep == AcceptDone \/ ServeClient

Next ==
    \/ LoopStep
    \/ HubReset
    \/ \E q \in Peers : Accept(q)
    \/ \E s \in Slots : SendFrame(s) \/ Close(s) \/ Vanish(s)

Spec == Init /\ [][Next]_vars

(* The hub's loop goes on.  Nothing is assumed of its clients.              *)
FairSpec == Spec /\ WF_vars(LoopStep)

-----------------------------------------------------------------------------
(* Every variable has its type.                                             *)
TypeOK ==
    /\ phase \in {"accept", "clients"}
    /\ slot \in Slots
    /\ conn \in [Slots -> {"free", "open", "lost", "dead"}]
    /\ owner \in [Slots -> Peers \cup {NoPeer}]
    /\ inbox \in [Slots -> Seq(UNION {FramesOf(p) : p \in Peers})]
    /\ tank_num \in [Tanks -> Slots \cup {default_websock}]
    /\ level \in [Tanks -> Levels \cup {0}]
    /\ pump_num \in Slots \cup {default_websock}
    /\ water_status \in Bits
    /\ app_num \in Slots \cup {default_websock}
    /\ sent \in [safety : BOOLEAN, bit : Bits, valve : Tanks \cup {0}]
    /\ breaks \in 0..MaxBreaks

(* Who the hub takes for q.                                                 *)
NumOf(q) == IF q = Pump THEN pump_num ELSE IF q = App THEN app_num ELSE tank_num[q]

(* A slot number the hub keeps is that of a slot in use, by the very peer   *)
(* that said hello there: a command for the pump, or the data for the app,  *)
(* never goes to whoever was given the slot next.                           *)
RoutesToItsPeer ==
    \A q \in Peers :
        NumOf(q) # default_websock =>
            conn[NumOf(q)] # "free" /\ owner[NumOf(q)] = q

(* A peer that is connected stays known, whoever else comes and goes: only  *)
(* an older hello of its own, read late from an earlier connection, makes   *)
(* the hub look for it elsewhere, or a reset of the hub.                    *)
KnownWhileConnected ==
    [][ \A q \in Peers, s \in Slots :
          NumOf(q) = s /\ conn[s] = "open" /\ NumOf(q)' # s =>
              \/ \A r \in Slots : conn'[r] = "free"
              \/ owner[slot] = q /\ slot # s /\ inbox'[slot] # inbox[slot] ]_vars

(* A peer that has closed its connection is forgotten, even if nobody ever  *)
(* sends or connects again.                                                 *)
ClosedPeerIsForgotten ==
    \A q \in Peers, s \in Slots :
        NumOf(q) = s /\ conn[s] = "lost" ~> NumOf(q) # s

=============================================================================
