------------------------------ MODULE TankNode ------------------------------
(***************************************************************************)
(* A water tank: the sensor board (water_distance.ino), its serial line,   *)
(* and the WiFi node (websocket_clientJ_tanky.ino), which reports the      *)
(* level to the hub, is set up from a phone, keeps name and height of its  *)
(* tank in EEPROM, and restarts itself when it stays disconnected.         *)
(*                                                                         *)
(* The node has one thread.  An EEPROM area changes by an erasure and a    *)
(* write, each with a commit; the power may fail between any two of the    *)
(* four, and inside one, when the flash sector that holds both areas has   *)
(* been erased and not yet been written.                                   *)
(***************************************************************************)
EXTENDS WaterReading

CONSTANTS
    Distances,          \* what the sensor may measure, safe_height subtracted
    Words,              \* what a field of a frame may say
    Frames,             \* set-up frames, each the sequence of its fields
    DefaultName,        \* the initial values of tank_name and tank_height
    DefaultHeight,
    ResetAfter,         \* stands for the 50000 of reset_flag
    MaxUnread,          \* bound on texts the node's serial buffer holds
    MaxCuts             \* bound on power failures of the node

\* A field of a frame is a text: the number toFloat() finds in it, and whether
\* it is longer than name_len.
Field == [text : Words \cup {"", "0xff", "..."}, number : Int, long : BOOLEAN]

\* A distance has four digits at most, which Shift counts.
ASSUME DistancesAssumption == \A d \in Distances : d \in Int /\ d < 10000

ASSUME NodeAssumption ==
    /\ Frames \subseteq Seq(Field) \ {<<>>}
    /\ DefaultHeight \in Nat
    /\ DefaultName \in Field
    /\ ResetAfter \in Nat
    /\ MaxUnread \in Nat \ {0}
    /\ MaxCuts \in Nat

VARIABLES
    curr_value, count,              \* the sensor board
    toNode,                         \* its texts the node has not read
    node,                           \* what the node's thread does next
    tank_name, tank_height, percent, connx_status, reset_flag,
    eeprom,                         \* the name and the height area
    setUp,                          \* fields of the set-up under way
    done,                           \* history: the last set-up not cut short
    cuts

sensorVars == <<curr_value, count>>
ramVars    == <<tank_name, tank_height, percent, connx_status, reset_flag>>
setUpVars  == <<eeprom, setUp, done>>
nodeVars   == <<sensorVars, toNode, node, ramVars, setUpVars, cuts>>

count_value == 2

\* What an area reads as after erase_data, on a new chip, and where the end of
\* a long name was written over it.
Empty   == [text |-> "",     number |-> 0, long |-> FALSE]
Factory == [text |-> "0xff", number |-> 0, long |-> TRUE]
NameEnd == [text |-> "...",  number |-> 0, long |-> FALSE]

NoSetUp == [name |-> DefaultName, height |-> Empty]

\* read_data and setup(): at most name_len characters, or the default.
Short(area)        == [text |-> area.text, number |-> area.number, long |-> FALSE]
StoredName(area)   == IF area = Empty THEN DefaultName ELSE Short(area)
StoredHeight(area) == IF area = Empty THEN DefaultHeight ELSE area.number

Init ==
    /\ curr_value = 0
    /\ count = count_value
    /\ toNode = <<>>
    /\ node = "boot"
    /\ tank_name = DefaultName
    /\ tank_height = DefaultHeight
    /\ percent = Hundredths(0)
    /\ connx_status = FALSE
    /\ reset_flag = ResetAfter
    /\ eeprom \in {[name |-> area, height |-> area] : area \in {Empty, Factory}}
    /\ setUp = NoSetUp
    /\ done = {}
    /\ cuts = 0

-----------------------------------------------------------------------------
(* The sensor board.                                                        *)

Write(reading) ==
    toNode' = IF Len(toNode) < MaxUnread THEN Append(toNode, reading) ELSE toNode

\* One pass of its loop: a new distance is written at once, the same one
\* after count_value passes.
SensorPass(distance) ==
    /\ curr_value' = distance
    /\ IF distance # curr_value
       THEN Write(Reading(distance, TRUE)) /\ count' = count_value - 1
       ELSE IF count <= 0
       THEN Write(Reading(distance, FALSE)) /\ count' = count_value
       ELSE count' = count - 1 /\ UNCHANGED toNode
    /\ UNCHANGED <<node, ramVars, setUpVars, cuts>>

-----------------------------------------------------------------------------
(* The node's loop().                                                       *)

Low(level) == connx_status = FALSE /\ IsLow(level)

\* Mutant: reset_flag counts from its start again when the tank is heard.
ResetCountStartsAgain(level) ==
    /\ node' = IF Low(level) /\ reset_flag <= 0 THEN "boot" ELSE node
    /\ reset_flag' = IF toNode # <<>> THEN ResetAfter
                     ELSE IF Low(level) /\ reset_flag > 0 THEN reset_flag - 1 ELSE reset_flag

\* Mutant: reset_flag runs past zero.
ResetCountRunsOn(level) ==
    /\ node' = IF Low(level) /\ reset_flag < 0 THEN "boot" ELSE node
    /\ reset_flag' = IF Low(level) /\ reset_flag >= 0 THEN reset_flag - 1 ELSE reset_flag

\* check_reset_requirement, at the end of every pass.
check_reset_requirement(level) ==
    /\ node' = IF Low(level) /\ reset_flag <= 0 THEN "boot" ELSE node
    /\ reset_flag' = IF Low(level) /\ reset_flag > 0 THEN reset_flag - 1 ELSE reset_flag

\* A pass that finds texts of the sensor: the percentage goes to the hub if it
\* is connected.
Report ==
    /\ node = "loop"
    /\ toNode # <<>>
    /\ percent' = Percent(tank_height, toFloat(toNode))
    /\ toNode' = <<>>
    /\ check_reset_requirement(Percent(tank_height, toFloat(toNode)))
    /\ UNCHANGED <<sensorVars, tank_name, tank_height, connx_status, setUpVars, cuts>>

QuietPass ==
    /\ node = "loop"
    /\ toNode = <<>>
    /\ check_reset_requirement(percent)
    /\ UNCHANGED <<sensorVars, toNode, tank_name, tank_height, percent, connx_status,
                   setUpVars, cuts>>

\* webSocketEvent, from webSocket.loop().
Connection(status) ==
    /\ node = "loop"
    /\ connx_status' = status
    /\ UNCHANGED <<sensorVars, toNode, node, tank_name, tank_height, percent, reset_flag,
                   setUpVars, cuts>>

-----------------------------------------------------------------------------
(* Set-up and restart.                                                      *)

\* split_string: what is left of the frame behind its first comma.
Rest(frame) == IF Len(frame) > 1 THEN Tail(frame) ELSE frame

\* webSocketServerEvent: a frame that is not the app's question for name and
\* height is a set-up.  It has been split once before it is looked at.
SetUpFrame(frame) ==
    LET fields == Rest(frame) IN
    /\ node = "loop"
    /\ ~(Len(fields) = 1 /\ Head(fields).text = "app")
    /\ tank_name' = Head(fields)
    /\ tank_height' = Head(Rest(fields)).number
    /\ setUp' = [name |-> Head(fields), height |-> Head(Rest(fields))]
    /\ node' = "erase name"
    /\ UNCHANGED <<sensorVars, toNode, percent, connx_status, reset_flag, eeprom, done, cuts>>

\* One commit of write_data.
Save(step, next, contents) ==
    /\ node = step
    /\ node' = next
    /\ eeprom' = contents
    /\ UNCHANGED <<sensorVars, toNode, ramVars, setUp, cuts>>

EraseName ==
    Save("erase name", "write name", [eeprom EXCEPT !.name = Empty]) /\ UNCHANGED done

\* Mutant: the height area is not erased after the name, and the height is no
\* longer than what it replaces.
WriteNameLast ==
    /\ Save("write name", "boot",
            [name   |-> setUp.name,
             height |-> IF setUp.name.long THEN NameEnd ELSE setUp.height])
    /\ done' = {setUp}

\* The length of the name is not checked: a long one goes on into the next area.
WriteName ==
    /\ Save("write name", "erase height",
            [name   |-> setUp.name,
             height |-> IF setUp.name.long THEN NameEnd ELSE eeprom.height])
    /\ UNCHANGED done

EraseHeight ==
    Save("erase height", "write height", [eeprom EXCEPT !.height = Empty]) /\ UNCHANGED done

\* The last write, and ESP.reset().
WriteHeight ==
    /\ Save("write height", "boot", [eeprom EXCEPT !.height = setUp.height])
    /\ done' = {setUp}

\* setup(): what is stored is read, and once the WiFi is there the serial
\* buffer is cleared.
Boot ==
    /\ node = "boot"
    /\ node' = "loop"
    /\ tank_name' = StoredName(eeprom.name)
    /\ tank_height' = StoredHeight(eeprom.height)
    /\ percent' = Hundredths(0)
    /\ connx_status' = FALSE
    /\ reset_flag' = ResetAfter
    /\ toNode' = <<>>
    /\ UNCHANGED <<sensorVars, setUpVars, cuts>>

\* The power fails; inside a commit the whole sector may be lost.
PowerCut ==
    /\ cuts < MaxCuts
    /\ node # "boot"
    /\ cuts' = cuts + 1
    /\ node' = "boot"
    /\ IF node = "loop"
       THEN UNCHANGED <<eeprom, done>>
       ELSE /\ done' = {}
            /\ eeprom' \in {eeprom, [name |-> Factory, height |-> Factory]}
    /\ UNCHANGED <<sensorVars, toNode, ramVars, setUp>>

-----------------------------------------------------------------------------
Sensor == \E distance \in Distances : SensorPass(distance)
Pass   == Report \/ QuietPass
Phone  == \E frame \in Frames : SetUpFrame(frame)
Saving == EraseName \/ WriteName \/ EraseHeight \/ WriteHeight

Next ==
    \/ Sensor
    \/ Pass
    \/ \E status \in BOOLEAN : Connection(status)
    \/ Phone
    \/ Saving
    \/ Boot
    \/ PowerCut

Spec == Init /\ [][Next]_nodeVars

\* Both boards run their loops for ever; nothing is assumed of the WiFi, the
\* hub or the phone.
FairSpec == Spec /\ WF_nodeVars(Sensor) /\ WF_nodeVars(Pass)

-----------------------------------------------------------------------------
(* Properties.                                                              *)

SetUps == {[name |-> Head(Rest(f)), height |-> Head(Rest(Rest(f)))] : f \in Frames}

\* Types; reset_flag never leaves its range, the sensor's counter neither.
NodeTypeOK ==
    /\ curr_value \in Distances \cup {0}
    /\ count \in 0 .. count_value
    /\ toNode \in Seq([distance : Distances, eol : BOOLEAN])
    /\ Len(toNode) <= MaxUnread
    /\ node \in {"boot", "loop", "erase name", "write name", "erase height", "write height"}
    /\ tank_name \in Field
    /\ tank_height \in Int
    /\ percent \in Percentages
    /\ connx_status \in BOOLEAN
    /\ reset_flag \in 0 .. ResetAfter
    /\ eeprom \in [name : Field, height : Field]
    /\ setUp \in SetUps \cup {NoSetUp}
    /\ done \subseteq SetUps
    /\ cuts \in 0 .. MaxCuts

\* A set-up that was not cut short outlives every restart, whatever the length
\* of the name, what was stored before, and where the power failed in set-ups
\* before it: the node goes by the name and the height it was given.
SetUpSurvives ==
    node = "loop" =>
        \A s \in done :
            /\ tank_name = StoredName(s.name)
            /\ tank_height = StoredHeight(s.height)

\* Joined readings may be taken for a low tank, but never for a full one: a
\* report that would stop the pump is sent only when the first of the readings
\* in it was at or above the mark.  A height below zero, which nobody refuses at
\* the set-up, turns this round: then any reading below the mark is full.
FullReportIsTrue ==
    [][Report /\ connx_status /\ tank_height >= 0 /\ IsFull(percent')
         => Head(toNode).distance <= 0]_nodeVars

\* What fairness acts on: the node's loop has a pass for whatever texts have come
\* and the sensor's for every distance.  The hypothesis of the proof of
\* TankIsHeardOf.
LoopsRunOn ==
    /\ node = "loop" /\ toNode # <<>> => ENABLED <<Pass>>_nodeVars
    /\ ENABLED <<Sensor>>_nodeVars

\* A node that stays connected keeps reporting, though its level never changes
\* and the line loses readings: the hub's count for it does not run out.
ReportsKeepComing ==
    <>[](node = "loop" /\ connx_status) => []<><<Report /\ connx_status>>_nodeVars

\* The pump can be stopped: a tank that is and stays full, of a height other
\* than zero, is reported full again and again, whatever readings the line has
\* joined or lost.
FullTankIsReported ==
    <>[](node = "loop" /\ connx_status /\ tank_height > 0 /\ curr_value <= 0)
        => []<><<Report /\ IsFull(percent')>>_nodeVars

\* The hub hears of the tank while it is connected, and in time that it is full.
TankIsHeardOf == ReportsKeepComing /\ FullTankIsReported

\* A node with a low tank does not stay disconnected without restarting,
\* however its connection came and went before.
DisconnectedLowNodeRestarts ==
    ~<>[](node = "loop" /\ ~connx_status /\ IsLow(percent))
=============================================================================
