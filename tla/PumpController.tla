--------------------------- MODULE PumpController ---------------------------
(***************************************************************************)
(* The Arduino that drives the pump relay and the four valves              *)
(* (pump_prog_itx_tanky.ino).  It shares one serial link with the WiFi     *)
(* module that commands it: toPump holds what was written to the board and *)
(* not yet read by it, toHub what the board answered and the WiFi module   *)
(* has not yet read.                                                       *)
(*                                                                         *)
(* A command is the text "valve,status".  Serial.readString() returns      *)
(* everything that has arrived, up to one second of silence, so commands   *)
(* written close together reach the board as ONE string.                   *)
(***************************************************************************)
EXTENDS Integers, Sequences

CONSTANT Valves      \* the valves wired to the board (1 .. 4 in the sketch)

ASSUME ValvesAssumption == Valves \subseteq Nat \ {0}

VARIABLES
    pump_pin,        \* is the pump relay energised
    open,            \* the valves whose pin is HIGH
    toPump,          \* commands written to the board and not yet read
    toHub            \* answers written by the board and not yet read

NoValve == 0         \* the valve field of the stop command "0,0"

On(v) == [valve |-> v, status |-> "1"]
Off   == [valve |-> NoValve, status |-> "0"]

-----------------------------------------------------------------------------
(* What the two calls of split_string make of the text read.  One command   *)
(* splits into its two fields.  Of "a,b" followed by "c,d" the first field   *)
(* is a and the second is "bc", which is neither "0" nor "1".                *)
ReadCommand(line) ==
    [valve  |-> Head(line).valve,
     status |-> IF Len(line) = 1 THEN Head(line).status ELSE "joined"]

(* please_on_the_valve(valve); please_operate_the_pump(1).  The other       *)
(* valves are left as they are.                                             *)
SwitchOn(m) ==
    /\ m.status = "1"
    /\ m.valve \in Valves
    /\ open' = open \cup {m.valve}
    /\ pump_pin' = TRUE
    /\ toHub' = Append(toHub, "1")

(* Mutant: please_off_the_valve() forgotten.                                *)
SwitchOffPumpOnly(m) ==
    /\ m.status = "0"
    /\ open' = open
    /\ pump_pin' = FALSE
    /\ toHub' = Append(toHub, "0")

(* please_operate_the_pump(0); please_off_the_valve().                      *)
SwitchOff(m) ==
    /\ m.status = "0"
    /\ open' = {}
    /\ pump_pin' = FALSE
    /\ toHub' = Append(toHub, "0")

(* Joined texts and valves that are not wired match no branch: nothing is   *)
(* switched and nothing is answered.                                        *)
IgnoreText(m) ==
    /\ \/ m.status = "joined"
       \/ m.status = "1" /\ m.valve \notin Valves
    /\ UNCHANGED <<open, pump_pin, toHub>>

(* One pass of loop() that finds something to read.                         *)
ControllerLoop ==
    /\ toPump # <<>>
    /\ toPump' = <<>>
    /\ LET m == ReadCommand(toPump)
       IN  SwitchOn(m) \/ SwitchOff(m) \/ IgnoreText(m)

(* setup(): after power-up or a reset every output is LOW and the receive   *)
(* buffer is empty.  What was already answered stays with the WiFi module.  *)
ControllerInit ==
    /\ pump_pin = FALSE
    /\ open = {}

ControllerRestart ==
    /\ pump_pin' = FALSE
    /\ open' = {}
    /\ toPump' = <<>>
    /\ UNCHANGED toHub

=============================================================================
