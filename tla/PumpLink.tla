------------------------------ MODULE PumpLink ------------------------------
(***************************************************************************)
(* The serial protocol between the WiFi module that decides about the pump *)
(* (the hub, websocket_pump_itx_tanky.ino) and the board that drives it    *)
(* (PumpController).                                                       *)
(*                                                                         *)
(* The hub writes a command and polls once a second for the one-character  *)
(* answer.  After four polls it throws away whatever has arrived, writes   *)
(* the command again and starts over, for ever.  Neither commands nor      *)
(* answers carry a number, and a read returns everything that has arrived, *)
(* so late answers, repeated commands and texts joined by a slow reader    *)
(* are all part of the protocol.                                           *)
(*                                                                         *)
(* Time is counted in the hub's polls.  Who decides which command is sent  *)
(* is left open here; TankHub closes it.                                   *)
(***************************************************************************)
EXTENDS PumpController

CONSTANTS
    Requests,        \* the valve numbers a start command may name
    MaxLag,          \* polls the board may leave a command unread
    MaxHubResets,    \* bound on resets of the WiFi module
    MaxCtlResets     \* bound on resets of the pump board

ASSUME RequestsAssumption == Valves \subseteq Requests /\ Requests \subseteq Nat \ {0}

ASSUME BoundsAssumption ==
    MaxLag \in Nat /\ MaxHubResets \in Nat /\ MaxCtlResets \in Nat

VARIABLES
    pc,              \* "loop", or "await": inside please_on/off_the_pump
    cmd,             \* the command being awaited, Off while there is none
    polls,           \* polls made since cmd was last written
    OnValve,         \* PumpStatus.OnValve
    lag,             \* polls made while toPump was waiting to be read
    hubResets,
    ctlResets

hubVars == <<pc, cmd, polls, OnValve>>
vars == <<pump_pin, open, toPump, toHub, pc, cmd, polls, OnValve, lag,
          hubResets, ctlResets>>

default_no == -1
Polls == 4           \* for(int i = 0;i<4;i++)

Commands == {On(v) : v \in Requests} \cup {Off}

Init ==
    /\ ControllerInit
    /\ toPump = <<Off>>                   \* Serial.write("0,0") in setup()
    /\ toHub = <<>>
    /\ pc = "loop"
    /\ cmd = Off
    /\ polls = 0
    /\ OnValve = default_no
    /\ lag = 0
    /\ hubResets = 0
    /\ ctlResets = 0

-----------------------------------------------------------------------------
(* The hub.                                                                 *)

Send(c) ==
    /\ pc = "loop"
    /\ pc' = "await"
    /\ cmd' = c
    /\ polls' = 0
    /\ toPump' = Append(toPump, c)
    /\ UNCHANGED <<pump_pin, open, toHub, OnValve, lag, hubResets, ctlResets>>

(* Both callers, pump_operator and on_of_from_app, start the pump only when *)
(* OnValve is default_no and stop it only when it is not.                   *)
please_on_the_pump(v) == OnValve = default_no /\ Send(On(v))
please_off_the_pump   == OnValve # default_no /\ Send(Off)

(* delay(1000), or the one second that Serial.readString() waits.           *)
OneSecond ==
    /\ toPump # <<>> => lag < MaxLag
    /\ lag' = IF toPump = <<>> THEN lag ELSE lag + 1

(* Mutant: any answer will do.                                              *)
AnsweredByAnything(c) == toHub # <<>>

Answered(c) == toHub = <<c.status>>

(* The return of please_on/off_the_pump, and the caller's assignment.       *)
Acked ==
    /\ pc = "await"
    /\ polls < Polls
    /\ Answered(cmd)
    /\ OneSecond
    /\ toHub' = <<>>
    /\ pc' = "loop"
    /\ OnValve' = IF cmd = Off THEN default_no ELSE cmd.valve
    /\ cmd' = Off
    /\ polls' = 0
    /\ UNCHANGED <<pump_pin, open, toPump, hubResets, ctlResets>>

(* Mutant: one poll too many.                                               *)
NoAckOffByOne ==
    /\ pc = "await"
    /\ polls <= Polls
    /\ ~Answered(cmd)
    /\ OneSecond
    /\ toHub' = <<>>
    /\ polls' = polls + 1
    /\ UNCHANGED <<pump_pin, open, toPump, pc, cmd, OnValve, hubResets, ctlResets>>

NoAck ==
    /\ pc = "await"
    /\ polls < Polls
    /\ ~Answered(cmd)
    /\ OneSecond
    /\ toHub' = <<>>
    /\ polls' = polls + 1
    /\ UNCHANGED <<pump_pin, open, toPump, pc, cmd, OnValve, hubResets, ctlResets>>

(* Mutant: poll again without writing the command again.                    *)
ResendForgotten ==
    /\ pc = "await"
    /\ polls = Polls
    /\ OneSecond
    /\ toHub' = <<>>
    /\ polls' = 0
    /\ UNCHANGED <<pump_pin, open, toPump, pc, cmd, OnValve, hubResets, ctlResets>>

(* Mutant: after four polls take the command for done.                      *)
ResendGivesUp ==
    /\ pc = "await"
    /\ polls = Polls
    /\ OneSecond
    /\ toHub' = <<>>
    /\ pc' = "loop"
    /\ OnValve' = IF cmd = Off THEN default_no ELSE cmd.valve
    /\ cmd' = Off
    /\ polls' = 0
    /\ UNCHANGED <<pump_pin, open, toPump, hubResets, ctlResets>>

(* Serial.readString(); Serial.write(temp.c_str());                         *)
Resend ==
    /\ pc = "await"
    /\ polls = Polls
    /\ OneSecond
    /\ toHub' = <<>>
    /\ toPump' = Append(toPump, cmd)
    /\ polls' = 0
    /\ UNCHANGED <<pump_pin, open, pc, cmd, OnValve, hubResets, ctlResets>>

Await == Acked \/ NoAck \/ Resend

(* The WiFi module starts again: its memory and its receive buffer are gone,*)
(* the pump board is not told anything but the "0,0" of setup().            *)
HubReset ==
    /\ hubResets < MaxHubResets
    /\ hubResets' = hubResets + 1
    /\ pc' = "loop"
    /\ cmd' = Off
    /\ polls' = 0
    /\ OnValve' = default_no
    /\ toHub' = <<>>
    /\ toPump' = Append(toPump, Off)
    /\ UNCHANGED <<pump_pin, open, lag, ctlResets>>

-----------------------------------------------------------------------------
(* The board.                                                               *)

ReadSerial ==
    /\ ControllerLoop
    /\ lag' = 0
    /\ UNCHANGED <<hubVars, hubResets, ctlResets>>

ControllerReset ==
    /\ ctlResets < MaxCtlResets
    /\ ctlResets' = ctlResets + 1
    /\ ControllerRestart
    /\ lag' = 0
    /\ UNCHANGED <<hubVars, hubResets>>

Next ==
    \/ \E v \in Requests : please_on_the_pump(v)
    \/ please_off_the_pump
    \/ Await
    \/ HubReset
    \/ ReadSerial
    \/ ControllerReset

Spec == Init /\ [][Next]_vars

(* Both boards run their loops for ever: the hub is never stuck inside a    *)
(* poll and the pump board always reaches Serial.available() again.         *)
Fairness == WF_vars(Await) /\ WF_vars(ReadSerial)

FairSpec == Spec /\ Fairness

-----------------------------------------------------------------------------
(* Every variable has its type; unread commands and answers are unbounded.  *)
TypeOK ==
    /\ pump_pin \in BOOLEAN
    /\ open \subseteq Valves
    /\ toPump \in Seq(Commands)
    /\ toHub \in Seq({"0", "1"})
    /\ pc \in {"loop", "await"}
    /\ cmd \in Commands
    /\ polls \in 0..Polls
    /\ OnValve \in Requests \cup {default_no}
    /\ lag \in 0..MaxLag
    /\ hubResets \in 0..MaxHubResets
    /\ ctlResets \in 0..MaxCtlResets

(* While the hub has not been reset, a pump it believes stopped is stopped  *)
(* and every valve is closed: the "0" it accepted was not the late answer   *)
(* to an earlier command, and no copy of an earlier start command is still  *)
(* on its way.  Resets of the pump board do not disturb this.               *)
StoppedIsStopped ==
    hubResets = 0 /\ pc = "loop" /\ OnValve = default_no
        => ~pump_pin /\ open = {}

(* While neither board has been reset, a pump the hub believes to serve a   *)
(* valve is running with that valve open and no other.                      *)
RunningIsRunning ==
    hubResets = 0 /\ ctlResets = 0 /\ pc = "loop" /\ OnValve # default_no
        => pump_pin /\ open = {OnValve}

(* The pump never pushes against closed valves, and while the hub has not   *)
(* been reset it never fills two tanks at once.                             *)
OneOpenValve ==
    /\ pump_pin <=> open # {}
    /\ hubResets = 0 => \A v, w \in open : v = w

(* The hub only believes in valves that exist: a start command for a valve  *)
(* the board does not have is never taken for answered.                     *)
BelievesInWiredValve ==
    hubResets = 0 /\ OnValve # default_no => OnValve \in Valves

(* What the hub believes of the pump between two commands is so.            *)
PumpIsAsBelieved == StoppedIsStopped /\ RunningIsRunning /\ BelievesInWiredValve

(* The pump comes on, or changes valves, only for the start command the hub *)
(* is waiting on at that moment; never for a copy that arrives late.        *)
NoLateStart ==
    [][hubResets = 0 /\ ctlResets = 0 /\ pump_pin' /\ open' # open
          => pc = "await" /\ open' = {cmd.valve}]_vars

(* What fairness acts on: the hub's polling has a branch for every answer,  *)
(* and the board's loop() takes whatever text has come.  The hypothesis of  *)
(* the proof of CommandsReturn.                                             *)
LoopsRunOn ==
    /\ pc = "await" /\ (toPump # <<>> => lag < MaxLag) => ENABLED <<Await>>_vars
    /\ toPump # <<>> => ENABLED <<ReadSerial>>_vars

(* A command for a wired valve returns, although copies of it, commands     *)
(* before it and their answers are still on the lines and resets of the     *)
(* board have lost some: it is enough that the board stops resetting and    *)
(* from some time on reads before the hub repeats itself.                   *)
CommandsReturn ==
    <>[](lag < Polls) /\ [](hubResets = 0) /\ <>[][ctlResets' = ctlResets]_vars =>
        \A c \in {On(v) : v \in Valves} \cup {Off} :
            pc = "await" /\ cmd = c ~> pc = "loop"

(* setup() writes "0,0" "to stop the pump after reseting of wifimodule": so *)
(* once the hub has started and the board has read what was written to it,  *)
(* the pump is stopped until the hub asks for it again.                     *)
BootStopsPump ==
    hubResets > 0 /\ pc = "loop" /\ OnValve = default_no /\ toPump = <<>>
        => ~pump_pin

=============================================================================
