------------------------ MODULE PumpRefinementProofs ------------------------
(***************************************************************************)
(* Every step of the serial protocol is a step of PumpService or changes   *)
(* nothing its caller can see, until the hub is reset.                      *)
(***************************************************************************)
EXTENDS PumpLinkRefinement, PumpLinkProofs

serviceVars == <<requested, running, believed, tripped>>

(* What a command in effect says of the pump, seen from the service.        *)
LEMMA RunningTarget ==
    ASSUME NEW c \in Commands, InEffect(c)
    PROVE  running = Target(c) \/ (tripped /\ running = {})
  BY DEF InEffect, CarriedOut, Stopped, running, tripped, Target

(* A command that is waited for is the last one on the line, so that the    *)
(* board, which reads the whole line, never repeats the one before it.      *)
LastIsCmd == pc = "await" /\ toPump # << >> => toPump[Len(toPump)] = cmd

LEMMA LastIsCmdStep == ASSUME TypeOK, LastIsCmd, [Next]_vars PROVE LastIsCmd'
  <1>a. \A c \in Commands : Append(toPump, c)[Len(Append(toPump, c))] = c
    BY DEF TypeOK
  <1>1. ASSUME NEW c \in Commands, Send(c) PROVE LastIsCmd'
    BY <1>1, <1>a DEF Send, LastIsCmd
  <1>2. ASSUME NEW v \in Requests, please_on_the_pump(v) PROVE LastIsCmd'
    BY <1>1, <1>2, CommandFields DEF please_on_the_pump
  <1>3. CASE please_off_the_pump
    BY <1>1, <1>3, CommandFields DEF please_off_the_pump
  <1>4. CASE Acked \/ NoAck
    BY <1>4 DEF Acked, NoAck, LastIsCmd
  <1>5. CASE Resend
    <2>1. cmd \in Commands /\ cmd' = cmd /\ toPump' = Append(toPump, cmd)
      BY <1>5 DEF Resend, TypeOK
    <2> QED BY <2>1, <1>a DEF LastIsCmd
  <1>6. CASE HubReset
    BY <1>6 DEF HubReset, LastIsCmd
  <1>7. CASE ReadSerial \/ ControllerReset
    BY <1>7 DEF ReadSerial, ControllerLoop, ControllerReset, ControllerRestart, LastIsCmd
  <1>8. CASE UNCHANGED vars
    BY <1>8 DEF vars, LastIsCmd
  <1> QED BY <1>2, <1>3, <1>4, <1>5, <1>6, <1>7, <1>8 DEF Next, Await

THEOREM LastIsCmdAlways == Spec => []LastIsCmd
  <1>1. Init => LastIsCmd
    BY DEF Init, LastIsCmd
  <1>2. TypeOK /\ LastIsCmd /\ [Next]_vars => LastIsCmd'
    BY LastIsCmdStep
  <1> QED BY <1>1, <1>2, TypeCorrect, PTL DEF Spec

(* The mapped request is what the protocol has on its way.                  *)
LEMMA RequestedTarget ==
    ASSUME TypeOK
    PROVE  /\ believed = Target(Current)
           /\ pc = "loop" => requested = Target(Current)
           /\ pc = "await" => requested = Target(cmd)
  <1>1. OnValve # default_no => Current # Off /\ Current.valve = OnValve
    BY CommandFields DEF TypeOK, Current
  <1> QED BY <1>1 DEF believed, requested, ValveSet, Target, Current

LEMMA ServiceInit == Init => Service!Init
  BY DEF Init, ControllerInit, Service!Init, requested, running, believed, tripped, ValveSet

(* A hub that has not been reset was not reset before.                      *)
LEMMA HubResetsStays ==
    ASSUME TypeOK, [Next]_vars, hubResets' = 0
    PROVE  hubResets = 0 /\ ~HubReset
  <1>1. hubResets' = hubResets \/ HubReset
    BY DEF Next, Await, please_on_the_pump, please_off_the_pump, Send, Acked, NoAck, Resend,
           ReadSerial, ControllerReset, hubVars, vars
  <1>2. ~HubReset
    BY DEF HubReset, TypeOK
  <1> QED BY <1>1, <1>2

(* The requests of the hub: a start is a Start of the service, a stop a     *)
(* Stop.                                                                    *)
LEMMA RequestStarts ==
    ASSUME NEW v \in Requests, please_on_the_pump(v) PROVE Service!Start(v)
  <1>1. /\ OnValve = default_no /\ OnValve' = OnValve /\ pc = "loop" /\ pc' = "await"
        /\ cmd' = On(v) /\ UNCHANGED <<pump_pin, open, tripped>>
    BY DEF please_on_the_pump, Send, tripped
  <1>2. cmd' # Off /\ cmd'.valve = v
    BY <1>1, CommandFields
  <1> QED BY <1>1, <1>2 DEF Service!Start, requested, running, believed, ValveSet, Target

LEMMA RequestStops ==
    ASSUME please_off_the_pump PROVE Service!Stop
  <1>1. /\ OnValve # default_no /\ OnValve' = OnValve /\ pc = "loop" /\ pc' = "await"
        /\ cmd' = Off /\ UNCHANGED <<pump_pin, open, tripped>>
    BY DEF please_off_the_pump, Send, tripped
  <1> QED BY <1>1 DEF Service!Stop, requested, running, believed, ValveSet, Target

(* Everything else is the pump settling, the hub taking it for settled, or  *)
(* the board stopping.                                                      *)
PumpActs == Service!Settle \/ Service!Confirm \/ Service!Trip \/ UNCHANGED serviceVars

LEMMA LinkActs ==
    ASSUME IInv, IInv', LastIsCmd, hubResets = 0, hubResets' = 0,
           Await \/ ReadSerial \/ ControllerReset
    PROVE  PumpActs
  <1>0. TypeOK /\ TypeOK' /\ Protocol /\ Protocol'
         /\ (ctlResets' = ctlResets => tripped' = tripped)
    BY DEF IInv, tripped
  <1>1. CASE Acked
    <2>1. /\ pc = "await" /\ pc' = "loop" /\ UNCHANGED <<pump_pin, open, tripped>>
          /\ toHub = <<cmd.status>>
      BY <1>0, <1>1 DEF Acked, Answered
    <2>2. Done /\ cmd \in Commands /\ Alternating
      BY <1>0, <2>1 DEF Protocol, Asked, All, Alternating, TypeOK
    <2>3. /\ running = Target(cmd) \/ (tripped /\ running = {})
          /\ requested = Target(cmd) /\ running' = running
      BY <1>0, <2>1, <2>2, RunningTarget, RequestedTarget DEF Done, running
    <2>4. ValveSet(OnValve)' = Target(cmd)
      <3>1. cmd # Off => cmd.valve # default_no
        BY <2>2, CommandFields, RequestsAssumption DEF default_no
      <3> QED BY <1>1, <3>1 DEF Acked, ValveSet, Target
    <2>5. believed' = Target(cmd) /\ requested' = Target(cmd)
      BY <2>1, <2>4 DEF believed, requested
    <2>6. believed # requested
      <3>1. (cmd = Off) # (Current = Off)
        BY <1>0, <2>2, CurrentType, CommandFields DEF Alternating
      <3> QED BY <1>0, <2>3, <3>1, RequestedTarget DEF Target
    <2>7. requested \subseteq Valves
      BY <2>2, <2>3 DEF Done, Wired, Target
    <2> QED BY <2>1, <2>3, <2>5, <2>6, <2>7 DEF PumpActs, Service!Confirm
  <1>2. CASE NoAck \/ Resend
    BY <1>2 DEF PumpActs, NoAck, Resend, serviceVars, requested, running, believed, tripped
  <1>3. CASE ReadSerial
    <2>1. UNCHANGED <<pc, cmd, OnValve, requested, believed, tripped>>
      BY <1>3, ReadEffect, <1>0 DEF requested, believed
    <2>2. CASE UNCHANGED <<pump_pin, open, toHub>>
      BY <2>1, <2>2 DEF PumpActs, serviceVars, running
    <2>3. ASSUME NEW c \in Commands, Repeats(c) PROVE PumpActs
      <3>1. c = toPump[1] /\ Len(toPump) = 1 /\ Wired(c)
        BY <2>3 DEF Repeats
      <3>2. c = IF pc = "await" THEN cmd ELSE Current
        <4>1. toPump # << >>
          BY <3>1
        <4>2. CASE pc = "await"
          BY <3>1, <4>1, <4>2 DEF LastIsCmd
        <4>3. CASE pc = "loop"
          BY <1>0, <3>1, <4>3 DEF Protocol, Idle, All
        <4> QED BY <1>0, <4>2, <4>3 DEF TypeOK
      <3>3. requested = Target(c) /\ requested' = requested
        BY <1>0, <2>1, <3>2, RequestedTarget DEF TypeOK
      <3>4. CarriedOut(c)'
        <4>1. PICK d \in Commands : InEffect(d) /\ (d = c \/ d.status # c.status)
          BY <1>0, <3>2, CurrentType, CommandFields
          DEF Protocol, Idle, Asked, Done, TypeOK, Alternating
        <4> QED BY <1>0, <2>3, <4>1, RepeatIsHarmless
      <3>5. running' = Target(c)
        BY <3>4 DEF CarriedOut, Stopped, running, Target
      <3>6. Target(c) \subseteq Valves
        BY <3>1 DEF Target, Wired
      <3> QED BY <2>1, <3>3, <3>5, <3>6 DEF PumpActs, Service!Settle, serviceVars
    <2> QED BY <1>0, <1>3, <2>2, <2>3, ReadEffect
  <1>4. CASE ControllerReset
    <2>1. UNCHANGED <<pc, cmd, OnValve, requested, believed>> /\ running' = {}
      BY <1>4 DEF ControllerReset, ControllerRestart, hubVars, requested, believed, running
    <2>2. tripped'
      BY <1>0, <1>4 DEF ControllerReset, TypeOK, tripped
    <2> QED BY <2>1, <2>2 DEF PumpActs, Service!Trip
  <1> QED BY <1>1, <1>2, <1>3, <1>4 DEF Await

LEMMA ServiceStep ==
    ASSUME IInv, IInv', LastIsCmd, [Next]_vars, hubResets' = 0
    PROVE  [Service!Next]_serviceVars
  <1>0. hubResets = 0 /\ hubResets' = 0 /\ ~HubReset
    BY HubResetsStays DEF IInv
  <1>1. ASSUME NEW v \in Requests, please_on_the_pump(v) PROVE Service!Next
    BY <1>1, RequestStarts DEF Service!Next
  <1>2. CASE please_off_the_pump
    BY <1>2, RequestStops DEF Service!Next
  <1>3. CASE Await \/ ReadSerial \/ ControllerReset
    BY <1>0, <1>3, LinkActs DEF PumpActs, Service!Next
  <1>4. CASE UNCHANGED vars
    BY <1>4 DEF vars, serviceVars, requested, running, believed, tripped
  <1> QED BY <1>0, <1>1, <1>2, <1>3, <1>4 DEF Next

(* Until the hub resets the serial protocol implements PumpService:         *)
(* retries, repeated commands, late answers, joined texts and whatever a    *)
(* reset of the board loses are invisible to the code that calls it.        *)
THEOREM LinkImplementsService == Spec => ImplementsService
  <1>1. IInv /\ IInv' /\ LastIsCmd /\ [Next]_vars
          => [hubResets' = 0 => [Service!Next]_(Service!vars)]_vars
    BY ServiceStep DEF Service!vars, serviceVars
  <1> QED BY <1>1, ServiceInit, Inductive, LastIsCmdAlways, PTL
          DEF Spec, ImplementsService

=============================================================================
