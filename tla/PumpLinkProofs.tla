--------------------------- MODULE PumpLinkProofs ---------------------------
(***************************************************************************)
(* Why the retries of the serial protocol are harmless, for any number of  *)
(* valves, any lag of the pump board and any number of its resets.         *)
(*                                                                         *)
(* The argument is that of the alternating bit.  Start and stop commands   *)
(* alternate, and so do their answers "1" and "0".  While a command waits, *)
(* either the board has not carried it out: then every answer under way    *)
(* belongs to the command before it; or the board has: then no copy of the *)
(* command before it is left, because a read empties the whole line.       *)
(***************************************************************************)
EXTENDS PumpLink, TLAPS

(* What OnValve says was done last.                                         *)
Current == IF OnValve = default_no THEN Off ELSE On(OnValve)

All(s, S) == \A i \in 1..Len(s) : s[i] \in S

Stopped    == ~pump_pin /\ open = {}
CarriedOut(c) == IF c = Off THEN Stopped ELSE pump_pin /\ open = {c.valve}

(* A reset of the board may have stopped the pump since.                    *)
InEffect(c) == CarriedOut(c) \/ (ctlResets > 0 /\ Stopped)

Wired(c) == c = Off \/ c.valve \in Valves

(* Nothing is being asked.                                                  *)
Idle ==
    /\ cmd = Off
    /\ All(toPump, {Current})
    /\ All(toHub, {Current.status})
    /\ InEffect(Current)

(* cmd is being asked and the board has not carried it out.                 *)
Asked ==
    /\ All(toPump, {Current, cmd})
    /\ All(toHub, {Current.status})
    /\ InEffect(Current)

(* cmd is being asked and the board has carried it out.                     *)
Done ==
    /\ Wired(cmd)
    /\ All(toPump, {cmd})
    /\ All(toHub, {Current.status, cmd.status})
    /\ InEffect(cmd)

Alternating == cmd.status # Current.status

Protocol ==
    /\ Wired(Current)
    /\ pc = "loop" => Idle
    /\ pc = "await" => Alternating /\ (Asked \/ Done)

IInv ==
    /\ TypeOK
    /\ hubResets = 0 => Protocol

PumpNeedsValve == pump_pin <=> open # {}

-----------------------------------------------------------------------------
(* What the two kinds of command look like.                                 *)
LEMMA CommandFields ==
    /\ Off \in Commands /\ Off.status = "0" /\ Off.valve = 0
    /\ \A v \in Requests : /\ On(v) \in Commands
                           /\ On(v).status = "1" /\ On(v).valve = v /\ v # 0
    /\ \A c \in Commands : /\ c.status \in {"0", "1"}
                           /\ c.status = "0" => c = Off
                           /\ c.status = "1" => c.valve \in Requests /\ c = On(c.valve)
  BY RequestsAssumption DEF Commands, On, Off, NoValve

(* A sequence whose elements are all in S keeps that when one more is added.*)
LEMMA AppendAll ==
    ASSUME NEW T, NEW s \in Seq(T), NEW e \in T, NEW S, All(s, S), e \in S
    PROVE  All(Append(s, e), S)
  BY DEF All

(* The empty sequence has no element outside S.                             *)
LEMMA EmptyAll == ASSUME NEW S PROVE All(<< >>, S)
  BY DEF All

(* A read returns the one command that has arrived, or a joined text.       *)
LEMMA ReadOne ==
    ASSUME NEW line \in Seq(Commands), line # << >>
    PROVE  \/ /\ Len(line) = 1
              /\ ReadCommand(line) = line[1]
           \/ ReadCommand(line).status = "joined"
  <1>1. /\ Len(line) \in Nat /\ Len(line) > 0
        /\ Head(line) = line[1] /\ line[1] \in Commands
    OBVIOUS
  <1>2. CASE Len(line) = 1
    <2>1. ReadCommand(line) = [valve |-> line[1].valve, status |-> line[1].status]
      BY <1>1, <1>2 DEF ReadCommand
    <2>2. line[1] = [valve |-> line[1].valve, status |-> line[1].status]
      BY <1>1 DEF Commands, On, Off
    <2> QED BY <1>2, <2>1, <2>2
  <1>3. CASE Len(line) # 1
    BY <1>3 DEF ReadCommand
  <1> QED BY <1>2, <1>3

-----------------------------------------------------------------------------
LEMMA InitType == Init => TypeOK
  <1> SUFFICES ASSUME Init PROVE TypeOK
    OBVIOUS
  <1>1. /\ pump_pin \in BOOLEAN /\ open \subseteq Valves
        /\ pc \in {"loop", "await"} /\ cmd \in Commands
        /\ OnValve \in Requests \cup {default_no}
    BY CommandFields DEF Init, ControllerInit
  <1>2. toPump \in Seq(Commands)
    BY CommandFields DEF Init
  <1>3. toHub \in Seq({"0", "1"})
    BY DEF Init
  <1>4. /\ polls \in 0..Polls /\ lag \in 0..MaxLag
        /\ hubResets \in 0..MaxHubResets /\ ctlResets \in 0..MaxCtlResets
    BY BoundsAssumption DEF Init, Polls
  <1> QED BY <1>1, <1>2, <1>3, <1>4 DEF TypeOK

LEMMA TypeStep == TypeOK /\ [Next]_vars => TypeOK'
  <1> SUFFICES ASSUME TypeOK, [Next]_vars PROVE TypeOK'
    OBVIOUS
  <1> USE DEF TypeOK, Polls, default_no
  <1>s. ASSUME NEW c \in Commands, Send(c) PROVE TypeOK'
    BY <1>s DEF Send
  <1>1. ASSUME NEW v \in Requests, please_on_the_pump(v) PROVE TypeOK'
    BY <1>1, <1>s, CommandFields DEF please_on_the_pump
  <1>2. CASE please_off_the_pump
    BY <1>2, <1>s, CommandFields DEF please_off_the_pump
  <1>o. OneSecond => lag' \in 0..MaxLag
    <2>1. CASE toPump = <<>>
      BY <2>1 DEF OneSecond
    <2>2. CASE toPump # <<>>
      BY <2>2, BoundsAssumption DEF OneSecond
    <2> QED BY <2>1, <2>2
  <1>3. CASE Acked
    <2>1. OnValve' \in Requests \cup {-1}
      BY <1>3, CommandFields DEF Acked
    <2>2. cmd' \in Commands
      BY <1>3, CommandFields DEF Acked
    <2> QED BY <1>3, <1>o, <2>1, <2>2 DEF Acked
  <1>4. CASE NoAck
    BY <1>4, <1>o DEF NoAck
  <1>5. CASE Resend
    BY <1>5, <1>o DEF Resend
  <1>6. CASE HubReset
    BY <1>6, CommandFields, BoundsAssumption DEF HubReset
  <1>7. CASE ReadSerial
    <2>1. PICK m : SwitchOn(m) \/ SwitchOff(m) \/ IgnoreText(m)
      BY <1>7 DEF ReadSerial, ControllerLoop
    <2>2. /\ pump_pin' \in BOOLEAN /\ open' \subseteq Valves
      BY <2>1 DEF SwitchOn, SwitchOff, IgnoreText
    <2>3. toHub' \in Seq({"0", "1"})
      <3>1. \A e \in {"0", "1"} : Append(toHub, e) \in Seq({"0", "1"})
        OBVIOUS
      <3>2. toHub' \in {toHub, Append(toHub, "0"), Append(toHub, "1")}
        BY <2>1 DEF SwitchOn, SwitchOff, IgnoreText
      <3> QED BY <3>1, <3>2
    <2>4. toPump' \in Seq(Commands)
      BY <1>7 DEF ReadSerial, ControllerLoop
    <2>5. lag' \in 0..MaxLag
      BY <1>7, BoundsAssumption DEF ReadSerial
    <2> QED BY <1>7, <2>2, <2>3, <2>4, <2>5 DEF ReadSerial, hubVars
  <1>8. CASE ControllerReset
    <2>1. toPump' \in Seq(Commands)
      BY <1>8 DEF ControllerReset, ControllerRestart
    <2>2. /\ lag' \in 0..MaxLag
          /\ ctlResets' \in 0..MaxCtlResets
      BY <1>8, BoundsAssumption DEF ControllerReset
    <2> QED BY <1>8, <2>1, <2>2 DEF ControllerReset, ControllerRestart, hubVars
  <1>9. CASE UNCHANGED vars
    BY <1>9 DEF vars
  <1> QED BY <1>1, <1>2, <1>3, <1>4, <1>5, <1>6, <1>7, <1>8, <1>9 DEF Next, Await

(* Every variable keeps its type, whatever is reset, repeated or joined.    *)
THEOREM TypeCorrect == Spec => []TypeOK
  BY InitType, TypeStep, PTL DEF Spec

-----------------------------------------------------------------------------
(* A pass of the board's loop either changes nothing but the line, or       *)
(* carries out and answers the only command on it.                          *)
Repeats(c) ==
    /\ All(toPump, {c})
    /\ Len(toPump) = 1 /\ toPump[1] = c
    /\ Wired(c)
    /\ toHub' = Append(toHub, c.status)
    /\ IF c = Off THEN Stopped' ELSE pump_pin' /\ open' = open \cup {c.valve}

LEMMA ReadEffect ==
    ASSUME TypeOK, ReadSerial
    PROVE  /\ toPump' = << >>
           /\ UNCHANGED <<pc, cmd, OnValve, hubResets, ctlResets>>
           /\ \/ UNCHANGED <<pump_pin, open, toHub>>
              \/ \E c \in Commands : Repeats(c)
  <1> DEFINE m == ReadCommand(toPump)
  <1>1. /\ toPump' = << >> /\ toPump # << >> /\ toPump \in Seq(Commands)
        /\ UNCHANGED <<pc, cmd, OnValve, hubResets, ctlResets>>
        /\ SwitchOn(m) \/ SwitchOff(m) \/ IgnoreText(m)
    BY DEF ReadSerial, ControllerLoop, hubVars, TypeOK
  <1>2. CASE IgnoreText(m)
    BY <1>1, <1>2 DEF IgnoreText
  <1>3. CASE m.status = "joined"
    <2>1. ~SwitchOn(m) /\ ~SwitchOff(m)
      BY <1>3 DEF SwitchOn, SwitchOff
    <2> QED BY <1>1, <1>2, <2>1
  <1>4. ASSUME SwitchOn(m) \/ SwitchOff(m), m.status # "joined"
        PROVE  \E c \in Commands : Repeats(c)
    <2>1. /\ Len(toPump) = 1 /\ m = toPump[1] /\ m \in Commands
      BY <1>1, <1>4, ReadOne
    <2>2. All(toPump, {m})
      BY <2>1 DEF All
    <2>3. CASE SwitchOn(m)
      <3>1. m # Off /\ m.status = "1"
        BY <2>3, CommandFields DEF SwitchOn
      <3>2. Wired(m) /\ pump_pin' /\ open' = open \cup {m.valve}
        BY <2>3 DEF SwitchOn, Wired
      <3>3. toHub' = Append(toHub, m.status)
        BY <2>3, <3>1 DEF SwitchOn
      <3> QED BY <2>1, <2>2, <3>1, <3>2, <3>3 DEF Repeats
    <2>4. CASE SwitchOff(m)
      <3>1. m = Off /\ m.status = "0"
        BY <2>1, <2>4, CommandFields DEF SwitchOff
      <3>2. Stopped' /\ toHub' = Append(toHub, m.status)
        BY <2>4, <3>1 DEF SwitchOff, Stopped
      <3> QED BY <2>1, <2>2, <3>1, <3>2 DEF Repeats, Wired
    <2> QED BY <1>4, <2>1, <2>3, <2>4
  <1> QED BY <1>1, <1>2, <1>3, <1>4

LEMMA ReadEmpties == ReadSerial => toPump # << >> /\ toPump' = << >>
  BY DEF ReadSerial, ControllerLoop

(* Carrying out a command that is in effect, or the command that follows    *)
(* it, leaves exactly that command carried out.                             *)
LEMMA RepeatIsHarmless ==
    ASSUME TypeOK, NEW c \in Commands, Repeats(c), NEW d \in Commands,
           InEffect(d), d = c \/ d.status # c.status
    PROVE  CarriedOut(c)'
  <1>1. CASE c = Off
    BY <1>1 DEF Repeats, CarriedOut
  <1>2. CASE c # Off
    <2>1. open = {} \/ open = {c.valve}
      <3>1. CASE d = c
        BY <1>2, <3>1 DEF InEffect, CarriedOut, Stopped
      <3>2. CASE d.status # c.status
        <4>1. d = Off
          BY <1>2, <3>2, CommandFields
        <4> QED BY <4>1 DEF InEffect, CarriedOut, Stopped
      <3> QED BY <3>1, <3>2
    <2>2. pump_pin' /\ open' = {c.valve}
      BY <1>2, <2>1 DEF Repeats
    <2> QED BY <1>2, <2>2 DEF CarriedOut
  <1> QED BY <1>1, <1>2

LEMMA CurrentType == TypeOK => Current \in Commands
  BY CommandFields DEF TypeOK, Current

LEMMA InitProtocol == Init => Protocol
  <1> SUFFICES ASSUME Init PROVE Protocol
    OBVIOUS
  <1>1. Current = Off
    BY DEF Init, Current
  <1>2. InEffect(Off)
    BY DEF Init, ControllerInit, InEffect, CarriedOut, Stopped
  <1>3. All(toPump, {Off}) /\ All(toHub, {Off.status})
    BY DEF Init, All
  <1> QED BY <1>1, <1>2, <1>3 DEF Init, Protocol, Idle, Wired

-----------------------------------------------------------------------------
(* The protocol invariant survives every step of an unreset hub.            *)
LEMMA SendStep ==
    ASSUME TypeOK, Protocol, NEW c \in Commands, Send(c), c.status # Current.status
    PROVE  Protocol'
  <1>1. /\ Idle /\ Wired(Current)
        /\ pc' = "await" /\ cmd' = c /\ toPump' = Append(toPump, c)
        /\ UNCHANGED <<pump_pin, open, toHub, OnValve, ctlResets>>
    BY DEF Protocol, Send
  <1>2. /\ Current' = Current /\ Wired(Current)'
        /\ InEffect(Current)' /\ All(toHub, {Current.status})'
    BY <1>1 DEF Current, Wired, Idle, InEffect, CarriedOut, Stopped, All
  <1>3. All(toPump, {Current, cmd})'
    <2>1. All(toPump, {Current, c}) /\ toPump \in Seq(Commands)
      BY <1>1 DEF Idle, All, TypeOK
    <2> QED BY <1>1, <1>2, <2>1, AppendAll
  <1> QED BY <1>1, <1>2, <1>3 DEF Protocol, Asked, Alternating

LEMMA AckedStep ==
    ASSUME TypeOK, Protocol, Acked
    PROVE  Protocol'
  <1>1. /\ Alternating /\ (Asked \/ Done)
        /\ toHub = <<cmd.status>> /\ pc' = "loop" /\ cmd' = Off
        /\ toHub' = << >>
        /\ UNCHANGED <<pump_pin, open, toPump, ctlResets>>
    BY DEF Protocol, Acked, Answered
  <1>2. Done
    BY <1>1 DEF Asked, All, Alternating, Protocol, Acked
  <1>3. Current' = cmd
    <2>1. cmd \in Commands /\ cmd # Off => cmd = On(cmd.valve) /\ cmd.valve # default_no
      BY CommandFields, RequestsAssumption DEF TypeOK, default_no
    <2> QED BY <2>1 DEF Acked, Current, TypeOK
  <1>4. Wired(Current)' /\ InEffect(Current)' /\ All(toPump, {Current})'
    BY <1>1, <1>2, <1>3 DEF Done, Wired, InEffect, CarriedOut, Stopped, All
  <1>5. All(toHub, {Current.status})'
    BY <1>1 DEF All
  <1> QED BY <1>1, <1>4, <1>5 DEF Protocol, Idle

LEMMA WaitStep ==
    ASSUME TypeOK, Protocol, NoAck \/ Resend
    PROVE  Protocol'
  <1>1. /\ Wired(Current) /\ Alternating /\ pc = "await"
        /\ Asked \/ Done
        /\ toHub' = << >>
        /\ toPump' \in {toPump, Append(toPump, cmd)}
        /\ UNCHANGED <<pump_pin, open, pc, cmd, OnValve, ctlResets>>
    BY DEF Protocol, NoAck, Resend
  <1>2. /\ Current' = Current /\ Wired(Current)' /\ Alternating'
    BY <1>1 DEF Current, Wired, Alternating
  <1>3. toPump \in Seq(Commands) /\ cmd \in Commands
    BY DEF TypeOK
  <1>4. \A S : All(toHub', S)
    BY <1>1 DEF All
  <1>5. CASE Asked
    <2>1. All(toPump, {Current, cmd})'
      <3>1. All(Append(toPump, cmd), {Current, cmd})
        BY <1>3, <1>5, AppendAll DEF Asked
      <3>2. All(toPump', {Current, cmd})
        BY <1>1, <1>5, <3>1 DEF Asked
      <3> QED BY <1>1, <1>2, <3>2
    <2>2. InEffect(Current)'
      BY <1>1, <1>2, <1>5 DEF Asked, InEffect, CarriedOut, Stopped
    <2> QED BY <1>1, <1>2, <1>4, <2>1, <2>2 DEF Protocol, Asked
  <1>6. CASE Done
    <2>1. All(toPump, {cmd})'
      BY <1>1, <1>3, <1>6, AppendAll DEF Done
    <2>2. InEffect(cmd)' /\ Wired(cmd)'
      BY <1>1, <1>6 DEF Done, InEffect, CarriedOut, Stopped, Wired
    <2> QED BY <1>1, <1>2, <1>4, <2>1, <2>2 DEF Protocol, Done
  <1> QED BY <1>1, <1>5, <1>6

LEMMA ReadStep ==
    ASSUME TypeOK, Protocol, ReadSerial
    PROVE  Protocol'
  <1>1. /\ toPump' = << >>
        /\ UNCHANGED <<pc, cmd, OnValve, ctlResets>>
        /\ Current' = Current /\ Wired(Current)' /\ Alternating' = Alternating
    BY ReadEffect DEF Current, Protocol, Wired, Alternating
  <1>2. \A S : All(toPump', S)
    BY <1>1 DEF All
  <1>3. CASE UNCHANGED <<pump_pin, open, toHub>>
    <2>1. /\ InEffect(Current)' = InEffect(Current)
          /\ InEffect(cmd)' = InEffect(cmd)
          /\ Wired(cmd)' = Wired(cmd)
      BY <1>1, <1>3 DEF InEffect, CarriedOut, Stopped, Wired
    <2>2. \A S : All(toHub', S) <=> All(toHub, S)
      BY <1>3 DEF All
    <2>3. /\ Idle => Idle'
          /\ Asked => Asked'
          /\ Done => Done'
      BY <1>1, <1>2, <2>1, <2>2 DEF Idle, Asked, Done
    <2> QED BY <1>1, <2>3 DEF Protocol
  <1>4. ASSUME NEW c \in Commands, Repeats(c) PROVE Protocol'
    <2>1. /\ Current \in Commands /\ cmd \in Commands
          /\ toHub \in Seq({"0", "1"}) /\ c.status \in {"0", "1"}
          /\ c = toPump[1] /\ Len(toPump) = 1 /\ Wired(c)
          /\ toHub' = Append(toHub, c.status)
      BY <1>4, CurrentType, CommandFields DEF TypeOK, Repeats
    <2>2. \A S : All(toHub, S) /\ c.status \in S => All(toHub', S)
      BY <2>1, AppendAll
    <2>3. \A d : CarriedOut(d)' => InEffect(d)'
      BY DEF InEffect
    <2>4. CASE pc = "loop"
      <3>1. Idle /\ c = Current
        BY <2>1, <2>4 DEF Protocol, Idle, All
      <3>2. InEffect(Current)'
        BY <1>1, <1>4, <2>1, <2>3, <3>1, RepeatIsHarmless DEF Idle
      <3>3. All(toHub, {Current.status})'
        BY <1>1, <2>2, <3>1 DEF Idle
      <3> QED BY <1>1, <1>2, <2>4, <3>1, <3>2, <3>3 DEF Protocol, Idle
    <2>5. CASE pc = "await" /\ Asked /\ c = Current
      <3>1. InEffect(Current)'
        BY <1>1, <1>4, <2>1, <2>3, <2>5, RepeatIsHarmless DEF Asked
      <3>2. All(toHub, {Current.status})'
        BY <1>1, <2>2, <2>5 DEF Asked
      <3> QED BY <1>1, <1>2, <2>5, <3>1, <3>2 DEF Protocol, Asked
    <2>6. CASE pc = "await" /\ c = cmd /\ (Asked \/ Done)
      <3>1. \E d \in Commands : InEffect(d) /\ (d = c \/ d.status # c.status)
        BY <2>1, <2>6 DEF Asked, Done, Protocol, Alternating
      <3>2. CarriedOut(c)'
        BY <1>4, <3>1, RepeatIsHarmless
      <3>3. InEffect(cmd)' /\ Wired(cmd)'
        BY <1>1, <2>1, <2>3, <2>6, <3>2 DEF Wired, InEffect, CarriedOut, Stopped
      <3>4. All(toHub, {Current.status, cmd.status})
        BY <2>6 DEF Asked, Done, All
      <3>5. All(toHub, {Current.status, cmd.status})'
        BY <1>1, <2>2, <2>6, <3>4
      <3> QED BY <1>1, <1>2, <2>6, <3>3, <3>5 DEF Protocol, Done
    <2>7. CASE pc = "await"
      <3>1. c \in {Current, cmd} /\ (Done => c = cmd) /\ (Asked \/ Done)
        BY <2>1, <2>7 DEF Protocol, Asked, Done, All
      <3> QED BY <2>5, <2>6, <2>7, <3>1
    <2> QED BY <2>4, <2>7 DEF TypeOK
  <1> QED BY <1>3, <1>4, ReadEffect

LEMMA ControllerResetStep ==
    ASSUME TypeOK, Protocol, ControllerReset
    PROVE  Protocol'
  <1>1. /\ toPump' = << >> /\ Stopped' /\ ctlResets' > 0
        /\ UNCHANGED <<pc, cmd, OnValve, toHub>>
    BY DEF ControllerReset, ControllerRestart, hubVars, Stopped, TypeOK
  <1>2. /\ Current' = Current
        /\ \A S : All(toPump', S)
        /\ \A S : All(toHub', S) <=> All(toHub, S)
        /\ \A c : InEffect(c)'
    BY <1>1 DEF Current, All, InEffect
  <1> QED BY <1>1, <1>2 DEF Protocol, Idle, Asked, Done, Wired, Alternating

LEMMA ProtocolStep ==
    ASSUME TypeOK, Protocol, [Next]_vars, hubResets' = 0
    PROVE  Protocol'
  <1>1. ASSUME NEW v \in Requests, please_on_the_pump(v) PROVE Protocol'
    <2>1. On(v).status # Current.status
      BY <1>1, CommandFields DEF please_on_the_pump, Current
    <2> QED BY <1>1, <2>1, SendStep, CommandFields DEF please_on_the_pump
  <1>2. CASE please_off_the_pump
    <2>1. Off.status # Current.status
      BY <1>2, CommandFields DEF please_off_the_pump, Current, TypeOK
    <2> QED BY <1>2, <2>1, SendStep, CommandFields DEF please_off_the_pump
  <1>3. CASE Await
    BY <1>3, AckedStep, WaitStep DEF Await
  <1>4. CASE HubReset
    BY <1>4 DEF HubReset, TypeOK
  <1>5. CASE ReadSerial
    BY <1>5, ReadStep
  <1>6. CASE ControllerReset
    BY <1>6, ControllerResetStep
  <1>7. CASE UNCHANGED vars
    BY <1>7 DEF vars, Protocol, Idle, Asked, Done, Wired, Alternating,
                Current, All, InEffect, CarriedOut, Stopped
  <1> QED BY <1>1, <1>2, <1>3, <1>4, <1>5, <1>6, <1>7 DEF Next

-----------------------------------------------------------------------------
LEMMA IInvInit == Init => IInv
  BY InitType, InitProtocol DEF IInv

LEMMA IInvStep == IInv /\ [Next]_vars => IInv'
  <1> SUFFICES ASSUME IInv, [Next]_vars PROVE IInv'
    OBVIOUS
  <1>1. TypeOK'
    BY TypeStep DEF IInv
  <1>2. ASSUME hubResets' = 0 PROVE Protocol'
    <2>1. hubResets = 0
      BY <1>2 DEF IInv, TypeOK, Next, vars, please_on_the_pump, please_off_the_pump,
                  Send, Await, Acked, NoAck, Resend, HubReset, ReadSerial, ControllerReset
    <2> QED BY <1>2, <2>1, ProtocolStep DEF IInv
  <1> QED BY <1>1, <1>2 DEF IInv

THEOREM Inductive == Spec => []IInv
  BY IInvInit, IInvStep, PTL DEF Spec

(* A pump the hub believes stopped is stopped.                              *)
THEOREM StoppedIsSafe == Spec => []StoppedIsStopped
  <1>1. IInv => StoppedIsStopped
    BY DEF IInv, Protocol, Idle, Current, InEffect, CarriedOut, Stopped, StoppedIsStopped
  <1> QED BY <1>1, Inductive, PTL

(* A pump the hub believes to serve a valve serves that valve alone.        *)
THEOREM RunningIsSafe == Spec => []RunningIsRunning
  <1>1. IInv => RunningIsRunning
    <2> SUFFICES ASSUME IInv, hubResets = 0, ctlResets = 0, pc = "loop",
                        OnValve # default_no
                 PROVE  pump_pin /\ open = {OnValve}
      BY DEF RunningIsRunning
    <2>1. Current # Off /\ Current.valve = OnValve
      BY CommandFields DEF IInv, TypeOK, Current
    <2> QED BY <2>1 DEF IInv, Protocol, Idle, InEffect, CarriedOut
  <1> QED BY <1>1, Inductive, PTL

(* The hub never believes in a valve the board does not have.               *)
THEOREM BelievesInWiredValveAlways == Spec => []BelievesInWiredValve
  <1>1. IInv => BelievesInWiredValve
    <2>1. IInv /\ OnValve # default_no => Current # Off /\ Current.valve = OnValve
      BY CommandFields DEF IInv, TypeOK, Current
    <2> QED BY <2>1 DEF IInv, Protocol, Wired, BelievesInWiredValve
  <1> QED BY <1>1, Inductive, PTL

(* The three together: the hub is never wrong about the pump, however many  *)
(* copies of commands and answers are late, repeated or joined.             *)
THEOREM PumpIsAsBelievedAlways == Spec => []PumpIsAsBelieved
  BY StoppedIsSafe, RunningIsSafe, BelievesInWiredValveAlways, PTL DEF PumpIsAsBelieved

-----------------------------------------------------------------------------
(* The relay and the valves move together whatever is reset.                *)
LEMMA PumpNeedsValveAlways == Spec => []PumpNeedsValve
  <1>1. Init => PumpNeedsValve
    BY DEF Init, ControllerInit, PumpNeedsValve
  <1>2. PumpNeedsValve /\ [Next]_vars => PumpNeedsValve'
    <2> SUFFICES ASSUME PumpNeedsValve, [Next]_vars PROVE PumpNeedsValve'
      OBVIOUS
    <2>1. CASE ReadSerial
      <3>1. PICK m : SwitchOn(m) \/ SwitchOff(m) \/ IgnoreText(m)
        BY <2>1 DEF ReadSerial, ControllerLoop
      <3> QED BY <3>1 DEF PumpNeedsValve, SwitchOn, SwitchOff, IgnoreText
    <2>2. CASE ControllerReset
      BY <2>2 DEF ControllerReset, ControllerRestart, PumpNeedsValve
    <2>3. CASE ~ReadSerial /\ ~ControllerReset
      BY <2>3 DEF Next, vars, please_on_the_pump, please_off_the_pump, Send, Await,
                  Acked, NoAck, Resend, HubReset, PumpNeedsValve
    <2> QED BY <2>1, <2>2, <2>3
  <1> QED BY <1>1, <1>2, PTL DEF Spec

(* The pump never pushes against closed valves and never fills two tanks.   *)
THEOREM OneOpenValveAlways == Spec => []OneOpenValve
  <1>1. IInv /\ PumpNeedsValve => OneOpenValve
    <2> SUFFICES ASSUME IInv, hubResets = 0, NEW v \in open, NEW w \in open
                 PROVE  v = w
      BY DEF OneOpenValve, PumpNeedsValve
    <2>1. InEffect(Current) \/ InEffect(cmd)
      BY DEF IInv, TypeOK, Protocol, Idle, Asked, Done
    <2> QED BY <2>1 DEF InEffect, CarriedOut, Stopped
  <1> QED BY <1>1, Inductive, PumpNeedsValveAlways, PTL

(* No copy of a start command that arrives late switches the pump on or     *)
(* opens another valve.                                                     *)
THEOREM NoLateStartAlways == Spec => NoLateStart
  <1> DEFINE A == hubResets = 0 /\ ctlResets = 0 /\ pump_pin' /\ open' # open
                     => pc = "await" /\ open' = {cmd.valve}
  <1>1. IInv /\ [Next]_vars => [A]_vars
    <2> SUFFICES ASSUME IInv, Next, hubResets = 0, ctlResets = 0, pump_pin',
                        open' # open
                 PROVE  pc = "await" /\ open' = {cmd.valve}
      OBVIOUS
    <2>1. ReadSerial
      BY DEF Next, please_on_the_pump, please_off_the_pump, Send, Await, Acked,
             NoAck, Resend, HubReset, ControllerReset, ControllerRestart
    <2>2. PICK c \in Commands : Repeats(c)
      BY <2>1, ReadEffect DEF IInv
    <2>3. /\ c # Off /\ open' = open \cup {c.valve}
          /\ c = toPump[1] /\ Len(toPump) = 1
      BY <2>2 DEF Repeats, Stopped
    <2>4. ~CarriedOut(c)
      BY <2>3 DEF CarriedOut
    <2>5. Protocol /\ ~InEffect(c)
      BY <2>4 DEF IInv, InEffect
    <2>6. pc = "await" /\ Asked /\ c = cmd
      BY <2>3, <2>5 DEF Protocol, Idle, Asked, Done, All, IInv, TypeOK
    <2>7. Current = Off
      BY <2>3, <2>6, CurrentType, CommandFields DEF IInv, TypeOK, Protocol, Alternating
    <2>8. open = {}
      BY <2>6, <2>7 DEF Asked, InEffect, CarriedOut, Stopped
    <2> QED BY <2>3, <2>6, <2>8
  <1> QED BY <1>1, Inductive, PTL DEF Spec, NoLateStart

-----------------------------------------------------------------------------
(* What the boot command of the hub is worth.  It stops the pump when it is *)
(* alone on the line: so it does when the hub resets with no command of its *)
(* own unread.  The answers alternate as before; but a start and the boot   *)
(* command may be read as one text, so that nothing is known of the pump    *)
(* while a start is being asked, and only "stopped" is known after that.    *)
Stands(c) == c = Off => Stopped

BootIdle ==
    /\ All(toPump, {Current})
    /\ All(toHub, {Current.status})
    /\ Stands(Current) \/ toPump = << Off >>

BootAsked ==
    /\ All(toPump, {Current, cmd})
    /\ All(toHub, {Current.status})

BootDone ==
    /\ All(toPump, {cmd})
    /\ All(toHub, {Current.status, cmd.status})
    /\ Stands(cmd)

BootInv ==
    /\ pc = "loop" => BootIdle
    /\ pc = "await" => Alternating /\ (BootAsked \/ BootDone)

LEMMA BootInit == Init => BootInv
  <1> SUFFICES ASSUME Init PROVE BootInv
    OBVIOUS
  <1>1. Current = Off /\ Stopped
    BY DEF Init, ControllerInit, Current, Stopped
  <1>2. All(toPump, {Off}) /\ All(toHub, {Off.status})
    BY DEF Init, All
  <1> QED BY <1>1, <1>2 DEF Init, BootInv, BootIdle, Stands

LEMMA BootSend ==
    ASSUME TypeOK, BootInv, NEW c \in Commands, Send(c), c.status # Current.status
    PROVE  BootInv'
  <1>1. /\ BootIdle /\ pc' = "await" /\ cmd' = c /\ toPump' = Append(toPump, c)
        /\ UNCHANGED <<toHub, OnValve>> /\ Current' = Current
    BY DEF BootInv, Send, Current
  <1>2. All(toPump, {Current, c}) /\ toPump \in Seq(Commands)
    BY <1>1 DEF BootIdle, All, TypeOK
  <1>3. All(toPump, {Current, cmd})'
    BY <1>1, <1>2, AppendAll
  <1>4. All(toHub, {Current.status})'
    BY <1>1 DEF BootIdle, All
  <1> QED BY <1>1, <1>3, <1>4 DEF BootInv, BootAsked, Alternating

LEMMA BootAcked == ASSUME TypeOK, BootInv, Acked PROVE BootInv'
  <1>1. /\ Alternating /\ (BootAsked \/ BootDone)
        /\ toHub = <<cmd.status>> /\ pc' = "loop" /\ toHub' = << >>
        /\ UNCHANGED <<pump_pin, open, toPump>>
    BY DEF BootInv, Acked, Answered
  <1>2. BootDone
    BY <1>1 DEF BootAsked, All, Alternating
  <1>3. Current' = cmd
    <2>1. cmd # Off => cmd = On(cmd.valve) /\ cmd.valve # default_no
      BY CommandFields, RequestsAssumption DEF TypeOK, default_no
    <2> QED BY <2>1 DEF Acked, Current
  <1>4. All(toPump, {Current})' /\ Stands(Current)'
    BY <1>1, <1>2, <1>3 DEF BootDone, Stands, Stopped, All
  <1>5. All(toHub, {Current.status})'
    BY <1>1 DEF All
  <1> QED BY <1>1, <1>4, <1>5 DEF BootInv, BootIdle

LEMMA BootWait == ASSUME TypeOK, BootInv, NoAck \/ Resend PROVE BootInv'
  <1>1. /\ Alternating /\ pc = "await" /\ (BootAsked \/ BootDone)
        /\ toHub' = << >> /\ toPump' \in {toPump, Append(toPump, cmd)}
        /\ UNCHANGED <<pump_pin, open, pc, cmd, OnValve>>
    BY DEF BootInv, NoAck, Resend
  <1>2. Current' = Current /\ Alternating' /\ toPump \in Seq(Commands) /\ cmd \in Commands
    BY <1>1 DEF Current, Alternating, TypeOK
  <1>3. \A S : All(toHub', S)
    BY <1>1 DEF All
  <1>4. \A S : All(toPump, S) /\ cmd \in S => All(toPump', S)
    BY <1>1, <1>2, AppendAll
  <1>5. CASE BootAsked
    BY <1>1, <1>2, <1>3, <1>4, <1>5 DEF BootInv, BootAsked
  <1>6. CASE BootDone
    BY <1>1, <1>2, <1>3, <1>4, <1>6 DEF BootInv, BootDone, Stands, Stopped
  <1> QED BY <1>1, <1>5, <1>6

(* A stop command that is alone on the line stops the pump.                 *)
LEMMA LoneOffStops == ASSUME ReadSerial, toPump = << Off >> PROVE Stopped'
  <1>1. ReadCommand(toPump) = Off
    BY DEF ReadCommand, Off
  <1>2. SwitchOn(Off) \/ SwitchOff(Off) \/ IgnoreText(Off)
    BY <1>1 DEF ReadSerial, ControllerLoop
  <1> QED BY <1>2, CommandFields DEF SwitchOn, SwitchOff, IgnoreText, Stopped

LEMMA BootRead == ASSUME TypeOK, BootInv, ReadSerial PROVE BootInv'
  <1>1. toPump' = << >> /\ UNCHANGED <<pc, cmd, OnValve>>
        /\ Current' = Current /\ Alternating' = Alternating
    BY ReadEffect DEF Current, Alternating
  <1>2. \A S : All(toPump', S)
    BY <1>1 DEF All
  <1>3. CASE toPump = << Off >> /\ UNCHANGED <<pump_pin, open, toHub>>
    <2>1. Stopped /\ \A c : Stands(c)'
      BY <1>3, LoneOffStops DEF Stopped, Stands
    <2>2. \A S : All(toHub, S) => All(toHub', S)
      BY <1>3
    <2> QED BY <1>1, <1>2, <2>1, <2>2 DEF BootInv, BootIdle, BootAsked, BootDone
  <1>4. CASE toPump # << Off >> /\ UNCHANGED <<pump_pin, open, toHub>>
    <2>1. \A c : Stands(c)' <=> Stands(c)
      BY <1>4 DEF Stopped, Stands
    <2>2. \A S : All(toHub, S) => All(toHub', S)
      BY <1>4
    <2> QED BY <1>1, <1>2, <1>4, <2>1, <2>2 DEF BootInv, BootIdle, BootAsked, BootDone
  <1>5. ASSUME NEW c \in Commands, Repeats(c) PROVE BootInv'
    <2>1. /\ Current \in Commands /\ cmd \in Commands
          /\ toHub \in Seq({"0", "1"}) /\ c.status \in {"0", "1"}
          /\ c = toPump[1] /\ Len(toPump) = 1
          /\ toHub' = Append(toHub, c.status) /\ Stands(c)'
      BY <1>5, CurrentType, CommandFields DEF TypeOK, Repeats, Stands
    <2>2. \A S : All(toHub, S) /\ c.status \in S => All(toHub', S)
      BY <2>1, AppendAll
    <2>3. CASE pc = "loop"
      <3>1. BootIdle /\ c = Current
        BY <2>1, <2>3 DEF BootInv, BootIdle, All
      <3> QED BY <1>1, <1>2, <2>1, <2>2, <2>3, <3>1 DEF BootInv, BootIdle
    <2>4. CASE pc = "await" /\ BootAsked /\ c # cmd
      <3>1. c = Current
        BY <2>1, <2>4 DEF BootAsked, All
      <3> QED BY <1>1, <1>2, <2>2, <2>4, <3>1 DEF BootInv, BootAsked
    <2>5. CASE pc = "await" /\ c = cmd
      <3>1. All(toHub, {Current.status, cmd.status})
        BY <2>5 DEF BootInv, BootAsked, BootDone, All
      <3>2. All(toHub', {Current.status, cmd.status})
        BY <2>2, <2>5, <3>1
      <3> QED BY <1>1, <1>2, <2>1, <2>5, <3>2 DEF BootInv, BootDone
    <2>6. pc = "await" /\ BootDone => c = cmd
      BY <2>1 DEF BootDone, All
    <2> QED BY <2>3, <2>4, <2>5, <2>6 DEF BootInv, TypeOK
  <1> QED BY <1>3, <1>4, <1>5, ReadEffect

LEMMA BootStep ==
    ASSUME TypeOK, BootInv, [Next]_vars, HubReset => toPump = << >>
    PROVE  BootInv'
  <1>1. ASSUME NEW v \in Requests, please_on_the_pump(v) PROVE BootInv'
    BY <1>1, BootSend, CommandFields DEF please_on_the_pump, Current
  <1>2. CASE please_off_the_pump
    BY <1>2, BootSend, CommandFields DEF please_off_the_pump, Current, TypeOK
  <1>3. CASE Await
    BY <1>3, BootAcked, BootWait DEF Await
  <1>4. CASE HubReset
    <2>1. /\ toPump' = << Off >> /\ toHub' = << >> /\ pc' = "loop"
          /\ Current' = Off
      BY <1>4 DEF HubReset, Current
    <2>2. All(toPump', {Off}) /\ All(toHub', {Off.status})
      BY <2>1 DEF All
    <2> QED BY <2>1, <2>2 DEF BootInv, BootIdle
  <1>5. CASE ReadSerial
    BY <1>5, BootRead
  <1>6. CASE ControllerReset
    <2>1. /\ toPump' = << >> /\ Stopped' /\ UNCHANGED <<toHub, pc, cmd, OnValve>>
          /\ Current' = Current
      BY <1>6 DEF ControllerReset, ControllerRestart, hubVars, Stopped, Current
    <2>2. \A S : All(toPump', S)
      BY <2>1 DEF All
    <2> QED BY <2>1, <2>2
            DEF BootInv, BootIdle, BootAsked, BootDone, Alternating, Stands
  <1>7. CASE UNCHANGED vars
    BY <1>7 DEF vars, BootInv, BootIdle, BootAsked, BootDone, Alternating, Stands, Stopped,
                Current
  <1> QED BY <1>1, <1>2, <1>3, <1>4, <1>5, <1>6, <1>7 DEF Next

(* The module resets with nothing unread in front of its boot command.      *)
ResetsOnEmptyLine == [][HubReset => toPump = << >>]_vars

(* Then the boot command keeps its promise, whatever the pump was doing,    *)
(* whatever answers were still under way, and however often this happens:   *)
(* a hub that believes the pump stopped and whose line is empty is right.   *)
THEOREM BootStopsPumpAlone == Spec /\ ResetsOnEmptyLine => []BootStopsPump
  <1>1. TypeOK /\ BootInv /\ [Next]_vars /\ [HubReset => toPump = << >>]_vars => BootInv'
    <2>1. ASSUME TypeOK, BootInv, UNCHANGED vars PROVE BootInv'
      BY <2>1 DEF vars, BootInv, BootIdle, BootAsked, BootDone, Alternating, Stands,
                  Stopped, Current
    <2> QED BY <2>1, BootStep
  <1>2. BootInv => BootStopsPump
    BY DEF BootInv, BootIdle, BootStopsPump, Current, Stands, Stopped
  <1> QED BY <1>1, <1>2, BootInit, TypeCorrect, PTL DEF Spec, ResetsOnEmptyLine

-----------------------------------------------------------------------------
(* A start command for a valve the board does not have is asked for ever:   *)
(* nothing the board writes is taken for its answer.  Only a reset of the   *)
(* hub ends that wait.                                                      *)
THEOREM UnwiredWaitsForEver ==
    \A c \in Commands : ~Wired(c) =>
        (Spec => [](pc = "await" /\ cmd = c
                       => ([](hubResets = 0) => [](pc = "await" /\ cmd = c))))
  <1> SUFFICES ASSUME NEW c \in Commands, ~Wired(c)
               PROVE  Spec => [](pc = "await" /\ cmd = c
                                   => ([](hubResets = 0) => [](pc = "await" /\ cmd = c)))
    OBVIOUS
  <1> DEFINE W == pc = "await" /\ cmd = c
  <1>1. IInv /\ W /\ hubResets = 0 /\ (hubResets = 0)' /\ [Next]_vars => W'
    <2> SUFFICES ASSUME IInv, W, hubResets = 0, hubResets' = 0, [Next]_vars PROVE W'
      OBVIOUS
    <2>1. Asked /\ Alternating
      BY DEF IInv, Protocol, Done
    <2>2. ~Acked
      BY <2>1 DEF Asked, Alternating, All, Acked, Answered
    <2> QED BY <2>2 DEF Next, vars, please_on_the_pump, please_off_the_pump, Send, Await,
                NoAck, Resend, HubReset, ReadSerial, ControllerReset, hubVars
  <1> HIDE DEF W
  <1>2. Spec => [](W => ([](hubResets = 0) => []W))
    BY <1>1, Inductive, PTL DEF Spec
  <1> QED BY <1>2 DEF W

(* A pump whose board has reset while the hub believes it to serve v.       *)
Tripped(v) ==
    /\ OnValve = v /\ ~pump_pin
    /\ pc = "loop" => toPump = << >>
    /\ pc = "await" => cmd = Off /\ All(toPump, {Off})

LEMMA TrippedStep ==
    ASSUME TypeOK, NEW v \in Requests, Tripped(v), [Next]_vars, OnValve' = v
    PROVE  Tripped(v)'
  <1>0. v # default_no /\ toPump \in Seq(Commands) /\ Off \in Commands
    BY RequestsAssumption, CommandFields DEF default_no, TypeOK
  <1>1. All(toPump, {Off}) => All(Append(toPump, Off), {Off})
    BY <1>0, AppendAll
  <1>2. CASE please_off_the_pump
    <2>1. All(toPump, {Off})
      BY <1>2 DEF please_off_the_pump, Send, Tripped, All
    <2> QED BY <1>1, <1>2, <2>1 DEF please_off_the_pump, Send, Tripped
  <1>3. CASE NoAck \/ Resend
    <2>1. /\ pc = "await" /\ cmd = Off /\ All(toPump, {Off})
          /\ toPump' \in {toPump, Append(toPump, Off)}
          /\ UNCHANGED <<pc, cmd, OnValve, pump_pin>>
      BY <1>3 DEF NoAck, Resend, Tripped
    <2>2. All(toPump', {Off})
      BY <1>1, <2>1
    <2> QED BY <2>1, <2>2 DEF Tripped
  <1>4. CASE ReadSerial
    <2>1. toPump' = << >> /\ UNCHANGED <<pc, cmd, OnValve>>
      BY <1>4, ReadEffect
    <2>2. ASSUME NEW c \in Commands, Repeats(c) PROVE ~pump_pin'
      <3>0. toPump # << >>
        BY <1>4, ReadEmpties
      <3>1. pc = "await" /\ toPump[1] = c /\ Len(toPump) = 1
        BY <2>2, <3>0 DEF Repeats, Tripped, TypeOK
      <3>2. c = Off
        BY <3>1 DEF Tripped, All
      <3> QED BY <2>2, <3>2 DEF Repeats, Stopped
    <2>3. ~pump_pin'
      BY <1>4, <2>2, ReadEffect DEF Tripped
    <2> QED BY <2>1, <2>3, EmptyAll DEF Tripped
  <1>5. CASE ControllerReset
    BY <1>5, EmptyAll DEF ControllerReset, ControllerRestart, hubVars, Tripped
  <1>6. CASE UNCHANGED vars
    BY <1>6 DEF vars, Tripped
  <1>7. ASSUME NEW w \in Requests PROVE ~please_on_the_pump(w)
    BY <1>0 DEF please_on_the_pump, Tripped
  <1>8. ~HubReset /\ ~Acked
    BY <1>0 DEF HubReset, Acked, Tripped
  <1> QED BY <1>2, <1>3, <1>4, <1>5, <1>6, <1>7, <1>8 DEF Next, Await

(* Nobody starts a pump again that its board's reset has stopped: it stands *)
(* for as long as the hub goes on believing that it serves the valve.       *)
THEOREM TrippedPumpStaysOff ==
    \A v \in Requests :
        Spec => [](pc = "loop" /\ OnValve = v /\ ~pump_pin /\ toPump = << >>
                     => ([](OnValve = v) => [](~pump_pin)))
  <1> SUFFICES ASSUME NEW v \in Requests
               PROVE  Spec => [](pc = "loop" /\ OnValve = v /\ ~pump_pin /\ toPump = << >>
                                   => ([](OnValve = v) => [](~pump_pin)))
    OBVIOUS
  <1>1. TypeOK /\ Tripped(v) /\ [Next]_vars /\ (OnValve = v)' => Tripped(v)'
    BY TrippedStep
  <1>2. pc = "loop" /\ OnValve = v /\ ~pump_pin /\ toPump = << >> => Tripped(v)
    BY DEF Tripped
  <1>3. Tripped(v) => ~pump_pin
    BY DEF Tripped
  <1> QED BY <1>1, <1>2, <1>3, TypeCorrect, PTL DEF Spec

-----------------------------------------------------------------------------
(* Liveness: a command for a wired valve returns.  The board's reads empty  *)
(* the line; the polls that follow end in one more copy of the command,     *)
(* alone on it; the board reads that one before the next repetition, and    *)
(* its answer is alone on the other line.                                   *)

(* No time has passed over an empty line.                                   *)
EmptyIsFresh == toPump = << >> => lag = 0

LEMMA EmptyIsFreshAlways == Spec => []EmptyIsFresh
  <1>1. Init => EmptyIsFresh
    BY DEF Init, EmptyIsFresh
  <1>2. TypeOK /\ EmptyIsFresh /\ [Next]_vars => EmptyIsFresh'
    <2> SUFFICES ASSUME TypeOK, EmptyIsFresh, [Next]_vars, toPump' = << >> PROVE lag' = 0
      BY DEF EmptyIsFresh
    <2>1. \A c \in Commands : Append(toPump, c) # << >>
      BY DEF TypeOK
    <2> QED
      BY <2>1, CommandFields
      DEF TypeOK, EmptyIsFresh, Next, vars, please_on_the_pump, please_off_the_pump, Send,
          Await, Acked, NoAck, Resend, OneSecond, HubReset, ReadSerial, ControllerReset
  <1> QED BY <1>1, <1>2, TypeCorrect, PTL DEF Spec

(* The stages of a command c.                                               *)
Waiting(c)  == TypeOK /\ EmptyIsFresh /\ pc = "await" /\ cmd = c
LineRead(c, k) == Waiting(c) /\ toPump = << >> /\ polls = k
Copied(c)   == /\ Waiting(c) /\ toPump = << c >> /\ toHub = << >>
               /\ polls = lag /\ lag < Polls
AnswerCame(c) == /\ Waiting(c) /\ toPump = << >> /\ toHub = << c.status >>
                 /\ polls < Polls

(* A step of the tail in which the board has settled.                       *)
Settled == /\ [Next]_vars /\ ctlResets' = ctlResets
           /\ TypeOK' /\ EmptyIsFresh'
           /\ hubResets' = 0 /\ lag' < Polls

(* While a command waits the hub polls, the board reads, and that is all.   *)
LEMMA SettledStep ==
    ASSUME NEW c \in Commands, Waiting(c), Settled
    PROVE  Acked \/ NoAck \/ Resend \/ ReadSerial \/ UNCHANGED vars
  BY DEF Settled, Waiting, TypeOK, Next, Await, please_on_the_pump, please_off_the_pump, Send,
         HubReset, ControllerReset

LEMMA WaitingStays ==
    ASSUME NEW c \in Commands, Waiting(c), Settled
    PROVE  Waiting(c)' \/ (pc = "loop")'
  <1>1. /\ Acked => pc' = "loop"
        /\ NoAck \/ Resend \/ ReadSerial \/ UNCHANGED vars => pc' = pc /\ cmd' = cmd
    BY DEF Acked, NoAck, Resend, ReadSerial, hubVars, vars
  <1> QED BY <1>1, SettledStep DEF Waiting, Settled

LEMMA LineReadStays ==
    ASSUME NEW c \in Commands, NEW k \in 0..Polls, LineRead(c, k), Settled
    PROVE  \/ LineRead(c, k)' /\ ~Await
           \/ (pc = "loop")'
           \/ k < Polls /\ LineRead(c, k + 1)'
           \/ k = Polls /\ Copied(c)'
  <1>1. Waiting(c)' \/ (pc = "loop")'
    BY WaitingStays DEF LineRead
  <1>2. ~ReadSerial
    BY ReadEmpties DEF LineRead
  <1>3. CASE Acked
    BY <1>3 DEF Acked
  <1>4. CASE NoAck
    BY <1>1, <1>4 DEF NoAck, LineRead, Polls
  <1>5. CASE Resend
    <2>1. toPump' = << c >>
      BY <1>5 DEF Resend, LineRead, Waiting
    <2>2. lag' = 0 /\ polls' = 0 /\ toHub' = << >> /\ k = Polls
      BY <1>5 DEF Resend, LineRead, Waiting, OneSecond, EmptyIsFresh
    <2> QED BY <1>1, <1>5, <2>1, <2>2 DEF Copied, Resend, Polls
  <1>6. CASE UNCHANGED vars
    <2>1. ~Await
      BY <1>6 DEF vars, Await, Acked, NoAck, Resend, Waiting, LineRead, TypeOK, Polls
    <2> QED BY <1>1, <1>6, <2>1 DEF LineRead, vars, Waiting
  <1> QED BY <1>2, <1>3, <1>4, <1>5, <1>6, SettledStep DEF LineRead

LEMMA CopiedStays ==
    ASSUME NEW c \in Commands, Wired(c), Copied(c), Settled
    PROVE  (Copied(c)' /\ ~ReadSerial) \/ AnswerCame(c)' \/ (pc = "loop")'
  <1>1. Waiting(c)' \/ (pc = "loop")'
    BY WaitingStays DEF Copied
  <1>2. CASE Acked
    BY <1>2 DEF Acked
  <1>3. CASE NoAck
    <2>1. toPump' = toPump /\ toHub' = << >> /\ polls' = polls + 1 /\ lag' = lag + 1
      BY <1>3 DEF NoAck, OneSecond, Copied
    <2>2. ~ReadSerial
      BY <2>1, ReadEmpties
    <2> QED BY <1>1, <2>1, <2>2 DEF Copied, Settled
  <1>4. CASE Resend
    BY <1>4 DEF Resend, Copied, Polls
  <1>5. CASE ReadSerial
    <2>1. ReadCommand(toPump) = c
      <3>1. Len(<< c >>) = 1 /\ Head(<< c >>) = c
        OBVIOUS
      <3>2. c = [valve |-> c.valve, status |-> c.status]
        BY DEF Commands, On, Off
      <3> QED BY <3>1, <3>2 DEF Copied, ReadCommand
    <2>2. SwitchOn(c) \/ SwitchOff(c) \/ IgnoreText(c)
      BY <1>5, <2>1 DEF ReadSerial, ControllerLoop
    <2>3. toHub' = << c.status >>
      <3>1. c.status \in {"0", "1"} /\ (c.status = "1" => c.valve \in Valves)
        BY CommandFields DEF Wired
      <3>2. ~IgnoreText(c)
        BY <3>1 DEF IgnoreText
      <3> QED BY <2>2, <3>1, <3>2 DEF SwitchOn, SwitchOff, Copied
    <2>4. toPump' = << >> /\ polls' = polls
      BY <1>5, ReadEmpties DEF ReadSerial, hubVars
    <2> QED BY <1>1, <2>3, <2>4 DEF AnswerCame, Copied
  <1>6. CASE UNCHANGED vars
    <2>1. ~ReadSerial
      BY <1>6, ReadEmpties DEF vars
    <2> QED BY <1>1, <1>6, <2>1 DEF Copied, vars, Waiting
  <1> QED BY <1>2, <1>3, <1>4, <1>5, <1>6, SettledStep DEF Copied

LEMMA AnswerStays ==
    ASSUME NEW c \in Commands, AnswerCame(c), Settled
    PROVE  (AnswerCame(c)' /\ ~Await) \/ (pc = "loop")'
  <1>1. Waiting(c)' \/ (pc = "loop")'
    BY WaitingStays DEF AnswerCame
  <1>2. ~ReadSerial /\ ~NoAck /\ ~Resend
    BY ReadEmpties DEF AnswerCame, Waiting, NoAck, Answered, Resend, Polls
  <1>3. CASE Acked
    BY <1>3 DEF Acked
  <1>4. CASE UNCHANGED vars
    <2>1. ~Await
      BY <1>2, <1>4 DEF vars, Await, Acked, Waiting, AnswerCame
    <2> QED BY <1>1, <1>4, <2>1 DEF AnswerCame, vars, Waiting
  <1> QED BY <1>2, <1>3, <1>4, SettledStep DEF AnswerCame

(* The behaviour once the board has settled.                                *)
Calm == TypeOK /\ EmptyIsFresh /\ hubResets = 0 /\ lag < Polls /\ LoopsRunOn
SettledTail == [][Next]_vars /\ [][ctlResets' = ctlResets]_vars /\ []Calm /\ Fairness

LEMMA SettledReturn ==
    ASSUME NEW c \in Commands, Wired(c)
    PROVE  SettledTail => (pc = "await" /\ cmd = c ~> pc = "loop")
  <1> DEFINE W == Waiting(c)
             L(k) == LineRead(c, k)
             Q == pc = "loop"
  <1>0. Calm /\ Calm' /\ [Next]_vars /\ [ctlResets' = ctlResets]_vars => Settled
    BY DEF Calm, Settled, vars
  <1>1. Calm /\ pc = "await" /\ cmd = c => W
    BY DEF Calm, Waiting
  <1>2. W /\ Settled => W' \/ Q'
    BY WaitingStays
  <1>3. W /\ Settled /\ <<ReadSerial>>_vars => (toPump = << >>)'
    BY ReadEmpties
  <1>4. W /\ Calm /\ ~(toPump = << >>) => ENABLED <<ReadSerial>>_vars
    BY DEF Calm, LoopsRunOn
  <1>5. W /\ toPump = << >> => L(0) \/ L(1) \/ L(2) \/ L(3) \/ L(4)
    BY DEF Waiting, LineRead, TypeOK, Polls
  <1>6. \A k \in 0..4 : L(k) /\ Calm => ENABLED <<Await>>_vars
    BY DEF LineRead, Waiting, Calm, LoopsRunOn
  <1>7. /\ L(0) /\ Settled => (L(0)' /\ ~<<Await>>_vars) \/ Q' \/ L(1)'
        /\ L(1) /\ Settled => (L(1)' /\ ~<<Await>>_vars) \/ Q' \/ L(2)'
        /\ L(2) /\ Settled => (L(2)' /\ ~<<Await>>_vars) \/ Q' \/ L(3)'
        /\ L(3) /\ Settled => (L(3)' /\ ~<<Await>>_vars) \/ Q' \/ L(4)'
        /\ L(4) /\ Settled => (L(4)' /\ ~<<Await>>_vars) \/ Q' \/ Copied(c)'
    <2>1. \A k \in 0..4 : L(k) /\ Settled =>
             \/ L(k)' /\ ~<<Await>>_vars
             \/ Q'
             \/ k < 4 /\ L(k + 1)'
             \/ k = 4 /\ Copied(c)'
      BY LineReadStays DEF Polls
    <2> QED BY <2>1
  <1>8. /\ Copied(c) /\ Settled => (Copied(c)' /\ ~<<ReadSerial>>_vars) \/ AnswerCame(c)' \/ Q'
        /\ Copied(c) /\ Calm => ENABLED <<ReadSerial>>_vars
    BY CopiedStays DEF Copied, Calm, LoopsRunOn
  <1>9. /\ AnswerCame(c) /\ Settled => (AnswerCame(c)' /\ ~<<Await>>_vars) \/ Q'
        /\ AnswerCame(c) /\ Calm => ENABLED <<Await>>_vars
    BY AnswerStays DEF AnswerCame, Waiting, Calm, LoopsRunOn
  <1>10. /\ L(0) /\ Calm => ENABLED <<Await>>_vars
         /\ L(1) /\ Calm => ENABLED <<Await>>_vars
         /\ L(2) /\ Calm => ENABLED <<Await>>_vars
         /\ L(3) /\ Calm => ENABLED <<Await>>_vars
         /\ L(4) /\ Calm => ENABLED <<Await>>_vars
    BY <1>6
  <1> HIDE DEF W, L, Q
  <1>11. SettledTail => (AnswerCame(c) ~> Q)
    BY <1>0, <1>9, PTL DEF SettledTail, Fairness
  <1>12. SettledTail => (Copied(c) ~> Q)
    BY <1>0, <1>8, <1>11, PTL DEF SettledTail, Fairness
  <1>13. SettledTail => (L(4) ~> Q)
    BY <1>0, <1>7, <1>10, <1>12, PTL DEF SettledTail, Fairness
  <1>14. SettledTail => (L(3) ~> Q)
    BY <1>0, <1>7, <1>10, <1>13, PTL DEF SettledTail, Fairness
  <1>15. SettledTail => (L(2) ~> Q)
    BY <1>0, <1>7, <1>10, <1>14, PTL DEF SettledTail, Fairness
  <1>16. SettledTail => (L(1) ~> Q)
    BY <1>0, <1>7, <1>10, <1>15, PTL DEF SettledTail, Fairness
  <1>17. SettledTail => (L(0) ~> Q)
    BY <1>0, <1>7, <1>10, <1>16, PTL DEF SettledTail, Fairness
  <1>18. SettledTail => (W /\ toPump = << >> ~> Q)
    BY <1>5, <1>13, <1>14, <1>15, <1>16, <1>17, PTL
  <1>19. SettledTail => (W ~> Q)
    BY <1>0, <1>2, <1>3, <1>4, <1>18, PTL DEF SettledTail, Fairness
  <1> QED BY <1>1, <1>19, PTL DEF SettledTail, Q

(* Every command for a wired valve returns once the board has settled: of   *)
(* the fairness of the two loops, with ENABLED as LoopsRunOn says it is.    *)
THEOREM CommandsReturnAlways == FairSpec /\ []LoopsRunOn => CommandsReturn
  <1> DEFINE Settles == /\ <>[](lag < Polls) /\ [](hubResets = 0)
                        /\ <>[][ctlResets' = ctlResets]_vars
  <1>1. ASSUME NEW c \in {On(v) : v \in Valves} \cup {Off}
        PROVE  FairSpec /\ []LoopsRunOn /\ Settles => (pc = "await" /\ cmd = c ~> pc = "loop")
    <2>1. c \in Commands /\ Wired(c)
      BY <1>1, CommandFields, RequestsAssumption, ValvesAssumption DEF Wired
    <2>2. SettledTail => (pc = "await" /\ cmd = c ~> pc = "loop")
      BY <2>1, SettledReturn
    <2>3. TypeOK /\ pc = "await" /\ cmd = c /\ [Next]_vars /\ (hubResets = 0)'
            => (pc = "await" /\ cmd = c)' \/ (pc = "loop")'
      BY DEF TypeOK, Next, vars, Await, Acked, NoAck, Resend, please_on_the_pump,
             please_off_the_pump, Send, HubReset, ReadSerial, hubVars, ControllerReset
    <2>4. TypeOK /\ EmptyIsFresh /\ hubResets = 0 /\ lag < Polls /\ LoopsRunOn => Calm
      BY DEF Calm
    <2> QED BY <2>2, <2>3, <2>4, TypeCorrect, EmptyIsFreshAlways, PTL
            DEF FairSpec, Spec, Fairness, SettledTail
  <1> QED BY <1>1 DEF CommandsReturn

=============================================================================
