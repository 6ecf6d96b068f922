---------------------------- MODULE TankHubProofs ---------------------------
(***************************************************************************)
(* The hub, for any number of tanks, apps and client slots, any levels and *)
(* any number of broken connections.                                       *)
(*                                                                         *)
(* Its every step is a step of PumpLink, so that what PumpLinkProofs says  *)
(* of the pump holds of the whole hub.  The two invariants of its own tie  *)
(* APP.websock_num to the slots, and the valve in service to the table     *)
(* that pump_operator saw.                                                 *)
(***************************************************************************)
EXTENDS TankHubRefinement, PumpRefinementProofs

-----------------------------------------------------------------------------
(* What the frames of a tank and of an app look like.                       *)
LEMMA FrameFields ==
    \A p \in Peers : \A f \in FramesOf(p) :
      /\ f.kind = "report" => f.valve \in Valves /\ f.level \in Levels
      /\ f.kind = "on" => f.valve \in Requests
      /\ f.kind # "report" => p \in Apps
  BY DEF Peers, FramesOf, Report, Hello, AppOn, AppOff

LEMMA FrameType ==
    /\ \A f \in Frames : /\ f.kind = "report" => f.valve \in Valves /\ f.level \in Levels
                         /\ f.kind = "on" => f.valve \in Requests
    /\ \A p \in Peers : FramesOf(p) \subseteq Frames
  BY FrameFields DEF Frames

LEMMA SlotType ==
    /\ 0 \in Slots /\ Slots \subseteq Int /\ def_web_no \notin Slots
    /\ \A s \in Slots : s >= 0
  BY HubBoundsAssumption DEF Slots, def_web_no

LEMMA HubInitType == HubInit => HubTypeOK
  <1> SUFFICES ASSUME HubInit PROVE HubTypeOK
    OBVIOUS
  <1>1. inbox \in [Slots -> Seq(Frames)]
    BY DEF HubInit
  <1>2. tank \in [Valves -> [level : Levels \cup {0},
                             websock_num : Slots \cup {def_web_no},
                             disconnect_count : 0..DisconnectAfter]]
    BY HubBoundsAssumption DEF HubInit, UnknownTank
  <1>3. data_flag \in 0..SendAfter /\ breaks \in 0..MaxBreaks
    BY HubBoundsAssumption DEF HubInit
  <1> QED BY <1>1, <1>2, <1>3, SlotType DEF HubInit, HubTypeOK

(* Freeing slots keeps the types, and empties the slots it frees.           *)
LEMMA FreedType ==
    ASSUME HubTypeOK, NEW S, Freed(S)
    PROVE  /\ conn' \in [Slots -> {"free", "open", "lost"}]
           /\ owner' \in [Slots -> Peers \cup {NoPeer}]
           /\ inbox' \in [Slots -> Seq(Frames)]
           /\ app_num' \in Slots \cup {def_web_no}
  BY DEF HubTypeOK, Freed

LEMMA NextSlotType ==
    ASSUME HubTypeOK, NextSlot
    PROVE  slot' \in Slots /\ phase' \in {"clients", "operate"}
  BY SlotType DEF HubTypeOK, NextSlot

LEMMA PoppedType ==
    ASSUME HubTypeOK, inbox[slot] # << >>
    PROVE  /\ Head(inbox[slot]) \in Frames
           /\ Tail(inbox[slot]) \in Seq(Frames)
           /\ Popped => inbox' \in [Slots -> Seq(Frames)]
  <1>1. inbox[slot] \in Seq(Frames) /\ inbox[slot] # << >>
    BY DEF HubTypeOK
  <1>2. Head(inbox[slot]) \in Frames /\ Tail(inbox[slot]) \in Seq(Frames)
    BY <1>1
  <1> QED BY <1>2 DEF HubTypeOK, Popped

-----------------------------------------------------------------------------
(* One operation of the hub keeps the types at a time.                      *)
LEMMA AcceptType ==
    ASSUME HubTypeOK, NEW p \in Peers, Accept(p) PROVE HubTypeOK'
  BY DEF HubTypeOK, Accept

LEMMA ClientsType ==
    ASSUME HubTypeOK, AcceptDone \/ ServeClient PROVE HubTypeOK'
  <1>1. CASE AcceptDone
    BY <1>1, SlotType DEF HubTypeOK, AcceptDone
  <1>2. CASE update_tank_data
    <2>1. Head(inbox[slot]) \in Frames /\ inbox' \in [Slots -> Seq(Frames)]
      BY <1>2, PoppedType DEF update_tank_data, ReadFrame
    <2>2. slot' \in Slots /\ phase' \in {"clients", "operate"}
      BY <1>2, NextSlotType DEF update_tank_data, ReadFrame
    <2>3. /\ Head(inbox[slot]).valve \in Valves
          /\ Head(inbox[slot]).level \in Levels
      BY <1>2, <2>1, FrameType DEF update_tank_data, ReadFrame
    <2>4. DisconnectAfter \in 0..DisconnectAfter
      BY HubBoundsAssumption
    <2>5. tank' \in [Valves -> [level : Levels \cup {0},
                                websock_num : Slots \cup {def_web_no},
                                disconnect_count : 0..DisconnectAfter]]
      BY <1>2, <2>3, <2>4 DEF update_tank_data, HubTypeOK
    <2> QED BY <1>2, <2>1, <2>2, <2>5 DEF update_tank_data, HubTypeOK
  <1>3. CASE RegisterApp
    <2>1. inbox' \in [Slots -> Seq(Frames)]
      BY <1>3, PoppedType DEF RegisterApp, ReadFrame
    <2>2. slot' \in Slots /\ phase' \in {"clients", "operate"}
      BY <1>3, NextSlotType DEF RegisterApp, ReadFrame
    <2> QED BY <1>3, <2>1, <2>2 DEF RegisterApp, HubTypeOK
  <1>4. CASE RefuseApp
    BY <1>4, FreedType, NextSlotType DEF RefuseApp, ReadFrame, HubTypeOK
  <1>5. CASE AppStarts \/ AppStops \/ AppIgnored
    <2>1. inbox[slot] # << >> /\ Popped /\ NextSlot
          /\ UNCHANGED <<conn, owner, tank, app_num, data_flag, breaks>>
      BY <1>5 DEF AppStarts, AppStops, AppIgnored, ReadFrame
    <2> QED BY <2>1, PoppedType, NextSlotType DEF HubTypeOK
  <1>6. CASE SkipSlot
    BY <1>6, FreedType, NextSlotType DEF SkipSlot, HubTypeOK
  <1> QED BY <1>1, <1>2, <1>3, <1>4, <1>5, <1>6 DEF ServeClient

LEMMA OperateType ==
    ASSUME HubTypeOK, Operate PROVE HubTypeOK'
  <1>1. ASSUME NEW t \in Valves
        PROVE  TankAfterCheck(t) \in [level : Levels \cup {0},
                                      websock_num : Slots \cup {def_web_no},
                                      disconnect_count : 0..DisconnectAfter]
    <2>1. CASE t \in Silent
      BY <2>1 DEF HubTypeOK, TankAfterCheck
    <2>2. CASE t \notin Silent /\ IsConnected(t)
      <3>1. tank[t].disconnect_count - 1 \in 0..DisconnectAfter
        BY <2>2, HubBoundsAssumption DEF HubTypeOK, Silent
      <3> QED BY <2>2, <3>1 DEF HubTypeOK, TankAfterCheck
    <2>3. CASE t \notin Silent /\ ~IsConnected(t)
      BY <2>3 DEF HubTypeOK, TankAfterCheck
    <2> QED BY <2>1, <2>2, <2>3
  <1>2. tank' \in [Valves -> [level : Levels \cup {0},
                              websock_num : Slots \cup {def_web_no},
                              disconnect_count : 0..DisconnectAfter]]
    BY <1>1 DEF Operate, is_tanks_connected
  <1> QED BY <1>2, FreedType DEF Operate, is_tanks_connected, HubTypeOK

LEMMA SendDataType ==
    ASSUME HubTypeOK, send_data_to_app PROVE HubTypeOK'
  <1>1. data_flag' \in 0..SendAfter
    BY HubBoundsAssumption DEF HubTypeOK, send_data_to_app
  <1> QED BY <1>1, FreedType DEF send_data_to_app, HubTypeOK

LEMMA OutsideType ==
    ASSUME HubTypeOK,
           \/ \E p \in Peers : Send_frame(p)
           \/ \E s \in Slots : Close(s) \/ Vanish(s)
    PROVE HubTypeOK'
  <1>1. ASSUME NEW p \in Peers, Send_frame(p) PROVE HubTypeOK'
    <2>1. PICK s \in Slots, f \in FramesOf(p) :
            /\ inbox' = [inbox EXCEPT ![s] = Append(@, f)]
            /\ UNCHANGED <<phase, slot, conn, owner, tank, app_num, data_flag, breaks>>
      BY <1>1 DEF Send_frame
    <2>2. f \in Frames /\ inbox[s] \in Seq(Frames)
      BY <2>1, FrameType DEF HubTypeOK
    <2>3. Append(inbox[s], f) \in Seq(Frames)
      BY <2>2
    <2> QED BY <2>1, <2>3 DEF HubTypeOK
  <1>2. ASSUME NEW s \in Slots, Close(s) PROVE HubTypeOK'
    <2>1. << >> \in Seq(Frames) /\ inbox[s] \in Seq(Frames)
      BY DEF HubTypeOK
    <2>2. inbox' \in [Slots -> Seq(Frames)]
      BY <1>2, <2>1 DEF Close, HubTypeOK
    <2>3. breaks' \in 0..MaxBreaks
      BY <1>2, HubBoundsAssumption DEF Close, HubTypeOK
    <2> QED BY <1>2, <2>2, <2>3 DEF Close, HubTypeOK
  <1>3. ASSUME NEW s \in Slots, Vanish(s) PROVE HubTypeOK'
    <2>1. breaks' \in 0..MaxBreaks
      BY <1>3, HubBoundsAssumption DEF Vanish, HubTypeOK
    <2> QED BY <1>3, <2>1 DEF Vanish, HubTypeOK
  <1> QED BY <1>1, <1>2, <1>3

LEMMA RestartType ==
    ASSUME HubTypeOK, HubRestart PROVE HubTypeOK'
  <1>1. inbox' \in [Slots -> Seq(Frames)]
    BY DEF HubRestart
  <1>2. tank' \in [Valves -> [level : Levels \cup {0},
                              websock_num : Slots \cup {def_web_no},
                              disconnect_count : 0..DisconnectAfter]]
    BY HubBoundsAssumption DEF HubRestart, UnknownTank
  <1>3. data_flag' \in 0..SendAfter
    BY HubBoundsAssumption DEF HubRestart
  <1> QED BY <1>1, <1>2, <1>3, SlotType DEF HubRestart, HubTypeOK

LEMMA HubTypeStep == HubTypeOK /\ [HubNext]_allVars => HubTypeOK'
  <1> SUFFICES ASSUME HubTypeOK, [HubNext]_allVars PROVE HubTypeOK'
    OBVIOUS
  <1>1. CASE UNCHANGED hubVariables
    BY <1>1 DEF hubVariables, HubTypeOK
  <1>2. CASE LoopStep
    BY <1>2, ClientsType, OperateType, SendDataType DEF LoopStep
  <1>3. CASE HubRestart
    BY <1>3, RestartType
  <1>4. ASSUME NEW p \in Peers, Accept(p) \/ Send_frame(p) PROVE HubTypeOK'
    BY <1>4, AcceptType, OutsideType
  <1>5. ASSUME NEW s \in Slots, Close(s) \/ Vanish(s) PROVE HubTypeOK'
    BY <1>5, OutsideType
  <1> QED BY <1>1, <1>2, <1>3, <1>4, <1>5 DEF HubNext, LinkStep, allVars

(* Every variable of the hub keeps its type.                                *)
THEOREM HubTypeCorrect == HubSpec => []HubTypeOK
  BY HubInitType, HubTypeStep, PTL DEF HubSpec

-----------------------------------------------------------------------------
(* The serial link, seen from PumpLink.                                     *)
LEMMA HubStepsLink == HubTypeOK /\ [HubNext]_allVars => [Next]_vars
  <1> SUFFICES ASSUME HubTypeOK, [HubNext]_allVars PROVE [Next]_vars
    OBVIOUS
  <1>1. CASE AppStarts
    <2>1. Head(inbox[slot]).valve \in Requests
      BY <1>1, PoppedType, FrameType DEF AppStarts, ReadFrame
    <2> QED BY <1>1, <2>1 DEF AppStarts, Next
  <1>2. CASE AppStops
    BY <1>2 DEF AppStops, Next
  <1>3. CASE AcceptDone \/ update_tank_data \/ RegisterApp \/ RefuseApp
             \/ AppIgnored \/ SkipSlot \/ send_data_to_app
    BY <1>3 DEF AcceptDone, update_tank_data, RegisterApp, RefuseApp,
                AppIgnored, SkipSlot, send_data_to_app
  <1>4. CASE Operate
    BY <1>4, RequestsAssumption
    DEF Operate, OperatorStarts, OperatorStops, OperatorWaits, Next
  <1>5. CASE LinkStep \/ HubRestart
    BY <1>5 DEF LinkStep, HubRestart, Next
  <1>6. ASSUME NEW p \in Peers, Accept(p) \/ Send_frame(p) PROVE UNCHANGED vars
    BY <1>6 DEF Accept, Send_frame
  <1>7. ASSUME NEW s \in Slots, Close(s) \/ Vanish(s) PROVE UNCHANGED vars
    BY <1>7 DEF Close, Vanish
  <1>8. CASE UNCHANGED allVars
    BY <1>8 DEF allVars
  <1> QED BY <1>1, <1>2, <1>3, <1>4, <1>5, <1>6, <1>7, <1>8
          DEF HubNext, LoopStep, ServeClient

(* Every behaviour of the hub is a behaviour of the link.                   *)
THEOREM HubImplementsLink == HubSpec => ImplementsLink
  <1>1. HubInit => Init
    BY DEF HubInit
  <1> QED BY <1>1, HubStepsLink, HubTypeCorrect, PTL
          DEF HubSpec, Spec, ImplementsLink

(* So what holds of the link's pump holds of the hub's.                     *)
THEOREM HubKeepsLinkInvariant == HubSpec => []IInv
  BY HubImplementsLink, Inductive, PTL DEF ImplementsLink

(* What the hub's owner gets of the link: it is never wrong about its pump, *)
(* one valve is open at most, and no late copy of a start switches it on.   *)
THEOREM HubPumpIsSafe == HubSpec => []PumpIsAsBelieved /\ []OneOpenValve /\ NoLateStart
  <1>1. Spec => []PumpIsAsBelieved
    BY PumpIsAsBelievedAlways
  <1>2. Spec => []OneOpenValve
    BY OneOpenValveAlways
  <1>3. Spec => NoLateStart
    BY NoLateStartAlways
  <1> QED BY <1>1, <1>2, <1>3, HubImplementsLink DEF ImplementsLink

(* The app may ask for a valve that is not wired: from then on, until it    *)
(* resets, the hub reads no frame and looks at no tank.                     *)
THEOREM UnwiredStopsTheHub ==
    \A c \in Commands : ~Wired(c) =>
        (HubSpec => [](pc = "await" /\ cmd = c
                          => ([](hubResets = 0) => [][~LoopStep]_allVars)))
  <1> SUFFICES ASSUME NEW c \in Commands, ~Wired(c)
               PROVE  HubSpec => [](pc = "await" /\ cmd = c
                                      => ([](hubResets = 0) => [][~LoopStep]_allVars))
    OBVIOUS
  <1>1. Spec => [](pc = "await" /\ cmd = c => ([](hubResets = 0) => [](pc = "await" /\ cmd = c)))
    BY UnwiredWaitsForEver
  <1>2. pc = "await" /\ cmd = c => ~LoopStep
    BY DEF LoopStep, AcceptDone, ServeClient, update_tank_data, RegisterApp, RefuseApp,
           AppStarts, AppStops, AppIgnored, SkipSlot, ReadFrame, Operate, send_data_to_app
  <1> QED BY <1>1, <1>2, HubImplementsLink, PTL DEF ImplementsLink

-----------------------------------------------------------------------------
(* What pump_operator saw of a tank it started or left running.             *)
Hungry(t) == tank[t].level < OffCondition /\ IsConnected(t)

(* From pump_operator's decision to the end of the pass, the command it     *)
(* gave or the valve it left open is for a hungry tank.                     *)
Decision ==
    phase = "send" =>
      /\ pc = "loop"  => \A t \in Valves : OnValve = t => Hungry(t)
      /\ pc = "await" => \A t \in Valves : cmd = On(t) => Hungry(t)

LEMMA OperateDecides ==
    ASSUME TypeOK, HubTypeOK, Operate PROVE Decision'
  <1>1. /\ tank' \in [Valves -> [level : Levels \cup {0},
                                 websock_num : Slots \cup {def_web_no},
                                 disconnect_count : 0..DisconnectAfter]]
        /\ phase' = "send" /\ pc = "loop"
    BY OperateType DEF Operate, HubTypeOK
  <1>2. ASSUME NEW t \in Valves, Low(t) \/ ~Over(t) PROVE Hungry(t)'
    <2>1. tank'[t].level \in Int
      <3>1. tank'[t].level \in Levels \cup {0}
        BY <1>1
      <3>2. Levels \cup {0} \subseteq Int
        BY HubBoundsAssumption
      <3> QED BY <3>1, <3>2
    <2> QED BY <1>2, <2>1 DEF Low, Over, Hungry, IsConnected, OnCondition, OffCondition
  <1>3. CASE OperatorStarts
    <2>1. PICK u \in Valves : Low(u) /\ pc' = "await" /\ cmd' = On(u)
      BY <1>3 DEF OperatorStarts, please_on_the_pump, Send
    <2>2. \A t \in Valves : On(t) = On(u) => t = u
      BY <2>1, CommandFields, RequestsAssumption
    <2> QED BY <1>2, <2>1, <2>2 DEF Decision
  <1>4. CASE OperatorStops
    <2>1. pc' = "await" /\ cmd' = Off
      BY <1>4 DEF OperatorStops, please_off_the_pump, Send
    <2>2. \A t \in Valves : On(t) # Off
      BY CommandFields, RequestsAssumption
    <2> QED BY <2>1, <2>2 DEF Decision
  <1>5. CASE OperatorWaits
    <2>1. OnValve' = OnValve /\ pc' = "loop"
      BY <1>1, <1>5 DEF OperatorWaits, vars
    <2>2. ASSUME NEW t \in Valves, OnValve = t PROVE ~Over(t)
      <3>1. t # default_no
        BY ValvesAssumption DEF default_no
      <3> QED BY <1>5, <2>2, <3>1 DEF OperatorWaits
    <2> QED BY <1>2, <2>1, <2>2 DEF Decision
  <1> QED BY <1>3, <1>4, <1>5 DEF Operate

LEMMA DecisionStep ==
    ASSUME TypeOK, HubTypeOK, Decision, [HubNext]_allVars PROVE Decision'
  <1>1. CASE Operate
    BY <1>1, OperateDecides
  <1>2. CASE AcceptDone \/ ServeClient \/ send_data_to_app \/ HubRestart
    <2>1. phase' # "send"
      BY <1>2 DEF AcceptDone, ServeClient, update_tank_data, RegisterApp, RefuseApp,
                  AppStarts, AppStops, AppIgnored, SkipSlot, ReadFrame, NextSlot,
                  send_data_to_app, HubRestart
    <2> QED BY <2>1 DEF Decision
  <1>3. CASE LinkStep
    <2>0. UNCHANGED <<phase, tank>>
      BY <1>3 DEF LinkStep, hubVariables
    <2>1. CASE Acked
      <3>1. /\ pc = "await" /\ pc' = "loop"
            /\ OnValve' = IF cmd = Off THEN default_no ELSE cmd.valve
        BY <2>1 DEF Acked
      <3>2. ASSUME NEW t \in Valves, OnValve' = t PROVE cmd = On(t)
        <4>1. t # default_no
          BY ValvesAssumption DEF default_no
        <4>2. cmd # Off /\ cmd.valve = t
          BY <3>1, <3>2, <4>1
        <4> QED BY <4>2, CommandFields DEF TypeOK
      <3> QED BY <2>0, <3>1, <3>2 DEF Decision, Hungry, IsConnected
    <2>2. CASE ~Acked
      <3>1. UNCHANGED <<pc, cmd, OnValve>>
        BY <1>3, <2>2 DEF LinkStep, Await, NoAck, Resend, ReadSerial, ControllerReset,
                          hubVars
      <3> QED BY <2>0, <3>1 DEF Decision, Hungry, IsConnected
    <2> QED BY <2>1, <2>2
  <1>4. ASSUME NEW p \in Peers, Accept(p) \/ Send_frame(p) PROVE Decision'
    BY <1>4 DEF Accept, Send_frame, vars, Decision, Hungry, IsConnected
  <1>5. ASSUME NEW s \in Slots, Close(s) \/ Vanish(s) PROVE Decision'
    BY <1>5 DEF Close, Vanish, vars, Decision, Hungry, IsConnected
  <1>6. CASE UNCHANGED allVars
    BY <1>6 DEF allVars, vars, hubVariables, Decision, Hungry, IsConnected
  <1> QED BY <1>1, <1>2, <1>3, <1>4, <1>5, <1>6 DEF HubNext, LoopStep

LEMMA DecisionAlways == HubSpec => []Decision
  <1>1. HubInit => Decision
    BY DEF HubInit, Decision
  <1>2. Decision /\ HubTypeOK /\ IInv /\ [HubNext]_allVars => Decision'
    BY DecisionStep DEF IInv
  <1> QED BY <1>1, <1>2, HubTypeCorrect, HubKeepsLinkInvariant, PTL DEF HubSpec

(* After pump_operator's turn a running pump fills a tank that was last     *)
(* heard below 100 and is not silent, however long the board took.          *)
THEOREM RunsForAHungryTankAlways == HubSpec => []RunsForAHungryTank
  <1>1. IInv /\ Decision => RunsForAHungryTank
    <2> SUFFICES ASSUME IInv, Decision, hubResets = 0, ctlResets = 0, pc = "loop",
                        phase = "send", pump_pin, NEW t \in open
                 PROVE  tank[t].level < OffCondition /\ IsConnected(t)
      BY DEF RunsForAHungryTank
    <2>1. Current # Off /\ open = {Current.valve} /\ open \subseteq Valves
      BY DEF IInv, TypeOK, Protocol, Idle, InEffect, CarriedOut, Stopped
    <2>2. Current.valve = OnValve
      BY <2>1, CommandFields DEF IInv, TypeOK, Current
    <2> QED BY <2>1, <2>2 DEF Decision, Hungry
  <1> QED BY <1>1, DecisionAlways, HubKeepsLinkInvariant, PTL

-----------------------------------------------------------------------------
(* A connection that is lost or free has nobody at its end, a free slot     *)
(* holds no frames, and only an app has sent what is not a report.          *)
SlotInv ==
    \A s \in Slots :
      /\ conn[s] # "open" => owner[s] = NoPeer
      /\ conn[s] = "free" => inbox[s] = << >>
      /\ \A i \in 1..Len(inbox[s]) :
            inbox[s][i].kind # "report" => owner[s] \in Apps \cup {NoPeer}

AppInv == SlotInv /\ AppSlotIsAnApps

LEMMA FreedKeeps ==
    ASSUME HubTypeOK, AppInv, NEW S, Freed(S) PROVE AppInv'
  <1>1. ASSUME NEW s \in Slots
        PROVE  /\ s \in S => conn'[s] = "free" /\ owner'[s] = NoPeer /\ inbox'[s] = << >>
               /\ s \notin S => conn'[s] = conn[s] /\ owner'[s] = owner[s]
                                /\ inbox'[s] = inbox[s]
    BY DEF Freed
  <1>2. SlotInv'
    BY <1>1 DEF AppInv, SlotInv
  <1>3. AppSlotIsAnApps'
    <2> SUFFICES ASSUME app_num' # def_web_no
                 PROVE  conn'[app_num'] # "free" /\ owner'[app_num'] \in Apps \cup {NoPeer}
      BY DEF AppSlotIsAnApps
    <2>1. /\ app_num' = app_num /\ app_num \in Slots
          /\ conn[app_num] # "free" /\ owner[app_num] \in Apps \cup {NoPeer}
      BY DEF Freed, AppInv, AppSlotIsAnApps, HubTypeOK
    <2>2. app_num \notin S
      BY <2>1 DEF Freed
    <2> QED BY <1>1, <2>1, <2>2
  <1> QED BY <1>2, <1>3 DEF AppInv

(* Reading a frame leaves the rest of the inbox as it was.                  *)
LEMMA PoppedKeeps ==
    ASSUME HubTypeOK, SlotInv, inbox[slot] # << >>, Popped, UNCHANGED <<conn, owner>>
    PROVE  SlotInv'
  <1>1. slot \in Slots /\ inbox[slot] \in Seq(Frames)
    BY DEF HubTypeOK
  <1>2. /\ Len(Tail(inbox[slot])) = Len(inbox[slot]) - 1
        /\ \A i \in 1..Len(Tail(inbox[slot])) :
              i + 1 \in 1..Len(inbox[slot]) /\ Tail(inbox[slot])[i] = inbox[slot][i + 1]
    BY <1>1
  <1>3. \A s \in Slots : inbox'[s] = IF s = slot THEN Tail(inbox[s]) ELSE inbox[s]
    BY DEF Popped, HubTypeOK
  <1>4. conn[slot] # "free"
    BY <1>1 DEF SlotInv
  <1>5. ASSUME NEW i \in 1..Len(Tail(inbox[slot])), Tail(inbox[slot])[i].kind # "report"
        PROVE  owner[slot] \in Apps \cup {NoPeer}
    BY <1>1, <1>2, <1>5 DEF SlotInv
  <1>6. \A s \in Slots \ {slot} : \A i \in 1..Len(inbox[s]) :
            inbox[s][i].kind # "report" => owner[s] \in Apps \cup {NoPeer}
    BY DEF SlotInv
  <1>7. \A s \in Slots : /\ conn[s] # "open" => owner[s] = NoPeer
                         /\ conn[s] = "free" => inbox[s] = << >>
    BY DEF SlotInv
  <1>8. /\ \A s \in Slots : conn'[s] # "open" => owner'[s] = NoPeer
        /\ \A s \in Slots : conn'[s] = "free" => inbox'[s] = << >>
    BY <1>3, <1>4, <1>7
  <1>9. \A s \in Slots : \A i \in 1..Len(inbox'[s]) :
            inbox'[s][i].kind # "report" => owner'[s] \in Apps \cup {NoPeer}
    BY <1>1, <1>3, <1>5, <1>6
  <1> QED BY <1>8, <1>9 DEF SlotInv

LEMMA AcceptKeeps ==
    ASSUME HubTypeOK, AppInv, NEW p \in Peers, Accept(p) PROVE AppInv'
  <1>1. PICK s \in Slots :
          /\ ~Connected(s)
          /\ conn'  = [conn  EXCEPT ![s] = "open"]
          /\ owner' = [owner EXCEPT ![s] = p]
          /\ app_num' = IF app_num = s /\ conn[s] = "lost" THEN def_web_no ELSE app_num
    BY DEF Accept
  <1>2. inbox' = inbox /\ inbox[s] = << >>
    BY <1>1 DEF Accept, Connected, AppInv, SlotInv, HubTypeOK
  <1>3. app_num' = app_num => app_num # s \/ app_num = def_web_no
    <2>1. app_num = s => conn[s] = "lost"
      BY <1>1, SlotType DEF AppInv, AppSlotIsAnApps, Connected, HubTypeOK
    <2> QED BY <1>1, <2>1
  <1>4. SlotInv'
    <2>1. \A r \in Slots : /\ conn'[r]  = IF r = s THEN "open" ELSE conn[r]
                           /\ owner'[r] = IF r = s THEN p ELSE owner[r]
      BY <1>1 DEF HubTypeOK
    <2>2. SlotInv /\ Len(inbox[s]) = 0
      BY <1>2 DEF AppInv
    <2>3. \A i \in 1..Len(inbox[s]) : FALSE
      BY <2>2
    <2> QED BY <1>1, <1>2, <2>1, <2>2, <2>3 DEF SlotInv
  <1>5. AppSlotIsAnApps'
    BY <1>1, <1>3 DEF AppInv, AppSlotIsAnApps, HubTypeOK
  <1> QED BY <1>4, <1>5 DEF AppInv

LEMMA OutsideKeeps ==
    ASSUME HubTypeOK, AppInv, NEW s \in Slots, Close(s) \/ Vanish(s) PROVE AppInv'
  <1>1. /\ owner' = [owner EXCEPT ![s] = NoPeer] /\ app_num' = app_num
        /\ conn' = conn \/ conn' = [conn EXCEPT ![s] = "lost"]
        /\ inbox' = inbox \/ inbox' = [inbox EXCEPT ![s] = << >>]
        /\ conn[s] = "open"
    <2>1. CASE Close(s)
      <3>1. [inbox EXCEPT ![s] = inbox[s]] = inbox
        BY DEF HubTypeOK
      <3> QED BY <2>1, <3>1 DEF Close
    <2>2. CASE Vanish(s)
      BY <2>2 DEF Vanish, AppInv, SlotInv
    <2> QED BY <2>1, <2>2
  <1>2. SlotInv'
    BY <1>1 DEF AppInv, SlotInv, HubTypeOK
  <1>3. AppSlotIsAnApps'
    BY <1>1 DEF AppInv, AppSlotIsAnApps, HubTypeOK
  <1> QED BY <1>2, <1>3 DEF AppInv

LEMMA SendFrameKeeps ==
    ASSUME HubTypeOK, AppInv, NEW p \in Peers, Send_frame(p) PROVE AppInv'
  <1>1. PICK s \in Slots, f \in FramesOf(p) :
          /\ conn[s] = "open" /\ owner[s] = p
          /\ inbox' = [inbox EXCEPT ![s] = Append(@, f)]
          /\ UNCHANGED <<conn, owner, app_num>>
    BY DEF Send_frame
  <1>2. f.kind # "report" => owner[s] \in Apps
    BY <1>1, FrameFields
  <1>3. inbox[s] \in Seq(Frames) /\ f \in Frames
    BY <1>1, FrameType DEF HubTypeOK
  <1>4. \A i \in 1..Len(Append(inbox[s], f)) :
           Append(inbox[s], f)[i] = f
           \/ (i \in 1..Len(inbox[s]) /\ Append(inbox[s], f)[i] = inbox[s][i])
    BY <1>3
  <1>5. \A r \in Slots : inbox'[r] = IF r = s THEN Append(inbox[s], f) ELSE inbox[r]
    BY <1>1 DEF HubTypeOK
  <1>6. SlotInv'
    BY <1>1, <1>2, <1>4, <1>5 DEF AppInv, SlotInv
  <1> QED BY <1>1, <1>6 DEF AppInv, AppSlotIsAnApps

LEMMA ClientsKeep ==
    ASSUME HubTypeOK, AppInv, ServeClient PROVE AppInv'
  <1>1. CASE RefuseApp
    BY <1>1, FreedKeeps DEF RefuseApp
  <1>2. CASE SkipSlot
    BY <1>2, FreedKeeps DEF SkipSlot
  <1>3. CASE RegisterApp
    <2>1. SlotInv' /\ inbox[slot] # << >> /\ slot \in Slots
      BY <1>3, PoppedKeeps DEF RegisterApp, ReadFrame, AppInv, HubTypeOK
    <2>2. inbox[slot] \in Seq(Frames) /\ Head(inbox[slot]).kind = "hello"
      BY <1>3 DEF RegisterApp, ReadFrame, HubTypeOK
    <2>3. 1 \in 1..Len(inbox[slot]) /\ inbox[slot][1].kind = "hello"
      BY <2>1, <2>2
    <2>4. owner[slot] \in Apps \cup {NoPeer} /\ conn[slot] # "free"
      BY <2>1, <2>3 DEF AppInv, SlotInv
    <2> QED BY <1>3, <2>1, <2>4 DEF RegisterApp, AppInv, AppSlotIsAnApps
  <1>4. CASE update_tank_data \/ AppStarts \/ AppStops \/ AppIgnored
    <2>1. /\ inbox[slot] # << >> /\ Popped /\ UNCHANGED <<conn, owner, app_num>>
      BY <1>4 DEF update_tank_data, AppStarts, AppStops, AppIgnored, ReadFrame
    <2> QED BY <2>1, PoppedKeeps DEF AppInv, AppSlotIsAnApps
  <1> QED BY <1>1, <1>2, <1>3, <1>4 DEF ServeClient

LEMMA AppStep ==
    ASSUME HubTypeOK, AppInv, [HubNext]_allVars PROVE AppInv'
  <1>1. CASE ServeClient
    BY <1>1, ClientsKeep
  <1>2. CASE Operate
    BY <1>2, FreedKeeps DEF Operate, is_tanks_connected
  <1>3. CASE send_data_to_app
    BY <1>3, FreedKeeps DEF send_data_to_app
  <1>4. CASE HubRestart
    BY <1>4, SlotType DEF HubRestart, AppInv, SlotInv, AppSlotIsAnApps
  <1>5. ASSUME NEW p \in Peers, Accept(p) \/ Send_frame(p) PROVE AppInv'
    BY <1>5, AcceptKeeps, SendFrameKeeps
  <1>6. ASSUME NEW s \in Slots, Close(s) \/ Vanish(s) PROVE AppInv'
    BY <1>6, OutsideKeeps
  <1>7. CASE AcceptDone \/ LinkStep \/ UNCHANGED allVars
    BY <1>7 DEF AcceptDone, LinkStep, allVars, hubVariables, AppInv, SlotInv,
                AppSlotIsAnApps
  <1> QED BY <1>1, <1>2, <1>3, <1>4, <1>5, <1>6, <1>7 DEF HubNext, LoopStep

(* APP.websock_num never names a slot that is free or another client's.     *)
THEOREM AppSlotIsAnAppsAlways == HubSpec => []AppSlotIsAnApps
  <1>1. HubInit => AppInv
    BY DEF HubInit, AppInv, SlotInv, AppSlotIsAnApps
  <1>2. AppInv /\ HubTypeOK /\ [HubNext]_allVars => AppInv'
    BY AppStep
  <1>3. AppInv => AppSlotIsAnApps
    BY DEF AppInv
  <1> QED BY <1>1, <1>2, <1>3, HubTypeCorrect, PTL DEF HubSpec

-----------------------------------------------------------------------------
(* When a tank is recorded where it is.  Every way to lose track of it      *)
(* begins with the end of a tank's connection; while those hold, phones may *)
(* come, be refused, close or vanish, and silent tanks be thrown out.       *)
TanksStay ==
    [][\A s \in Slots : owner[s] \in Valves => ~(Close(s) \/ Vanish(s))]_allVars

(* A report under way is of the tank at the other end, and the slot a tank  *)
(* is recorded on is its own.                                               *)
OwnReports ==
    \A s \in Slots : \A i \in 1..Len(inbox[s]) :
        inbox[s][i].kind = "report" => owner[s] = inbox[s][i].valve

OwnSlots == \A t \in Valves : IsConnected(t) => owner[tank[t].websock_num] = t

OwnInv == OwnReports /\ OwnSlots

LEMMA RecordedSlot ==
    ASSUME HubTypeOK, NEW t \in Valves, IsConnected(t)
    PROVE  tank[t].websock_num \in Slots
  BY DEF HubTypeOK, IsConnected

(* Throwing out slots nobody but the tanks thrown out with them is on.      *)
LEMMA FreedKeepsOwn ==
    ASSUME HubTypeOK, OwnInv, NEW S, Freed(S),
           \A t \in Valves : (IsConnected(t))' =>
              /\ IsConnected(t) /\ tank'[t].websock_num = tank[t].websock_num
              /\ tank[t].websock_num \notin S
    PROVE  OwnInv'
  <1>1. ASSUME NEW s \in Slots
        PROVE  /\ s \in S => inbox'[s] = << >>
               /\ s \notin S => inbox'[s] = inbox[s] /\ owner'[s] = owner[s]
    BY DEF Freed
  <1>2. OwnReports'
    <2>1. \A i \in 1..Len(<< >>) : FALSE
      OBVIOUS
    <2> QED BY <1>1, <2>1 DEF OwnInv, OwnReports
  <1>3. OwnSlots'
    BY <1>1, RecordedSlot DEF OwnInv, OwnSlots
  <1> QED BY <1>2, <1>3 DEF OwnInv

LEMMA PoppedKeepsOwn ==
    ASSUME HubTypeOK, OwnReports, inbox[slot] # << >>, Popped, UNCHANGED owner
    PROVE  /\ OwnReports'
           /\ Head(inbox[slot]).kind = "report" => owner[slot] = Head(inbox[slot]).valve
  <1>1. slot \in Slots /\ inbox[slot] \in Seq(Frames)
    BY DEF HubTypeOK
  <1>2. /\ \A i \in 1..Len(Tail(inbox[slot])) :
              i + 1 \in 1..Len(inbox[slot]) /\ Tail(inbox[slot])[i] = inbox[slot][i + 1]
        /\ 1 \in 1..Len(inbox[slot]) /\ Head(inbox[slot]) = inbox[slot][1]
    BY <1>1
  <1>3. \A s \in Slots : inbox'[s] = IF s = slot THEN Tail(inbox[s]) ELSE inbox[s]
    BY DEF Popped, HubTypeOK
  <1>4. ASSUME NEW i \in 1..Len(Tail(inbox[slot])), Tail(inbox[slot])[i].kind = "report"
        PROVE  owner[slot] = Tail(inbox[slot])[i].valve
    BY <1>1, <1>2, <1>4 DEF OwnReports
  <1>5. OwnReports'
    <2>1. \A s \in Slots \ {slot} : \A i \in 1..Len(inbox[s]) :
             inbox[s][i].kind = "report" => owner[s] = inbox[s][i].valve
      BY DEF OwnReports
    <2>2. ASSUME NEW s \in Slots \ {slot}
          PROVE  \A i \in 1..Len(inbox'[s]) :
                    inbox'[s][i].kind = "report" => owner'[s] = inbox'[s][i].valve
      <3>1. inbox'[s] = inbox[s] /\ owner'[s] = owner[s]
        BY <1>3
      <3> QED BY <2>1, <3>1
    <2>3. \A i \in 1..Len(inbox'[slot]) :
             inbox'[slot][i].kind = "report" => owner'[slot] = inbox'[slot][i].valve
      <3>1. inbox'[slot] = Tail(inbox[slot]) /\ owner'[slot] = owner[slot]
        BY <1>1, <1>3
      <3> QED BY <1>4, <3>1
    <2> QED BY <2>2, <2>3 DEF OwnReports
  <1> QED BY <1>1, <1>2, <1>5 DEF OwnReports

LEMMA ClientsKeepOwn == ASSUME HubTypeOK, AppInv, OwnInv, ServeClient PROVE OwnInv'
  <1>1. CASE RefuseApp
    <2>1. /\ Freed({slot}) /\ UNCHANGED tank /\ slot \in Slots
          /\ inbox[slot] \in Seq(Frames) /\ inbox[slot] # << >>
          /\ Head(inbox[slot]).kind = "hello"
      BY <1>1 DEF RefuseApp, ReadFrame, HubTypeOK
    <2>2. 1 \in 1..Len(inbox[slot]) /\ inbox[slot][1].kind = "hello"
      BY <2>1
    <2>3. owner[slot] \notin Valves
      BY <2>1, <2>2, PeersAssumption DEF AppInv, SlotInv
    <2>4. \A t \in Valves : IsConnected(t) => tank[t].websock_num # slot
      BY <2>3 DEF OwnInv, OwnSlots
    <2> QED BY <2>1, <2>4, FreedKeepsOwn DEF IsConnected
  <1>2. CASE SkipSlot
    <2>1. Freed({slot} \cap Overdue) /\ UNCHANGED tank
      BY <1>2 DEF SkipSlot
    <2>2. \A s \in Overdue : owner[s] = NoPeer
      BY DEF Overdue, AppInv, SlotInv
    <2>3. \A t \in Valves : IsConnected(t) => tank[t].websock_num \notin Overdue
      BY <2>2, PeersAssumption DEF OwnInv, OwnSlots
    <2> QED BY <2>1, <2>3, FreedKeepsOwn DEF IsConnected
  <1>3. CASE RegisterApp \/ AppStarts \/ AppStops \/ AppIgnored
    <2>1. inbox[slot] # << >> /\ Popped /\ UNCHANGED <<owner, tank>>
      BY <1>3 DEF RegisterApp, AppStarts, AppStops, AppIgnored, ReadFrame
    <2> QED BY <2>1, PoppedKeepsOwn DEF OwnInv, OwnSlots, IsConnected
  <1>4. CASE update_tank_data
    <2> DEFINE f == Head(inbox[slot])
    <2>1. /\ inbox[slot] # << >> /\ Popped /\ UNCHANGED owner /\ f.kind = "report"
          /\ tank' = [tank EXCEPT ![f.valve] =
                        [level |-> f.level, websock_num |-> slot,
                         disconnect_count |-> DisconnectAfter]]
      BY <1>4 DEF update_tank_data, ReadFrame
    <2>2. OwnReports' /\ owner[slot] = f.valve
      BY <2>1, PoppedKeepsOwn DEF OwnInv
    <2>3. \A t \in Valves : tank'[t].websock_num =
             IF t = f.valve THEN slot ELSE tank[t].websock_num
      BY <2>1 DEF HubTypeOK
    <2> HIDE DEF f
    <2>4. OwnSlots'
      BY <2>1, <2>2, <2>3 DEF OwnInv, OwnSlots, IsConnected
    <2> QED BY <2>2, <2>4 DEF OwnInv
  <1> QED BY <1>1, <1>2, <1>3, <1>4 DEF ServeClient

LEMMA OperateKeepsOwn == ASSUME HubTypeOK, OwnInv, Operate PROVE OwnInv'
  <1>1. Freed({tank[t].websock_num : t \in Silent})
    BY DEF Operate, is_tanks_connected
  <1>2. ASSUME NEW t \in Valves, (IsConnected(t))'
        PROVE  /\ IsConnected(t) /\ tank'[t].websock_num = tank[t].websock_num
               /\ t \notin Silent
    BY <1>2 DEF Operate, is_tanks_connected, TankAfterCheck, IsConnected, HubTypeOK
  <1>3. ASSUME NEW t \in Valves, IsConnected(t), NEW u \in Silent,
               tank[t].websock_num = tank[u].websock_num
        PROVE  t = u
    BY <1>3 DEF Silent, OwnInv, OwnSlots
  <1> QED BY <1>1, <1>2, <1>3, FreedKeepsOwn

LEMMA OutsideKeepsOwn ==
    ASSUME HubTypeOK, AppInv, OwnInv,
           \/ \E p \in Peers : Accept(p) \/ Send_frame(p)
           \/ \E s \in Slots : owner[s] \notin Valves /\ (Close(s) \/ Vanish(s))
    PROVE  OwnInv'
  <1>1. ASSUME NEW p \in Peers, Accept(p) PROVE OwnInv'
    <2>1. PICK s \in Slots : ~Connected(s) /\ owner' = [owner EXCEPT ![s] = p]
      BY <1>1 DEF Accept
    <2>2. /\ UNCHANGED <<inbox, tank>> /\ inbox[s] = << >> /\ owner[s] = NoPeer
          /\ \A r \in Slots : owner'[r] = IF r = s THEN p ELSE owner[r]
      BY <1>1, <2>1 DEF Accept, Connected, AppInv, SlotInv, HubTypeOK
    <2>3. \A i \in 1..Len(inbox[s]) : FALSE
      BY <2>2
    <2>4. OwnReports'
      BY <2>2, <2>3 DEF OwnInv, OwnReports
    <2>5. OwnSlots'
      BY <2>2, RecordedSlot, PeersAssumption DEF OwnInv, OwnSlots, IsConnected
    <2> QED BY <2>4, <2>5 DEF OwnInv
  <1>2. ASSUME NEW p \in Peers, Send_frame(p) PROVE OwnInv'
    <2>1. PICK s \in Slots, f \in FramesOf(p) :
            /\ owner[s] = p /\ inbox' = [inbox EXCEPT ![s] = Append(@, f)]
            /\ UNCHANGED <<owner, tank>>
      BY <1>2 DEF Send_frame
    <2>2. f.kind = "report" => f.valve = p
      BY DEF FramesOf, Report, Hello, AppOn, AppOff
    <2>3. inbox[s] \in Seq(Frames) /\ f \in Frames
      BY <2>1, FrameType DEF HubTypeOK
    <2>4. \A i \in 1..Len(Append(inbox[s], f)) :
             Append(inbox[s], f)[i] = f
             \/ (i \in 1..Len(inbox[s]) /\ Append(inbox[s], f)[i] = inbox[s][i])
      BY <2>3
    <2>5. \A r \in Slots : inbox'[r] = IF r = s THEN Append(inbox[s], f) ELSE inbox[r]
      BY <2>1 DEF HubTypeOK
    <2>6. OwnReports'
      BY <2>1, <2>2, <2>4, <2>5 DEF OwnInv, OwnReports
    <2> QED BY <2>1, <2>6 DEF OwnInv, OwnSlots, IsConnected
  <1>3. ASSUME NEW s \in Slots, owner[s] \notin Valves, Close(s) \/ Vanish(s) PROVE OwnInv'
    <2>1. /\ UNCHANGED tank
          /\ \A r \in Slots : owner'[r] = IF r = s THEN NoPeer ELSE owner[r]
          /\ \A r \in Slots : inbox'[r] = inbox[r] \/ inbox'[r] = << >>
      BY <1>3 DEF Close, Vanish, HubTypeOK
    <2>2. \A i \in 1..Len(<< >>) : FALSE
      OBVIOUS
    <2>3. \A i \in 1..Len(inbox[s]) : inbox[s][i].kind # "report"
      <3>1. \A i \in 1..Len(inbox[s]) : inbox[s][i] \in Frames
        BY DEF HubTypeOK
      <3> QED BY <1>3, <3>1, FrameType DEF OwnInv, OwnReports
    <2>4. OwnReports'
      BY <2>1, <2>2, <2>3 DEF OwnInv, OwnReports
    <2>5. OwnSlots'
      BY <1>3, <2>1, RecordedSlot DEF OwnInv, OwnSlots, IsConnected
    <2> QED BY <2>4, <2>5 DEF OwnInv
  <1> QED BY <1>1, <1>2, <1>3

LEMMA OwnStep ==
    ASSUME HubTypeOK, AppInv, OwnInv, HubNext,
           \A s \in Slots : owner[s] \in Valves => ~(Close(s) \/ Vanish(s))
    PROVE  OwnInv'
  <1>1. CASE send_data_to_app
    <2>1. \E S : S \subseteq Overdue /\ Freed(S)
      BY <1>1 DEF send_data_to_app
    <2>2. \A s \in Overdue : owner[s] = NoPeer
      BY DEF Overdue, AppInv, SlotInv
    <2>3. \A t \in Valves : IsConnected(t) => tank[t].websock_num \notin Overdue
      BY <2>2, PeersAssumption DEF OwnInv, OwnSlots
    <2>4. UNCHANGED tank
      BY <1>1 DEF send_data_to_app
    <2> QED BY <2>1, <2>3, <2>4, FreedKeepsOwn DEF IsConnected
  <1>2. CASE HubRestart
    <2>1. /\ \A s \in Slots : inbox'[s] = << >>
          /\ \A t \in Valves : ~(IsConnected(t))'
      BY <1>2 DEF HubRestart, UnknownTank, IsConnected
    <2>2. \A i \in 1..Len(<< >>) : FALSE
      OBVIOUS
    <2> QED BY <2>1, <2>2 DEF OwnInv, OwnReports, OwnSlots
  <1>3. CASE AcceptDone \/ LinkStep
    BY <1>3 DEF AcceptDone, LinkStep, hubVariables, OwnInv, OwnReports, OwnSlots, IsConnected
  <1>4. CASE ServeClient \/ Operate
    BY <1>4, ClientsKeepOwn, OperateKeepsOwn
  <1> QED BY <1>1, <1>2, <1>3, <1>4, OutsideKeepsOwn DEF HubNext, LoopStep

(* While the tanks' own connections hold, a tank that is not marked as      *)
(* disconnected is recorded on its own connection.                          *)
THEOREM RecordedOnOwnWhileTanksStay == HubSpec /\ TanksStay => []RecordedOnOwnConnection
  <1>1. HubInit => AppInv /\ OwnInv
    <2>1. \A i \in 1..Len(<< >>) : FALSE
      OBVIOUS
    <2> QED BY <2>1 DEF HubInit, AppInv, SlotInv, AppSlotIsAnApps, UnknownTank, IsConnected,
                   OwnInv, OwnReports, OwnSlots
  <1>2. AppInv /\ HubTypeOK /\ [HubNext]_allVars => AppInv'
    BY AppStep
  <1>3. OwnInv /\ UNCHANGED allVars => OwnInv'
    BY DEF allVars, hubVariables, OwnInv, OwnReports, OwnSlots, IsConnected
  <1>4. AppInv /\ HubTypeOK /\ OwnInv /\ [HubNext]_allVars
        /\ [\A s \in Slots : owner[s] \in Valves => ~(Close(s) \/ Vanish(s))]_allVars
          => OwnInv'
    BY <1>3, OwnStep
  <1>5. OwnInv => RecordedOnOwnConnection
    BY DEF OwnInv, OwnSlots, RecordedOnOwnConnection
  <1> QED BY <1>1, <1>2, <1>4, <1>5, HubTypeCorrect, PTL DEF HubSpec, TanksStay

-----------------------------------------------------------------------------
(* What follows once pump_operator is known to have its turn again and      *)
(* again: a turn that finds the tank full, or low, gives its command, and   *)
(* the turn after that one has to wait for the board's answer.              *)
HoldsFull(t) == OnValve = t /\ tank[t].level >= OffCondition
Stopping(t)  == OnValve = t /\ pc = "await" /\ cmd = Off

IsLow(t) == tank[t].level <= OnCondition /\ IsConnected(t)
Starting == pc = "await" /\ cmd # Off

LEMMA LevelType ==
    ASSUME HubTypeOK, NEW t \in Valves PROVE tank[t].level \in Int
  <1>1. tank[t].level \in Levels \cup {0}
    BY DEF HubTypeOK
  <1>2. Levels \cup {0} \subseteq Int
    BY HubBoundsAssumption
  <1> QED BY <1>1, <1>2

(* is_tanks_connected changes no level, and marks a tank only silent.       *)
LEMMA CheckKeepsLevel ==
    ASSUME HubTypeOK, is_tanks_connected, NEW t \in Valves
    PROVE  tank'[t].level = tank[t].level
  BY DEF HubTypeOK, is_tanks_connected, TankAfterCheck

LEMMA FullTurn ==
    ASSUME HubTypeOK, NEW t \in Valves, HoldsFull(t), Operate
    PROVE  Stopping(t)'
  <1>1. tank'[t].level >= OffCondition
    BY CheckKeepsLevel DEF Operate, HoldsFull
  <1>2. OnValve = t /\ t # default_no
    BY ValvesAssumption DEF HoldsFull, default_no
  <1>3. ~OperatorStarts /\ ~OperatorWaits
    BY <1>1, <1>2 DEF OperatorStarts, OperatorWaits, please_on_the_pump, Over
  <1> QED BY <1>2, <1>3 DEF Operate, OperatorStops, please_off_the_pump, Send, Stopping

LEMMA StoppingStays ==
    ASSUME HubTypeOK, TypeOK, NEW t \in Valves, Stopping(t), [HubNext]_allVars
    PROVE  Stopping(t)' \/ (OnValve # t)'
  <1>1. t # default_no
    BY ValvesAssumption DEF default_no
  <1>2. [Next]_vars
    BY HubStepsLink
  <1> QED BY <1>1, <1>2 DEF Next, vars, Await, Acked, NoAck, Resend, please_on_the_pump,
       please_off_the_pump, Send, HubReset, ReadSerial, hubVars, ControllerReset, Stopping

(* A full tank's pump is stopped, whatever the board does with the command  *)
(* meanwhile: of the turns of pump_operator alone.                          *)
THEOREM FullTankIsStoppedAlways == HubSpec /\ OperatorKeepsLooking => FullTankIsStopped
  <1>1. ASSUME NEW t \in Valves
        PROVE  HubSpec /\ OperatorKeepsLooking =>
                 (OnValve = t /\ tank[t].level >= OffCondition
                    ~> OnValve # t \/ tank[t].level < OffCondition)
    <2> DEFINE Exit == OnValve # t \/ tank[t].level < OffCondition
    <2>1. HubTypeOK /\ ~Exit => HoldsFull(t)
      BY LevelType DEF HoldsFull, OffCondition
    <2>2. HubTypeOK /\ HoldsFull(t) /\ <<Operate>>_allVars => Stopping(t)'
      BY FullTurn
    <2>3. HubTypeOK /\ TypeOK /\ Stopping(t) /\ [HubNext]_allVars
            => Stopping(t)' \/ Exit'
      BY StoppingStays
    <2>4. Stopping(t) => ~<<Operate>>_allVars
      BY DEF Stopping, Operate
    <2>5. IInv => TypeOK
      BY DEF IInv
    <2> HIDE DEF Exit
    <2>6. HubSpec /\ OperatorKeepsLooking => []<>Exit
      BY <2>1, <2>2, <2>3, <2>4, <2>5, HubTypeCorrect, HubKeepsLinkInvariant, PTL
         DEF HubSpec, OperatorKeepsLooking
    <2> QED BY <2>6, PTL DEF Exit
  <1> QED BY <1>1 DEF FullTankIsStopped

LEMMA LowTurn ==
    ASSUME HubTypeOK, NEW t \in Valves, IsLow(t), OnValve = default_no, Operate
    PROVE  Starting' \/ (~IsConnected(t))'
  <1> SUFFICES ASSUME (IsConnected(t))' PROVE Starting'
    OBVIOUS
  <1>1. Low(t)
    BY CheckKeepsLevel DEF Operate, IsLow, Low, IsConnected
  <1>2. OperatorStarts
    BY <1>1 DEF Operate, OperatorStops, OperatorWaits
  <1>3. PICK u \in Valves : Send(On(u))
    BY <1>2 DEF OperatorStarts, please_on_the_pump
  <1>4. On(u) # Off
    BY CommandFields, RequestsAssumption
  <1> QED BY <1>3, <1>4 DEF Send, Starting

LEMMA StartingStays ==
    ASSUME HubTypeOK, TypeOK, NEW t \in Valves, Starting, [HubNext]_allVars
    PROVE  Starting' \/ (OnValve # default_no)' \/ (~IsConnected(t))'
  <1>1. CASE HubRestart
    BY <1>1 DEF HubRestart, UnknownTank, IsConnected
  <1>2. CASE ~HubRestart
    <2>1. [Next]_vars
      BY HubStepsLink
    <2>2. Acked => OnValve' # default_no
      <3>1. cmd.valve \in Requests
        BY CommandFields DEF TypeOK, Starting
      <3>2. cmd.valve # default_no
        BY <3>1, RequestsAssumption DEF default_no
      <3> QED BY <3>2 DEF Acked, Starting
    <2>3. ~Acked => UNCHANGED <<pc, cmd>>
      BY <1>2 DEF Starting, HubNext, LoopStep, AcceptDone, ServeClient, update_tank_data,
         RegisterApp, RefuseApp, AppStarts, AppStops, AppIgnored, SkipSlot, ReadFrame,
         Operate, send_data_to_app, Accept, Send_frame, Close, Vanish, LinkStep, Await,
         NoAck, Resend, ReadSerial, ControllerReset, hubVars, vars, allVars
    <2> QED BY <2>2, <2>3 DEF Starting
  <1> QED BY <1>1, <1>2

(* While a connected tank is low the pump comes on, for it or another.      *)
THEOREM LowTankStartsPumpAlways == HubSpec /\ OperatorKeepsLooking => LowTankStartsPump
  <1>1. ASSUME NEW t \in Valves
        PROVE  HubSpec /\ OperatorKeepsLooking =>
                 (tank[t].level <= OnCondition /\ IsConnected(t)
                    ~> OnValve # default_no \/ tank[t].level > OnCondition
                         \/ ~IsConnected(t))
    <2> DEFINE Exit == \/ OnValve # default_no
                       \/ tank[t].level > OnCondition
                       \/ ~IsConnected(t)
    <2>1. HubTypeOK /\ ~Exit => IsLow(t) /\ OnValve = default_no
      BY LevelType DEF IsLow, OnCondition
    <2>2. HubTypeOK /\ IsLow(t) /\ OnValve = default_no /\ <<Operate>>_allVars
            => Starting' \/ Exit'
      BY LowTurn
    <2>3. HubTypeOK /\ TypeOK /\ Starting /\ [HubNext]_allVars => Starting' \/ Exit'
      BY StartingStays
    <2>4. Starting => ~<<Operate>>_allVars
      BY DEF Starting, Operate
    <2>5. IInv => TypeOK
      BY DEF IInv
    <2> HIDE DEF Exit
    <2>6. HubSpec /\ OperatorKeepsLooking => []<>Exit
      BY <2>1, <2>2, <2>3, <2>4, <2>5, HubTypeCorrect, HubKeepsLinkInvariant, PTL
         DEF HubSpec, OperatorKeepsLooking
    <2> QED BY <2>6, PTL DEF Exit
  <1> QED BY <1>1 DEF LowTankStartsPump

-----------------------------------------------------------------------------
(* The hub, seen by the owner of the tanks.                                 *)

(* Freeing slots and reading frames only loses wishes of the app.           *)
LEMMA FreedLoses == ASSUME NEW S, Freed(S) PROVE wishes' \subseteq wishes
  <1>1. \A s \in Slots : inbox'[s] = inbox[s] \/ inbox'[s] = << >>
    BY DEF Freed
  <1>2. WishesIn(<< >>) = {}
    BY DEF WishesIn
  <1> QED BY <1>1, <1>2 DEF wishes

LEMMA TailWishes ==
    ASSUME NEW S, NEW q \in Seq(S), q # << >>
    PROVE  /\ WishesIn(Tail(q)) \subseteq WishesIn(q)
           /\ IsWish(Head(q)) => WishOf(Head(q)) \in WishesIn(q)
  <1>1. /\ 1 \in 1..Len(q) /\ q[1] = Head(q)
        /\ \A i \in 1..Len(Tail(q)) : i + 1 \in 1..Len(q) /\ Tail(q)[i] = q[i + 1]
    OBVIOUS
  <1> QED BY <1>1 DEF WishesIn

LEMMA PoppedLoses ==
    ASSUME HubTypeOK, inbox[slot] # << >>, Popped
    PROVE  /\ wishes' \subseteq wishes
           /\ IsWish(Head(inbox[slot])) => WishOf(Head(inbox[slot])) \in wishes
  <1>1. slot \in Slots /\ inbox[slot] \in Seq(Frames)
    BY DEF HubTypeOK
  <1>2. \A s \in Slots : inbox'[s] = IF s = slot THEN Tail(inbox[s]) ELSE inbox[s]
    BY DEF Popped, HubTypeOK
  <1> QED BY <1>1, <1>2, TailWishes DEF wishes

(* A frame sent is one wish more, or none.                                  *)
LEMMA SentWish ==
    ASSUME HubTypeOK, NEW p \in Peers, Send_frame(p)
    PROVE  \E w \in {{}} \cup {{v} : v \in Requests} : wishes' \subseteq wishes \cup {w}
  <1>1. PICK s \in Slots, f \in FramesOf(p) : inbox' = [inbox EXCEPT ![s] = Append(@, f)]
    BY DEF Send_frame
  <1>2. inbox[s] \in Seq(Frames) /\ f \in Frames
    BY FrameType DEF HubTypeOK
  <1>3. WishesIn(Append(inbox[s], f)) \subseteq WishesIn(inbox[s]) \cup {WishOf(f)}
    <2>1. \A i \in 1..Len(Append(inbox[s], f)) :
             Append(inbox[s], f)[i] = f
             \/ (i \in 1..Len(inbox[s]) /\ Append(inbox[s], f)[i] = inbox[s][i])
      BY <1>2
    <2> QED BY <2>1 DEF WishesIn
  <1>4. \A r \in Slots : inbox'[r] = IF r = s THEN Append(inbox[s], f) ELSE inbox[r]
    BY <1>1 DEF HubTypeOK
  <1>5. WishOf(f) \in {{}} \cup {{v} : v \in Requests}
    BY <1>2, FrameType DEF WishOf
  <1> QED BY <1>3, <1>4, <1>5 DEF wishes

(* What the loop does while the pump is left alone and the table too is at  *)
(* most the loss of a wish.                                                 *)
LEMMA LosesWish ==
    ASSUME UNCHANGED <<vars, tank>>, wishes' \subseteq wishes
    PROVE  Water!WaterNext
  <1>1. UNCHANGED <<requested, running, believed, tripped, level, heard>>
    BY DEF vars, requested, running, believed, tripped, level, heard, IsConnected
  <1>2. Water!Wish({})
    BY <1>1 DEF Water!Wish, Water!vars, Water!table
  <1> QED BY <1>2 DEF Water!WaterNext

LEMMA HearsReport == ASSUME HubTypeOK, update_tank_data PROVE Water!WaterNext
  <1> DEFINE f == Head(inbox[slot])
  <1>1. /\ pc = "loop" /\ inbox[slot] # << >> /\ Popped /\ UNCHANGED vars
        /\ f.kind = "report" /\ f \in Frames /\ slot \in Slots
    BY PoppedType DEF update_tank_data, ReadFrame, HubTypeOK
  <1>2. f.valve \in Valves /\ f.level \in Levels
    BY <1>1, FrameType
  <1>3. \A t \in Valves :
           tank'[t] = IF t = f.valve
                      THEN [level |-> f.level, websock_num |-> slot,
                            disconnect_count |-> DisconnectAfter]
                      ELSE tank[t]
    BY DEF update_tank_data, HubTypeOK
  <1>4. level' = [level EXCEPT ![f.valve] = f.level]
    <2>1. \A t \in Valves :
             tank'[t].level = IF t = f.valve THEN f.level ELSE tank[t].level
      BY <1>3
    <2> HIDE DEF f
    <2> QED BY <2>1 DEF level
  <1>5. heard' = heard \cup {f.valve}
    BY <1>1, <1>2, <1>3, SlotType DEF heard, IsConnected
  <1>6. believed = requested /\ UNCHANGED <<requested, running, believed, tripped>>
    BY <1>1 DEF vars, requested, running, believed, tripped
  <1>7. wishes' \subseteq wishes
    BY <1>1, PoppedLoses
  <1>8. Water!Hear(f.valve, f.level)
    BY <1>4, <1>5, <1>6, <1>7 DEF Water!Hear, Water!Idle, Water!SomeLost, Water!vars
  <1> QED BY <1>2, <1>8 DEF Water!WaterNext

LEMMA ObeysApp == ASSUME HubTypeOK, AppStarts \/ AppStops PROVE Water!WaterNext
  <1> DEFINE f == Head(inbox[slot])
  <1>1. inbox[slot] # << >> /\ Popped /\ UNCHANGED tank /\ f \in Frames
    BY PoppedType DEF AppStarts, AppStops, ReadFrame
  <1>2. UNCHANGED <<level, heard>> /\ wishes' \subseteq wishes
    BY <1>1, PoppedLoses DEF level, heard, IsConnected
  <1>3. CASE AppStarts
    <2>1. f.kind = "on" /\ f.valve \in Requests /\ please_on_the_pump(f.valve)
      BY <1>1, <1>3, FrameType DEF AppStarts, ReadFrame
    <2>2. {f.valve} \in wishes
      BY <1>1, <2>1, PoppedLoses DEF IsWish, WishOf
    <2>3. Water!Start(f.valve)
      BY <2>1, RequestStarts DEF Service!Start, Water!Start
    <2> QED BY <1>2, <2>1, <2>2, <2>3
            DEF Water!WaterNext, Water!Obey, Water!SomeLost, Water!table
  <1>4. CASE AppStops
    <2>1. f.kind = "off" /\ please_off_the_pump
      BY <1>4 DEF AppStops, ReadFrame
    <2>2. {} \in wishes
      BY <1>1, <2>1, PoppedLoses DEF IsWish, WishOf
    <2>3. Water!Stop
      BY <2>1, RequestStops DEF Service!Stop, Water!Stop
    <2> QED BY <1>2, <2>2, <2>3
            DEF Water!WaterNext, Water!Obey, Water!SomeLost, Water!table
  <1> QED BY <1>3, <1>4

(* A turn of pump_operator is one look at one table.                        *)
LEMMA OperateLooks ==
    ASSUME HubTypeOK, Operate, OnValve # default_no => OnValve \in Valves
    PROVE  Water!Look
  <1>1. /\ pc = "loop" /\ is_tanks_connected
        /\ tank' \in [Valves -> [level : Levels \cup {0},
                                 websock_num : Slots \cup {def_web_no},
                                 disconnect_count : 0..DisconnectAfter]]
    BY OperateType DEF Operate, HubTypeOK
  <1>2. wishes' \subseteq wishes
    BY <1>1, FreedLoses DEF is_tanks_connected
  <1>3. \A t \in Valves : tank'[t].level = tank[t].level
    BY <1>1, CheckKeepsLevel
  <1>4. \A t \in Valves : tank'[t].websock_num \in {def_web_no, tank[t].websock_num}
    BY <1>1 DEF is_tanks_connected, TankAfterCheck, HubTypeOK
  <1>5. level' = level /\ heard' \subseteq heard
    BY <1>3, <1>4 DEF level, heard, IsConnected
  <1>6. \A t \in Valves : t \in heard' <=> tank'[t].websock_num # def_web_no
    BY DEF heard, IsConnected
  <1>7. /\ \A t \in Valves : level[t] = tank'[t].level
        /\ heard' \subseteq Valves
    BY <1>3 DEF level, heard
  <1>8. Water!LowTanks = {t \in Valves : Low(t)}
    BY <1>6, <1>7 DEF Water!LowTanks, Low
  <1>9. \A t \in Valves : Water!Over(t) <=> Over(t)
    BY <1>6, <1>7 DEF Water!Over, Over
  <1>10. /\ believed = requested
         /\ OnValve = default_no => requested = {}
         /\ OnValve # default_no => requested = {OnValve}
    BY <1>1 DEF requested, believed, ValveSet
  <1>11. CASE OperatorStarts
    <2>1. PICK t \in Valves : Low(t) /\ (\A u \in Valves : u < t => ~Low(u))
                              /\ please_on_the_pump(t)
      BY <1>11 DEF OperatorStarts
    <2>2. t \in Requests /\ \A u \in Water!LowTanks : t <= u
      BY <1>8, <2>1, RequestsAssumption
    <2>3. Water!Start(t)
      BY <2>1, <2>2, RequestStarts DEF Service!Start, Water!Start
    <2>4. Water!StartFirst
      BY <1>8, <2>1, <2>2, <2>3 DEF Water!StartFirst
    <2> QED BY <1>2, <1>5, <1>10, <2>4 DEF Water!Look, Water!Idle, Water!SomeLost
  <1>12. CASE OperatorStops
    <2>1. please_off_the_pump /\ OnValve # default_no /\ Over(OnValve)
      BY <1>12 DEF OperatorStops
    <2>2. Water!Over(OnValve)
      BY <1>6, <1>7, <2>1 DEF Water!Over, Over
    <2>3. Water!Stop
      BY <2>1, RequestStops DEF Service!Stop, Water!Stop
    <2>4. Water!StopOver
      BY <1>10, <2>1, <2>2, <2>3 DEF Water!StopOver
    <2> QED BY <1>2, <1>5, <1>10, <2>4 DEF Water!Look, Water!Idle, Water!SomeLost
  <1>13. CASE OperatorWaits
    <2>1. UNCHANGED <<requested, running, believed, tripped>>
      BY <1>13 DEF OperatorWaits, vars, requested, running, believed, tripped
    <2>2. requested = {} => Water!LowTanks = {}
      BY <1>8, <1>10, <1>13 DEF OperatorWaits
    <2>3. \A t \in requested : ~Water!Over(t)
      BY <1>6, <1>7, <1>10, <1>13 DEF OperatorWaits, Water!Over, Over
    <2>4. Water!LeaveIt
      BY <2>1, <2>2, <2>3 DEF Water!LeaveIt, Water!vars
    <2> QED BY <1>2, <1>5, <1>10, <2>4 DEF Water!Look, Water!Idle, Water!SomeLost
  <1> QED BY <1>11, <1>12, <1>13 DEF Operate

LEMMA WaterStep ==
    ASSUME HubTypeOK, IInv, IInv', LastIsCmd, [HubNext]_allVars, hubResets' = 0
    PROVE  [Water!WaterNext]_(Water!waterVars)
  <1>0. TypeOK /\ hubResets = 0 /\ hubResets' = 0 /\ ~HubReset
    BY HubStepsLink, HubResetsStays DEF IInv
  <1>1. CASE update_tank_data \/ AppStarts \/ AppStops
    BY <1>1, HearsReport, ObeysApp
  <1>2. CASE RegisterApp \/ AppIgnored
    <2>1. inbox[slot] # << >> /\ Popped /\ UNCHANGED <<vars, tank>>
      BY <1>2 DEF RegisterApp, AppIgnored, ReadFrame
    <2> QED BY <2>1, PoppedLoses, LosesWish
  <1>3. CASE RefuseApp \/ SkipSlot \/ send_data_to_app
    <2>1. UNCHANGED <<vars, tank>> /\ \E S : Freed(S)
      BY <1>3 DEF RefuseApp, SkipSlot, send_data_to_app
    <2> QED BY <2>1, FreedLoses, LosesWish
  <1>4. CASE Operate
    <2>1. OnValve # default_no => Current # Off /\ Current.valve = OnValve
      BY <1>0, CommandFields DEF TypeOK, Current
    <2>2. OnValve # default_no => OnValve \in Valves
      BY <1>0, <2>1 DEF IInv, Protocol, Wired
    <2> QED BY <1>4, <2>2, OperateLooks DEF Water!WaterNext
  <1>5. CASE AcceptDone
    BY <1>5, LosesWish DEF AcceptDone, wishes
  <1>6. CASE LinkStep
    <2>1. UNCHANGED <<level, heard, wishes>>
      BY <1>6 DEF LinkStep, hubVariables, level, heard, wishes, IsConnected
    <2>2. PumpActs
      BY <1>0, <1>6, LinkActs DEF LinkStep
    <2>3. \/ Water!Settle \/ Water!Confirm \/ Water!Trip
          \/ UNCHANGED <<requested, running, believed, tripped>>
      BY <2>2 DEF PumpActs, serviceVars, Service!Settle, Service!Confirm, Service!Trip,
                  Water!Settle, Water!Confirm, Water!Trip
    <2> QED BY <2>1, <2>3 DEF Water!WaterNext, Water!Pump, Water!SomeLost, Water!table,
                              Water!waterVars, Water!vars
  <1>7. CASE HubRestart
    BY <1>0, <1>7 DEF HubRestart
  <1>8. ASSUME NEW p \in Peers, Accept(p) PROVE Water!WaterNext
    BY <1>8, LosesWish DEF Accept, wishes
  <1>9. ASSUME NEW p \in Peers, Send_frame(p) PROVE Water!WaterNext
    <2>1. UNCHANGED <<requested, running, believed, tripped, level, heard>>
      BY <1>9 DEF Send_frame, vars, requested, running, believed, tripped, level, heard,
                  IsConnected
    <2> QED BY <1>9, <2>1, SentWish
            DEF Water!WaterNext, Water!Wish, Water!vars, Water!table
  <1>10. ASSUME NEW s \in Slots, Close(s) \/ Vanish(s) PROVE Water!WaterNext
    <2>1. UNCHANGED <<vars, tank>>
      BY <1>10 DEF Close, Vanish
    <2>2. \A r \in Slots : inbox'[r] = inbox[r] \/ inbox'[r] = << >>
      BY <1>10 DEF Close, Vanish, HubTypeOK
    <2>3. WishesIn(<< >>) = {}
      BY DEF WishesIn
    <2>4. wishes' \subseteq wishes
      BY <2>2, <2>3 DEF wishes
    <2> QED BY <2>1, <2>4, LosesWish
  <1>11. CASE UNCHANGED allVars
    BY <1>11 DEF allVars, vars, hubVariables, Water!waterVars, Water!vars, Water!table,
       requested, running, believed, tripped, level, heard, wishes, IsConnected
  <1> QED BY <1>1, <1>2, <1>3, <1>4, <1>5, <1>6, <1>7, <1>8, <1>9, <1>10, <1>11
          DEF HubNext, LoopStep, ServeClient

(* Until it resets the hub is WaterService to the owner of the tanks: slots, *)
(* connections, passes, retries and late texts cannot be told from outside. *)
THEOREM HubImplementsWaterService == HubSpec => ImplementsWaterService
  <1>1. HubInit => Water!WaterInit
    <2> SUFFICES ASSUME HubInit PROVE Water!WaterInit
      OBVIOUS
    <2>1. WishesIn(<< >>) = {}
      BY DEF WishesIn
    <2>2. wishes = {}
      BY <2>1 DEF HubInit, wishes
    <2>3. level = [t \in Valves |-> 0] /\ heard = {}
      BY DEF HubInit, UnknownTank, level, heard, IsConnected
    <2>4. Water!Init
      BY ServiceInit DEF HubInit, Service!Init, Water!Init
    <2> QED BY <2>2, <2>3, <2>4 DEF Water!WaterInit
  <1>2. HubTypeOK /\ IInv /\ IInv' /\ LastIsCmd /\ [HubNext]_allVars
          => [hubResets' = 0 => [Water!WaterNext]_(Water!waterVars)]_allVars
    BY WaterStep
  <1>3. HubSpec => []LastIsCmd
    BY HubImplementsLink, LastIsCmdAlways, PTL DEF ImplementsLink
  <1> QED BY <1>1, <1>2, <1>3, HubTypeCorrect, HubKeepsLinkInvariant, PTL
          DEF HubSpec, ImplementsWaterService

=============================================================================
