--------------------------- MODULE LegacyHubProofs --------------------------
(***************************************************************************)
(* The legacy hub, for any tanks, slots, levels and any number of breaks.  *)
(*                                                                         *)
(* A slot holds nothing but frames of the peer that connected to it (Own), *)
(* so a hello read there names that peer, and a number is recorded for the *)
(* owner of its slot only (Routed).  Two records never share a number, so  *)
(* that DISCONNECTED, which stops at the first record it finds, finds all. *)
(***************************************************************************)
EXTENDS LegacyHub, TLAPS

Nums == Slots \cup {default_websock}
Frames == UNION {FramesOf(p) : p \in Peers}

(* The slots in use are those somebody connected to, and what is unread in  *)
(* a slot is its owner's.                                                   *)
Own ==
    \A s \in Slots :
      /\ conn[s] = "free" => inbox[s] = << >>
      /\ \A i \in 1..Len(inbox[s]) : inbox[s][i] \in FramesOf(owner[s])

(* RoutesToItsPeer of the records a, p and t.                               *)
Routed(a, p, t) ==
    /\ a \in Nums /\ p \in Nums /\ t \in [Tanks -> Nums]
    /\ a \in Slots => conn[a] # "free" /\ owner[a] = App
    /\ p \in Slots => conn[p] # "free" /\ owner[p] = Pump
    /\ \A i \in Tanks : t[i] \in Slots => conn[t[i]] # "free" /\ owner[t[i]] = i

RoutesInv == Own /\ Routed(app_num, pump_num, tank_num)

-----------------------------------------------------------------------------
LEMMA SlotFacts ==
    /\ 0 \in Slots /\ Slots \subseteq Int
    /\ default_websock \notin Slots
    /\ \A s \in Slots : s \in 0..9
    /\ Tanks \subseteq Int
  BY LegacyBoundsAssumption, LegacyPeersAssumption DEF Slots, default_websock

(* A hello tells whose it is, and a report names the tank that sent it.     *)
LEMMA FrameFacts ==
    ASSUME NEW p \in Peers \cup {NoPeer}, NEW f \in FramesOf(p)
    PROVE  /\ p \in Peers
           /\ f.kind = "tank" => f.no \in Tanks /\ p = f.no
           /\ f.kind = "pump" => p = Pump
           /\ f.kind = "app" => p = App
           /\ f.kind = "report" => f.no \in Tanks /\ f.value \in Levels
           /\ f.kind = "command" => f.no \in Tanks /\ f.value \in Bits
           /\ f.kind = "status" => f.value \in Bits
  <1>1. CASE p \in Tanks
    BY <1>1, LegacyPeersAssumption DEF FramesOf, TankHello, Report, Peers
  <1>2. CASE p = Pump
    BY <1>2, LegacyPeersAssumption DEF FramesOf, PumpHello, Status, Peers
  <1>3. CASE p = App
    BY <1>3, LegacyPeersAssumption DEF FramesOf, AppHello, Command, Peers
  <1>4. CASE p = NoPeer
    BY <1>4, LegacyPeersAssumption DEF FramesOf
  <1> QED BY <1>1, <1>2, <1>3, <1>4 DEF Peers

LEMMA RoutedMeans ==
    ASSUME TypeOK
    PROVE  Routed(app_num, pump_num, tank_num) <=> RoutesToItsPeer
  BY SlotFacts, LegacyPeersAssumption DEF TypeOK, Routed, RoutesToItsPeer, NumOf, Peers, Nums

(* The frame a handler reads: it is the owner's, and the slot is in use.    *)
LEMMA HeadFacts ==
    ASSUME TypeOK, Own, inbox[slot] # << >>
    PROVE  /\ slot \in Slots /\ conn[slot] # "free" /\ owner[slot] \in Peers
           /\ Head(inbox[slot]) \in FramesOf(owner[slot])
           /\ Head(inbox[slot]) \in Frames
           /\ Tail(inbox[slot]) \in Seq(Frames)
           /\ Tail(inbox[slot]) # inbox[slot]
           /\ \A i \in 1..Len(Tail(inbox[slot])) :
                 Tail(inbox[slot])[i] \in FramesOf(owner[slot])
  <1>1. slot \in Slots /\ inbox[slot] \in Seq(Frames) /\ inbox[slot] # << >>
    BY DEF TypeOK, Frames
  <1>2. /\ Head(inbox[slot]) \in Frames /\ Tail(inbox[slot]) \in Seq(Frames)
        /\ Head(inbox[slot]) = inbox[slot][1] /\ 1 \in 1..Len(inbox[slot])
        /\ Len(Tail(inbox[slot])) = Len(inbox[slot]) - 1
        /\ \A i \in 1..Len(Tail(inbox[slot])) :
              /\ i + 1 \in 1..Len(inbox[slot])
              /\ Tail(inbox[slot])[i] = inbox[slot][i + 1]
    BY <1>1
  <1>3. Tail(inbox[slot]) # inbox[slot]
    <2>1. Len(inbox[slot]) \in Nat /\ Len(inbox[slot]) - 1 # Len(inbox[slot])
      BY <1>1
    <2> QED BY <1>2, <2>1
  <1>4. Head(inbox[slot]) \in FramesOf(owner[slot])
    BY <1>1, <1>2 DEF Own
  <1>5. owner[slot] \in Peers
    BY <1>1, <1>4, FrameFacts DEF TypeOK
  <1>6. \A i \in 1..Len(Tail(inbox[slot])) :
           Tail(inbox[slot])[i] \in FramesOf(owner[slot])
    BY <1>1, <1>2 DEF Own
  <1> QED BY <1>1, <1>2, <1>3, <1>4, <1>5, <1>6 DEF Own

-----------------------------------------------------------------------------
(* Cleanup and callback together.  What is kept of the records is kept      *)
(* entirely, and all that stood on a slot of S is cleared.                  *)
Cleared(S, a, p, t) ==
    /\ app_num' = IF a \in S THEN default_websock ELSE a
    /\ pump_num' = IF p \in S THEN default_websock ELSE p
    /\ tank_num' = [i \in Tanks |-> IF t[i] \in S THEN default_websock ELSE t[i]]

LEMMA ForgottenKeeps ==
    ASSUME NEW STATE S, S \in SUBSET Slots,
           NEW STATE a, NEW STATE p, NEW STATE w, w \in Bits, NEW STATE t,
           Routed(a, p, t), Forgotten(S, a, p, w, t)
    PROVE  Cleared(S, a, p, t) /\ water_status' \in Bits
  <1>1. p \in S => p # a
    BY LegacyPeersAssumption DEF Routed
  <1>2. ASSUME NEW i \in Tanks, t[i] \in S
        PROVE  t[i] \notin {a, p} /\ \A j \in Tanks : j < i => t[j] # t[i]
    <2>1. t[i] \in Slots /\ owner[t[i]] = i
      BY <1>2 DEF Routed
    <2>2. t[i] # a /\ t[i] # p
      BY <2>1, LegacyPeersAssumption DEF Routed
    <2>3. ASSUME NEW j \in Tanks, j < i PROVE t[j] # t[i]
      <3>1. i # j
        BY <2>3, SlotFacts
      <3> QED BY <2>1, <3>1 DEF Routed
    <2> QED BY <2>2, <2>3
  <1>3. 0 \in Bits
    BY DEF Bits
  <1>4. ASSUME NEW i \in Tanks
        PROVE  (t[i] \in S \ {a, p} /\ \A j \in Tanks : j < i => t[j] # t[i])
                  <=> t[i] \in S
    BY <1>2
  <1> QED BY <1>1, <1>3, <1>4 DEF Forgotten, Cleared

LEMMA CleanupKeeps ==
    ASSUME TypeOK, NEW STATE S, S \in SUBSET Slots,
           NEW STATE box, box \in [Slots -> Seq(Frames)],
           NEW STATE a, NEW STATE p, NEW STATE w, w \in Bits, NEW STATE t,
           Routed(a, p, t), Freed(S, box), Forgotten(S, a, p, w, t),
           \A s \in Slots :
             /\ conn[s] = "free" => box[s] = << >>
             /\ \A i \in 1..Len(box[s]) : box[s][i] \in FramesOf(owner[s])
    PROVE  /\ RoutesInv'
           /\ conn' \in [Slots -> {"free", "open", "lost", "dead"}]
           /\ owner' \in [Slots -> Peers \cup {NoPeer}]
           /\ inbox' \in [Slots -> Seq(Frames)]
           /\ water_status' \in Bits
  <1>1. Cleared(S, a, p, t) /\ water_status' \in Bits
    BY ForgottenKeeps
  <1>2. \A s \in Slots :
          /\ conn'[s] = IF s \in S THEN "free" ELSE conn[s]
          /\ owner'[s] = IF s \in S THEN NoPeer ELSE owner[s]
          /\ inbox'[s] = IF s \in S THEN << >> ELSE box[s]
    BY DEF Freed
  <1>3. /\ conn' \in [Slots -> {"free", "open", "lost", "dead"}]
        /\ owner' \in [Slots -> Peers \cup {NoPeer}]
        /\ inbox' \in [Slots -> Seq(Frames)]
    BY DEF Freed, TypeOK
  <1>4. Own'
    BY <1>2 DEF Own
  <1>5. /\ app_num' \in Nums /\ pump_num' \in Nums /\ tank_num' \in [Tanks -> Nums]
    BY <1>1 DEF Cleared, Routed, Nums
  <1>6. Routed(app_num, pump_num, tank_num)'
    BY <1>1, <1>2, <1>5, SlotFacts DEF Cleared, Routed
  <1> QED BY <1>1, <1>3, <1>4, <1>6 DEF RoutesInv

(* The end of every branch of TEXT.                                         *)
LEMMA AnswerKeeps ==
    ASSUME TypeOK, RoutesInv, inbox[slot] # << >>,
           NEW STATE To, NEW STATE a, NEW STATE p, NEW STATE w, w \in Bits, NEW STATE t,
           Routed(a, p, t), Answer(To, a, p, w, t)
    PROVE  /\ RoutesInv'
           /\ conn' \in [Slots -> {"free", "open", "lost", "dead"}]
           /\ owner' \in [Slots -> Peers \cup {NoPeer}]
           /\ inbox' \in [Slots -> Seq(Frames)]
           /\ water_status' \in Bits
  <1> DEFINE left == [inbox EXCEPT ![slot] = Tail(@)]
             S == {s \in Slots \cap (To \cup {slot}) : Over(s, left)}
  <1>1. Freed(S, left) /\ Forgotten(S, a, p, w, t)
    BY DEF Answer
  <1>2. left \in [Slots -> Seq(Frames)]
    BY HeadFacts DEF RoutesInv, TypeOK, Frames
  <1>3. \A s \in Slots :
          /\ conn[s] = "free" => left[s] = << >>
          /\ \A i \in 1..Len(left[s]) : left[s][i] \in FramesOf(owner[s])
    <2>1. \A s \in Slots : left[s] = IF s = slot THEN Tail(inbox[slot]) ELSE inbox[s]
      BY DEF TypeOK
    <2> QED BY <2>1, HeadFacts DEF RoutesInv, Own
  <1>4. S \in SUBSET Slots
    OBVIOUS
  <1> HIDE DEF left, S
  <1> QED BY <1>1, <1>2, <1>3, <1>4, CleanupKeeps

LEMMA NextSlotType ==
    ASSUME TypeOK, NextSlot PROVE slot' \in Slots /\ phase' \in {"accept", "clients"}
  BY SlotFacts DEF TypeOK, NextSlot

-----------------------------------------------------------------------------
(* One operation of the hub at a time.                                      *)
IInv == TypeOK /\ RoutesInv

LEMMA InitHolds == Init => IInv
  <1> SUFFICES ASSUME Init PROVE IInv
    OBVIOUS
  <1>1. << >> \in Seq(Frames) /\ Len(<< >>) = 0 /\ 0 \in 0..MaxBreaks
    BY LegacyBoundsAssumption
  <1>2. TypeOK
    BY <1>1, SlotFacts DEF Init, TypeOK, Bits, NoText, Frames
  <1>3. RoutesInv
    BY <1>1, SlotFacts DEF Init, RoutesInv, Own, Routed, Nums
  <1> QED BY <1>2, <1>3 DEF IInv

LEMMA ResetKeeps == ASSUME IInv, HubReset PROVE IInv'
  <1>1. << >> \in Seq(Frames) /\ Len(<< >>) = 0
    OBVIOUS
  <1>2. breaks' \in 0..MaxBreaks
    BY LegacyBoundsAssumption DEF IInv, TypeOK, HubReset
  <1>3. TypeOK'
    BY <1>1, <1>2, SlotFacts DEF HubReset, TypeOK, Bits, NoText, Frames
  <1>4. RoutesInv'
    BY <1>1, SlotFacts DEF HubReset, RoutesInv, Own, Routed, Nums
  <1> QED BY <1>3, <1>4 DEF IInv

(* newClient: the slot given away was lost with nothing unread, or free, so *)
(* its old owner is nobody's business any more.                             *)
LEMMA AcceptKeeps == ASSUME IInv, NEW q \in Peers, Accept(q) PROVE IInv'
  <1>1. PICK s \in Slots :
          /\ ~Connected(s)
          /\ conn'  = [conn  EXCEPT ![s] = "open"]
          /\ owner' = [owner EXCEPT ![s] = q]
          /\ Forgotten({s} \cap {r \in Slots : conn[r] = "lost"},
                       app_num, pump_num, water_status, tank_num)
    BY DEF Accept
  <1> DEFINE S == {s} \cap {r \in Slots : conn[r] = "lost"}
  <1>2. Routed(app_num, pump_num, tank_num) /\ Own /\ water_status \in Bits
    BY DEF IInv, RoutesInv, TypeOK
  <1>3. Cleared(S, app_num, pump_num, tank_num) /\ water_status' \in Bits
    <2>1. S \in SUBSET Slots /\ Forgotten(S, app_num, pump_num, water_status, tank_num)
      BY <1>1
    <2> HIDE DEF S
    <2> QED BY <1>2, <2>1, ForgottenKeeps
  <1>4. inbox[s] = << >> /\ conn[s] \in {"free", "lost"}
    BY <1>1, <1>2 DEF Connected, Over, Own
  <1>5. \A r \in Slots : /\ conn'[r]  = IF r = s THEN "open" ELSE conn[r]
                         /\ owner'[r] = IF r = s THEN q ELSE owner[r]
                         /\ inbox'[r] = inbox[r]
    BY <1>1 DEF IInv, TypeOK, Accept
  <1>6. Own'
    <2>1. Len(inbox[s]) = 0
      BY <1>4
    <2>2. \A i \in 1..Len(inbox[s]) : FALSE
      BY <2>1
    <2> QED BY <1>2, <1>5, <2>2 DEF Own
  <1>7. Routed(app_num, pump_num, tank_num)'
    <2>1. app_num' \in Nums /\ pump_num' \in Nums /\ tank_num' \in [Tanks -> Nums]
      BY <1>2, <1>3 DEF Cleared, Routed, Nums
    <2>2. app_num' \in Slots => app_num' = app_num /\ app_num # s
      BY <1>2, <1>3, <1>4, SlotFacts DEF Cleared, Routed
    <2>3. pump_num' \in Slots => pump_num' = pump_num /\ pump_num # s
      BY <1>2, <1>3, <1>4, SlotFacts DEF Cleared, Routed
    <2>4. \A i \in Tanks : tank_num'[i] \in Slots =>
                             tank_num'[i] = tank_num[i] /\ tank_num[i] # s
      BY <1>2, <1>3, <1>4, SlotFacts DEF Cleared, Routed
    <2> QED BY <1>2, <1>5, <2>1, <2>2, <2>3, <2>4 DEF Routed
  <1>8. TypeOK'
    <2>1. app_num' \in Nums /\ pump_num' \in Nums /\ tank_num' \in [Tanks -> Nums]
      BY <1>7 DEF Routed
    <2>2. /\ conn' \in [Slots -> {"free", "open", "lost", "dead"}]
          /\ owner' \in [Slots -> Peers \cup {NoPeer}]
      BY <1>1 DEF IInv, TypeOK
    <2> QED BY <1>3, <2>1, <2>2 DEF Accept, IInv, TypeOK, Nums, NoText, Bits
  <1> QED BY <1>6, <1>7, <1>8 DEF IInv, RoutesInv

(* What is left of the type invariant when a handler has been through       *)
(* Answer or a look at a slot.                                              *)
LEMMA TypeAgain ==
    ASSUME IInv, RoutesInv', NextSlot,
           conn' \in [Slots -> {"free", "open", "lost", "dead"}],
           owner' \in [Slots -> Peers \cup {NoPeer}],
           inbox' \in [Slots -> Seq(Frames)],
           water_status' \in Bits,
           level' \in [Tanks -> Levels \cup {0}],
           sent' \in [safety : BOOLEAN, bit : Bits, valve : Tanks \cup {0}],
           breaks' = breaks
    PROVE  IInv'
  <1>1. slot' \in Slots /\ phase' \in {"accept", "clients"}
    BY NextSlotType DEF IInv
  <1> QED BY <1>1 DEF IInv, TypeOK, RoutesInv, Routed, Nums, Frames

LEMMA NoTextType == NoText \in [safety : BOOLEAN, bit : Bits, valve : Tanks \cup {0}]
  BY DEF NoText, Bits

LEMMA OperateType ==
    ASSUME NEW STATE x, x \in BOOLEAN, NEW STATE b, b \in Bits, NEW STATE v, v \in Tanks,
           please_operate_the_pump(Text(x, b, v))
    PROVE  sent' \in [safety : BOOLEAN, bit : Bits, valve : Tanks \cup {0}]
  BY NoTextType DEF please_operate_the_pump, Text

LEMMA SkipKeeps == ASSUME IInv, SkipSlot PROVE IInv'
  <1> DEFINE S == {s \in {slot} : Over(s, inbox)}
  <1>1. /\ Freed(S, inbox)
        /\ Forgotten(S, app_num, pump_num, water_status, tank_num)
    BY DEF SkipSlot
  <1>2. S \in SUBSET Slots /\ inbox \in [Slots -> Seq(Frames)] /\ water_status \in Bits
    BY DEF IInv, TypeOK, Frames
  <1>3. TypeOK /\ Routed(app_num, pump_num, tank_num)
        /\ \A s \in Slots :
             /\ conn[s] = "free" => inbox[s] = << >>
             /\ \A i \in 1..Len(inbox[s]) : inbox[s][i] \in FramesOf(owner[s])
    BY DEF IInv, RoutesInv, Own
  <1> HIDE DEF S
  <1>4. /\ RoutesInv'
        /\ conn' \in [Slots -> {"free", "open", "lost", "dead"}]
        /\ owner' \in [Slots -> Peers \cup {NoPeer}]
        /\ inbox' \in [Slots -> Seq(Frames)]
        /\ water_status' \in Bits
    BY <1>1, <1>2, <1>3, CleanupKeeps
  <1>5. NextSlot /\ sent' = NoText /\ level' = level /\ breaks' = breaks
    BY DEF SkipSlot
  <1> QED BY <1>4, <1>5, TypeAgain, NoTextType DEF IInv, TypeOK

LEMMA HelloKeeps ==
    ASSUME IInv, TankConnects \/ PumpConnects \/ AppConnects PROVE IInv'
  <1> DEFINE f == Head(inbox[slot])
  <1>1. /\ inbox[slot] # << >> /\ NextSlot
        /\ sent' = NoText /\ level' = level /\ breaks' = breaks
    BY DEF TankConnects, PumpConnects, AppConnects, ReadFrame
  <1>2. /\ TypeOK /\ RoutesInv /\ Own /\ water_status \in Bits
        /\ Routed(app_num, pump_num, tank_num)
    BY DEF IInv, RoutesInv, TypeOK
  <1>3. /\ slot \in Slots /\ conn[slot] # "free"
        /\ f \in FramesOf(owner[slot]) /\ owner[slot] \in Peers
    BY <1>1, <1>2, HeadFacts
  <1>4. /\ f.kind = "tank" => f.no \in Tanks /\ owner[slot] = f.no
        /\ f.kind = "pump" => owner[slot] = Pump
        /\ f.kind = "app" => owner[slot] = App
    BY <1>3, FrameFacts
  <1> HIDE DEF f
  <1>5. /\ RoutesInv'
        /\ conn' \in [Slots -> {"free", "open", "lost", "dead"}]
        /\ owner' \in [Slots -> Peers \cup {NoPeer}]
        /\ inbox' \in [Slots -> Seq(Frames)]
        /\ water_status' \in Bits
    <2>1. CASE TankConnects
      <3>1. /\ f.kind = "tank"
            /\ Answer({}, app_num, pump_num, water_status,
                      [tank_num EXCEPT ![f.no] = slot])
        BY <2>1 DEF TankConnects, ReadFrame, f
      <3>2. Routed(app_num, pump_num, [tank_num EXCEPT ![f.no] = slot])
        BY <1>2, <1>3, <1>4, <3>1 DEF Routed, Nums
      <3> QED BY <1>1, <1>2, <3>1, <3>2, AnswerKeeps
    <2>2. CASE PumpConnects
      <3>1. f.kind = "pump" /\ Answer({}, app_num, slot, water_status, tank_num)
        BY <2>2 DEF PumpConnects, ReadFrame, f
      <3>2. Routed(app_num, slot, tank_num)
        BY <1>2, <1>3, <1>4, <3>1 DEF Routed, Nums
      <3> QED BY <1>1, <1>2, <3>1, <3>2, AnswerKeeps
    <2>3. CASE AppConnects
      <3>1. f.kind = "app" /\ Answer({}, slot, pump_num, water_status, tank_num)
        BY <2>3 DEF AppConnects, ReadFrame, f
      <3>2. Routed(slot, pump_num, tank_num)
        BY <1>2, <1>3, <1>4, <3>1 DEF Routed, Nums
      <3> QED BY <1>1, <1>2, <3>1, <3>2, AnswerKeeps
    <2> QED BY <2>1, <2>2, <2>3
  <1> QED BY <1>1, <1>5, TypeAgain, NoTextType DEF IInv, TypeOK

LEMMA DataKeeps ==
    ASSUME IInv, TankReports \/ AppCommands \/ PumpReports PROVE IInv'
  <1> DEFINE f == Head(inbox[slot])
  <1>1. inbox[slot] # << >> /\ NextSlot /\ breaks' = breaks
    BY DEF TankReports, AppCommands, PumpReports, ReadFrame
  <1>2. /\ TypeOK /\ RoutesInv /\ Own /\ water_status \in Bits
        /\ Routed(app_num, pump_num, tank_num)
        /\ level \in [Tanks -> Levels \cup {0}]
    BY DEF IInv, RoutesInv, TypeOK
  <1>3. f \in FramesOf(owner[slot]) /\ owner[slot] \in Peers
    BY <1>1, <1>2, HeadFacts
  <1>4. /\ f.kind = "report" => f.no \in Tanks /\ f.value \in Levels
        /\ f.kind = "command" => f.no \in Tanks /\ f.value \in Bits
        /\ f.kind = "status" => f.value \in Bits
    BY <1>3, FrameFacts
  <1>5. 0 \in Bits
    BY DEF Bits
  <1> HIDE DEF f
  <1>6. /\ RoutesInv'
        /\ conn' \in [Slots -> {"free", "open", "lost", "dead"}]
        /\ owner' \in [Slots -> Peers \cup {NoPeer}]
        /\ inbox' \in [Slots -> Seq(Frames)]
        /\ water_status' \in Bits
    <2>1. CASE TankReports
      <3>1. Answer(send_data_to_app \cup {pump_num},
                   app_num, pump_num, water_status, tank_num)
        BY <2>1 DEF TankReports
      <3> QED BY <1>1, <1>2, <3>1, AnswerKeeps
    <2>2. CASE AppCommands
      <3>1. Answer({pump_num}, app_num, pump_num, water_status, tank_num)
        BY <2>2 DEF AppCommands
      <3> QED BY <1>1, <1>2, <3>1, AnswerKeeps
    <2>3. CASE PumpReports
      <3>1. f.value \in Bits /\ Answer(send_data_to_app, app_num, pump_num, f.value, tank_num)
        BY <1>4, <2>3 DEF PumpReports, ReadFrame, f
      <3> QED BY <1>1, <1>2, <3>1, AnswerKeeps
    <2> QED BY <2>1, <2>2, <2>3
  <1>7. /\ level' \in [Tanks -> Levels \cup {0}]
        /\ sent' \in [safety : BOOLEAN, bit : Bits, valve : Tanks \cup {0}]
    <2>1. CASE TankReports
      <3>1. /\ f.no \in Tanks /\ f.value \in Levels
            /\ level' = [level EXCEPT ![f.no] = f.value]
            /\ please_operate_the_pump(Text(TRUE, 0, f.no)) \/ sent' = NoText
        BY <1>4, <2>1 DEF TankReports, ReadFrame, f
      <3> QED BY <1>2, <1>5, <3>1, OperateType, NoTextType
    <2>2. CASE AppCommands
      <3>1. /\ f.no \in Tanks /\ f.value \in Bits /\ level' = level
            /\ please_operate_the_pump(Text(FALSE, f.value, f.no))
        BY <1>4, <2>2 DEF AppCommands, ReadFrame, f
      <3> QED BY <1>2, <3>1, OperateType
    <2>3. CASE PumpReports
      BY <1>2, <2>3, NoTextType DEF PumpReports
    <2> QED BY <2>1, <2>2, <2>3
  <1> QED BY <1>1, <1>6, <1>7, TypeAgain

LEMMA OutsideKeeps ==
    ASSUME IInv, NEW s \in Slots, SendFrame(s) \/ Close(s) \/ Vanish(s)
    PROVE  IInv'
  <1>1. CASE SendFrame(s)
    <2>1. PICK f \in FramesOf(owner[s]) : inbox' = [inbox EXCEPT ![s] = Append(@, f)]
      BY <1>1 DEF SendFrame
    <2>2. owner[s] \in Peers
      BY <2>1, FrameFacts DEF IInv, TypeOK
    <2>3. f \in Frames /\ inbox[s] \in Seq(Frames)
      BY <2>1, <2>2 DEF IInv, TypeOK, Frames
    <2>4. Append(inbox[s], f) \in Seq(Frames)
          /\ \A i \in 1..Len(Append(inbox[s], f)) :
               \/ Append(inbox[s], f)[i] = f
               \/ i \in 1..Len(inbox[s]) /\ Append(inbox[s], f)[i] = inbox[s][i]
      BY <2>3
    <2>5. \A r \in Slots : inbox'[r] = IF r = s THEN Append(inbox[s], f) ELSE inbox[r]
      BY <2>1 DEF IInv, TypeOK
    <2>6. Own'
      BY <1>1, <2>1, <2>4, <2>5 DEF SendFrame, IInv, RoutesInv, Own
    <2>7. TypeOK'
      <3>1. inbox' \in [Slots -> Seq(Frames)]
        BY <2>1, <2>4 DEF IInv, TypeOK, Frames
      <3> QED BY <1>1, <3>1, NoTextType DEF SendFrame, IInv, TypeOK, Frames, records
    <2>8. Routed(app_num, pump_num, tank_num)'
      BY <1>1 DEF SendFrame, IInv, RoutesInv, Routed, records
    <2> QED BY <2>6, <2>7, <2>8 DEF IInv, RoutesInv
  <1>2. CASE Close(s) \/ Vanish(s)
    <2>1. PICK c \in {"lost", "dead"}, box \in {<< >>, inbox[s]} :
            /\ conn[s] = "open" /\ conn' = [conn EXCEPT ![s] = c]
            /\ inbox' = [inbox EXCEPT ![s] = box]
            /\ breaks < MaxBreaks /\ breaks' = breaks + 1
            /\ sent' = NoText
            /\ UNCHANGED <<phase, slot, owner, records>>
      <3>1. [inbox EXCEPT ![s] = inbox[s]] = inbox
        BY DEF IInv, TypeOK
      <3> QED BY <1>2, <3>1 DEF Close, Vanish
    <2>2. \A r \in Slots : /\ conn'[r] = IF r = s THEN c ELSE conn[r]
                           /\ inbox'[r] = IF r = s THEN box ELSE inbox[r]
      BY <2>1 DEF IInv, TypeOK
    <2>3. Own'
      <3>1. \A i \in 1..Len(box) : box[i] \in FramesOf(owner[s])
        <4>1. CASE box = << >>
          BY <4>1
        <4>2. CASE box = inbox[s]
          BY <4>2 DEF IInv, RoutesInv, Own
        <4> QED BY <4>1, <4>2
      <3> QED BY <2>1, <2>2, <3>1 DEF IInv, RoutesInv, Own
    <2>4. Routed(app_num, pump_num, tank_num)'
      BY <2>1, <2>2 DEF IInv, RoutesInv, Routed, records, Nums
    <2>5. TypeOK'
      <3>1. conn' \in [Slots -> {"free", "open", "lost", "dead"}]
        BY <2>1 DEF IInv, TypeOK
      <3>2. inbox' \in [Slots -> Seq(Frames)]
        <4>1. inbox \in [Slots -> Seq(Frames)] /\ << >> \in Seq(Frames)
          BY DEF IInv, TypeOK, Frames
        <4>2. box \in Seq(Frames)
          BY <4>1
        <4> QED BY <2>1, <4>1, <4>2
      <3>3. breaks' \in 0..MaxBreaks
        BY <2>1, LegacyBoundsAssumption DEF IInv, TypeOK
      <3> QED BY <2>1, <3>1, <3>2, <3>3, NoTextType DEF IInv, TypeOK, Frames, records
    <2> QED BY <2>3, <2>4, <2>5 DEF IInv, RoutesInv
  <1> QED BY <1>1, <1>2

LEMMA StepKeeps == ASSUME IInv, [Next]_vars PROVE IInv'
  <1>1. CASE AcceptDone
    BY <1>1, SlotFacts, NoTextType
       DEF AcceptDone, records, IInv, TypeOK, RoutesInv, Own, Routed
  <1>2. CASE ServeClient
    BY <1>2, SkipKeeps, HelloKeeps, DataKeeps DEF ServeClient
  <1>3. CASE HubReset
    BY <1>3, ResetKeeps
  <1>4. ASSUME NEW q \in Peers, Accept(q) PROVE IInv'
    BY <1>4, AcceptKeeps
  <1>5. ASSUME NEW s \in Slots, SendFrame(s) \/ Close(s) \/ Vanish(s) PROVE IInv'
    BY <1>5, OutsideKeeps
  <1>6. CASE UNCHANGED vars
    BY <1>6 DEF vars, server, records, IInv, TypeOK, RoutesInv, Own, Routed
  <1> QED BY <1>1, <1>2, <1>3, <1>4, <1>5, <1>6 DEF Next, LoopStep

(* Type correctness.                                                        *)
THEOREM LegacyTypeCorrect == Spec => []TypeOK
  <1>1. IInv => TypeOK
    BY DEF IInv
  <1> QED BY <1>1, InitHolds, StepKeeps, PTL DEF Spec

(* No record names a slot that is free or another client's.                 *)
THEOREM RoutesToItsPeerAlways == Spec => []RoutesToItsPeer
  <1>1. IInv => RoutesToItsPeer
    BY RoutedMeans DEF IInv, RoutesInv
  <1> QED BY <1>1, InitHolds, StepKeeps, PTL DEF Spec

-----------------------------------------------------------------------------
(* A record that stands on an open slot survives every cleanup: the slots   *)
(* cleaned up are lost.  So it changes by a hello of its own peer only.     *)
Lost == {r \in Slots : conn[r] = "lost"}

(* The number of q among the records a, p and t.                            *)
NumIn(q, a, p, t) == IF q = Pump THEN p ELSE IF q = App THEN a ELSE t[q]

LEMMA ClearedNum ==
    ASSUME NEW STATE S, NEW STATE a, NEW STATE p, NEW STATE t, Cleared(S, a, p, t),
           NEW q \in Peers, NumIn(q, a, p, t) \notin S
    PROVE  NumOf(q)' = NumIn(q, a, p, t)
  BY DEF Cleared, NumIn, NumOf, Peers

LEMMA AnswerClears ==
    ASSUME IInv, inbox[slot] # << >>,
           NEW STATE To, NEW STATE a, NEW STATE p, NEW STATE w, w \in Bits, NEW STATE t,
           Routed(a, p, t), Answer(To, a, p, w, t),
           NEW q \in Peers, NumIn(q, a, p, t) \notin Lost
    PROVE  NumOf(q)' = NumIn(q, a, p, t)
  <1> DEFINE left == [inbox EXCEPT ![slot] = Tail(@)]
             S == {s \in Slots \cap (To \cup {slot}) : Over(s, left)}
  <1>1. Forgotten(S, a, p, w, t) /\ S \in SUBSET Slots /\ S \subseteq Lost
    BY DEF Answer, Over, Lost
  <1> HIDE DEF left, S
  <1>2. Cleared(S, a, p, t)
    BY <1>1, ForgottenKeeps
  <1>3. NumIn(q, a, p, t) \notin S
    BY <1>1
  <1> QED BY <1>2, <1>3, ClearedNum

LEMMA KnownStep ==
    ASSUME IInv, [Next]_vars, NEW q \in Peers, NEW s \in Slots,
           NumOf(q) = s, conn[s] = "open", NumOf(q)' # s
    PROVE  \/ \A r \in Slots : conn'[r] = "free"
           \/ owner[slot] = q /\ slot # s /\ inbox'[slot] # inbox[slot]
  <1>1. /\ s \notin Lost /\ NumIn(q, app_num, pump_num, tank_num) = s
        /\ Routed(app_num, pump_num, tank_num)
        /\ water_status \in Bits /\ TypeOK /\ RoutesInv /\ Own
    BY DEF Lost, NumIn, NumOf, IInv, RoutesInv, TypeOK
  <1>2. CASE HubReset
    BY <1>2 DEF HubReset
  <1>3. ASSUME NEW c \in Peers, Accept(c) PROVE FALSE
    <2>1. PICK r \in Slots :
            Forgotten({r} \cap {u \in Slots : conn[u] = "lost"},
                      app_num, pump_num, water_status, tank_num)
      BY <1>3 DEF Accept
    <2> DEFINE S == {r} \cap {u \in Slots : conn[u] = "lost"}
    <2>2. S \in SUBSET Slots /\ S \subseteq Lost
      BY DEF Lost
    <2>3. Forgotten(S, app_num, pump_num, water_status, tank_num)
      BY <2>1
    <2> HIDE DEF S
    <2>4. Cleared(S, app_num, pump_num, tank_num)
      BY <1>1, <2>2, <2>3, ForgottenKeeps
    <2> QED BY <1>1, <2>2, <2>4, ClearedNum
  <1>4. ~SkipSlot
    <2> SUFFICES ASSUME SkipSlot PROVE FALSE
      OBVIOUS
    <2> DEFINE S == {r \in {slot} : Over(r, inbox)}
    <2>1. S \in SUBSET Slots /\ S \subseteq Lost
      BY <1>1 DEF Lost, Over, TypeOK
    <2>2. Forgotten(S, app_num, pump_num, water_status, tank_num)
      BY DEF SkipSlot
    <2> HIDE DEF S
    <2>3. Cleared(S, app_num, pump_num, tank_num)
      BY <1>1, <2>1, <2>2, ForgottenKeeps
    <2> QED BY <1>1, <2>1, <2>3, ClearedNum
  <1>5. ~(TankReports \/ AppCommands \/ PumpReports)
    <2>1. ~TankReports
      <3> SUFFICES ASSUME TankReports PROVE FALSE
        OBVIOUS
      <3>1. /\ inbox[slot] # << >>
            /\ Answer(send_data_to_app \cup {pump_num},
                   app_num, pump_num, water_status, tank_num)
        BY DEF TankReports, ReadFrame
      <3> QED BY <1>1, <3>1, AnswerClears
    <2>2. ~AppCommands
      <3> SUFFICES ASSUME AppCommands PROVE FALSE
        OBVIOUS
      <3>1. /\ inbox[slot] # << >>
            /\ Answer({pump_num}, app_num, pump_num, water_status, tank_num)
        BY DEF AppCommands, ReadFrame
      <3> QED BY <1>1, <3>1, AnswerClears
    <2>3. ~PumpReports
      <3> SUFFICES ASSUME PumpReports PROVE FALSE
        OBVIOUS
      <3>1. /\ inbox[slot] # << >> /\ Head(inbox[slot]).kind = "status"
            /\ Answer(send_data_to_app, app_num, pump_num, Head(inbox[slot]).value, tank_num)
        BY DEF PumpReports, ReadFrame
      <3>2. Head(inbox[slot]).value \in Bits
        BY <1>1, <3>1, HeadFacts, FrameFacts
      <3> QED BY <1>1, <3>1, <3>2, AnswerClears
    <2> QED BY <2>1, <2>2, <2>3
  <1>6. CASE TankConnects \/ PumpConnects \/ AppConnects
    <2> DEFINE f == Head(inbox[slot])
    <2>1. /\ inbox[slot] # << >> /\ slot \in Slots /\ conn[slot] # "free"
          /\ f \in FramesOf(owner[slot]) /\ owner[slot] \in Peers
      BY <1>1, <1>6, HeadFacts DEF TankConnects, PumpConnects, AppConnects, ReadFrame
    <2>2. /\ f.kind = "tank" => f.no \in Tanks /\ owner[slot] = f.no
          /\ f.kind = "pump" => owner[slot] = Pump
          /\ f.kind = "app" => owner[slot] = App
      BY <2>1, FrameFacts
    <2> HIDE DEF f
    <2>3. PICK a \in Nums, p \in Nums, t \in [Tanks -> Nums] :
            /\ Answer({}, a, p, water_status, t) /\ Routed(a, p, t)
            /\ \A c \in Peers : NumIn(c, a, p, t) =
                   IF c = owner[slot] THEN slot ELSE NumIn(c, app_num, pump_num, tank_num)
      <3>1. CASE TankConnects
        <4> DEFINE t == [tank_num EXCEPT ![f.no] = slot]
        <4>1. f.kind = "tank" /\ Answer({}, app_num, pump_num, water_status, t)
          BY <3>1 DEF TankConnects, ReadFrame, f
        <4>2. Routed(app_num, pump_num, t) /\ t \in [Tanks -> Nums]
          BY <1>1, <2>1, <2>2, <4>1 DEF Routed, Nums
        <4>3. \A c \in Peers : NumIn(c, app_num, pump_num, t) =
                   IF c = owner[slot] THEN slot ELSE NumIn(c, app_num, pump_num, tank_num)
          BY <1>1, <2>2, <4>1, LegacyPeersAssumption DEF Routed, NumIn, Peers
        <4>4. app_num \in Nums /\ pump_num \in Nums
          BY <1>1 DEF Routed
        <4> HIDE DEF t
        <4> QED BY <4>1, <4>2, <4>3, <4>4
      <3>2. CASE PumpConnects
        <4>1. f.kind = "pump" /\ Answer({}, app_num, slot, water_status, tank_num)
          BY <3>2 DEF PumpConnects, ReadFrame, f
        <4>2. Routed(app_num, slot, tank_num)
          BY <1>1, <2>1, <2>2, <4>1 DEF Routed, Nums
        <4>3. \A c \in Peers : NumIn(c, app_num, slot, tank_num) =
                   IF c = owner[slot] THEN slot ELSE NumIn(c, app_num, pump_num, tank_num)
          BY <2>2, <4>1 DEF NumIn
        <4>4. app_num \in Nums /\ slot \in Nums /\ tank_num \in [Tanks -> Nums]
          BY <1>1, <2>1 DEF Routed, Nums
        <4> QED BY <4>1, <4>2, <4>3, <4>4
      <3>3. CASE AppConnects
        <4>1. f.kind = "app" /\ Answer({}, slot, pump_num, water_status, tank_num)
          BY <3>3 DEF AppConnects, ReadFrame, f
        <4>2. Routed(slot, pump_num, tank_num)
          BY <1>1, <2>1, <2>2, <4>1 DEF Routed, Nums
        <4>3. \A c \in Peers : NumIn(c, slot, pump_num, tank_num) =
                   IF c = owner[slot] THEN slot ELSE NumIn(c, app_num, pump_num, tank_num)
          BY <2>2, <4>1, LegacyPeersAssumption DEF NumIn
        <4>4. slot \in Nums /\ pump_num \in Nums /\ tank_num \in [Tanks -> Nums]
          BY <1>1, <2>1 DEF Routed, Nums
        <4> QED BY <4>1, <4>2, <4>3, <4>4
      <3> QED BY <1>6, <3>1, <3>2, <3>3
    <2>4. owner[slot] = q
      BY <1>1, <2>1, <2>3, AnswerClears
    <2>5. slot # s
      BY <1>1, <2>1, <2>3, <2>4, AnswerClears
    <2>6. inbox'[slot] # inbox[slot]
      <3> DEFINE S == {r \in Slots \cap ({} \cup {slot}) :
                         Over(r, [inbox EXCEPT ![slot] = Tail(@)])}
      <3>1. Freed(S, [inbox EXCEPT ![slot] = Tail(@)])
        BY <2>3 DEF Answer
      <3>2. inbox'[slot] \in {<< >>, Tail(inbox[slot])}
        BY <1>1, <2>1, <3>1 DEF Freed, TypeOK
      <3> QED BY <1>1, <2>1, <3>2, HeadFacts
    <2> QED BY <2>4, <2>5, <2>6
  <1>7. ~(AcceptDone \/ UNCHANGED vars)
    BY DEF AcceptDone, vars, records, NumOf
  <1>8. ASSUME NEW r \in Slots, SendFrame(r) \/ Close(r) \/ Vanish(r) PROVE FALSE
    BY <1>8 DEF SendFrame, Close, Vanish, records, NumOf
  <1> QED BY <1>2, <1>3, <1>4, <1>5, <1>6, <1>7, <1>8 DEF Next, LoopStep, ServeClient

(* A connected peer is forgotten by a hello of its own only, read late, or  *)
(* by a reset of the hub.                                                   *)
THEOREM KnownWhileConnectedAlways == Spec => KnownWhileConnected
  <1>1. IInv /\ [Next]_vars =>
          [ \A q \in Peers, s \in Slots :
              NumOf(q) = s /\ conn[s] = "open" /\ NumOf(q)' # s =>
                  \/ \A r \in Slots : conn'[r] = "free"
                  \/ owner[slot] = q /\ slot # s /\ inbox'[slot] # inbox[slot] ]_vars
    BY KnownStep
  <1> QED BY <1>1, InitHolds, StepKeeps, PTL DEF Spec, KnownWhileConnected

=============================================================================
