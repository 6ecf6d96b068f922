------------------------- MODULE WebSocketLinkProofs ------------------------
(***************************************************************************)
(* The websocket of a tank node, for any intervals, slots and faults:      *)
(* types, the sketch's flag, the pace of the attempts, and the heartbeats' *)
(* stale counters, which cost one connection and never two.                *)
(***************************************************************************)
EXTENDS WebSocketLink, TLAPS

Asks == {"upgrade", "ping", "pong"}
Says == {"accept", "ping", "pong", "close"}

-----------------------------------------------------------------------------
(* Frames on a line.                                                        *)
Holds(line, frame) == \E i \in 1..Len(line) : line[i] = frame

LEMMA LineTypes ==
    ASSUME NEW S, NEW s \in Seq(S), NEW t \in Seq(S)
    PROVE  /\ s \o t \in Seq(S)
           /\ \A f \in S : Append(s, f) \in Seq(S)
           /\ s # <<>> => Tail(s) \in Seq(S) /\ Head(s) \in S
  OBVIOUS

LEMMA HoldsConcat ==
    ASSUME NEW S, NEW s \in Seq(S), NEW t \in Seq(S), NEW f
    PROVE  Holds(s, f) \/ Holds(t, f) => Holds(s \o t, f)
  <1>1. /\ Len(s) \in Nat /\ Len(t) \in Nat /\ Len(s \o t) = Len(s) + Len(t)
        /\ \A i \in 1..Len(s) : (s \o t)[i] = s[i]
        /\ \A i \in 1..Len(t) : (s \o t)[Len(s) + i] = t[i]
    OBVIOUS
  <1>2. ASSUME NEW i \in 1..Len(s), s[i] = f PROVE Holds(s \o t, f)
    <2>1. i \in 1..Len(s \o t)
      BY <1>1
    <2> QED BY <1>1, <1>2, <2>1 DEF Holds
  <1>3. ASSUME NEW i \in 1..Len(t), t[i] = f PROVE Holds(s \o t, f)
    <2>1. Len(s) + i \in 1..Len(s \o t)
      BY <1>1
    <2> QED BY <1>1, <1>3, <2>1 DEF Holds
  <1> QED BY <1>2, <1>3 DEF Holds

LEMMA HoldsAppend ==
    ASSUME NEW S, NEW s \in Seq(S), NEW f \in S
    PROVE  /\ Holds(Append(s, f), f)
           /\ \A g : Holds(s, g) => Holds(Append(s, f), g)
  <1>1. /\ Len(s) \in Nat /\ Len(Append(s, f)) = Len(s) + 1
        /\ Append(s, f)[Len(s) + 1] = f
        /\ \A i \in 1..Len(s) : Append(s, f)[i] = s[i]
    OBVIOUS
  <1>2. /\ Len(s) + 1 \in 1..Len(Append(s, f))
        /\ \A i \in 1..Len(s) : i \in 1..Len(Append(s, f))
    BY <1>1
  <1> QED BY <1>1, <1>2 DEF Holds

LEMMA HoldsTail ==
    ASSUME NEW S, NEW s \in Seq(S), NEW f, Holds(s, f)
    PROVE  s # <<>> /\ (Head(s) = f \/ Holds(Tail(s), f))
  <1>1. PICK i \in 1..Len(s) : s[i] = f
    BY DEF Holds
  <1>2. s # <<>> /\ Len(s) \in Nat
    BY <1>1
  <1>3. Len(Tail(s)) = Len(s) - 1 /\ \A k \in 1..Len(Tail(s)) : Tail(s)[k] = s[k + 1]
    BY <1>2
  <1>4. CASE i = 1
    BY <1>1, <1>2, <1>4
  <1>5. CASE i # 1
    <2>1. i - 1 \in 1..Len(Tail(s)) /\ Tail(s)[i - 1] = s[i]
      BY <1>1, <1>2, <1>3, <1>5
    <2> QED BY <1>1, <1>2, <2>1 DEF Holds
  <1> QED BY <1>2, <1>4, <1>5

-----------------------------------------------------------------------------
(* Type correctness.                                                        *)

LEMMA AgeTypes ==
    /\ PingInterval \in Nat /\ PongTimeout \in Nat /\ ReconnectInterval \in Nat
    /\ PingOverdue \in Nat /\ PingOverdue > PingInterval /\ AttemptCap \in Nat
    /\ AttemptCap >= ReconnectInterval
    /\ ReconnectInterval > 0 /\ Slots \in Nat /\ MaxFaults \in Nat
    /\ 0 \in 0..PingOverdue /\ PingOverdue \in 0..PingOverdue
    /\ 0 \in 0..ReconnectInterval /\ ReconnectInterval \in 0..ReconnectInterval
    /\ 0 \in 0..AttemptCap /\ AttemptCap \in 0..AttemptCap
  BY IntervalsAssumption DEF IntervalsAssumption, PingOverdue, AttemptCap

LEMMA OlderType ==
    ASSUME NEW cap \in Nat, NEW age \in 0..cap
    PROVE  Older(age, cap) \in 0..cap /\ Older(age, cap) >= age
  BY DEF Older

LEMMA CountType == ASSUME TypeOK PROVE OneMore \in 0..255
  <1>1. pongTimeoutCount \in 0..255
    BY DEF TypeOK
  <1> QED BY <1>1 DEF OneMore

(* The parts of the state that the two loops and the faults touch.          *)
ClientTypes ==
    /\ conn \in {"setup", "none", "failed", "up", "closed"}
    /\ status \in {"none", "header", "connected"}
    /\ connx_status \in BOOLEAN
HeartbeatTypes ==
    /\ pongReceived \in BOOLEAN
    /\ pongTimeoutCount \in 0..255
    /\ pingAge \in 0..PingOverdue
AttemptTypes ==
    /\ failAge \in 0..ReconnectInterval
    /\ attemptAge \in 0..AttemptCap
LinesType == toServer \in Seq(Asks) /\ toClient \in Seq(Says)
HubTypes ==
    /\ server \in {"gone", "backlog", "header", "connected"}
    /\ dead \in 0..Slots
    /\ busy \in BOOLEAN
HistoryTypes ==
    /\ reachable \in BOOLEAN
    /\ calm \in BOOLEAN
    /\ spurious \in Nat
    /\ faults \in 0..MaxFaults

LEMMA TypeParts ==
    TypeOK <=> /\ ClientTypes /\ HeartbeatTypes /\ AttemptTypes
               /\ LinesType /\ HubTypes /\ HistoryTypes
  BY DEF TypeOK, ClientTypes, HeartbeatTypes, AttemptTypes, LinesType, HubTypes,
         HistoryTypes, Asks, Says

LEMMA TypePartsNext ==
    TypeOK' <=> /\ ClientTypes' /\ HeartbeatTypes' /\ AttemptTypes'
                /\ LinesType' /\ HubTypes' /\ HistoryTypes'
  BY TypeParts, PTL

(* A client in a slot has it: clients that are gone do not fill it up.      *)
SlotKept == server \in {"header", "connected"} => dead < Slots

LEMMA OrphanedType == ASSUME TypeOK, SlotKept PROVE Orphaned \in 0..Slots
  <1>1. dead \in 0..Slots /\ Slots \in Nat
    BY AgeTypes DEF TypeOK
  <1>2. server \in {"gone", "backlog", "header", "connected"}
    BY DEF TypeOK
  <1> QED BY <1>1, <1>2 DEF Orphaned, SlotKept

(* The lines.                                                               *)
LEMMA EmptyLines == << >> \in Seq(Asks) /\ << >> \in Seq(Says)
  OBVIOUS

LEMMA SentTypes ==
    ASSUME TypeOK, NEW frames \in Seq(Asks), Send(frames)
    PROVE  toServer' \in Seq(Asks)
  <1>1. toServer \in Seq(Asks)
    BY DEF TypeOK, Asks
  <1>2. toServer \o frames \in Seq(Asks)
    BY <1>1, LineTypes
  <1> QED BY <1>1, <1>2 DEF Send

LEMMA AnswerType == Answer \in Seq(Asks) /\ Append(Answer, "ping") \in Seq(Asks)
  <1>1. Answer \in Seq(Asks)
    <2>1. <<"pong">> \in Seq(Asks)
      BY DEF Asks
    <2> QED BY <2>1, EmptyLines DEF Answer
  <1> QED BY <1>1, LineTypes DEF Asks

LEMMA ReadTypes ==
    ASSUME TypeOK, ReadFrame
    PROVE  toClient' \in Seq(Says)
  <1>1. toClient \in Seq(Says)
    BY DEF TypeOK, Says
  <1>2. toClient' = toClient \/ (toClient # << >> /\ toClient' = Tail(toClient))
    BY DEF ReadFrame
  <1> QED BY <1>1, <1>2, LineTypes

LEMMA LinesStep == ASSUME TypeOK, [Next]_wsVars PROVE LinesType'
  <1>0. toServer \in Seq(Asks) /\ toClient \in Seq(Says)
    BY DEF TypeOK, Asks, Says
  <1>1. CASE Boot \/ ConnectFails \/ HubAccepts \/ Tick \/ PumpCommand \/ PumpAnswered
             \/ WiFiLost \/ WiFiBack \/ SlotFreed \/ UNCHANGED wsVars
    <2>1. UNCHANGED lineVars
      BY <1>1 DEF Boot, ConnectFails, HubAccepts, Tick, PumpCommand, PumpAnswered,
                  WiFiLost, WiFiBack, SlotFreed, wsVars
    <2> QED BY <1>0, <2>1 DEF LinesType, lineVars
  <1>2. CASE NoticeLoss \/ HeaderTimeout \/ ReadClose \/ PingFails \/ HeartbeatDrops \/ HubReset
             \/ TcpGivesUp \/ NodeReset \/ HubRefuses
    <2>1. toServer' = << >> /\ (toClient' = << >> \/ toClient' = toClient)
      BY <1>2 DEF NoticeLoss, HeaderTimeout, ReadClose, PingFails, HeartbeatDrops, HubReset,
                  TcpGivesUp, NodeReset, HubRefuses, clientDisconnect, clientVars
    <2> QED BY <1>0, <2>1, EmptyLines DEF LinesType
  <1>3. CASE Connect
    <2>1. toServer' = <<"upgrade">> /\ toClient' = toClient
      BY <1>3 DEF Connect
    <2>2. <<"upgrade">> \in Seq(Asks)
      BY DEF Asks
    <2> QED BY <1>0, <2>1, <2>2 DEF LinesType
  <1>4. CASE PingPass \/ QuietPass \/ TimeoutPass
    <2>1. ReadFrame /\ (Send(Answer) \/ Send(Append(Answer, "ping")))
      BY <1>4 DEF PingPass, QuietPass, TimeoutPass
    <2> QED BY <2>1, ReadTypes, SentTypes, AnswerType DEF LinesType
  <1>5. CASE HubUpgrades
    <2>1. /\ toServer # << >> /\ toServer' = Tail(toServer)
          /\ toClient' = toClient \o <<"accept", "ping">>
      BY <1>5 DEF HubUpgrades
    <2>2. <<"accept", "ping">> \in Seq(Says)
      BY DEF Says
    <2>3. toClient \o <<"accept", "ping">> \in Seq(Says)
      BY <1>0, <2>2, LineTypes
    <2> QED BY <1>0, <2>1, <2>3, LineTypes DEF LinesType
  <1>6. CASE HubReads
    <2>1. /\ toServer # << >> /\ toServer' = Tail(toServer)
          /\ toClient' = Append(toClient, "pong") \/ toClient' = toClient
      BY <1>6 DEF HubReads
    <2>2. Append(toClient, "pong") \in Seq(Says)
      BY <1>0, LineTypes DEF Says
    <2> QED BY <1>0, <2>1, <2>2, LineTypes DEF LinesType
  <1>7. CASE HubDisconnects
    <2>1. toServer' = << >> /\ (toClient' = Append(toClient, "close") \/ toClient' = toClient)
      BY <1>7 DEF HubDisconnects
    <2>2. Append(toClient, "close") \in Seq(Says)
      BY <1>0, LineTypes DEF Says
    <2> QED BY <1>0, <2>1, <2>2, EmptyLines DEF LinesType
  <1> QED BY <1>1, <1>2, <1>3, <1>4, <1>5, <1>6, <1>7
          DEF Next, ClientLoop, HubLoop, Environment

(* The client.                                                              *)
LEMMA ClientTypesStep == ASSUME TypeOK, [Next]_wsVars PROVE ClientTypes'
  <1>0. ClientTypes
    BY TypeParts
  <1>1. CASE ConnectFails \/ HubLoop \/ Tick \/ Environment \/ Boot \/ Connect
    BY <1>0, <1>1
       DEF ConnectFails, Boot, Connect, HubLoop, HubAccepts, HubRefuses, HubUpgrades, HubReads,
           Tick, Environment, PumpCommand, PumpAnswered, WiFiLost, WiFiBack, HubReset,
           NodeReset, TcpGivesUp, SlotFreed, HubDisconnects, clientVars, ClientTypes
  <1>2. CASE NoticeLoss \/ HeaderTimeout \/ ReadClose \/ PingFails \/ HeartbeatDrops
    <2>1. clientDisconnect
      BY <1>2 DEF NoticeLoss, HeaderTimeout, ReadClose, PingFails, HeartbeatDrops
    <2> QED BY <2>1 DEF clientDisconnect, ClientTypes
  <1>3. CASE PingPass \/ QuietPass \/ TimeoutPass
    <2>1. /\ conn' = conn
          /\ status' = "connected" \/ status' = status
          /\ connx_status' = (connx_status \/ Frame = "accept")
      BY <1>3 DEF PingPass, QuietPass, TimeoutPass, ReadFrame, Beats
    <2> QED BY <1>0, <2>1 DEF ClientTypes
  <1>4. CASE UNCHANGED wsVars
    BY <1>0, <1>4 DEF wsVars, clientVars, ClientTypes
  <1> QED BY <1>1, <1>2, <1>3, <1>4 DEF Next, ClientLoop

LEMMA HeartbeatTypesStep == ASSUME TypeOK, [Next]_wsVars PROVE HeartbeatTypes'
  <1>0. HeartbeatTypes
    BY TypeParts
  <1>1. CASE Boot \/ NoticeLoss \/ Connect \/ ConnectFails \/ HeaderTimeout \/ ReadClose
             \/ HubLoop \/ UNCHANGED wsVars
    <2>1. UNCHANGED heartbeatVars
      BY <1>1 DEF Boot, NoticeLoss, Connect, ConnectFails, HeaderTimeout, ReadClose, HubLoop,
                  HubAccepts, HubRefuses, HubUpgrades, HubReads, wsVars, clientVars
    <2> QED BY <1>0, <2>1 DEF HeartbeatTypes, heartbeatVars
  <1>2. CASE PumpCommand \/ PumpAnswered \/ WiFiLost \/ WiFiBack \/ HubReset \/ TcpGivesUp
             \/ SlotFreed \/ HubDisconnects
    <2>1. UNCHANGED heartbeatVars
      BY <1>2 DEF PumpCommand, PumpAnswered, WiFiLost, WiFiBack, HubReset, TcpGivesUp,
                  SlotFreed, HubDisconnects, clientVars
    <2> QED BY <1>0, <2>1 DEF HeartbeatTypes, heartbeatVars
  <1>3. CASE NodeReset
    <2>1. pongReceived' = FALSE /\ pongTimeoutCount' = 0 /\ pingAge' = 0
      BY <1>3 DEF NodeReset
    <2>2. pongTimeoutCount' \in 0..255 /\ pingAge' \in 0..PingOverdue
      BY <2>1, AgeTypes
    <2> QED BY <2>1, <2>2 DEF HeartbeatTypes
  <1>4. CASE Tick
    <2>1. /\ pingAge' = Older(pingAge, PingOverdue)
          /\ pongReceived' = pongReceived /\ pongTimeoutCount' = pongTimeoutCount
      BY <1>4 DEF Tick
    <2> QED BY <1>0, <2>1, AgeTypes, OlderType DEF HeartbeatTypes
  <1>5. CASE PingPass \/ PingFails \/ QuietPass \/ TimeoutPass \/ HeartbeatDrops
    <2>1. /\ pongReceived' = FALSE \/ pongReceived' = PongAfterRead
             \/ pongReceived' = pongReceived
          /\ pongTimeoutCount' \in {0, OneMore, pongTimeoutCount}
          /\ pingAge' \in {0, PingOverdue, pingAge}
      BY <1>5 DEF PingPass, PingFails, QuietPass, TimeoutPass, HeartbeatDrops, ForcePing
    <2>2. PongAfterRead \in BOOLEAN
      BY <1>0 DEF PongAfterRead, HeartbeatTypes
    <2>3. pongReceived' \in BOOLEAN
      BY <1>0, <2>1, <2>2 DEF HeartbeatTypes
    <2>4. pongTimeoutCount' \in 0..255 /\ pingAge' \in 0..PingOverdue
      BY <1>0, <2>1, AgeTypes, CountType DEF HeartbeatTypes
    <2> QED BY <2>3, <2>4 DEF HeartbeatTypes
  <1> QED BY <1>1, <1>2, <1>3, <1>4, <1>5 DEF Next, ClientLoop, Environment

LEMMA AttemptTypesStep == ASSUME TypeOK, [Next]_wsVars PROVE AttemptTypes'
  <1>0. AttemptTypes
    BY TypeParts
  <1>1. CASE ~Tick
    <2>1. /\ failAge' \in {failAge, 0, ReconnectInterval}
          /\ attemptAge' \in {attemptAge, 0}
      BY <1>1 DEF Next, ClientLoop, HubLoop, Environment,
                  Boot, NoticeLoss, Connect, ConnectFails, HeaderTimeout, ReadClose,
                  PingPass, PingFails,
                  QuietPass, TimeoutPass, HeartbeatDrops, clientDisconnect, ReadFrame,
                  HubAccepts, HubRefuses, HubUpgrades, HubReads, PumpCommand, PumpAnswered,
                  WiFiLost, WiFiBack, HubReset, NodeReset, TcpGivesUp, SlotFreed, HubDisconnects,
                  wsVars, clientVars
    <2> QED BY <1>0, <2>1, AgeTypes DEF AttemptTypes
  <1>2. CASE Tick
    <2>1. /\ failAge' = Older(failAge, ReconnectInterval)
          /\ attemptAge' = Older(attemptAge, AttemptCap)
      BY <1>2 DEF Tick
    <2> QED BY <1>0, <2>1, AgeTypes, OlderType DEF AttemptTypes
  <1> QED BY <1>1, <1>2

LEMMA HubTypesStep ==
    ASSUME TypeOK, SlotKept, [Next]_wsVars
    PROVE  HubTypes' /\ SlotKept'
  <1>0. HubTypes /\ Slots \in Nat /\ Orphaned \in 0..Slots
    BY TypeParts, OrphanedType, AgeTypes
  <1>1. CASE NoticeLoss \/ HeaderTimeout \/ ReadClose \/ PingFails \/ HeartbeatDrops
    <2>1. clientDisconnect /\ busy' = busy
      BY <1>1 DEF NoticeLoss, HeaderTimeout, ReadClose, PingFails, HeartbeatDrops
    <2>2. server' = "gone" /\ dead' \in {dead, Orphaned}
      BY <2>1 DEF clientDisconnect
    <2> QED BY <1>0, <2>1, <2>2 DEF HubTypes, SlotKept
  <1>2. CASE TcpGivesUp \/ NodeReset
    <2>1. server' = "gone" /\ dead' = Orphaned /\ busy' = busy
      BY <1>2 DEF TcpGivesUp, NodeReset
    <2> QED BY <1>0, <2>1 DEF HubTypes, SlotKept
  <1>3. CASE Boot \/ ConnectFails \/ PingPass \/ QuietPass \/ TimeoutPass \/ HubReads
             \/ Tick \/ PumpCommand \/ PumpAnswered \/ WiFiLost \/ WiFiBack \/ UNCHANGED wsVars
    <2>1. server' = server /\ dead' = dead /\ busy' \in {busy, TRUE, FALSE}
      BY <1>3 DEF Boot, ConnectFails, PingPass, QuietPass, TimeoutPass, ReadFrame, HubReads,
                  Tick, PumpCommand, PumpAnswered, WiFiLost, WiFiBack, wsVars, hubVars
    <2> QED BY <1>0, <2>1 DEF HubTypes, SlotKept
  <1>4. CASE Connect
    <2>1. server' = "backlog" /\ dead' = dead /\ busy' = busy
      BY <1>4 DEF Connect
    <2> QED BY <1>0, <2>1 DEF HubTypes, SlotKept
  <1>5. CASE HubAccepts
    <2>1. dead < Slots /\ server' = "header" /\ dead' = dead /\ busy' = busy
      BY <1>5 DEF HubAccepts
    <2> QED BY <1>0, <2>1 DEF HubTypes, SlotKept
  <1>6. CASE HubRefuses \/ HubReset
    <2>1. server' = "gone" /\ dead' \in {dead, 0} /\ (busy' = busy \/ busy' = FALSE)
      BY <1>6 DEF HubRefuses, HubReset
    <2>2. dead' \in 0..Slots
      BY <1>0, <2>1 DEF HubTypes
    <2>3. busy' \in BOOLEAN
      BY <1>0, <2>1 DEF HubTypes
    <2> QED BY <2>1, <2>2, <2>3 DEF HubTypes, SlotKept
  <1>7. CASE HubUpgrades
    <2>1. server = "header" /\ server' = "connected" /\ dead' = dead /\ busy' = busy
      BY <1>7 DEF HubUpgrades
    <2> QED BY <1>0, <2>1 DEF HubTypes, SlotKept
  <1>8. CASE SlotFreed
    <2>1. dead > 0 /\ dead' = dead - 1 /\ server' = server /\ busy' = busy
      BY <1>8 DEF SlotFreed
    <2> QED BY <1>0, <2>1 DEF HubTypes, SlotKept
  <1>9. CASE HubDisconnects
    <2>1. server' = "gone" /\ dead' = dead /\ busy' = busy
      BY <1>9 DEF HubDisconnects
    <2> QED BY <1>0, <2>1 DEF HubTypes, SlotKept
  <1> QED BY <1>1, <1>2, <1>3, <1>4, <1>5, <1>6, <1>7, <1>8, <1>9
          DEF Next, ClientLoop, HubLoop, Environment

LEMMA HistoryTypesStep == ASSUME TypeOK, [Next]_wsVars PROVE HistoryTypes'
  <1>0. HistoryTypes
    BY TypeParts
  <1>1. CASE ClientLoop
    <2>1. /\ reachable' = reachable /\ faults' = faults
          /\ calm' = calm \/ calm' = ~busy
          /\ spurious' \in {spurious, 0, spurious + 1}
      BY <1>1 DEF ClientLoop, Boot, NoticeLoss, Connect, ConnectFails, HeaderTimeout, ReadClose,
                  PingPass,
                  PingFails, QuietPass, TimeoutPass, HeartbeatDrops, historyVars
    <2>2. calm' \in BOOLEAN
      BY <1>0, <2>1, TypeParts DEF HistoryTypes
    <2> QED BY <1>0, <2>1, <2>2 DEF HistoryTypes
  <1>2. CASE HubLoop \/ Tick \/ UNCHANGED wsVars
    BY <1>0, <1>2 DEF HubLoop, HubAccepts, HubRefuses, HubUpgrades, HubReads, Tick, wsVars,
                      historyVars, HistoryTypes
  <1>3. CASE Environment
    <2>1. /\ reachable' = reachable \/ reachable' = TRUE \/ reachable' = FALSE
          /\ calm' = calm \/ calm' = FALSE
          /\ spurious' \in {spurious, 0}
          /\ faults' = faults \/ (faults < MaxFaults /\ faults' = faults + 1)
      BY <1>3 DEF Environment, PumpCommand, PumpAnswered, WiFiLost, WiFiBack, HubReset,
                  NodeReset, TcpGivesUp, SlotFreed, HubDisconnects, Fault, NotCalm, historyVars
    <2>2. reachable' \in BOOLEAN /\ calm' \in BOOLEAN
      BY <1>0, <2>1 DEF HistoryTypes
    <2>3. spurious' \in Nat /\ faults' \in 0..MaxFaults
      BY <1>0, <2>1, AgeTypes DEF HistoryTypes
    <2> QED BY <2>2, <2>3 DEF HistoryTypes
  <1> QED BY <1>1, <1>2, <1>3 DEF Next

LEMMA TypeStep == ASSUME TypeOK, SlotKept, [Next]_wsVars PROVE TypeOK' /\ SlotKept'
  BY TypePartsNext, ClientTypesStep, HeartbeatTypesStep, AttemptTypesStep, LinesStep,
     HubTypesStep, HistoryTypesStep

LEMMA TypeInit == Init => TypeOK /\ SlotKept
  <1> SUFFICES ASSUME Init PROVE TypeOK /\ SlotKept
    OBVIOUS
  <1>1. LinesType
    <2>1. toServer = << >> /\ toClient = << >>
      BY DEF Init
    <2> QED BY <2>1, EmptyLines DEF LinesType
  <1>2. ClientTypes
    BY DEF Init, ClientTypes
  <1>3. /\ pongTimeoutCount \in 0..255 /\ pingAge \in 0..PingOverdue
        /\ dead \in 0..Slots /\ spurious \in Nat /\ faults \in 0..MaxFaults
    BY AgeTypes DEF Init
  <1>4. AttemptTypes
    BY AgeTypes DEF Init, AttemptTypes
  <1>5. HeartbeatTypes /\ HubTypes /\ HistoryTypes
    BY <1>3 DEF Init, HeartbeatTypes, HubTypes, HistoryTypes
  <1> QED BY <1>1, <1>2, <1>4, <1>5, TypeParts DEF Init, SlotKept

(* Every variable has its type; with it, a client in a slot has room.       *)
THEOREM LinkTypeCorrect == Spec => [](TypeOK /\ SlotKept)
  <1>1. (TypeOK /\ SlotKept) /\ [Next]_wsVars => (TypeOK /\ SlotKept)'
    BY TypeStep
  <1> QED BY <1>1, TypeInit, PTL DEF Spec

-----------------------------------------------------------------------------
(* The sketch's flag.  It is what the library's status says; nothing is     *)
(* left of a connection that has ended, so that a new one starts clean.     *)
EndedIsClean == conn \in {"setup", "none", "failed"} => status = "none"

LEMMA StatusStep ==
    ASSUME StatusIsReported, EndedIsClean, [Next]_wsVars
    PROVE  StatusIsReported' /\ EndedIsClean'
  <1>1. CASE Boot \/ ConnectFails \/ HubLoop \/ Tick \/ PumpCommand \/ PumpAnswered
             \/ WiFiLost \/ WiFiBack \/ HubReset \/ TcpGivesUp \/ SlotFreed
             \/ HubDisconnects \/ UNCHANGED wsVars
    <2>1. /\ status' = status /\ connx_status' = connx_status
          /\ conn' = conn \/ conn \in {"setup", "none"} \/ conn' = "closed"
      BY <1>1 DEF Boot, ConnectFails, MayConnect, HubLoop, HubAccepts, HubRefuses,
                  HubUpgrades, HubReads, Tick, PumpCommand, PumpAnswered, WiFiLost, WiFiBack,
                  HubReset, TcpGivesUp, SlotFreed, HubDisconnects, wsVars, clientVars
    <2> QED BY <2>1 DEF StatusIsReported, EndedIsClean
  <1>2. CASE NoticeLoss \/ HeaderTimeout \/ ReadClose \/ PingFails \/ HeartbeatDrops \/ NodeReset
    <2>1. status' = "none" /\ connx_status' = FALSE
      BY <1>2 DEF NoticeLoss, HeaderTimeout, ReadClose, PingFails, HeartbeatDrops, NodeReset,
                  clientDisconnect
    <2> QED BY <2>1 DEF StatusIsReported, EndedIsClean
  <1>3. CASE Connect
    <2>1. conn = "none" /\ conn' = "up" /\ status' = "header" /\ connx_status' = connx_status
      BY <1>3 DEF Connect, MayConnect
    <2> QED BY <2>1 DEF StatusIsReported, EndedIsClean
  <1>4. CASE PingPass \/ QuietPass \/ TimeoutPass
    <2>1. /\ conn = "up" /\ conn' = conn
          /\ status' = "connected" /\ (Frame = "accept" \/ status = "connected")
          /\ connx_status' = (connx_status \/ Frame = "accept")
      BY <1>4 DEF PingPass, QuietPass, TimeoutPass, ReadFrame, Beats, StatusAfterRead
    <2> QED BY <2>1 DEF StatusIsReported, EndedIsClean
  <1> QED BY <1>1, <1>2, <1>3, <1>4 DEF Next, ClientLoop, Environment

LEMMA StatusAlways == Spec => [](StatusIsReported /\ EndedIsClean)
  <1>1. Init => StatusIsReported /\ EndedIsClean
    BY DEF Init, StatusIsReported, EndedIsClean
  <1>2. (StatusIsReported /\ EndedIsClean) /\ [Next]_wsVars
          => (StatusIsReported /\ EndedIsClean)'
    BY StatusStep
  <1> QED BY <1>1, <1>2, PTL DEF Spec

(* The sketch's flag is the library's status.                               *)
THEOREM StatusIsReportedAlways == Spec => []StatusIsReported
  BY StatusAlways, PTL

-----------------------------------------------------------------------------
(* The pace of the attempts: before an attempt, the last one is at least as *)
(* long ago as the failure that is waited out.                              *)
Paced == conn \in {"setup", "none"} => attemptAge >= failAge

LEMMA PacedStep == ASSUME TypeOK, TypeOK', Paced, [Next]_wsVars PROVE Paced'
  <1>0. /\ failAge \in 0..ReconnectInterval /\ attemptAge \in 0..AttemptCap
        /\ failAge' \in 0..ReconnectInterval /\ attemptAge' \in 0..AttemptCap
    BY TypeParts, TypePartsNext DEF AttemptTypes
  <1>1. CASE NoticeLoss \/ HeaderTimeout \/ ReadClose \/ PingFails \/ HeartbeatDrops \/ NodeReset
    <2>1. failAge' = 0
      BY <1>1 DEF NoticeLoss, HeaderTimeout, ReadClose, PingFails, HeartbeatDrops, NodeReset,
                  clientDisconnect
    <2> QED BY <1>0, <2>1, AgeTypes DEF Paced
  <1>6. CASE HubDisconnects
    <2>1. (conn' = conn \/ conn' = "closed") /\ failAge' = failAge /\ attemptAge' = attemptAge
      BY <1>6 DEF HubDisconnects
    <2> QED BY <2>1 DEF Paced
  <1>2. CASE Connect \/ ConnectFails \/ HubRefuses \/ TcpGivesUp
    <2>1. conn' \in {"up", "failed", "closed"}
      BY <1>2 DEF Connect, ConnectFails, HubRefuses, TcpGivesUp
    <2> QED BY <2>1 DEF Paced
  <1>3. CASE Tick
    <2>1. /\ conn' = conn
          /\ failAge' = Older(failAge, ReconnectInterval)
          /\ attemptAge' = Older(attemptAge, AttemptCap)
      BY <1>3 DEF Tick
    <2> QED BY <1>0, <2>1, AgeTypes DEF Paced, Older
  <1>4. CASE Boot
    <2>1. conn = "setup" /\ failAge' = failAge /\ attemptAge' = attemptAge
      BY <1>4 DEF Boot
    <2> QED BY <2>1 DEF Paced
  <1>5. CASE PingPass \/ QuietPass \/ TimeoutPass \/ HubAccepts \/ HubUpgrades \/ HubReads
             \/ PumpCommand \/ PumpAnswered \/ WiFiLost \/ WiFiBack \/ HubReset \/ SlotFreed
             \/ UNCHANGED wsVars
    <2>1. conn' = conn /\ failAge' = failAge /\ attemptAge' = attemptAge
      BY <1>5 DEF PingPass, QuietPass, TimeoutPass, ReadFrame, HubAccepts, HubUpgrades,
                  HubReads, PumpCommand, PumpAnswered, WiFiLost, WiFiBack, HubReset,
                  SlotFreed, wsVars, clientVars
    <2> QED BY <2>1 DEF Paced
  <1> QED BY <1>1, <1>2, <1>3, <1>4, <1>5, <1>6 DEF Next, ClientLoop, HubLoop, Environment

LEMMA PacedAlways == Spec => []Paced
  <1>1. Init => Paced
    BY AgeTypes DEF Init, Paced
  <1>2. TypeOK /\ TypeOK' /\ Paced /\ [Next]_wsVars => Paced'
    BY PacedStep
  <1> QED BY <1>1, <1>2, LinkTypeCorrect, PTL DEF Spec

(* Between two attempts there is the reconnect interval, also across resets *)
(* of the node.                                                             *)
THEOREM DoesNotFloodAlways == Spec => DoesNotFlood
  <1>1. TypeOK /\ Paced /\ [Next]_wsVars
          => [conn = "none" /\ conn' \in {"up", "failed"} => attemptAge >= ReconnectInterval]_wsVars
    <2> SUFFICES ASSUME TypeOK, Paced, Next, conn = "none", conn' \in {"up", "failed"}
                 PROVE  attemptAge >= ReconnectInterval
      OBVIOUS
    <2>1. Connect \/ ConnectFails
      BY DEF Next, ClientLoop, HubLoop, Environment, Boot, NoticeLoss, HeaderTimeout, ReadClose,
                  PingPass,
             PingFails, QuietPass, TimeoutPass, HeartbeatDrops, Beats, HubAccepts, HubRefuses,
             HubUpgrades, HubReads, Tick, PumpCommand, PumpAnswered, WiFiLost, WiFiBack,
             HubReset, NodeReset, TcpGivesUp, SlotFreed, HubDisconnects, clientVars
    <2>2. failAge >= ReconnectInterval /\ attemptAge >= failAge
      BY <2>1 DEF Connect, ConnectFails, MayConnect, Paced
    <2>3. failAge \in 0..ReconnectInterval /\ attemptAge \in 0..AttemptCap
      BY TypeParts DEF AttemptTypes
    <2> QED BY <2>2, <2>3, AgeTypes
  <1> QED BY <1>1, LinkTypeCorrect, PacedAlways, PTL DEF Spec, DoesNotFlood

-----------------------------------------------------------------------------
(* The stale counters.  A drop leaves the ping overdue, and it stays so     *)
(* until the next connection stands; the ping sent then is answered before  *)
(* time passes, and the pong clears the counters.                           *)

Pinged == Holds(toServer, "ping") \/ Holds(toClient, "pong")

(* What calls a connection calm, and where the hub's end is.                *)
Quiet ==
    /\ ~reachable => spurious = 0
    /\ conn = "up" /\ server = "gone" => spurious = 0 /\ ~calm
    /\ conn = "up" /\ calm => reachable /\ ~busy
    /\ conn # "up" => server = "gone" /\ toClient = << >>
    /\ server \in {"backlog", "header"} => status = "header" /\ toClient = << >>

(* What a drop leaves behind.                                               *)
Overdue == spurious = 1 /\ (status # "connected" \/ conn # "up") => pingAge = PingOverdue
Owed    == spurious = 1 /\ calm /\ conn = "up" /\ status = "connected"
              => pingAge = PingOverdue \/ (pingAge = 0 /\ Pinged)

DropInv == spurious \in {0, 1} /\ Quiet /\ Overdue /\ Owed

(* A close frame is the last word of a hub's end that is gone.              *)
ClosedLast == server # "gone" => ~Holds(toClient, "close")

LEMMA CloseIsLast ==
    ASSUME TypeOK, ClosedLast, Frame = "close"
    PROVE  server = "gone"
  <1>1. toClient \in Seq(Says)
    BY TypeParts DEF LinesType
  <1>2. toClient # << >> /\ toClient[1] = "close" /\ 1 \in 1..Len(toClient)
    BY <1>1 DEF Frame
  <1> QED BY <1>2 DEF ClosedLast, Holds

LEMMA ClosedLastStep ==
    ASSUME TypeOK, Quiet, ClosedLast, [Next]_wsVars
    PROVE  ClosedLast'
  <1>0. toClient \in Seq(Says)
    BY TypeParts DEF LinesType
  <1>1. CASE server' = "gone"
    BY <1>1 DEF ClosedLast
  <1>2. CASE server = "gone" /\ server' # "gone"
    <2>1. conn # "up" /\ toClient' = toClient
      BY <1>2 DEF Next, ClientLoop, HubLoop, Environment, Boot, NoticeLoss, Connect, MayConnect,
             ConnectFails, HeaderTimeout, ReadClose, PingPass, PingFails, QuietPass,
             TimeoutPass, HeartbeatDrops, clientDisconnect, ReadFrame, HubAccepts, HubRefuses,
             HubUpgrades, HubReads, Tick, PumpCommand, PumpAnswered, WiFiLost, WiFiBack,
             HubReset, NodeReset, TcpGivesUp, SlotFreed, HubDisconnects, wsVars, hubVars
    <2> QED BY <2>1 DEF Quiet, ClosedLast, Holds
  <1>3. CASE server # "gone" /\ server' # "gone"
    <2>1. \/ toClient' = toClient
          \/ toClient # << >> /\ toClient' = Tail(toClient)
          \/ toClient = << >> /\ toClient' = toClient \o <<"accept", "ping">>
          \/ toClient' = Append(toClient, "pong")
      BY <1>3 DEF Next, ClientLoop, HubLoop, Environment, Boot, NoticeLoss, Connect, MayConnect,
             ConnectFails, HeaderTimeout, ReadClose, PingPass, PingFails, QuietPass,
             TimeoutPass, HeartbeatDrops, clientDisconnect, ReadFrame, HubAccepts, HubRefuses,
             HubUpgrades, HubReads, Tick, PumpCommand, PumpAnswered, WiFiLost, WiFiBack,
             HubReset, NodeReset, TcpGivesUp, SlotFreed, HubDisconnects, wsVars, lineVars,
             Quiet
    <2>2. \A i \in 1..Len(toClient') :
             toClient'[i] # "close" \/ \E k \in 1..Len(toClient) : toClient[k] = "close"
      <3>1. CASE toClient # << >> /\ toClient' = Tail(toClient)
        <4>1. \A i \in 1..Len(toClient') : /\ i + 1 \in 1..Len(toClient)
                                           /\ toClient'[i] = toClient[i + 1]
          BY <1>0, <3>1
        <4> QED BY <4>1
      <3>2. CASE toClient = << >> /\ toClient' = toClient \o <<"accept", "ping">>
        <4>1. toClient' = <<"accept", "ping">>
          BY <3>2
        <4> QED BY <4>1
      <3>3. CASE toClient' = Append(toClient, "pong")
        <4>1. \A i \in 1..Len(toClient') :
                 toClient'[i] = "pong" \/ (i \in 1..Len(toClient) /\ toClient'[i] = toClient[i])
          BY <1>0, <3>3
        <4> QED BY <4>1
      <3>4. CASE toClient' = toClient
        BY <3>4
      <3> QED BY <2>1, <3>1, <3>2, <3>3, <3>4
    <2> QED BY <1>3, <2>2 DEF ClosedLast, Holds
  <1> QED BY <1>1, <1>2, <1>3

(* A pass that looks at the heartbeat has a hub's end that took the header. *)
LEMMA BeatsInSlot ==
    ASSUME Quiet, Beats
    PROVE  conn = "up" /\ server \notin {"backlog", "header"}
  <1>1. toClient = << >> => Frame = "nothing"
    BY DEF Frame
  <1> QED BY <1>1 DEF Quiet, Beats, StatusAfterRead

LEMMA DropStepEnds ==
    ASSUME TypeOK, DropInv, EndedIsClean, ClosedLast,
           NoticeLoss \/ HeaderTimeout \/ ReadClose \/ PingFails \/ HeartbeatDrops
    PROVE  DropInv'
  <1>1. conn' = "none" /\ status' = "none" /\ toClient' = << >> /\ server' = "gone"
    BY DEF NoticeLoss, HeaderTimeout, ReadClose, PingFails, HeartbeatDrops, clientDisconnect
  <1>2. CASE NoticeLoss \/ HeaderTimeout \/ ReadClose \/ PingFails
    <2>1. /\ conn # "up" \/ status # "connected" \/ (conn = "up" /\ server = "gone")
          /\ pingAge' = pingAge /\ spurious' = spurious /\ reachable' = reachable
      BY <1>2, CloseIsLast
         DEF NoticeLoss, HeaderTimeout, ReadClose, HeaderLate, PingFails, Beats, historyVars,
             heartbeatVars
    <2> QED BY <1>1, <2>1 DEF DropInv, Quiet, Overdue, Owed
  <1>3. CASE HeartbeatDrops
    <2>1. /\ Beats /\ ~PingDue /\ PongLate /\ pingAge' = PingOverdue
          /\ spurious' = IF calm THEN spurious + 1 ELSE spurious
          /\ reachable' = reachable
      BY <1>3 DEF HeartbeatDrops, ForcePing
    <2>2. pingAge # PingOverdue /\ pingAge # 0
      <3>1. pingAge \in 0..PingOverdue /\ ~(pingAge > PingInterval) /\ pingAge > PongTimeout
        BY <2>1, TypeParts DEF HeartbeatTypes, PingDue, PongLate
      <3> QED BY <3>1, AgeTypes
    <2>3. conn = "up"
      BY <2>1 DEF Beats
    <2>4. calm => spurious = 0 /\ reachable
      BY <2>2, <2>3 DEF DropInv, Quiet, Overdue, Owed
    <2>5. spurious' \in {0, 1} /\ (~reachable' => spurious' = 0)
      BY <2>1, <2>4 DEF DropInv, Quiet
    <2> QED BY <1>1, <2>1, <2>5 DEF DropInv, Quiet, Overdue, Owed
  <1> QED BY <1>2, <1>3

LEMMA DropStepBeats ==
    ASSUME TypeOK, DropInv, PingPass \/ QuietPass \/ TimeoutPass
    PROVE  DropInv'
  <1>0. /\ Beats /\ ReadFrame /\ conn' = conn /\ status' = "connected" /\ server' = server
        /\ calm' = calm /\ reachable' = reachable /\ busy' = busy
    BY DEF PingPass, QuietPass, TimeoutPass, ReadFrame, Beats, historyVars
  <1>1. conn = "up" /\ server \notin {"backlog", "header"}
    BY <1>0, BeatsInSlot DEF DropInv
  <1>2. spurious' \in {0, spurious}
    BY DEF PingPass, QuietPass, TimeoutPass, historyVars
  <1>3. spurious' \in {0, 1} /\ Quiet'
    BY <1>0, <1>1, <1>2 DEF DropInv, Quiet
  <1>4. Overdue'
    BY <1>0, <1>1 DEF Overdue
  <1>5. ASSUME spurious = 1, calm PROVE server # "gone"
    BY <1>1, <1>5 DEF DropInv, Quiet
  <1>6. toServer \in Seq(Asks) /\ toClient \in Seq(Says)
    BY TypeParts DEF LinesType
  <1>7. CASE PingPass
    <2>1. ASSUME spurious' = 1, calm' PROVE pingAge' = 0 /\ Pinged'
      <3>1. spurious = 1 /\ calm /\ pingAge' = 0 /\ Send(Append(Answer, "ping"))
        BY <1>0, <1>2, <1>7, <2>1 DEF PingPass
      <3>2. toServer' = toServer \o Append(Answer, "ping")
        BY <1>5, <3>1 DEF Send
      <3>3. Answer \in Seq(Asks) /\ Append(Answer, "ping") \in Seq(Asks) /\ "ping" \in Asks
        BY AnswerType DEF Asks
      <3>4. Holds(Append(Answer, "ping"), "ping")
        BY <3>3, HoldsAppend
      <3>5. Holds(toServer', "ping")
        BY <1>6, <3>2, <3>3, <3>4, HoldsConcat
      <3> QED BY <3>1, <3>5 DEF Pinged, Holds
    <2> QED BY <1>3, <1>4, <2>1 DEF DropInv, Owed
  <1>8. CASE QuietPass
    <2>1. ASSUME spurious' = 1, calm' PROVE pingAge' = 0 /\ Pinged'
      <3>1. /\ spurious = 1 /\ calm /\ ~PongAfterRead /\ ~PingDue
            /\ pingAge' = pingAge /\ Send(Answer)
        BY <1>0, <1>8, <2>1 DEF QuietPass
      <3>2. pingAge # PingOverdue
        BY <3>1, AgeTypes DEF PingDue
      <3>3. pingAge = 0 /\ Pinged
        BY <1>1, <3>1, <3>2 DEF DropInv, Overdue, Owed
      <3>4. CASE Holds(toServer, "ping")
        <4>1. toServer' = toServer \o Answer
          BY <1>5, <3>1 DEF Send
        <4>2. Holds(toServer', "ping")
          BY <1>6, <3>4, <4>1, AnswerType, HoldsConcat
        <4> QED BY <3>1, <3>3, <4>2 DEF Pinged, Holds
      <3>5. CASE Holds(toClient, "pong")
        <4>1. toClient # << >> /\ (Head(toClient) = "pong" \/ Holds(Tail(toClient), "pong"))
          BY <1>6, <3>5, HoldsTail
        <4>2. Head(toClient) # "pong"
          BY <3>1, <4>1 DEF PongAfterRead, Frame
        <4>3. toClient' = Tail(toClient)
          BY <1>0, <4>1 DEF ReadFrame
        <4>4. Holds(toClient', "pong")
          BY <4>1, <4>2, <4>3
        <4> QED BY <3>1, <3>3, <4>4 DEF Pinged, Holds
      <3> QED BY <3>3, <3>4, <3>5 DEF Pinged
    <2> QED BY <1>3, <1>4, <2>1 DEF DropInv, Owed
  <1>9. CASE TimeoutPass
    <2>1. pingAge' = PingOverdue
      BY <1>9 DEF TimeoutPass, ForcePing
    <2> QED BY <1>3, <1>4, <2>1 DEF DropInv, Owed
  <1> QED BY <1>7, <1>8, <1>9

LEMMA DropStepOpens ==
    ASSUME TypeOK, DropInv, EndedIsClean, Boot \/ Connect \/ ConnectFails
    PROVE  DropInv'
  <1>1. /\ conn # "up" /\ pingAge' = pingAge /\ spurious' = spurious
        /\ reachable' = reachable /\ busy' = busy /\ toClient' = toClient
    BY DEF Boot, Connect, ConnectFails, MayConnect, heartbeatVars, lineVars, hubVars, historyVars
  <1>2. CASE Boot \/ ConnectFails
    <2>1. conn' # "up" /\ server' = server
      BY <1>2 DEF Boot, ConnectFails, hubVars
    <2> QED BY <1>1, <2>1 DEF DropInv, Quiet, Overdue, Owed
  <1>3. CASE Connect
    <2>1. /\ conn' = "up" /\ status' = "header" /\ server' = "backlog"
          /\ reachable /\ calm' = ~busy
      BY <1>3 DEF Connect
    <2> QED BY <1>1, <2>1 DEF DropInv, Quiet, Overdue, Owed
  <1> QED BY <1>2, <1>3

LEMMA DropStepHub == ASSUME TypeOK, DropInv, HubLoop PROVE DropInv'
  <1>0. /\ status' = status /\ pingAge' = pingAge /\ spurious' = spurious
        /\ calm' = calm /\ reachable' = reachable /\ busy' = busy
    BY DEF HubLoop, HubAccepts, HubRefuses, HubUpgrades, HubReads, clientVars, heartbeatVars,
           hubVars, historyVars
  <1>1. CASE HubAccepts \/ HubRefuses \/ HubUpgrades
    <2>1. /\ server \in {"backlog", "header"}
          /\ \/ server' = "header" /\ conn' = conn /\ toClient' = toClient
             \/ server' = "gone" /\ conn' = "closed" /\ toClient' = toClient
             \/ server' = "connected" /\ conn' = conn
      BY <1>1 DEF HubAccepts, HubRefuses, HubUpgrades, clientVars, lineVars
    <2>2. status = "header" /\ toClient = << >> /\ conn = "up"
      BY <2>1 DEF DropInv, Quiet
    <2> QED BY <1>0, <2>1, <2>2 DEF DropInv, Quiet, Overdue, Owed
  <1>2. CASE HubReads
    <2>1. /\ server = "connected" /\ server' = server /\ conn' = conn
          /\ toServer # << >> /\ toServer' = Tail(toServer)
          /\ toClient' = IF Head(toServer) = "ping" THEN Append(toClient, "pong") ELSE toClient
      BY <1>2 DEF HubReads, clientVars, hubVars
    <2>2. toServer \in Seq(Asks) /\ toClient \in Seq(Says) /\ "pong" \in Says
      BY TypeParts DEF LinesType, Says
    <2>3. Pinged => Holds(toServer', "ping") \/ Holds(toClient', "pong")
      <3>1. Holds(toClient, "pong") => Holds(toClient', "pong")
        BY <2>1, <2>2, HoldsAppend
      <3>2. ASSUME Holds(toServer, "ping")
            PROVE  Holds(toServer', "ping") \/ Holds(toClient', "pong")
        <4>1. Head(toServer) = "ping" \/ Holds(Tail(toServer), "ping")
          BY <2>2, <3>2, HoldsTail
        <4>2. CASE Head(toServer) = "ping"
          <5>1. toClient' = Append(toClient, "pong")
            BY <2>1, <4>2
          <5>2. Holds(Append(toClient, "pong"), "pong")
            BY <2>2, HoldsAppend
          <5> QED BY <5>1, <5>2
        <4>3. CASE Holds(Tail(toServer), "ping")
          BY <2>1, <4>3
        <4> QED BY <4>1, <4>2, <4>3
      <3> QED BY <3>1, <3>2 DEF Pinged
    <2>4. Pinged => Pinged'
      BY <2>3 DEF Pinged, Holds
    <2>5. conn = "up" /\ server' = "connected"
      BY <2>1 DEF DropInv, Quiet
    <2>6. Quiet'
      BY <1>0, <2>1, <2>5 DEF DropInv, Quiet
    <2> QED BY <1>0, <2>1, <2>4, <2>6 DEF DropInv, Overdue, Owed
  <1> QED BY <1>1, <1>2 DEF HubLoop

LEMMA DropStepTick == ASSUME TypeOK, DropInv, Tick PROVE DropInv'
  <1>0. /\ conn' = conn /\ status' = status /\ server' = server /\ toClient' = toClient
        /\ toServer' = toServer /\ spurious' = spurious /\ calm' = calm
        /\ reachable' = reachable /\ busy' = busy
        /\ pingAge' = Older(pingAge, PingOverdue)
    BY DEF Tick, lineVars, hubVars, historyVars
  <1>1. pingAge = PingOverdue => pingAge' = PingOverdue
    BY <1>0, AgeTypes DEF Older
  <1>2. HubRuns => ~Pinged
    <2>1. HubRuns => toClient = << >> /\ toServer = << >>
      BY DEF Tick, Settled
    <2>2. ~Holds(<< >>, "ping") /\ ~Holds(<< >>, "pong")
      BY DEF Holds
    <2> QED BY <2>1, <2>2 DEF Pinged
  <1>3. conn = "up" /\ calm => HubRuns
    BY DEF DropInv, Quiet, HubRuns
  <1> QED BY <1>0, <1>1, <1>2, <1>3 DEF DropInv, Quiet, Overdue, Owed

LEMMA DropStepEnvironment == ASSUME TypeOK, DropInv, Environment PROVE DropInv'
  <1>1. CASE PumpCommand \/ WiFiLost \/ HubReset \/ NodeReset
    <2>1. /\ spurious' = 0 /\ calm' = FALSE
          /\ \/ conn' = conn /\ status' = status /\ server' = server /\ toClient' = toClient
             \/ conn' = conn /\ server' = "gone" /\ toClient' = toClient
             \/ conn' = "setup" /\ server' = "gone" /\ toClient' = << >>
      BY <1>1 DEF PumpCommand, WiFiLost, HubReset, NodeReset, NotCalm, clientVars, lineVars,
                  hubVars
    <2> QED BY <2>1 DEF DropInv, Quiet, Overdue, Owed
  <1>4. CASE HubDisconnects
    <2>1. /\ spurious' = 0 /\ calm' = FALSE /\ server' = "gone" /\ reachable' = reachable
          /\ \/ server = "connected" /\ conn' = conn
             \/ server = "header" /\ conn' = "closed" /\ toClient' = toClient
      BY <1>4 DEF HubDisconnects, NotCalm
    <2>2. CASE server = "connected" /\ conn' = conn
      <3>1. conn = "up"
        BY <2>2 DEF DropInv, Quiet
      <3> QED BY <2>1, <2>2, <3>1 DEF DropInv, Quiet, Overdue, Owed
    <2>3. CASE server = "header" /\ conn' = "closed" /\ toClient' = toClient
      BY <2>1, <2>3 DEF DropInv, Quiet, Overdue, Owed
    <2> QED BY <2>1, <2>2, <2>3
  <1>2. CASE TcpGivesUp
    <2>1. /\ conn = "up" /\ (server = "gone" \/ ~reachable) /\ conn' = "closed"
          /\ toClient' = << >> /\ server' = "gone" /\ spurious' = spurious
      BY <1>2 DEF TcpGivesUp, historyVars
    <2> QED BY <2>1 DEF DropInv, Quiet, Overdue, Owed
  <1>3. CASE PumpAnswered \/ WiFiBack \/ SlotFreed
    <2>1. /\ conn' = conn /\ status' = status /\ server' = server /\ toClient' = toClient
          /\ toServer' = toServer /\ spurious' = spurious /\ calm' = calm
          /\ pingAge' = pingAge
          /\ reachable' = reachable \/ (~reachable /\ reachable' = TRUE)
          /\ busy' = busy \/ (busy /\ busy' = FALSE)
      BY <1>3 DEF PumpAnswered, WiFiBack, SlotFreed, clientVars, heartbeatVars, lineVars,
                  hubVars, historyVars
    <2>2. Pinged' = Pinged
      BY <2>1 DEF Pinged, Holds
    <2> QED BY <2>1, <2>2 DEF DropInv, Quiet, Overdue, Owed
  <1> QED BY <1>1, <1>2, <1>3, <1>4 DEF Environment

LEMMA DropStep ==
    ASSUME TypeOK, EndedIsClean, DropInv, ClosedLast, [Next]_wsVars
    PROVE  DropInv'
  <1>1. CASE UNCHANGED wsVars
    <2>1. /\ conn' = conn /\ status' = status /\ server' = server /\ toClient' = toClient
          /\ toServer' = toServer /\ spurious' = spurious /\ calm' = calm
          /\ pingAge' = pingAge /\ reachable' = reachable /\ busy' = busy
      BY <1>1 DEF wsVars, clientVars, heartbeatVars, lineVars, hubVars, historyVars
    <2>2. Pinged' = Pinged
      BY <2>1 DEF Pinged, Holds
    <2> QED BY <2>1, <2>2 DEF DropInv, Quiet, Overdue, Owed
  <1> QED BY <1>1, DropStepEnds, DropStepBeats, DropStepOpens, DropStepHub, DropStepTick,
             DropStepEnvironment DEF Next, ClientLoop

(* A hub that is there and free loses a client to stale counters once, and  *)
(* not twice in a row.                                                      *)
THEOREM DropsAtMostOnceAlways == Spec => []DropsAtMostOnce
  <1>1. Init => DropInv /\ ClosedLast
    BY DEF Init, DropInv, Quiet, Overdue, Owed, ClosedLast
  <1>2. TypeOK /\ EndedIsClean /\ (DropInv /\ ClosedLast) /\ [Next]_wsVars
          => (DropInv /\ ClosedLast)'
    BY DropStep, ClosedLastStep DEF DropInv
  <1>3. DropInv => DropsAtMostOnce
    BY DEF DropInv, DropsAtMostOnce
  <1> QED BY <1>1, <1>2, <1>3, LinkTypeCorrect, StatusAlways, PTL DEF Spec

=============================================================================
