-------------------------- MODULE CheckInOutProofs --------------------------
(***************************************************************************)
(* Check in/out, for any cards and members and any number of late          *)
(* requests, outages and resets: types, the number of answers under way,   *)
(* and, until the reader resets, that the right answer is shown and that   *)
(* CardService is implemented.                                             *)
(***************************************************************************)
EXTENDS CheckInOutRefinement, TLAPS

-----------------------------------------------------------------------------
(* The server's words.                                                      *)

LEMMA VerdictIsFlag ==
    ASSUME NEW table, NEW r \in Requests
    PROVE  /\ Verdict(table, r) \in Flags
           /\ Verdict(table, r) = 10 => r.nfc \in Members
           /\ Verdict(table, r) \in {7, 8} => r.nfc \in Members
  <1>1. r.command \in Commands
    BY DEF Requests
  <1>2. CASE r.nfc \notin Members
    BY <1>2 DEF Verdict, Flags
  <1>3. CASE r.nfc \in Members
    BY <1>1, <1>3 DEF Verdict, Flags, Commands, open_door, check_in, check_out
  <1> QED BY <1>2, <1>3

LEMMA AnswerTypes ==
    /\ \A n \in Flags : FromServer(n) \in Answers
    /\ FromServer(3) \in Answers /\ ErrorPage \in Answers
    /\ SomethingWentWrong \in Texts /\ SomethingWentWrong \notin Answers
    /\ Answers \subseteq Texts
  BY DEF Answers, Texts, Flags, FromServer, ErrorPage, SomethingWentWrong

LEMMA EnteredType ==
    ASSUME NEW table \in [Members -> {"none", "in", "out"}], NEW r \in Requests
    PROVE  Entered(table, r) \in [Members -> {"none", "in", "out"}]
  <1>1. CASE Verdict(table, r) = 7
    BY <1>1, VerdictIsFlag DEF Entered
  <1>2. CASE Verdict(table, r) = 8
    BY <1>2, VerdictIsFlag DEF Entered
  <1>3. CASE Verdict(table, r) \notin {7, 8}
    BY <1>3 DEF Entered
  <1> QED BY <1>1, <1>2, <1>3

(* The texts the reader tells apart are different.                          *)
LEMMA TextsDiffer ==
    /\ \A n \in Nat : FromServer(n) # SomethingWentWrong
    /\ \A n \in Nat, k \in Nat : FromServer(n) = FromServer(k) => n = k
    /\ \A n \in Nat : FromServer(n).flag = n
  BY DEF FromServer, SomethingWentWrong

LEMMA DisplayedTexts ==
    /\ "" \in Displays /\ "Press button" \in Displays /\ "Please wait..." \in Displays
    /\ "Place your card:" \in Displays /\ "Offline" \in Displays
    /\ "Anonymous" \in Displays /\ "Door Open" \in Displays
  BY DEF Displays

LEMMA UploadedTexts == \A i \in 1..5 : Uploaded[i] \in Displays /\ Uploaded[i] # "Door Open"
  <1>1. \A i \in 1..5 : Uploaded[i] \in Displays
    BY DEF Displays
  <1>2. /\ Uploaded[1] # "Door Open" /\ Uploaded[2] # "Door Open" /\ Uploaded[3] # "Door Open"
        /\ Uploaded[4] # "Door Open" /\ Uploaded[5] # "Door Open"
    BY DEF Uploaded
  <1>3. \A i \in 1..5 : i = 1 \/ i = 2 \/ i = 3 \/ i = 4 \/ i = 5
    OBVIOUS
  <1> QED BY <1>1, <1>2, <1>3

LEMMA DisplayType ==
    ASSUME NEW command, NEW text
    PROVE  /\ Display(command, text) \in Displays
           /\ Display(command, text) = "Door Open" => text = FromServer(10)
           /\ Display(command, SomethingWentWrong) = "Offline"
  <1>a. \A t : t \in {FromServer(n) : n \in 4..8} => t # SomethingWentWrong
                /\ t # FromServer(9) /\ t # FromServer(10)
    BY TextsDiffer
  <1>0. Display(command, SomethingWentWrong) = "Offline"
    BY <1>a, TextsDiffer DEF Display
  <1>1. CASE text \in {FromServer(n) : n \in 4..8} /\ command # open_door
    <2>1. PICK n \in 4..8 : text = FromServer(n)
      BY <1>1
    <2>2. Display(command, text) = Uploaded[text.flag - 3]
      BY <1>1, <1>a DEF Display
    <2>3. Display(command, text) = Uploaded[n - 3] /\ n - 3 \in 1..5
      BY <2>1, <2>2, TextsDiffer
    <2> QED BY <1>0, <2>3, UploadedTexts
  <1>2. CASE ~(text \in {FromServer(n) : n \in 4..8} /\ command # open_door)
    <2>1. CASE text = SomethingWentWrong
      BY <1>0, <2>1, DisplayedTexts
    <2>2. CASE text = FromServer(9)
      BY <1>0, <1>2, <2>2, TextsDiffer, DisplayedTexts DEF Display
    <2>3. CASE text = FromServer(10) /\ command = open_door
      BY <1>0, <1>2, <2>3, TextsDiffer, DisplayedTexts DEF Display
    <2>4. CASE /\ text # SomethingWentWrong /\ text # FromServer(9)
               /\ ~(text = FromServer(10) /\ command = open_door)
      BY <1>0, <1>2, <2>4, DisplayedTexts DEF Display
    <2> QED BY <2>1, <2>2, <2>3, <2>4
  <1> QED BY <1>1, <1>2

-----------------------------------------------------------------------------
(* Type correctness.                                                        *)

LEMMA RequestTypes ==
    /\ NoRequest \in Requests
    /\ \A command \in Commands : [command |-> command, nfc |-> Nobody] \in Requests
    /\ \A r \in Requests, card \in Cards : [r EXCEPT !.nfc = card] \in Requests
    /\ \A r \in Requests : [command |-> r.command, nfc |-> Nobody] \in Requests
  BY DEF NoRequest, Requests, Commands, open_door

LEMMA AbandonedType == ASSUME TypeOK, Abandoned PROVE late' \in [Requests -> 0..MaxLate]
  <1>1. CASE UNCHANGED late
    BY <1>1 DEF TypeOK
  <1>2. CASE late[get] < MaxLate /\ late' = [late EXCEPT ![get] = @ + 1]
    <2>1. get \in Requests /\ late[get] + 1 \in 0..MaxLate
      BY <1>2, CheckBoundsAssumption DEF TypeOK, CheckBoundsAssumption
    <2> QED BY <1>2, <2>1 DEF TypeOK
  <1> QED BY <1>1, <1>2 DEF Abandoned

LEMMA ReaderTypes == ASSUME TypeOK, Reader PROVE TypeOK'
  <1>1. ASSUME NEW command \in Commands, PressButton(command) PROVE TypeOK'
    <2>1. lcd' \in Displays
      BY <1>1, DisplayedTexts DEF PressButton
    <2>2. asked' \in Requests
      BY <1>1, RequestTypes DEF PressButton
    <2>3. toReader' = <<>>
      BY <1>1 DEF PressButton
    <2>4. toReader' \in Seq(Texts)
      BY <2>3
    <2> QED BY <1>1, <2>1, <2>2, <2>4
            DEF PressButton, TypeOK, bridgeVars, serverVars, netVars, resetVars
  <1>2. CASE NoCard
    BY <1>2, RequestTypes, DisplayedTexts
       DEF NoCard, TypeOK, lineVars, bridgeVars, serverVars, netVars, resetVars
  <1>3. ASSUME NEW card \in Cards, PlaceCard(card) PROVE TypeOK'
    <2>1. asked' \in Requests
      BY <1>3, RequestTypes DEF PlaceCard, TypeOK
    <2>4. toBridge' = Append(toBridge, asked')
      BY <1>3 DEF PlaceCard
    <2>5. toBridge \in Seq(Requests)
      BY DEF TypeOK
    <2>2. toBridge' \in Seq(Requests)
      BY <2>1, <2>4, <2>5
    <2>3. lcd' \in Displays
      BY <1>3, DisplayedTexts DEF PlaceCard
    <2> QED BY <1>3, <2>1, <2>2, <2>3
            DEF PlaceCard, TypeOK, bridgeVars, serverVars, netVars, resetVars
  <1>4. CASE ShowAnswer
    <2>1. lcd' \in Displays
      BY <1>4, DisplayType DEF ShowAnswer
    <2>2. toReader' \in Seq(Texts)
      BY <1>4 DEF ShowAnswer
    <2> QED BY <1>4, <2>1, <2>2
            DEF ShowAnswer, TypeOK, bridgeVars, serverVars, netVars, resetVars
  <1>5. CASE BackToButtons
    BY <1>5, RequestTypes, DisplayedTexts
       DEF BackToButtons, TypeOK, lineVars, bridgeVars, serverVars, netVars, resetVars
  <1> QED BY <1>1, <1>2, <1>3, <1>4, <1>5 DEF Reader

LEMMA BridgeTypes == ASSUME TypeOK, Bridge PROVE TypeOK'
  <1>1. CASE Forward
    <2>1. ReadCommands \in Requests
      <3>1. Head(toBridge) \in Requests
        BY <1>1 DEF Forward, TypeOK
      <3> QED BY <3>1, RequestTypes DEF ReadCommands
    <2>2. mute' = mute \/ mute' = FALSE
      BY <1>1 DEF Forward
    <2>3. mute' \in BOOLEAN
      BY <2>2, Zenon DEF TypeOK
    <2> QED BY <1>1, <2>1, <2>3
            DEF Forward, TypeOK, readerVars, serverVars, netVars, resetVars
  <1>2. CASE GetReturns
    <2>1. mute' = mute \/ mute' = TRUE
      BY <1>2 DEF GetReturns
    <2>2. mute' \in BOOLEAN
      BY <2>1, Zenon DEF TypeOK
    <2>3. toReader' \in Seq(Texts)
      <3>1. {payload, ErrorPage} \subseteq Texts /\ toReader \in Seq(Texts)
        BY AnswerTypes DEF TypeOK
      <3> QED BY <1>2, <3>1 DEF GetReturns
    <2> QED BY <1>2, <2>2, <2>3, AnswerTypes, RequestTypes
            DEF GetReturns, GetEnds, TypeOK, readerVars, serverVars, netVars, resetVars
  <1>3. CASE GetFails
    BY <1>3, AnswerTypes, RequestTypes, AbandonedType
       DEF GetFails, GetEnds, TypeOK, readerVars, netVars, resetVars
  <1>4. CASE BridgeStarts
    BY <1>4 DEF BridgeStarts, TypeOK, readerVars, lineVars, serverVars, netVars, resetVars
  <1> QED BY <1>1, <1>2, <1>3, <1>4 DEF Bridge

LEMMA EnvironmentTypes == ASSUME TypeOK, Environment PROVE TypeOK'
  <1>1. CASE ServerAnswers
    <2>1. payload' \in Answers
      BY <1>1, VerdictIsFlag, AnswerTypes DEF ServerAnswers, TypeOK
    <2>2. attendance' \in [Members -> {"none", "in", "out"}]
      BY <1>1, EnteredType DEF ServerAnswers, TypeOK
    <2> QED BY <1>1, <2>1, <2>2
            DEF ServerAnswers, TypeOK, readerVars, lineVars, netVars, resetVars
  <1>2. ASSUME NEW r \in Requests, ServerHandlesLate(r) PROVE TypeOK'
    <2>1. late' \in [Requests -> 0..MaxLate]
      BY <1>2, CheckBoundsAssumption DEF ServerHandlesLate, TypeOK, CheckBoundsAssumption
    <2>2. attendance' \in [Members -> {"none", "in", "out"}]
      BY <1>2, EnteredType DEF ServerHandlesLate, TypeOK
    <2> QED BY <1>2, <2>1, <2>2
            DEF ServerHandlesLate, TypeOK, readerVars, lineVars, bridgeVars, netVars, resetVars
  <1>3. CASE WiFiLost \/ WiFiBack
    <2>1. outages' \in 0..MaxOutages
      BY <1>3, CheckBoundsAssumption
         DEF WiFiLost, WiFiBack, TypeOK, CheckBoundsAssumption
    <2> QED BY <1>3, <2>1
       DEF WiFiLost, WiFiBack, TypeOK,
                readerVars, lineVars, bridgeVars, serverVars, resetVars
  <1>4. CASE ReaderReset
    <2>1. lcd' \in Displays
      BY <1>4, DisplayedTexts DEF ReaderReset
    <2>2. asked' \in Requests
      BY <1>4, RequestTypes DEF ReaderReset
    <2>3. toReader' = <<>>
      BY <1>4 DEF ReaderReset
    <2>4. toReader' \in Seq(Texts)
      BY <2>3
    <2>5. /\ readerResets' = readerResets + 1 /\ bridgeResets' = bridgeResets
          /\ readerResets + bridgeResets < MaxResets
      BY <1>4 DEF ReaderReset, MayReset
    <2>6. readerResets \in Nat /\ bridgeResets \in Nat /\ MaxResets \in Nat
      BY CheckBoundsAssumption DEF TypeOK, CheckBoundsAssumption
    <2>7. /\ readerResets' \in Nat /\ bridgeResets' \in Nat
          /\ readerResets' + bridgeResets' <= MaxResets
      BY <2>5, <2>6
    <2> QED BY <1>4, <2>1, <2>2, <2>4, <2>7
            DEF ReaderReset, TypeOK, bridgeVars, serverVars, netVars
  <1>5. CASE BridgeReset
    <2>1. late' \in [Requests -> 0..MaxLate]
      BY <1>5, AbandonedType DEF BridgeReset
    <2>2. get' \in Requests /\ payload' \in Answers
      BY <1>5, RequestTypes, AnswerTypes DEF BridgeReset, GetEnds
    <2>3. toBridge' = <<>> /\ bridge' = "boot"
      BY <1>5 DEF BridgeReset
    <2>4. toBridge' \in Seq(Requests)
      BY <2>3
    <2>5. /\ bridgeResets' = bridgeResets + 1 /\ readerResets' = readerResets
          /\ readerResets + bridgeResets < MaxResets
      BY <1>5 DEF BridgeReset, MayReset
    <2>6. readerResets \in Nat /\ bridgeResets \in Nat /\ MaxResets \in Nat
      BY CheckBoundsAssumption DEF TypeOK, CheckBoundsAssumption
    <2>7. /\ readerResets' \in Nat /\ bridgeResets' \in Nat
          /\ readerResets' + bridgeResets' <= MaxResets
      BY <2>5, <2>6
    <2> QED BY <1>5, <2>1, <2>2, <2>3, <2>4, <2>7
            DEF BridgeReset, TypeOK, readerVars, netVars
  <1> QED BY <1>1, <1>2, <1>3, <1>4, <1>5 DEF Environment

(* Every variable has its type, for any cards, bounds and faults.           *)
THEOREM CheckTypeCorrect == Spec => []TypeOK
  <1>1. Init => TypeOK
    <2> SUFFICES ASSUME Init PROVE TypeOK
      OBVIOUS
    <2>1. lcd \in Displays
      BY DisplayedTexts DEF Init
    <2>2. asked \in Requests /\ get \in Requests /\ payload \in Answers
      BY RequestTypes, AnswerTypes DEF Init
    <2>3. toBridge = <<>> /\ toReader = <<>>
      BY DEF Init
    <2>4. toBridge \in Seq(Requests) /\ toReader \in Seq(Texts)
      BY <2>3
    <2>5. /\ MaxLate \in Nat /\ MaxOutages \in Nat /\ MaxResets \in Nat
          /\ 0 \in 0..MaxLate /\ 0 \in 0..MaxOutages
      BY CheckBoundsAssumption DEF CheckBoundsAssumption
    <2>6. late = [r \in Requests |-> 0] /\ attendance = [m \in Members |-> "none"]
      BY DEF Init, NobodyCame
    <2>7. late \in [Requests -> 0..MaxLate]
      BY <2>5, <2>6
    <2>8. attendance \in [Members -> {"none", "in", "out"}]
      BY <2>6
    <2>9. outages \in 0..MaxOutages /\ readerResets \in Nat /\ bridgeResets \in Nat
          /\ readerResets + bridgeResets <= MaxResets
      <3>1. outages = 0 /\ readerResets = 0 /\ bridgeResets = 0
        BY DEF Init
      <3> QED BY <2>5, <3>1
    <2>10. /\ reader \in {"idle", "countdown", "waiting", "showing"}
           /\ bridge \in {"boot", "idle", "sent", "answered"}
           /\ online \in BOOLEAN /\ mute \in BOOLEAN
      BY DEF Init
    <2> QED BY <2>1, <2>2, <2>4, <2>7, <2>8, <2>9, <2>10 DEF TypeOK
  <1>2. TypeOK /\ UNCHANGED checkVars => TypeOK'
    BY DEF TypeOK, checkVars, readerVars, lineVars, bridgeVars, serverVars, netVars, resetVars
  <1>3. TypeOK /\ [Next]_checkVars => TypeOK'
    BY <1>2, ReaderTypes, BridgeTypes, EnvironmentTypes DEF Next
  <1> QED BY <1>1, <1>3, PTL DEF Spec

-----------------------------------------------------------------------------
(* One answer for each request.                                             *)

Busy  == IF bridge \in {"sent", "answered"} THEN 1 ELSE 0
Waits == IF reader = "waiting" THEN 1 ELSE 0

LEMMA Lengths ==
    ASSUME TypeOK
    PROVE  /\ Len(toBridge) \in Nat /\ Len(toReader) \in Nat
           /\ toBridge # <<>> => Len(toBridge) > 0
           /\ toReader # <<>> => Len(toReader) > 0
           /\ \A r : Len(Append(toBridge, r)) = Len(toBridge) + 1
           /\ \A t : Len(Append(toReader, t)) = Len(toReader) + 1
           /\ Len(<<>>) = 0
           /\ readerResets \in Nat /\ Busy \in {0, 1} /\ Waits \in {0, 1}
  <1>1. toBridge \in Seq(Requests) /\ toReader \in Seq(Texts) /\ readerResets \in Nat
    BY DEF TypeOK
  <1>2. Busy \in {0, 1} /\ Waits \in {0, 1}
    BY DEF Busy, Waits
  <1>3. /\ Len(toBridge) \in Nat /\ (toBridge # <<>> => Len(toBridge) > 0)
        /\ \A r : Len(Append(toBridge, r)) = Len(toBridge) + 1
    BY <1>1
  <1>4. /\ Len(toReader) \in Nat /\ (toReader # <<>> => Len(toReader) > 0)
        /\ \A t : Len(Append(toReader, t)) = Len(toReader) + 1
        /\ Len(<<>>) = 0
    BY <1>1
  <1> QED BY <1>1, <1>2, <1>3, <1>4

(* What one step does to the texts under way and to the requests made.      *)
LEMMA ReaderCounts ==
    ASSUME TypeOK, Reader
    PROVE  /\ Len(toBridge') + Len(toReader') + Waits
                <= Len(toBridge) + Len(toReader) + Waits'
           /\ Busy' = Busy /\ readerResets' = readerResets
  <1>1. ASSUME NEW command \in Commands, PressButton(command)
        PROVE  /\ toBridge' = toBridge /\ toReader' = <<>> /\ Waits' = 0 /\ Waits = 0
               /\ Busy' = Busy /\ readerResets' = readerResets
    BY <1>1 DEF PressButton, Waits, Busy, bridgeVars, resetVars
  <1>2. ASSUME NoCard \/ BackToButtons
        PROVE  /\ toBridge' = toBridge /\ toReader' = toReader /\ Waits' = 0 /\ Waits = 0
               /\ Busy' = Busy /\ readerResets' = readerResets
    BY <1>2 DEF NoCard, BackToButtons, Waits, Busy, lineVars, bridgeVars, resetVars
  <1>3. ASSUME NEW card \in Cards, PlaceCard(card)
        PROVE  /\ toBridge' = Append(toBridge, asked') /\ toReader' = toReader
               /\ Waits' = 1 /\ Waits = 0
               /\ Busy' = Busy /\ readerResets' = readerResets
    BY <1>3 DEF PlaceCard, Waits, Busy, bridgeVars, resetVars
  <1>4. ASSUME ShowAnswer
        PROVE  /\ toBridge' = toBridge /\ toReader # <<>> /\ toReader' = <<>>
               /\ Waits' = 0 /\ Waits = 1
               /\ Busy' = Busy /\ readerResets' = readerResets
    BY <1>4 DEF ShowAnswer, Waits, Busy, bridgeVars, resetVars
  <1>5. CASE \E command \in Commands : PressButton(command)
    BY <1>1, <1>5, Lengths
  <1>6. CASE NoCard \/ BackToButtons
    BY <1>2, <1>6, Lengths
  <1>7. CASE \E card \in Cards : PlaceCard(card)
    BY <1>3, <1>7, Lengths
  <1>8. CASE ShowAnswer
    BY <1>4, <1>8, Lengths
  <1> QED BY <1>5, <1>6, <1>7, <1>8 DEF Reader

LEMMA BridgeCounts ==
    ASSUME TypeOK, Bridge
    PROVE  /\ Len(toBridge') + Len(toReader') + Busy'
                <= Len(toBridge) + Len(toReader) + Busy
           /\ Waits' = Waits /\ readerResets' = readerResets
  <1>1. ASSUME Forward
        PROVE  /\ toBridge # <<>> /\ toBridge' = <<>> /\ toReader' = toReader
               /\ Busy' \in {0, 1} /\ Busy = 0
               /\ Waits' = Waits /\ readerResets' = readerResets
    BY <1>1 DEF Forward, Waits, Busy, readerVars, resetVars
  <1>2. ASSUME GetReturns
        PROVE  /\ toBridge' = toBridge
               /\ toReader' = toReader \/ \E t : toReader' = Append(toReader, t)
               /\ Busy' = 0 /\ Busy = 1
               /\ Waits' = Waits /\ readerResets' = readerResets
    BY <1>2 DEF GetReturns, Waits, Busy, readerVars, resetVars
  <1>3. ASSUME GetFails
        PROVE  /\ toBridge' = toBridge /\ toReader' = Append(toReader, SomethingWentWrong)
               /\ Busy' = 0 /\ Busy = 1
               /\ Waits' = Waits /\ readerResets' = readerResets
    BY <1>3 DEF GetFails, Waits, Busy, readerVars, resetVars
  <1>4. ASSUME BridgeStarts
        PROVE  /\ toBridge' = toBridge /\ toReader' = toReader
               /\ Busy' = 0 /\ Busy = 0
               /\ Waits' = Waits /\ readerResets' = readerResets
    BY <1>4 DEF BridgeStarts, Waits, Busy, readerVars, lineVars, resetVars
  <1>5. CASE Forward
    BY <1>1, <1>5, Lengths
  <1>6. CASE GetReturns
    BY <1>2, <1>6, Lengths
  <1>7. CASE GetFails
    BY <1>3, <1>7, Lengths
  <1>8. CASE BridgeStarts
    BY <1>4, <1>8, Lengths
  <1> QED BY <1>5, <1>6, <1>7, <1>8 DEF Bridge

LEMMA EnvironmentCounts ==
    ASSUME TypeOK, Environment
    PROVE  /\ Len(toBridge') + Len(toReader') + Busy'
                <= Len(toBridge) + Len(toReader) + Busy
           /\ \/ Waits' = Waits /\ readerResets' = readerResets
              \/ Waits' = 0 /\ readerResets' = readerResets + 1
  <1>1. ASSUME ServerAnswers \/ (\E r \in Requests : ServerHandlesLate(r)) \/ WiFiLost \/ WiFiBack
        PROVE  /\ toBridge' = toBridge /\ toReader' = toReader
               /\ Busy' = Busy /\ Waits' = Waits /\ readerResets' = readerResets
    BY <1>1 DEF ServerAnswers, ServerHandlesLate, WiFiLost, WiFiBack, Waits, Busy,
                readerVars, lineVars, bridgeVars, resetVars
  <1>2. ASSUME ReaderReset
        PROVE  /\ toBridge' = toBridge /\ toReader' = <<>> /\ Busy' = Busy
               /\ Waits' = 0 /\ readerResets' = readerResets + 1
    BY <1>2 DEF ReaderReset, Waits, Busy, bridgeVars
  <1>3. ASSUME BridgeReset
        PROVE  /\ toBridge' = <<>> /\ toReader' = toReader /\ Busy' = 0
               /\ Waits' = Waits /\ readerResets' = readerResets
    BY <1>3 DEF BridgeReset, Waits, Busy, readerVars
  <1>4. CASE ServerAnswers \/ (\E r \in Requests : ServerHandlesLate(r)) \/ WiFiLost \/ WiFiBack
    BY <1>1, <1>4, Lengths
  <1>5. CASE ReaderReset
    BY <1>2, <1>5, Lengths
  <1>6. CASE BridgeReset
    BY <1>3, <1>6, Lengths
  <1> QED BY <1>4, <1>5, <1>6 DEF Environment

LEMMA OneAnswerCounted == OneAnswerPerRequest <=>
                            Len(toBridge) + Len(toReader) + Busy <= readerResets + Waits
  BY DEF OneAnswerPerRequest, Outstanding, Busy, Waits

LEMMA OneAnswerStep ==
    ASSUME TypeOK, TypeOK', OneAnswerPerRequest, [Next]_checkVars
    PROVE  OneAnswerPerRequest'
  <1>1. OneAnswerPerRequest' <=>
          Len(toBridge') + Len(toReader') + Busy' <= readerResets' + Waits'
    BY DEF OneAnswerPerRequest, Outstanding, Busy, Waits
  <1>2. /\ Len(toBridge') \in Nat /\ Len(toReader') \in Nat /\ readerResets' \in Nat
        /\ Busy' \in {0, 1} /\ Waits' \in {0, 1}
    <2>1. toBridge' \in Seq(Requests) /\ toReader' \in Seq(Texts) /\ readerResets' \in Nat
      BY DEF TypeOK
    <2>2. Busy' \in {0, 1} /\ Waits' \in {0, 1}
      BY DEF Busy, Waits
    <2> QED BY <2>1, <2>2
  <1>3. CASE Reader
    <2>1. /\ Len(toBridge') + Len(toReader') + Waits
                <= Len(toBridge) + Len(toReader) + Waits'
          /\ Busy' = Busy /\ readerResets' = readerResets
      BY <1>3, ReaderCounts
    <2> QED BY <1>1, <1>2, <2>1, Lengths, OneAnswerCounted
  <1>4. CASE Bridge
    BY <1>1, <1>2, <1>4, BridgeCounts, Lengths, OneAnswerCounted
  <1>5. CASE Environment
    BY <1>1, <1>2, <1>5, EnvironmentCounts, Lengths, OneAnswerCounted
  <1>6. CASE UNCHANGED checkVars
    BY <1>6 DEF checkVars, readerVars, lineVars, bridgeVars, resetVars,
                OneAnswerPerRequest, Outstanding
  <1> QED BY <1>3, <1>4, <1>5, <1>6 DEF Next

(* What is under way between reader and server is never more than the       *)
(* request waited for and one for each reset of the reader.                 *)
THEOREM OneAnswerAlways == Spec => []OneAnswerPerRequest
  <1>1. Init => OneAnswerPerRequest
    <2> SUFFICES ASSUME Init PROVE OneAnswerPerRequest
      OBVIOUS
    <2>1. /\ toBridge = <<>> /\ toReader = <<>> /\ Busy = 0 /\ Waits = 0 /\ readerResets = 0
      BY DEF Init, Busy, Waits
    <2> QED BY <2>1, OneAnswerCounted
  <1>2. TypeOK /\ TypeOK' /\ OneAnswerPerRequest /\ [Next]_checkVars => OneAnswerPerRequest'
    BY OneAnswerStep
  <1> QED BY <1>1, <1>2, CheckTypeCorrect, PTL DEF Spec

-----------------------------------------------------------------------------
(* The right answer, until the reader resets: the request the reader waits  *)
(* for is on the line, in the GET, lost, or answered, and never two of      *)
(* these; when the reader waits for nothing, nothing is under way.          *)

Truthful(t) == t = FromServer(10) => asked.nfc \in Members
NoGet    == bridge \in {"boot", "idle"}
OnLine   == toBridge = <<asked>> /\ toReader = <<>> /\ NoGet
InGet    == toBridge = <<>> /\ toReader = <<>> /\ ~NoGet /\ get = asked
Silent   == toBridge = <<>> /\ toReader = <<>> /\ NoGet
Answered == toBridge = <<>> /\ NoGet /\ \E t \in Texts : toReader = <<t>> /\ Truthful(t)

Honest ==
    /\ reader # "waiting" => Silent
    /\ reader = "waiting" => OnLine \/ InGet \/ Silent \/ Answered
    /\ bridge = "answered" => Truthful(payload)
    /\ lcd = "Door Open" => reader = "showing" /\ asked.nfc \in Members

LEMMA BridgeTexts ==
    /\ Truthful(SomethingWentWrong) /\ Truthful(ErrorPage)
    /\ FromServer(3) # FromServer(10) /\ ErrorPage # FromServer(10)
    /\ \A n \in Flags : FromServer(n) = FromServer(10) => n = 10
  BY TextsDiffer DEF Truthful, FromServer, ErrorPage, Flags, SomethingWentWrong

LEMMA HonestReader == ASSUME TypeOK, Honest, Reader PROVE Honest'
  <1>1. ASSUME NEW command \in Commands, PressButton(command) PROVE Honest'
    <2>1. /\ reader = "idle" /\ reader' = "countdown" /\ lcd' = "Place your card:"
          /\ toReader' = <<>> /\ toBridge' = toBridge /\ bridge' = bridge
      BY <1>1 DEF PressButton, bridgeVars
    <2> QED BY <2>1 DEF Honest, Silent, NoGet
  <1>2. CASE NoCard \/ BackToButtons
    <2>1. /\ reader # "waiting" /\ reader' = "idle" /\ lcd' = "Press button"
          /\ toReader' = toReader /\ toBridge' = toBridge /\ bridge' = bridge
      BY <1>2 DEF NoCard, BackToButtons, lineVars, bridgeVars
    <2> QED BY <2>1 DEF Honest, Silent, NoGet
  <1>3. ASSUME NEW card \in Cards, PlaceCard(card) PROVE Honest'
    <2>1. /\ reader # "waiting" /\ reader' = "waiting" /\ lcd' = "Please wait..."
          /\ toReader' = toReader /\ toBridge' = Append(toBridge, asked') /\ bridge' = bridge
      BY <1>3 DEF PlaceCard, bridgeVars
    <2>2. toBridge = <<>> /\ toReader = <<>> /\ NoGet
      BY <2>1 DEF Honest, Silent
    <2>3. toBridge' = <<asked'>>
      <3>1. toBridge' = Append(<<>>, asked')
        BY <2>1, <2>2
      <3> QED BY <3>1
    <2> QED BY <2>1, <2>2, <2>3 DEF Honest, OnLine, NoGet
  <1>4. CASE ShowAnswer
    <2>1. /\ reader = "waiting" /\ reader' = "showing" /\ toReader # <<>>
          /\ lcd' = Display(asked.command, TextRead) /\ asked' = asked
          /\ toReader' = <<>> /\ toBridge' = toBridge /\ bridge' = bridge
      BY <1>4 DEF ShowAnswer, bridgeVars
    <2>2. /\ toBridge = <<>> /\ NoGet
          /\ \E t \in Texts : toReader = <<t>> /\ Truthful(t)
      BY <2>1 DEF Honest, OnLine, InGet, Silent, Answered
    <2>3. PICK t \in Texts : toReader = <<t>> /\ Truthful(t)
      BY <2>2
    <2>4. TextRead = t
      BY <2>3 DEF TextRead
    <2>5. lcd' = "Door Open" => asked'.nfc \in Members
      BY <2>1, <2>3, <2>4, DisplayType DEF Truthful
    <2> QED BY <2>1, <2>2, <2>5 DEF Honest, Silent, NoGet
  <1> QED BY <1>1, <1>2, <1>3, <1>4 DEF Reader

LEMMA HonestBridge == ASSUME TypeOK, Honest, Bridge PROVE Honest'
  <1>0. reader' = reader /\ lcd' = lcd /\ asked' = asked
    BY DEF Bridge, Forward, GetReturns, GetFails, BridgeStarts, readerVars
  <1>1. CASE Forward
    <2>1. /\ bridge = "idle" /\ toBridge # <<>> /\ toBridge' = <<>> /\ toReader' = toReader
          /\ bridge' = bridge \/ (bridge' = "sent" /\ get' = ReadCommands)
      BY <1>1 DEF Forward
    <2>2. toBridge = <<asked>> /\ toReader = <<>> /\ reader = "waiting"
      BY <2>1 DEF Honest, OnLine, InGet, Silent, Answered
    <2>3. ReadCommands = asked
      BY <2>2 DEF ReadCommands
    <2> QED BY <1>0, <2>1, <2>2, <2>3 DEF Honest, Silent, InGet, NoGet
  <1>4. CASE GetReturns /\ toReader' = toReader
    <2>1. ~NoGet /\ bridge' = "idle" /\ toBridge' = toBridge
      BY <1>4 DEF GetReturns, NoGet
    <2>2. toBridge = <<>> /\ toReader = <<>>
      BY <2>1 DEF Honest, OnLine, InGet, Silent, Answered
    <2> QED BY <1>0, <1>4, <2>1, <2>2 DEF Honest, Silent, NoGet
  <1>2. CASE GetFails \/ (GetReturns /\ toReader' # toReader)
    <2>1. PICK t : /\ ~NoGet /\ bridge' = "idle" /\ toBridge' = toBridge
                   /\ toReader' = Append(toReader, t)
                   /\ \/ bridge = "answered" /\ t \in {payload, ErrorPage}
                      \/ t = SomethingWentWrong
      BY <1>2 DEF GetReturns, GetFails, NoGet
    <2>2. toBridge = <<>> /\ toReader = <<>> /\ reader = "waiting"
      BY <2>1 DEF Honest, OnLine, InGet, Silent, Answered
    <2>3. t \in Texts /\ Truthful(t)
      BY <2>1, AnswerTypes, BridgeTexts DEF Honest, TypeOK
    <2>4. toReader' = <<t>>
      BY <2>1, <2>2
    <2>5. Truthful(t)'
      BY <1>0, <2>3 DEF Truthful
    <2> QED BY <1>0, <2>1, <2>2, <2>3, <2>4, <2>5 DEF Honest, Answered, Truthful, NoGet
  <1>3. CASE BridgeStarts
    <2>1. bridge = "boot" /\ bridge' = "idle" /\ toReader' = toReader /\ toBridge' = toBridge
      BY <1>3 DEF BridgeStarts, lineVars
    <2> QED BY <1>0, <2>1 DEF Honest, OnLine, InGet, Silent, Answered, Truthful, NoGet
  <1> QED BY <1>1, <1>2, <1>3, <1>4 DEF Bridge

LEMMA HonestEnvironment == ASSUME TypeOK, Honest, Environment, ~ReaderReset PROVE Honest'
  <1>0. reader' = reader /\ lcd' = lcd /\ asked' = asked /\ toReader' = toReader
    BY DEF Environment, ServerAnswers, ServerHandlesLate, WiFiLost, WiFiBack, BridgeReset,
           readerVars, lineVars
  <1>1. CASE ServerAnswers
    <2>1. /\ bridge = "sent" /\ bridge' = "answered" /\ toBridge' = toBridge /\ get' = get
          /\ payload' \in {FromServer(Verdict(attendance, get)), FromServer(3), ErrorPage}
      BY <1>1 DEF ServerAnswers, lineVars
    <2>2. toBridge = <<>> /\ toReader = <<>> /\ reader = "waiting" /\ get = asked
      BY <2>1 DEF Honest, OnLine, InGet, Silent, Answered, NoGet
    <2>3. /\ Verdict(attendance, get) \in Flags
          /\ Verdict(attendance, get) = 10 => get.nfc \in Members
      BY VerdictIsFlag DEF TypeOK
    <2>4. payload' = FromServer(10) => asked'.nfc \in Members
      BY <1>0, <2>1, <2>2, <2>3, BridgeTexts
    <2> QED BY <1>0, <2>1, <2>2, <2>4 DEF Honest, InGet, Truthful, NoGet
  <1>2. CASE (\E r \in Requests : ServerHandlesLate(r)) \/ WiFiLost \/ WiFiBack
    <2>1. toBridge' = toBridge /\ bridge' = bridge /\ get' = get /\ payload' = payload
      BY <1>2 DEF ServerHandlesLate, WiFiLost, WiFiBack, lineVars, bridgeVars
    <2> QED BY <1>0, <2>1 DEF Honest, OnLine, InGet, Silent, Answered, Truthful, NoGet
  <1>3. CASE BridgeReset
    <2>1. toBridge' = <<>> /\ bridge' = "boot"
      BY <1>3 DEF BridgeReset
    <2> QED BY <1>0, <2>1 DEF Honest, OnLine, InGet, Silent, Answered, Truthful, NoGet
  <1> QED BY <1>1, <1>2, <1>3 DEF Environment

LEMMA Unreset ==
    ASSUME TypeOK, [Next]_checkVars, readerResets' = 0
    PROVE  ~ReaderReset /\ readerResets = 0
  <1>1. readerResets \in Nat
    BY DEF TypeOK
  <1>2. ~ReaderReset
    <2>1. SUFFICES ASSUME ReaderReset PROVE FALSE
      OBVIOUS
    <2>2. readerResets' = readerResets + 1
      BY <2>1 DEF ReaderReset
    <2> QED BY <1>1, <2>2
  <1>3. CASE Reader \/ Bridge
    <2>1. readerResets' = readerResets
      BY <1>3, ReaderCounts, BridgeCounts
    <2> QED BY <1>2, <2>1
  <1>4. CASE Environment
    <2>1. readerResets' = readerResets
      BY <1>2, <1>4 DEF Environment, ServerAnswers, ServerHandlesLate, WiFiLost, WiFiBack,
                        BridgeReset, resetVars
    <2> QED BY <1>2, <2>1
  <1>5. CASE UNCHANGED checkVars
    <2>1. readerResets' = readerResets
      BY <1>5 DEF checkVars, resetVars
    <2> QED BY <1>2, <2>1
  <1> QED BY <1>3, <1>4, <1>5 DEF Next

LEMMA HonestStep ==
    ASSUME TypeOK, readerResets = 0 => Honest, [Next]_checkVars, readerResets' = 0
    PROVE  Honest'
  <1>1. Honest /\ ~ReaderReset
    BY Unreset
  <1>2. CASE UNCHANGED checkVars
    BY <1>1, <1>2 DEF checkVars, readerVars, lineVars, bridgeVars,
                      Honest, OnLine, InGet, Silent, Answered, Truthful, NoGet
  <1> QED BY <1>1, <1>2, HonestReader, HonestBridge, HonestEnvironment DEF Next

LEMMA HonestAlways == Spec => [](readerResets = 0 => Honest)
  <1>1. Init => Honest
    BY DEF Init, Honest, Silent, NoGet
  <1>2. TypeOK /\ (readerResets = 0 => Honest) /\ [Next]_checkVars
          => (readerResets = 0 => Honest)'
    BY HonestStep
  <1> QED BY <1>1, <1>2, CheckTypeCorrect, PTL DEF Spec

(* The relay is switched for members only, until the reader resets.         *)
THEOREM OpensForMemberAlways == Spec => []OpensForMemberUnreset
  <1>1. (readerResets = 0 => Honest) => OpensForMemberUnreset
    BY DEF Honest, OpensForMemberUnreset, OpensForMember
  <1> QED BY <1>1, HonestAlways, PTL

(* A reset of the reader that no request survives: no command is on its way *)
(* to the bridge, and the bridge has no GET.  A text that waits for the     *)
(* reader is lost in the reset.                                             *)
NothingOutAtReset    == ReaderReset => toBridge = <<>> /\ NoGet
ResetsWithNothingOut == [][NothingOutAtReset]_checkVars

LEMMA HonestReset == ASSUME ReaderReset, toBridge = <<>>, NoGet PROVE Honest'
  <1>1. /\ reader' = "idle" /\ lcd' = "Press button" /\ toReader' = <<>>
        /\ toBridge' = toBridge /\ bridge' = bridge
    BY DEF ReaderReset, bridgeVars
  <1> QED BY <1>1 DEF Honest, Silent, NoGet

LEMMA HonestCleanStep ==
    ASSUME TypeOK, Honest, [Next]_checkVars, [NothingOutAtReset]_checkVars
    PROVE  Honest'
  <1>1. CASE UNCHANGED checkVars
    BY <1>1 DEF checkVars, readerVars, lineVars, bridgeVars,
                Honest, OnLine, InGet, Silent, Answered, Truthful, NoGet
  <1>2. CASE ReaderReset /\ ~UNCHANGED checkVars
    BY <1>2, HonestReset DEF NothingOutAtReset
  <1> QED BY <1>1, <1>2, HonestReader, HonestBridge, HonestEnvironment DEF Next

LEMMA HonestWithCleanResets == Spec /\ ResetsWithNothingOut => []Honest
  <1>1. Init => Honest
    BY DEF Init, Honest, Silent, NoGet
  <1>2. TypeOK /\ Honest /\ [Next]_checkVars /\ [NothingOutAtReset]_checkVars => Honest'
    BY HonestCleanStep
  <1> QED BY <1>1, <1>2, CheckTypeCorrect, PTL DEF Spec, ResetsWithNothingOut

(* A reset of the reader is harmful only while a request of it is still     *)
(* between reader and server: as long as every reset finds nothing there,   *)
(* however often the reader and the bridge reset and the WiFi fails, the    *)
(* relay is switched for members only.                                      *)
THEOREM OpensForMemberUnlessCut == Spec /\ ResetsWithNothingOut => []OpensForMember
  <1>1. Honest => OpensForMember
    BY DEF Honest, OpensForMember
  <1> QED BY <1>1, HonestWithCleanResets, PTL

-----------------------------------------------------------------------------
(* The service.                                                             *)

(* What the service sees at each stage of a request.                        *)
Mapped ==
    /\ reader # "waiting" => Progress = "none" /\ Answer = ErrorPage
    /\ reader = "waiting" /\ (OnLine \/ (InGet /\ bridge = "sent"))
          => Progress = "asked" /\ Answer = ErrorPage
    /\ reader = "waiting" /\ InGet /\ bridge = "answered"
          => Progress = "done" /\ Answer = payload
    /\ reader = "waiting" /\ Silent => Progress = "lost" /\ Answer = ErrorPage
    /\ \A t \in Texts :
          reader = "waiting" /\ toBridge = <<>> /\ NoGet /\ toReader = <<t>>
            => \/ t = SomethingWentWrong /\ Progress = "lost" /\ Answer = ErrorPage
               \/ t # SomethingWentWrong /\ Progress = "done" /\ Answer = t

LEMMA MappedHolds == Mapped
  <1>1. CASE reader # "waiting"
    BY <1>1 DEF Mapped, Progress, Answer
  <1>2. CASE reader = "waiting" /\ OnLine
    <2>1. toBridge # <<>> /\ bridge \in {"boot", "idle"} /\ toBridge # <<>>
      BY <1>2 DEF OnLine, NoGet
    <2>2. Progress = "asked" /\ Answer = ErrorPage
      BY <1>2, <2>1 DEF Progress, Answer
    <2> QED BY <1>2, <2>1, <2>2 DEF Mapped, InGet, Silent
  <1>3. CASE reader = "waiting" /\ toBridge = <<>> /\ bridge = "sent"
    <2>1. Progress = "asked" /\ Answer = ErrorPage
      BY <1>3 DEF Progress, Answer
    <2> QED BY <1>3, <2>1 DEF Mapped, OnLine, Silent, NoGet
  <1>4. CASE reader = "waiting" /\ toBridge = <<>> /\ bridge = "answered"
    <2>1. Progress = "done" /\ Answer = payload
      BY <1>4 DEF Progress, Answer
    <2> QED BY <1>4, <2>1 DEF Mapped, OnLine, Silent, NoGet
  <1>5. CASE reader = "waiting" /\ Silent
    <2>1. Progress = "lost" /\ Answer = ErrorPage
      BY <1>5 DEF Progress, Answer, Silent, NoGet
    <2> QED BY <1>5, <2>1 DEF Mapped, OnLine, InGet, Silent
  <1>6. ASSUME NEW t \in Texts, reader = "waiting", toBridge = <<>>, NoGet, toReader = <<t>>
        PROVE  \/ t = SomethingWentWrong /\ Progress = "lost" /\ Answer = ErrorPage
               \/ t # SomethingWentWrong /\ Progress = "done" /\ Answer = t
    <2>1. toReader # <<>> /\ Head(toReader) = t /\ bridge # "sent" /\ bridge # "answered"
      BY <1>6 DEF NoGet
    <2>2. CASE t = SomethingWentWrong
      <3>1. t \notin Answers
        BY <2>2, AnswerTypes
      <3>2. Progress = "lost"
        BY <1>6, <2>1, <3>1 DEF Progress
      <3> QED BY <2>2, <3>2 DEF Answer
    <2>3. CASE t # SomethingWentWrong
      <3>1. t \in Answers
        BY <2>3 DEF Texts
      <3>2. Progress = "done"
        BY <1>6, <2>1, <3>1 DEF Progress
      <3> QED BY <2>1, <2>3, <3>2 DEF Answer
    <2> QED BY <2>2, <2>3
  <1>7. CASE reader = "waiting" /\ toBridge = <<>> /\ NoGet /\ toReader # <<>>
    BY <1>6, <1>7 DEF Mapped, OnLine, InGet, Silent
  <1>8. CASE reader = "waiting" /\ ~OnLine /\ ~Silent /\ toBridge # <<>>
    BY <1>8 DEF Mapped, OnLine, InGet, Silent
  <1>9. CASE reader = "waiting" /\ toBridge = <<>> /\ bridge \notin {"sent", "answered"} /\ ~NoGet
    BY <1>9 DEF Mapped, OnLine, InGet, Silent
  <1> QED BY <1>1, <1>2, <1>3, <1>4, <1>5, <1>7, <1>8, <1>9 DEF Silent, NoGet

LEMMA MappedNext == Mapped'
  BY MappedHolds, PTL

(* The service speaks of the same words and the same server.                *)
LEMMA SameWords ==
    /\ Service!Requests = Requests /\ Service!ErrorPage = ErrorPage
    /\ Service!NoRequest = NoRequest
    /\ \A n : Service!FromServer(n) = FromServer(n)
    /\ \A command, text : Service!Display(command, text) = Display(command, text)
    /\ Service!NobodyCame = NobodyCame
  BY DEF Service!Requests, Requests, Service!Commands, Commands,
         Service!open_door, open_door, Service!check_in, check_in,
         Service!check_out, check_out, Service!ErrorPage, ErrorPage,
         Service!NoRequest, NoRequest, Service!FromServer, FromServer,
         Service!Display, Display, Service!SomethingWentWrong, SomethingWentWrong,
         Service!Uploaded, Uploaded, Service!NobodyCame, NobodyCame

LEMMA SameServer ==
    ASSUME NEW table, NEW r
    PROVE  /\ Service!Verdict(table, r) = Verdict(table, r)
           /\ Service!Entered(table, r) = Entered(table, r)
  BY DEF Service!Verdict, Verdict, Service!Entered, Entered,
         Service!open_door, open_door, Service!check_in, check_in,
         Service!check_out, check_out

LEMMA ServiceReader ==
    ASSUME TypeOK, Honest, Honest', Reader
    PROVE  [Service!Next]_(Service!serviceVars)
  <1>a. late' = late /\ attendance' = attendance
    BY DEF Reader, PressButton, NoCard, PlaceCard, ShowAnswer, BackToButtons, serverVars
  <1>1. CASE NoCard \/ \E command \in Commands : PressButton(command)
    <2>1. reader \notin {"waiting", "showing"} /\ reader' \notin {"waiting", "showing"}
      BY <1>1 DEF NoCard, PressButton
    <2>2. UNCHANGED Service!serviceVars
      BY <1>a, <2>1, MappedHolds, MappedNext DEF Mapped, Service!serviceVars
    <2> QED BY <2>2
  <1>2. ASSUME NEW card \in Cards, PlaceCard(card) PROVE Service!Next
    <2>1. /\ reader = "countdown" /\ reader' = "waiting"
          /\ toBridge' = Append(toBridge, asked') /\ toReader' = toReader /\ bridge' = bridge
      BY <1>2 DEF PlaceCard, bridgeVars
    <2>2. toBridge = <<>> /\ toReader = <<>> /\ NoGet
      BY <2>1 DEF Honest, Silent
    <2>3. toBridge' # <<>>
      <3>1. toBridge' = Append(<<>>, asked')
        BY <2>1, <2>2
      <3> QED BY <3>1
    <2>4. OnLine'
      BY <2>1, <2>2, <2>3 DEF Honest, OnLine, InGet, Silent, Answered, NoGet
    <2>5. Progress = "none" /\ Answer = ErrorPage /\ Progress' = "asked" /\ Answer' = ErrorPage
      BY <2>1, <2>4, MappedHolds, MappedNext DEF Mapped
    <2>6. asked' \in Requests
      <3>1. asked \in Requests /\ asked' = [asked EXCEPT !.nfc = card]
        BY <1>2 DEF PlaceCard, TypeOK
      <3> QED BY <1>2, <3>1, RequestTypes
    <2>7. Service!Ask(asked')
      BY <1>a, <2>1, <2>5, SameWords DEF Service!Ask
    <2> QED BY <2>6, <2>7, SameWords DEF Service!Next
  <1>3. CASE ShowAnswer
    <2>1. /\ reader = "waiting" /\ reader' = "showing" /\ toReader # <<>>
          /\ lcd' = Display(asked.command, TextRead)
      BY <1>3 DEF ShowAnswer
    <2>2. /\ toBridge = <<>> /\ NoGet
          /\ \E t \in Texts : toReader = <<t>> /\ Truthful(t)
      BY <2>1 DEF Honest, OnLine, InGet, Silent, Answered
    <2>3. PICK t \in Texts : toReader = <<t>>
      BY <2>2
    <2>4. lcd' = Display(asked.command, t)
      BY <2>1, <2>3 DEF TextRead
    <2>5. \/ Progress = "lost" /\ lcd' = "Offline"
          \/ Progress = "done" /\ Answer = t
      BY <2>1, <2>2, <2>3, <2>4, MappedHolds, DisplayType DEF Mapped
    <2>6. Progress' = "none" /\ Answer' = ErrorPage
      BY <2>1, MappedNext DEF Mapped
    <2>7. Service!Tell
      BY <1>a, <2>1, <2>4, <2>5, <2>6, SameWords DEF Service!Tell
    <2> QED BY <2>7 DEF Service!Next
  <1>4. CASE BackToButtons
    <2>1. reader = "showing" /\ reader' = "idle"
      BY <1>4 DEF BackToButtons
    <2>2. Progress = "none" /\ Answer = ErrorPage /\ Progress' = "none" /\ Answer' = ErrorPage
      BY <2>1, MappedHolds, MappedNext DEF Mapped
    <2>3. Service!Forget
      BY <1>a, <2>1, <2>2 DEF Service!Forget
    <2> QED BY <2>3 DEF Service!Next
  <1> QED BY <1>1, <1>2, <1>3, <1>4 DEF Reader

(* The request is lost on its way, or its answer is.                        *)
LEMMA ServiceLoses ==
    ASSUME reader = "waiting", reader' = reader, asked' = asked, attendance' = attendance,
           Progress \in {"asked", "done"}, Progress' = "lost", Answer' = ErrorPage,
           \/ late' = late
           \/ /\ Progress = "asked" /\ late[asked] < MaxLate
              /\ late' = [late EXCEPT ![asked] = @ + 1]
    PROVE  Service!Next
  <1>1. Service!Lose
    BY SameWords DEF Service!Lose
  <1> QED BY <1>1 DEF Service!Next

LEMMA ServiceBridge ==
    ASSUME TypeOK, Honest, Honest', Bridge
    PROVE  [Service!Next]_(Service!serviceVars)
  <1>0. reader' = reader /\ lcd' = lcd /\ asked' = asked /\ attendance' = attendance
    BY DEF Bridge, Forward, GetReturns, GetFails, BridgeStarts, readerVars, serverVars
  <1>1. CASE Forward
    <2>1. /\ bridge = "idle" /\ toBridge # <<>> /\ toBridge' = <<>> /\ toReader' = toReader
          /\ bridge' = bridge \/ (bridge' = "sent" /\ get' = ReadCommands)
          /\ late' = late
      BY <1>1 DEF Forward, serverVars
    <2>2. OnLine /\ reader = "waiting"
      BY <2>1 DEF Honest, OnLine, InGet, Silent, Answered
    <2>3. Progress = "asked" /\ Answer = ErrorPage
      BY <2>2, MappedHolds DEF Mapped
    <2>4. CASE bridge' = "sent"
      <3>1. toReader' = <<>>
        BY <2>1, <2>2 DEF OnLine
      <3>2. InGet'
        BY <1>0, <2>1, <2>2, <2>4, <3>1 DEF Honest, OnLine, InGet, Silent, Answered, NoGet
      <3>3. Progress' = "asked" /\ Answer' = ErrorPage
        BY <1>0, <2>2, <2>4, <3>2, MappedNext DEF Mapped
      <3> QED BY <1>0, <2>1, <2>2, <2>3, <3>3 DEF Service!serviceVars
    <2>5. CASE bridge' = bridge
      <3>1. Silent'
        BY <2>1, <2>2, <2>5 DEF OnLine, Silent, NoGet
      <3>2. Progress' = "lost" /\ Answer' = ErrorPage
        BY <1>0, <2>2, <3>1, MappedNext DEF Mapped
      <3> QED BY <1>0, <2>1, <2>2, <2>3, <3>2, ServiceLoses
    <2> QED BY <2>1, <2>4, <2>5
  <1>2. CASE GetReturns
    <2>1. /\ bridge = "answered" /\ bridge' = "idle" /\ toBridge' = toBridge
          /\ late' = late
          /\ \/ toReader' = toReader
             \/ \E text \in {payload, ErrorPage} : toReader' = Append(toReader, text)
      BY <1>2 DEF GetReturns, serverVars
    <2>2. InGet /\ reader = "waiting"
      BY <2>1 DEF Honest, OnLine, InGet, Silent, Answered, NoGet
    <2>3. Progress = "done" /\ Answer = payload
      BY <2>1, <2>2, MappedHolds DEF Mapped
    <2>4. toReader = <<>> /\ toBridge' = <<>> /\ NoGet'
      BY <2>1, <2>2 DEF InGet, NoGet
    <2>5. CASE toReader' = toReader
      <3>1. Silent'
        BY <2>4, <2>5 DEF Silent
      <3>2. Progress' = "lost" /\ Answer' = ErrorPage
        BY <1>0, <2>2, <3>1, MappedNext DEF Mapped
      <3> QED BY <1>0, <2>1, <2>2, <2>3, <3>2, ServiceLoses
    <2>6. ASSUME NEW text \in {payload, ErrorPage}, toReader' = Append(toReader, text)
          PROVE  [Service!Next]_(Service!serviceVars)
      <3>1. text \in Texts /\ text # SomethingWentWrong
        BY AnswerTypes DEF TypeOK
      <3>2. toReader' = <<text>>
        BY <2>4, <2>6
      <3>3. Progress' = "done" /\ Answer' = text
        BY <1>0, <2>2, <2>4, <3>1, <3>2, MappedNext DEF Mapped
      <3>4. CASE text = payload
        BY <1>0, <2>1, <2>2, <2>3, <3>3, <3>4 DEF Service!serviceVars
      <3>5. CASE text = ErrorPage
        <4>1. Service!CutOff
          BY <1>0, <2>1, <2>2, <2>3, <3>3, <3>5, SameWords DEF Service!CutOff
        <4> QED BY <4>1 DEF Service!Next
      <3> QED BY <3>4, <3>5
    <2> QED BY <2>1, <2>5, <2>6
  <1>3. CASE GetFails
    <2>1. /\ bridge \in {"sent", "answered"} /\ bridge' = "idle" /\ toBridge' = toBridge
          /\ toReader' = Append(toReader, SomethingWentWrong) /\ Abandoned
      BY <1>3 DEF GetFails
    <2>2. InGet /\ reader = "waiting"
      BY <2>1 DEF Honest, OnLine, InGet, Silent, Answered, NoGet
    <2>3. Progress = IF bridge = "sent" THEN "asked" ELSE "done"
      BY <2>1, <2>2, MappedHolds DEF Mapped
    <2>4. toReader' = <<SomethingWentWrong>> /\ toBridge' = <<>> /\ NoGet'
      BY <2>1, <2>2 DEF InGet, NoGet
    <2>5. Progress' = "lost" /\ Answer' = ErrorPage
      BY <1>0, <2>2, <2>4, AnswerTypes, MappedNext DEF Mapped
    <2> QED BY <1>0, <2>1, <2>2, <2>3, <2>5, ServiceLoses DEF Abandoned, InGet
  <1>4. CASE BridgeStarts
    <2>1. /\ bridge = "boot" /\ bridge' = "idle" /\ toReader' = toReader
          /\ toBridge' = toBridge /\ late' = late
      BY <1>4 DEF BridgeStarts, lineVars, serverVars
    <2>2. Progress' = Progress /\ Answer' = Answer
      BY <1>0, <2>1 DEF Progress, Answer
    <2> QED BY <1>0, <2>1, <2>2 DEF Service!serviceVars
  <1> QED BY <1>1, <1>2, <1>3, <1>4 DEF Bridge

LEMMA ServiceEnvironment ==
    ASSUME TypeOK, Honest, Honest', Environment, ~ReaderReset
    PROVE  [Service!Next]_(Service!serviceVars)
  <1>0. reader' = reader /\ lcd' = lcd /\ asked' = asked /\ toReader' = toReader
    BY DEF Environment, ServerAnswers, ServerHandlesLate, WiFiLost, WiFiBack, BridgeReset,
           readerVars, lineVars
  <1>1. CASE ServerAnswers
    <2>1. /\ bridge = "sent" /\ bridge' = "answered" /\ toBridge' = toBridge
          /\ get' = get /\ late' = late
          /\ \/ /\ payload' = FromServer(Verdict(attendance, get))
                /\ attendance' = Entered(attendance, get)
             \/ /\ payload' \in {FromServer(3), ErrorPage}
                /\ attendance' = attendance
      BY <1>1 DEF ServerAnswers, lineVars
    <2>2. InGet /\ reader = "waiting"
      BY <2>1 DEF Honest, OnLine, InGet, Silent, Answered, NoGet
    <2>3. Progress = "asked"
      BY <2>1, <2>2, MappedHolds DEF Mapped
    <2>4. InGet'
      BY <1>0, <2>1, <2>2 DEF InGet, NoGet
    <2>5. Progress' = "done" /\ Answer' = payload'
      BY <1>0, <2>1, <2>2, <2>4, MappedNext DEF Mapped
    <2>6. get = asked
      BY <2>2 DEF InGet
    <2>7. Service!Perform
      BY <1>0, <2>1, <2>2, <2>3, <2>5, <2>6, SameWords, SameServer DEF Service!Perform
    <2> QED BY <2>7 DEF Service!Next
  <1>2. ASSUME NEW r \in Requests, ServerHandlesLate(r) PROVE Service!Next
    <2>1. /\ late[r] > 0 /\ late' = [late EXCEPT ![r] = @ - 1]
          /\ attendance' = Entered(attendance, r)
          /\ toBridge' = toBridge /\ bridge' = bridge /\ payload' = payload
      BY <1>2 DEF ServerHandlesLate, lineVars, bridgeVars
    <2>2. Progress' = Progress /\ Answer' = Answer
      BY <1>0, <2>1 DEF Progress, Answer
    <2>3. Service!PerformLate(r)
      BY <1>0, <2>1, <2>2, SameServer DEF Service!PerformLate
    <2> QED BY <2>3, SameWords DEF Service!Next
  <1>3. CASE WiFiLost \/ WiFiBack
    <2>1. /\ toBridge' = toBridge /\ bridge' = bridge /\ payload' = payload
          /\ late' = late /\ attendance' = attendance
      BY <1>3 DEF WiFiLost, WiFiBack, lineVars, bridgeVars, serverVars
    <2>2. Progress' = Progress /\ Answer' = Answer
      BY <1>0, <2>1 DEF Progress, Answer
    <2> QED BY <1>0, <2>1, <2>2 DEF Service!serviceVars
  <1>4. CASE BridgeReset
    <2>1. toBridge' = <<>> /\ bridge' = "boot" /\ Abandoned /\ attendance' = attendance
      BY <1>4 DEF BridgeReset
    <2>2. CASE reader # "waiting"
      <3>1. late' = late
        BY <2>1, <2>2 DEF Abandoned, Honest, Silent, NoGet
      <3>2. /\ Progress = "none" /\ Answer = ErrorPage
            /\ Progress' = "none" /\ Answer' = ErrorPage
        BY <1>0, <2>2, MappedHolds, MappedNext DEF Mapped
      <3> QED BY <1>0, <2>1, <3>1, <3>2 DEF Service!serviceVars
    <2>3. CASE reader = "waiting" /\ (OnLine \/ InGet)
      <3>1. Silent'
        BY <1>0, <2>1, <2>3 DEF OnLine, InGet, Silent, NoGet
      <3>2. Progress' = "lost" /\ Answer' = ErrorPage
        BY <1>0, <2>3, <3>1, MappedNext DEF Mapped
      <3>3. CASE OnLine \/ bridge # "sent"
        <4>1. late' = late
          BY <2>1, <3>3 DEF Abandoned, OnLine, NoGet
        <4>2. Progress \in {"asked", "done"}
          <5>1. bridge = "answered" \/ OnLine
            BY <2>3, <3>3 DEF InGet, NoGet, TypeOK
          <5> QED BY <2>3, <5>1, MappedHolds DEF Mapped, OnLine, NoGet
        <4> QED BY <1>0, <2>1, <2>3, <3>2, <4>1, <4>2, ServiceLoses
      <3>4. CASE InGet /\ bridge = "sent"
        <4>1. Progress = "asked"
          BY <2>3, <3>4, MappedHolds DEF Mapped
        <4>2. \/ late' = late
              \/ late[asked] < MaxLate /\ late' = [late EXCEPT ![asked] = @ + 1]
          BY <2>1, <3>4 DEF Abandoned, InGet
        <4> QED BY <1>0, <2>1, <2>3, <3>2, <4>1, <4>2, ServiceLoses
      <3> QED BY <2>3, <3>3, <3>4
    <2>4. CASE reader = "waiting" /\ Silent
      <3>1. late' = late /\ Silent'
        BY <1>0, <2>1, <2>4 DEF Abandoned, Silent, NoGet
      <3>2. /\ Progress = "lost" /\ Answer = ErrorPage
            /\ Progress' = "lost" /\ Answer' = ErrorPage
        BY <1>0, <2>4, <3>1, MappedHolds, MappedNext DEF Mapped
      <3> QED BY <1>0, <2>1, <3>1, <3>2 DEF Service!serviceVars
    <2>5. CASE reader = "waiting" /\ Answered
      <3>1. late' = late
        BY <2>1, <2>5 DEF Abandoned, Answered, NoGet
      <3>2. PICK t \in Texts : toReader = <<t>>
        BY <2>5 DEF Answered
      <3>3. NoGet /\ NoGet' /\ toBridge = <<>>
        BY <2>1, <2>5 DEF Answered, NoGet
      <3>4. Progress' = Progress /\ Answer' = Answer
        <4>1. \/ t = SomethingWentWrong /\ Progress = "lost" /\ Answer = ErrorPage
              \/ t # SomethingWentWrong /\ Progress = "done" /\ Answer = t
          BY <2>5, <3>2, <3>3, MappedHolds DEF Mapped
        <4>2. \/ t = SomethingWentWrong /\ Progress' = "lost" /\ Answer' = ErrorPage
              \/ t # SomethingWentWrong /\ Progress' = "done" /\ Answer' = t
          BY <1>0, <2>1, <2>5, <3>2, <3>3, MappedNext DEF Mapped
        <4> QED BY <4>1, <4>2
      <3> QED BY <1>0, <2>1, <3>1, <3>4 DEF Service!serviceVars
    <2> QED BY <2>2, <2>3, <2>4, <2>5 DEF Honest
  <1> QED BY <1>1, <1>2, <1>3, <1>4 DEF Environment

LEMMA ServiceStep ==
    ASSUME TypeOK, readerResets = 0 => Honest, [Next]_checkVars, readerResets' = 0
    PROVE  [Service!Next]_(Service!serviceVars)
  <1>1. Honest /\ Honest' /\ ~ReaderReset
    BY Unreset, HonestStep
  <1>2. CASE UNCHANGED checkVars
    <2>1. /\ reader' = reader /\ lcd' = lcd /\ asked' = asked /\ toReader' = toReader
          /\ toBridge' = toBridge /\ bridge' = bridge /\ payload' = payload
          /\ late' = late /\ attendance' = attendance
      BY <1>2 DEF checkVars, readerVars, lineVars, bridgeVars, serverVars
    <2>2. Progress' = Progress /\ Answer' = Answer
      BY <2>1 DEF Progress, Answer
    <2> QED BY <2>1, <2>2 DEF Service!serviceVars
  <1> QED BY <1>1, <1>2, ServiceReader, ServiceBridge, ServiceEnvironment DEF Next

(* Until the reader resets, somebody who lays a card on the reader has      *)
(* CardService: the display shows the server's word on that very card.      *)
THEOREM ImplementsCardServiceAlways == Spec => ImplementsCardService
  <1>1. Init => Service!Init
    <2> SUFFICES ASSUME Init PROVE Service!Init
      OBVIOUS
    <2>1. Progress = "none" /\ Answer = ErrorPage
      BY MappedHolds DEF Init, Mapped
    <2> QED BY <2>1, SameWords DEF Init, Service!Init
  <1>2. TypeOK /\ (readerResets = 0 => Honest) /\ [Next]_checkVars
          => [readerResets' = 0 => [Service!Next]_(Service!serviceVars)]_checkVars
    BY ServiceStep
  <1> QED BY <1>1, <1>2, CheckTypeCorrect, HonestAlways, PTL
          DEF Spec, ImplementsCardService

-----------------------------------------------------------------------------
(* While the WiFi stays, the bridge does not reset and the GET has brought  *)
(* a text, the request the reader waits for, or an earlier one, is          *)
(* somewhere between it and the server, and moves on.                       *)
Unfailing == outages = 0 /\ bridgeResets = 0
Faultless == Unfailing /\ ~mute
Between ==
    /\ Unfailing => online
    /\ Faultless /\ reader = "waiting" =>
          toBridge # <<>> \/ bridge \in {"sent", "answered"} \/ toReader # <<>>

(* The places it may be, from the reader's line back to the bridge's boot.  *)
WaitsOn     == reader = "waiting" /\ Faultless /\ online
TextCame    == WaitsOn /\ toReader # <<>>
GetUnderWay == WaitsOn /\ bridge \in {"sent", "answered"}
CommandCame == WaitsOn /\ bridge = "idle" /\ toBridge # <<>>
CommandEarly == WaitsOn /\ bridge = "boot" /\ toBridge # <<>>

Released == reader # "waiting" \/ outages > 0 \/ bridgeResets > 0 \/ mute

(* What a step does to a request that is waited for without a fault.        *)
LEMMA WaitingStep ==
    ASSUME TypeOK, WaitsOn, [Next]_checkVars
    PROVE  \/ Released'
           \/ WaitsOn' /\ (Bridge \/ ServerAnswers \/ UNCHANGED <<lineVars, bridge>>)
  <1>1. CASE Reader
    BY <1>1 DEF Reader, PressButton, NoCard, PlaceCard, ShowAnswer, BackToButtons,
                WaitsOn, Released
  <1>2. CASE Bridge
    BY <1>2 DEF Bridge, Forward, GetReturns, GetFails, BridgeStarts, WaitsOn, Faultless,
                Unfailing, Released, readerVars, netVars, resetVars
  <1>3. CASE ServerAnswers \/ \E r \in Requests : ServerHandlesLate(r)
    BY <1>3 DEF ServerAnswers, ServerHandlesLate, WaitsOn, Faultless, Unfailing,
                readerVars, lineVars, bridgeVars, netVars, resetVars
  <1>4. CASE WiFiLost \/ BridgeReset
    <2>1. outages + 1 > 0 /\ bridgeResets + 1 > 0
      BY DEF TypeOK
    <2> QED BY <1>4, <2>1 DEF WiFiLost, BridgeReset, Released
  <1>5. CASE WiFiBack \/ ReaderReset
    BY <1>5 DEF WiFiBack, ReaderReset, WaitsOn, Released
  <1>6. CASE UNCHANGED checkVars
    BY <1>6 DEF checkVars, WaitsOn, Faultless, Unfailing, readerVars, lineVars, bridgeVars, netVars,
                resetVars
  <1> QED BY <1>1, <1>2, <1>3, <1>4, <1>5, <1>6 DEF Next, Environment

LEMMA AppendedIsThere ==
    ASSUME NEW T, NEW s \in Seq(T), NEW e PROVE Append(s, e) # <<>>
  <1>1. Len(Append(s, e)) = Len(s) + 1 /\ Len(s) \in Nat
    OBVIOUS
  <1>2. Len(<<>>) = 0
    OBVIOUS
  <1> QED BY <1>1, <1>2

LEMMA UnfailingBefore ==
    ASSUME TypeOK, [Next]_checkVars, Unfailing'
    PROVE  Unfailing /\ ~BridgeReset /\ ~WiFiLost
  <1>1. outages \in Nat /\ bridgeResets \in Nat
    BY DEF TypeOK
  <1>2. outages' >= outages /\ bridgeResets' >= bridgeResets
    <2>1. CASE Reader \/ Bridge \/ UNCHANGED checkVars
      <3>1. UNCHANGED <<netVars, resetVars>>
        BY <2>1 DEF Reader, PressButton, NoCard, PlaceCard, ShowAnswer, BackToButtons,
           Bridge, Forward, GetReturns, GetFails, BridgeStarts, checkVars
      <3> QED BY <1>1, <3>1 DEF netVars, resetVars
    <2>2. CASE Environment
      <3>1. /\ outages' = outages \/ outages' = outages + 1
            /\ bridgeResets' = bridgeResets \/ bridgeResets' = bridgeResets + 1
        BY <2>2 DEF Environment, ServerAnswers, ServerHandlesLate, WiFiLost,
           WiFiBack, ReaderReset, BridgeReset, netVars, resetVars
      <3> QED BY <1>1, <3>1
    <2> QED BY <2>1, <2>2 DEF Next
  <1>3. ~BridgeReset /\ ~WiFiLost
    BY <1>1 DEF Unfailing, BridgeReset, WiFiLost
  <1> QED BY <1>1, <1>2, <1>3 DEF Unfailing

LEMMA BetweenStep == ASSUME TypeOK, Between, [Next]_checkVars PROVE Between'
  <1> SUFFICES ASSUME Unfailing' PROVE Between'
    BY DEF Between, Faultless
  <1>1. online /\ Unfailing /\ ~BridgeReset /\ ~WiFiLost
    BY UnfailingBefore DEF Between
  <1>2. ASSUME NEW card \in Cards, PlaceCard(card) PROVE Between'
    <2>1. toBridge' # <<>>
      BY <1>2, AppendedIsThere DEF PlaceCard, TypeOK
    <2> QED BY <1>1, <1>2, <2>1 DEF PlaceCard, Between, netVars
  <1>3. CASE Reader /\ ~\E card \in Cards : PlaceCard(card)
    <2>1. reader' # "waiting" /\ UNCHANGED netVars
      BY <1>3 DEF Reader, PressButton, NoCard, ShowAnswer, BackToButtons
    <2> QED BY <1>1, <2>1 DEF Between, netVars
  <1>4. CASE GetReturns \/ GetFails
    <2>1. mute' \/ toReader' # <<>>
      BY <1>4, AppendedIsThere DEF GetReturns, GetFails, TypeOK
    <2> QED BY <1>1, <1>4, <2>1 DEF GetReturns, GetFails, Between, Faultless, netVars
  <1>5. CASE Forward \/ BridgeStarts
    BY <1>1, <1>5
       DEF Forward, BridgeStarts, Between, Faultless, readerVars, lineVars, netVars
  <1>6. CASE Environment
    BY <1>1, <1>6 DEF Environment, ServerAnswers, ServerHandlesLate, WiFiBack,
       ReaderReset, Between, Faultless, readerVars, lineVars, bridgeVars, netVars
  <1>7. CASE UNCHANGED checkVars
    BY <1>1, <1>7
       DEF checkVars, Between, Faultless, readerVars, lineVars, bridgeVars, netVars
  <1> QED BY <1>2, <1>3, <1>4, <1>5, <1>6, <1>7 DEF Next, Bridge

LEMMA BetweenAlways == Spec => []Between
  <1>1. Init => Between
    BY DEF Init, Between
  <1>2. TypeOK /\ Between /\ [Next]_checkVars => Between'
    BY BetweenStep
  <1> QED BY <1>1, <1>2, CheckTypeCorrect, PTL DEF Spec

(* Each place is left for the one before it, by one action that is enabled  *)
(* as long as the request is there.                                         *)
LEMMA TextIsShown ==
    ASSUME TypeOK, TextCame, [Next]_checkVars
    PROVE  \/ TextCame' /\ ~<<ShowAnswer>>_checkVars
           \/ Released'
  <1>1. CASE ShowAnswer
    BY <1>1 DEF ShowAnswer, Released
  <1>2. CASE WaitsOn' /\ ~ShowAnswer
    <2>1. CASE Bridge
      <3>1. \A t : Append(toReader, t) # <<>>
        BY AppendedIsThere DEF TypeOK
      <3> QED BY <1>2, <2>1, <3>1 DEF Bridge, Forward, GetReturns, GetFails, BridgeStarts,
              lineVars, TextCame
    <2>2. CASE ServerAnswers
      BY <1>2, <2>2 DEF ServerAnswers, lineVars, TextCame
    <2>3. CASE UNCHANGED <<lineVars, bridge>>
      BY <1>2, <2>3 DEF lineVars, TextCame
    <2>4. Bridge \/ ServerAnswers \/ UNCHANGED <<lineVars, bridge>>
      BY <1>2, WaitingStep DEF TextCame, Released, WaitsOn, Faultless, Unfailing
    <2> QED BY <2>1, <2>2, <2>3, <2>4
  <1> QED BY <1>1, <1>2, WaitingStep DEF TextCame

LEMMA GetIsAnswered ==
    ASSUME TypeOK, GetUnderWay, [Next]_checkVars
    PROVE  \/ GetUnderWay' /\ ~<<Bridge>>_checkVars
           \/ TextCame' \/ Released'
  <1>1. CASE Bridge /\ WaitsOn'
    <2>1. mute' \/ toReader' # <<>>
      BY <1>1, AppendedIsThere
      DEF Bridge, Forward, GetReturns, GetFails, BridgeStarts, GetUnderWay, TypeOK
    <2> QED BY <1>1, <2>1 DEF TextCame, Released
  <1>2. CASE ~Bridge /\ WaitsOn' /\ (ServerAnswers \/ UNCHANGED <<lineVars, bridge>>)
    BY <1>2 DEF ServerAnswers, GetUnderWay
  <1> QED BY <1>1, <1>2, WaitingStep DEF GetUnderWay

LEMMA CommandIsForwarded ==
    ASSUME TypeOK, CommandCame, [Next]_checkVars
    PROVE  \/ CommandCame' /\ ~<<Bridge>>_checkVars
           \/ GetUnderWay' \/ Released'
  <1>1. CASE Bridge /\ WaitsOn'
    BY <1>1 DEF Bridge, Forward, GetReturns, GetFails, BridgeStarts, CommandCame, WaitsOn,
                GetUnderWay
  <1>2. CASE ~Bridge /\ WaitsOn' /\ (ServerAnswers \/ UNCHANGED <<lineVars, bridge>>)
    BY <1>2 DEF ServerAnswers, CommandCame, lineVars
  <1> QED BY <1>1, <1>2, WaitingStep DEF CommandCame

LEMMA CommandIsKept ==
    ASSUME TypeOK, CommandEarly, [Next]_checkVars
    PROVE  \/ CommandEarly' /\ ~<<Bridge>>_checkVars
           \/ CommandCame' \/ Released'
  <1>1. CASE Bridge /\ WaitsOn'
    BY <1>1 DEF Bridge, Forward, GetReturns, GetFails, BridgeStarts, CommandEarly,
                CommandCame, lineVars
  <1>2. CASE ~Bridge /\ WaitsOn' /\ (ServerAnswers \/ UNCHANGED <<lineVars, bridge>>)
    BY <1>2 DEF ServerAnswers, CommandEarly, lineVars
  <1> QED BY <1>1, <1>2, WaitingStep DEF CommandEarly

(* While the WiFi stays and the bridge does not reset, every request is     *)
(* answered unless its GET ends with an empty body: of the fairness of the  *)
(* two loops, with ENABLED as LoopsRunOn says it is.                        *)
THEOREM AnsweredWhileOnlineAlways == FairSpec /\ []LoopsRunOn => AnsweredWhileOnline
  <1> DEFINE Running == /\ [][Next]_checkVars /\ Fairness
                        /\ []TypeOK /\ []Between /\ []LoopsRunOn
  <1>1. TypeOK /\ Between /\ ~Released =>
          TextCame \/ GetUnderWay \/ CommandCame \/ CommandEarly
    <2> SUFFICES ASSUME TypeOK, Between, ~Released
                 PROVE  TextCame \/ GetUnderWay \/ CommandCame \/ CommandEarly
      OBVIOUS
    <2>1. Unfailing /\ Faultless
      BY DEF TypeOK, Released, Faultless, Unfailing
    <2>2. WaitsOn
      BY <2>1 DEF Between, Released, WaitsOn
    <2> QED BY <2>1, <2>2
            DEF TypeOK, Between, WaitsOn, TextCame, GetUnderWay, CommandCame, CommandEarly
  <1>2. /\ LoopsRunOn /\ TextCame => ENABLED <<ShowAnswer>>_checkVars
        /\ LoopsRunOn /\ GetUnderWay => ENABLED <<Bridge>>_checkVars
        /\ LoopsRunOn /\ CommandCame => ENABLED <<Bridge>>_checkVars
        /\ LoopsRunOn /\ CommandEarly => ENABLED <<Bridge>>_checkVars
    BY DEF LoopsRunOn, TextCame, GetUnderWay, CommandCame, CommandEarly, WaitsOn
  <1>3. Running => (TextCame ~> Released)
    BY <1>2, TextIsShown, PTL DEF Fairness
  <1>4. Running => (GetUnderWay ~> Released)
    BY <1>2, <1>3, GetIsAnswered, PTL DEF Fairness
  <1>5. Running => (CommandCame ~> Released)
    BY <1>2, <1>4, CommandIsForwarded, PTL DEF Fairness
  <1>6. Running => (CommandEarly ~> Released)
    BY <1>2, <1>5, CommandIsKept, PTL DEF Fairness
  <1>7. Running => (reader = "waiting" ~> Released)
    BY <1>1, <1>3, <1>4, <1>5, <1>6, PTL
  <1>8. FairSpec /\ []LoopsRunOn => Running
    BY CheckTypeCorrect, BetweenAlways, PTL DEF FairSpec, Spec
  <1> QED BY <1>7, <1>8, PTL DEF AnsweredWhileOnline, Released

=============================================================================
