------------------------------ MODULE CheckInOut ----------------------------
(***************************************************************************)
(* Check in/out: the card reader with its buttons, display and door relay, *)
(* the WiFi bridge (wifi_module_prog.ino) and the HTTP exchange with the   *)
(* server.                                                                 *)
(*                                                                         *)
(* Reader and bridge each run one thread.  The reader sends one command    *)
(* and waits for any text; the bridge turns the texts it has into one GET  *)
(* and writes back what comes.  Neither numbers its texts, and the reader  *)
(* never gives up.                                                         *)
(***************************************************************************)
EXTENDS Attendance, Sequences

CONSTANTS
    MaxLate,            \* bound on requests of one kind the server still holds
    MaxOutages,         \* bound on losses of the WiFi
    MaxResets           \* bound on resets of reader and bridge

ASSUME CheckBoundsAssumption ==
    /\ MaxLate \in Nat
    /\ MaxOutages \in Nat
    /\ MaxResets \in Nat

VARIABLES
    reader,             \* where the reader's thread is
    asked,              \* the button and the card of the request under way
    lcd,                \* the display
    toBridge,           \* commands written, not yet read by the bridge
    toReader,           \* texts written, not yet read by the reader
    bridge,             \* "boot", "idle", or the state of its GET
    get,                \* the request of that GET
    payload,            \* the server's answer to it
    late,               \* requests given up by the bridge and still to come to the server
    attendance,         \* the server's table
    mute,               \* history: since the card was laid, the last GET to end had no
                        \* text to write
    online,             \* WiFi.status() == WL_CONNECTED
    outages, readerResets, bridgeResets

readerVars == <<reader, asked, lcd>>
lineVars   == <<toBridge, toReader>>
bridgeVars == <<bridge, get, payload, mute>>
serverVars == <<late, attendance>>
netVars    == <<online, outages>>
resetVars  == <<readerResets, bridgeResets>>
checkVars  == <<readerVars, lineVars, bridgeVars, serverVars, netVars, resetVars>>

NoRequest == [command |-> open_door, nfc |-> Nobody]

Init ==
    /\ reader = "idle"
    /\ asked = NoRequest
    /\ lcd = "Press button"
    /\ toBridge = <<>>
    /\ toReader = <<>>
    /\ bridge = "boot"
    /\ get = NoRequest
    /\ payload = ErrorPage
    /\ late = [r \in Requests |-> 0]
    /\ attendance = NobodyCame
    /\ mute = FALSE
    /\ online = TRUE
    /\ outages = 0
    /\ readerResets = 0
    /\ bridgeResets = 0

-----------------------------------------------------------------------------
(* The reader.                                                              *)

(* loop(): a button is pressed; what has come on the line is thrown away,   *)
(* and the display counts to three.                                         *)
PressButton(command) ==
    /\ reader = "idle"
    /\ reader' = "countdown"
    /\ asked' = [command |-> command, nfc |-> Nobody]
    /\ lcd' = "Place your card:"
    /\ toReader' = <<>>
    /\ UNCHANGED <<toBridge, bridgeVars, serverVars, netVars, resetVars>>

(* No card, or one that cannot be read.                                     *)
NoCard ==
    /\ reader = "countdown"
    /\ reader' = "idle"
    /\ asked' = NoRequest
    /\ lcd' = "Press button"
    /\ UNCHANGED <<lineVars, bridgeVars, serverVars, netVars, resetVars>>

PlaceCard(card) ==
    /\ reader = "countdown"
    /\ reader' = "waiting"
    /\ asked' = [asked EXCEPT !.nfc = card]
    /\ lcd' = "Please wait..."
    /\ toBridge' = Append(toBridge, asked')
    /\ mute' = FALSE
    /\ UNCHANGED <<toReader, bridge, get, payload, serverVars, netVars, resetVars>>

(* read_serial: everything that has come is one text.                       *)
TextRead == IF Len(toReader) = 1 THEN Head(toReader) ELSE ErrorPage

(* Mutant: read_serial gives up.                                            *)
ShowAnswerOrGiveUp ==
    /\ reader = "waiting"
    /\ reader' = "showing"
    /\ lcd' = IF toReader = <<>> THEN "" ELSE Display(asked.command, TextRead)
    /\ toReader' = <<>>
    /\ UNCHANGED <<asked, toBridge, bridgeVars, serverVars, netVars, resetVars>>

ShowAnswer ==
    /\ reader = "waiting"
    /\ toReader # <<>>
    /\ reader' = "showing"
    /\ lcd' = Display(asked.command, TextRead)
    /\ toReader' = <<>>
    /\ UNCHANGED <<asked, toBridge, bridgeVars, serverVars, netVars, resetVars>>

BackToButtons ==
    /\ reader = "showing"
    /\ reader' = "idle"
    /\ asked' = NoRequest
    /\ lcd' = "Press button"
    /\ UNCHANGED <<lineVars, bridgeVars, serverVars, netVars, resetVars>>

MayReset == readerResets + bridgeResets < MaxResets

ReaderReset ==
    /\ MayReset
    /\ readerResets' = readerResets + 1
    /\ reader' = "idle"
    /\ asked' = NoRequest
    /\ lcd' = "Press button"
    /\ toReader' = <<>>
    /\ UNCHANGED <<toBridge, bridgeVars, serverVars, netVars, bridgeResets>>

-----------------------------------------------------------------------------
(* The bridge.                                                              *)

(* Mutant: extracted once only.                                             *)
ReadCommandsOnce == [command |-> Head(toBridge).command, nfc |-> Head(toBridge).command]

(* extract_command, twice: of several commands read as one text the first   *)
(* command is left, with a number made of the first card's and what follows.*)
ReadCommands ==
    IF Len(toBridge) = 1 THEN Head(toBridge)
    ELSE [command |-> Head(toBridge).command, nfc |-> Nobody]

(* connect_with_server.  Offline, nothing is done and nothing is answered.  *)
Forward ==
    /\ bridge = "idle" /\ toBridge # <<>>
    /\ toBridge' = <<>>
    /\ IF online THEN bridge' = "sent" /\ get' = ReadCommands /\ mute' = FALSE
                 ELSE UNCHANGED <<bridge, get, mute>>
    /\ UNCHANGED <<readerVars, toReader, payload, serverVars, netVars, resetVars>>

(* get and payload live as long as the call of connect_with_server.         *)
GetEnds == get' = NoRequest /\ payload' = ErrorPage

(* http.GET() gave a code: extract_flag of the body is written.  The code   *)
(* says nothing of the body: it may be whole, be cut off (which leaves a    *)
(* text the reader does not know), or be empty, and then nothing is written.*)
GetReturns ==
    /\ bridge = "answered"
    /\ bridge' = "idle"
    /\ \/ \E text \in {payload, ErrorPage} : toReader' = Append(toReader, text) /\ UNCHANGED mute
       \/ mute' = TRUE /\ UNCHANGED toReader
    /\ GetEnds
    /\ UNCHANGED <<readerVars, toBridge, serverVars, netVars, resetVars>>

(* A request that is not handled yet may still be on its way.               *)
Abandoned ==
    \/ UNCHANGED late
    \/ /\ bridge = "sent"
       /\ late[get] < MaxLate
       /\ late' = [late EXCEPT ![get] = @ + 1]

(* Mutants: a failed GET is not reported, or it is reported and repeated.   *)
GetFailsSilently ==
    /\ bridge \in {"sent", "answered"}
    /\ bridge' = "idle"
    /\ Abandoned
    /\ GetEnds
    /\ UNCHANGED <<readerVars, lineVars, mute, attendance, netVars, resetVars>>

GetFailsAndRetries ==
    /\ bridge \in {"sent", "answered"}
    /\ bridge' = "sent"
    /\ toReader' = Append(toReader, SomethingWentWrong)
    /\ Abandoned
    /\ payload' = ErrorPage
    /\ UNCHANGED <<readerVars, toBridge, get, mute, attendance, netVars, resetVars>>

(* http.GET() failed, before or after the server got the request.           *)
GetFails ==
    /\ bridge \in {"sent", "answered"}
    /\ bridge' = "idle"
    /\ toReader' = Append(toReader, SomethingWentWrong)
    /\ Abandoned
    /\ GetEnds
    /\ UNCHANGED <<readerVars, toBridge, mute, attendance, netVars, resetVars>>

(* setup() waits for the WiFi, then the loop runs.                          *)
BridgeStarts ==
    /\ bridge = "boot" /\ online
    /\ bridge' = "idle"
    /\ UNCHANGED <<readerVars, lineVars, get, payload, mute, serverVars, netVars, resetVars>>

BridgeReset ==
    /\ MayReset
    /\ bridgeResets' = bridgeResets + 1
    /\ bridge' = "boot"
    /\ toBridge' = <<>>
    /\ Abandoned
    /\ GetEnds
    /\ UNCHANGED <<readerVars, toReader, mute, attendance, netVars, readerResets>>

-----------------------------------------------------------------------------
(* The server and the network.                                              *)

(* The server does what is asked and says so, or fails and does nothing.    *)
ServerAnswers ==
    /\ bridge = "sent"
    /\ bridge' = "answered"
    /\ \/ /\ payload' = FromServer(Verdict(attendance, get))
          /\ attendance' = Entered(attendance, get)
       \/ /\ payload' \in {FromServer(3), ErrorPage}
          /\ UNCHANGED attendance
    /\ UNCHANGED <<readerVars, lineVars, get, mute, late, netVars, resetVars>>

ServerHandlesLate(r) ==
    /\ late[r] > 0
    /\ late' = [late EXCEPT ![r] = @ - 1]
    /\ attendance' = Entered(attendance, r)
    /\ UNCHANGED <<readerVars, lineVars, bridgeVars, netVars, resetVars>>

WiFiLost ==
    /\ online /\ outages < MaxOutages
    /\ online' = FALSE
    /\ outages' = outages + 1
    /\ UNCHANGED <<readerVars, lineVars, bridgeVars, serverVars, resetVars>>

WiFiBack ==
    /\ ~online
    /\ online' = TRUE
    /\ UNCHANGED <<readerVars, lineVars, bridgeVars, serverVars, outages, resetVars>>

-----------------------------------------------------------------------------
Reader ==
    \/ \E command \in Commands : PressButton(command)
    \/ NoCard
    \/ \E card \in Cards : PlaceCard(card)
    \/ ShowAnswer
    \/ BackToButtons

Bridge == Forward \/ GetReturns \/ GetFails \/ BridgeStarts

Environment ==
    \/ ServerAnswers
    \/ \E r \in Requests : ServerHandlesLate(r)
    \/ WiFiLost
    \/ WiFiBack
    \/ ReaderReset
    \/ BridgeReset

Next == Reader \/ Bridge \/ Environment

Spec == Init /\ [][Next]_checkVars

(* Both boards run their loops, and http.GET() has a timeout: a GET ends,   *)
(* whatever the server does.  Nothing is assumed of people, of the server   *)
(* or of the network.                                                       *)
Fairness == WF_checkVars(ShowAnswer) /\ WF_checkVars(Bridge)

FairSpec == Spec /\ Fairness

-----------------------------------------------------------------------------
(* Every variable has its type; a line holds whole commands and texts.      *)
TypeOK ==
    /\ reader \in {"idle", "countdown", "waiting", "showing"}
    /\ asked \in Requests
    /\ lcd \in Displays
    /\ toBridge \in Seq(Requests)
    /\ toReader \in Seq(Texts)
    /\ bridge \in {"boot", "idle", "sent", "answered"}
    /\ get \in Requests
    /\ payload \in Answers
    /\ late \in [Requests -> 0..MaxLate]
    /\ attendance \in [Members -> {"none", "in", "out"}]
    /\ mute \in BOOLEAN
    /\ online \in BOOLEAN
    /\ outages \in 0..MaxOutages
    /\ readerResets \in Nat /\ bridgeResets \in Nat
    /\ readerResets + bridgeResets <= MaxResets

(* open_the_door, line 219: "when nfc num authentic".  The relay is         *)
(* switched only for a card the server knows.                               *)
OpensForMember == lcd = "Door Open" => asked.nfc \in Members

(* It is, as long as the reader has not reset, whatever else fails.         *)
OpensForMemberUnreset == readerResets = 0 => OpensForMember

(* However often the reader resets, each request is answered once at most:  *)
(* what is under way between reader and server, commands, GET and texts, is *)
(* the request the reader waits for and one for each of its resets.         *)
Outstanding ==
    Len(toBridge) + Len(toReader) + (IF bridge \in {"sent", "answered"} THEN 1 ELSE 0)
OneAnswerPerRequest ==
    Outstanding <= readerResets + (IF reader = "waiting" THEN 1 ELSE 0)

(* The hypothesis of the theorem on AnsweredWhileOnline: the reader takes   *)
(* whatever has come for its request, and the bridge has a branch for       *)
(* whatever commands it finds on the line, and for a GET at each stage.     *)
LoopsRunOn ==
    /\ reader = "waiting" /\ toReader # <<>> => ENABLED <<ShowAnswer>>_checkVars
    /\ \/ bridge \in {"sent", "answered"}
       \/ bridge = "idle" /\ toBridge # <<>>
       \/ bridge = "boot" /\ online
       => ENABLED <<Bridge>>_checkVars

(* As long as the WiFi stays and the bridge does not reset, every request   *)
(* is answered, or its GET ended with an empty body, however slow or silent *)
(* the server is.  (With an empty body the reader waits for ever.)          *)
AnsweredWhileOnline ==
    reader = "waiting" ~> reader # "waiting" \/ outages > 0 \/ bridgeResets > 0 \/ mute

(* Lines 17 and 27 of the reader and line 84 of the bridge: what goes wrong *)
(* is "3", "Offline".  Once the bridge has started, every request is        *)
(* answered, apart from empty bodies: nobody waits for ever because there   *)
(* is no WiFi.                                                              *)
EveryRequestIsAnswered ==
    reader = "waiting" /\ bridge # "boot" ~> reader # "waiting" \/ mute

=============================================================================
