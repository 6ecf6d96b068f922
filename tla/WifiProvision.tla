---------------------------- MODULE WifiProvision ---------------------------
(***************************************************************************)
(* The program that lets a phone change a module's WiFi credentials        *)
(* (wifi_pass_ssid_change_program.ino).                                    *)
(*                                                                         *)
(* setup() reads name and password from the EEPROM and tries them for ten  *)
(* seconds.  If they fail it gives up the station, opens an access point   *)
(* and waits for a request /setting, which rewrites the EEPROM with one    *)
(* commit and resets the module.                                           *)
(*                                                                         *)
(* Name and password stand in two areas of fixed length, without a length  *)
(* of their own: a shorter one ends at a byte 0.                           *)
(***************************************************************************)
EXTENDS Integers, Sequences

CONSTANTS
    SsidLen,            \* length of the area of the name, 32
    PassLen,            \* length of the area of the password, 64
    Requests,           \* what phones ask for: [ssid, pass], texts of bytes
    Router,             \* the credentials the router takes
    MaxTries,           \* looks of testWifi at the status, 20
    MaxJoin,            \* bound on the looks a router that is there needs
    MaxCuts,            \* bound on power failures
    MaxOutages          \* bound on outages of the router

Char == 1..254
Text == Seq(Char)

ASSUME ProvisionAssumption ==
    /\ SsidLen \in Nat \ {0} /\ PassLen \in Nat \ {0}
    /\ Requests \subseteq [ssid : Text \ {<<>>}, pass : Text \ {<<>>}]
    /\ Router \in [ssid : Text, pass : Text]
    /\ MaxTries \in Nat /\ MaxJoin \in Nat /\ MaxCuts \in Nat /\ MaxOutages \in Nat

VARIABLES
    phase,              \* "connect" (testWifi), "portal", "commit", "loop"
    flash,              \* the bytes of the EEPROM's sector that are used
    used,               \* esid and epass, as given to WiFi.begin
    tries,              \* c of testWifi
    lag,                \* looks since the router could have let it in
    station,            \* the WiFi is trying, or holds, a connection
    connected,          \* WiFi.status() is WL_CONNECTED
    up,                 \* the router is there
    asked,              \* the request in /setting
    saved,              \* history: the last request whose commit reached the flash
    torn,               \* history: the power failed before that commit was done
    cuts, outages

vars == <<phase, flash, used, tries, lag, station, connected, up, asked, saved, torn,
          cuts, outages>>

Bytes == 0 .. SsidLen + PassLen - 1
NoRequest == [ssid |-> <<>>, pass |-> <<>>]

(* A sector that has been erased and not written.                           *)
Erased == [i \in Bytes |-> 255]

(* Up to the first 0, or to the end of the area.                            *)
CString(mem, from, len) ==
    LET n == CHOOSE k \in 0..len :
               /\ \A j \in 0..(k - 1) : mem[from + j] # 0
               /\ k < len => mem[from + k] = 0
    IN  [i \in 1..n |-> mem[from + i - 1]]

Credentials(mem) == [ssid |-> CString(mem, 0, SsidLen),
                     pass |-> CString(mem, SsidLen, PassLen)]

(* Mutant: the old bytes are not cleared.                                   *)
WrittenOver(mem, r) ==
    [i \in Bytes |->
        IF i - SsidLen + 1 \in 1..Len(r.pass) THEN r.pass[i - SsidLen + 1]
        ELSE IF i + 1 \in 1..Len(r.ssid) THEN r.ssid[i + 1] ELSE mem[i]]

(* All is cleared, then the name is written, then the password, over what   *)
(* of the name does not fit its area.                                       *)
Written(mem, r) ==
    [i \in Bytes |->
        IF i - SsidLen + 1 \in 1..Len(r.pass) THEN r.pass[i - SsidLen + 1]
        ELSE IF i + 1 \in 1..Len(r.ssid) THEN r.ssid[i + 1] ELSE 0]

Init ==
    /\ phase = "connect"
    /\ flash = Erased
    /\ used = Credentials(Erased)
    /\ tries = 0 /\ lag = 0
    /\ station = TRUE /\ connected = FALSE
    /\ up \in BOOLEAN
    /\ asked = NoRequest /\ saved = NoRequest /\ torn = FALSE
    /\ cuts = 0 /\ outages = 0

(* setup() on the flash as it is now.                                       *)
Boot ==
    /\ phase' = "connect"
    /\ used' = Credentials(flash')
    /\ tries' = 0 /\ lag' = 0
    /\ station' = TRUE /\ connected' = FALSE
    /\ asked' = NoRequest

-----------------------------------------------------------------------------
CanJoin == station /\ ~connected /\ up /\ used = Router

(* Mutants: the look at the status is not repeated; it is, once too often.  *)
GivesUpAtOnce == tries >= 0
GivesUpLate == tries > MaxTries

GivesUp == tries >= MaxTries

(* One turn of the loop of testWifi.                                        *)
LookAgain ==
    /\ phase = "connect" /\ ~connected /\ ~GivesUp
    /\ CanJoin => lag < MaxJoin
    /\ lag' = IF CanJoin THEN lag + 1 ELSE 0
    /\ tries' = tries + 1
    /\ UNCHANGED <<phase, flash, used, station, connected, up, asked, saved, torn, cuts, outages>>

Succeeds ==
    /\ phase = "connect" /\ connected /\ ~GivesUp
    /\ phase' = "loop"
    /\ UNCHANGED <<flash, used, tries, lag, station, connected, up, asked, saved, torn,
                   cuts, outages>>

(* setupAP disconnects the station, whatever its state is by then.          *)
setupAP ==
    /\ phase = "connect" /\ GivesUp
    /\ phase' = "portal"
    /\ station' = FALSE /\ connected' = FALSE /\ lag' = 0
    /\ UNCHANGED <<flash, used, tries, up, asked, saved, torn, cuts, outages>>

(* /setting with both fields; without one it changes nothing.               *)
Setting ==
    /\ phase = "portal"
    /\ asked' \in Requests
    /\ phase' = "commit"
    /\ UNCHANGED <<flash, used, tries, lag, station, connected, up, saved, torn, cuts, outages>>

(* Mutant: the commit is forgotten.                                         *)
SaveInRamOnly ==
    /\ phase = "commit"
    /\ flash' = flash
    /\ saved' = asked /\ torn' = FALSE
    /\ Boot
    /\ UNCHANGED <<up, cuts, outages>>

(* EEPROM.commit and ESP.reset.                                             *)
Save ==
    /\ phase = "commit"
    /\ flash' = Written(flash, asked)
    /\ saved' = asked /\ torn' = FALSE
    /\ Boot
    /\ UNCHANGED <<up, cuts, outages>>

-----------------------------------------------------------------------------
(* Outside.                                                                 *)

Join ==
    /\ CanJoin
    /\ connected' = TRUE /\ lag' = 0
    /\ UNCHANGED <<phase, flash, used, tries, station, up, asked, saved, torn, cuts, outages>>

(* What a cut commit leaves: the sector was erased, and only the bytes of   *)
(* done were written before the power failed, whichever they are.           *)
Torn(new, done) == [i \in Bytes |-> IF i \in done THEN new[i] ELSE 255]

(* Power fails.  A commit that reached the flash has taken the place of     *)
(* what was saved before, however little of it was written.                 *)
PowerCut ==
    /\ cuts < MaxCuts
    /\ cuts' = cuts + 1
    /\ \/ UNCHANGED <<flash, saved, torn>>
       \/ /\ phase = "commit"
          /\ saved' = asked
          /\ \E done \in SUBSET Bytes :
                /\ flash' = Torn(Written(flash, asked), done)
                /\ torn' = (done # Bytes)
    /\ Boot
    /\ UNCHANGED <<up, outages>>

RouterDown ==
    /\ up /\ outages < MaxOutages
    /\ outages' = outages + 1
    /\ up' = FALSE /\ connected' = FALSE /\ lag' = 0
    /\ UNCHANGED <<phase, flash, used, tries, station, asked, saved, torn, cuts>>

RouterUp ==
    /\ ~up
    /\ up' = TRUE
    /\ UNCHANGED <<phase, flash, used, tries, lag, station, connected, asked, saved, torn,
                   cuts, outages>>

Program == LookAgain \/ Succeeds \/ setupAP \/ Save

Next == Program \/ Setting \/ Join \/ PowerCut \/ RouterDown \/ RouterUp

(* The program runs on, and a router that is there lets a station in that   *)
(* has its credentials.  Nobody need ever send a request.                   *)
Spec == Init /\ [][Next]_vars /\ WF_vars(Program) /\ WF_vars(Join)

-----------------------------------------------------------------------------
(* Every variable has its type.                                             *)
TypeOK ==
    /\ phase \in {"connect", "portal", "commit", "loop"}
    /\ flash \in [Bytes -> 0..255]
    /\ used.ssid \in Seq(1..255) /\ used.pass \in Seq(1..255)
    /\ tries \in 0..MaxTries
    /\ lag \in 0..MaxJoin
    /\ station \in BOOLEAN /\ connected \in BOOLEAN /\ up \in BOOLEAN
    /\ asked \in Requests \cup {NoRequest}
    /\ saved \in Requests \cup {NoRequest} /\ torn \in BOOLEAN
    /\ cuts \in 0..MaxCuts /\ outages \in 0..MaxOutages

Fits(r) == Len(r.ssid) <= SsidLen /\ Len(r.pass) <= PassLen

ErasedIn(t) == \E i \in DOMAIN t : t[i] = 255

(* Whatever was stored before, longer or shorter: the module uses the name  *)
(* and the password of one request, the last whose commit reached the       *)
(* flash, to the letter.  If the power failed within that commit the        *)
(* request before it is lost as well, but a text that is not the new one    *)
(* shows it by an erased byte: no cut makes a shorter name of it, or puts   *)
(* the password of one request to the name of another.                      *)
SavedIsUsed ==
    saved # NoRequest /\ Fits(saved) =>
        /\ used.ssid = saved.ssid \/ (torn /\ ErasedIn(used.ssid))
        /\ used.pass = saved.pass \/ (torn /\ ErasedIn(used.pass))

(* What fairness acts on: testWifi and the commit can take their next step, *)
(* and the router can let in the station it has to.  The hypothesis of the  *)
(* proof of SettingConnects.                                                *)
RunsOn ==
    /\ phase = "commit" \/ (phase = "connect" /\ (CanJoin => lag < MaxJoin))
         => ENABLED <<Program>>_vars
    /\ CanJoin => ENABLED <<Join>>_vars

(* A request with the credentials of the router brings the module onto the  *)
(* WiFi, unless the router goes down or the power fails meanwhile.          *)
SettingConnects ==
    \A c \in 0..MaxCuts :
        phase = "commit" /\ asked = Router /\ cuts = c
            ~> connected \/ ~up \/ cuts # c

=============================================================================
