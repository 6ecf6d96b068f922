# Verification of the tank and pump programs

TLA+ modules, TLC configurations and TLAPS proofs about the Arduino and ESP8266
programs of this repository. The centre is the "tanky" system: water tanks with a WiFi
node each, a WiFi module (the hub) that decides which tank is filled, and an Arduino
that drives one pump and four valves.

## 1. Inventory

| Component | Source | State it keeps | Operations | Talks to |
|---|---|---|---|---|
| Pump board | `pump_prog_itx_tanky.ino` | relay pin, four valve pins, serial receive buffer | `loop` (read, split, switch, answer), `setup` | hub, by serial text |
| Pump hub | `websocket_pump_itx_tanky.ino` | `tankArray`, `APP`, `PumpStatus.OnValve`, `data_flag`, place in `loop` | `webSocketEvent`, `is_tanks_connected`, `pump_operator`, `on_of_from_app`, `please_on/off_the_pump`, `send_data_to_app` | pump board by serial; tanks and app by websocket |
| Websocket server | `libraries/WebSockets/src` (vendored) | client slots and their connections | `newClient`, `handleClientData`, `disconnect`, `clientIsConnected` | calls `webSocketEvent` back |
| Websocket client | `libraries/WebSockets/src` (vendored) | connection, status, heartbeat counters, times of attempts | `loop`, `clientDisconnect`, `handleHBPing`, `handleHBTimeout` | calls the node's callback; hub by websocket |
| Tank node | `websocket_clientJ_tanky.ino` | connection flag, height and name (EEPROM), last percentage, `reset_flag` | client and server events, `loop`, `check_reset_requirement` | sensor by serial, hub by websocket, phone by websocket |
| Sensor board | `water_distance.ino` | last value, repeat counter, LED | `loop`, `check_connx_status`, periodic write | tank node by serial |
| Legacy hub | `WebSocket_server_wifi_module.ino` | tank, pump and app records | `webSocketEvent` | tanks, pump, app by websocket |
| Card reader | `rfid_read_personal_data.ino` | request in progress | `uploadstatus`, `open_the_door`, `read_serial` | WiFi bridge by serial |
| WiFi bridge | `wifi_module_prog.ino` | command text | `loop`, `connect_with_server`, `extract_flag` | reader by serial, Django server by HTTP |
| Irrigation controller | `Irrigation_prog.ino` | limits (EEPROM), actuator flags | `CheckPlantUpdate`, `TempController`, `SoilController` | bridge by serial |
| Irrigation bridge | `Irrigation_Prog_WebSock.ino` | none | `loop`, `webSocketEvent` | controller by serial, server by websocket |
| WiFi provisioning | `wifi_pass_ssid_change_program.ino` | credentials (EEPROM), state of the WiFi station | `setup`, `testWifi`, `setupAP`, `/setting` handler | a browser, the router |
| Camera, bench tests | `CameraModuleEsp32_Cam`, `first_sketch`, `serial_checking`, `sketch_nov29c`, `arduino_chip_prog`, `Jsn_sr04t_testing` | none worth modelling | a loop each | - |

What is hard in it:

* *Serial lines without framing.* Commands and answers carry no number, no end mark and
  no checksum; a slow reader gets several as one text; every write is blind.
* *Retries.* The hub repeats a command until it is answered and throws answers away
  before it does, so commands are duplicated and answers are late.
* *One thread that blocks.* A pump command stops the hub's loop, from `pump_operator` or
  from inside the websocket callback, while clients go on.
* *Slot numbers as identities.* The hub knows its peers by the number of a client slot,
  which is given to somebody else as soon as it is free.
* *Peers that die.* A connection may look open for ever. The server's heartbeat is not
  enabled; in the hub only counters in `loop` notice, in the node the client's heartbeat,
  whose counters outlive the connection they count for.
* *Resets.* Every board may reset alone; nothing is handed over but EEPROM contents.

What makes each part correct: the pump runs only when the hub believes so and stands
when it believes so; at most one valve is open; every command returns; the app's number
never names another client; the pump runs only for a tank that needs water and is still
heard of; low tanks start it and full ones stop it. The hazards in `PROJECT.json` place
each of these at the line where it can go wrong.

## 2. Plan

Order: the pump first, since a wrong belief about it floods a tank; then the hub that uses
it; then the nodes and the websocket between; then check in/out, the legacy hub and the
provisioning. All of it is done:

1. `PumpController`, `PumpLink`, `PumpService`, `PumpLinkRefinement`: the serial protocol of
   the pump and what it promises, with proofs;
2. `TankHub` on top of `PumpLink`, `WaterService`, `TankHubRefinement`, with proofs;
3. `WaterReading`, `TankNode`: the other end of the hub's websocket, with proofs;
4. `WebSocketLink`: the connection between the two, with proofs;
5. `Attendance`, `CheckInOut`, `CardService`, `CheckInOutRefinement`: check in/out, from card
   to server, with proofs;
6. `LegacyHub` and `WifiProvision`, with proofs.

What could follow are proofs of the liveness properties that are only model-checked (end of
section 6), with a prover that has induction over temporal formulas and a rule for ENABLED.

## 3. Modules

### The pump

**PumpController** is the board. `toPump` and `toHub` are the two directions of the
serial line, as sequences of the texts written and not yet read. A command is a record of
its two fields; `ReadCommand` is what the two calls of `split_string` make of everything
that has arrived: joined texts such as `1,11,1` or `0,00,0` have a second field that is
neither "0" nor "1" and match no branch.

**PumpLink** adds the hub's side. `pc` is "await" inside `please_on_the_pump` or
`please_off_the_pump`; `Acked`, `NoAck` and `Resend` are one turn of the polling loop
with the read of the serial buffer, its exact comparison, and the drain and second write
after four polls. `Acked` includes the assignment of `OnValve` in the caller, which runs
at once on the same thread. Time is the hub's polls: `lag` counts the polls made while the
board has something to read, and `MaxLag` bounds it. `HubReset` and `ControllerReset` are
resets at any moment. `Requests` may be larger than `Valves`: the app may name any valve.

**PumpService** is what the callers rely on: one request at a time, the pump changes only
to what is requested at that moment or, in `Trip`, stops by itself when its board resets;
and the caller believes the request done afterwards.
**PumpLinkRefinement** maps `PumpLink` to it: `requested` is the target of the command
being awaited, `running` the open valve while the relay is on, `believed` is `OnValve`.

**TankHub** extends `PumpLink` with everything else in the hub. `phase` is the position in
`loop()`: accepting clients, reading client slot number `slot`, `is_tanks_connected` with
`pump_operator`, `send_data_to_app`. A command leaves `pc` at "await"; every action of the
loop needs `pc = "loop"`, the actions of the clients and the network do not. `conn`, `owner` and
`inbox` describe a client slot: a "lost" connection is one its peer has closed and that the
library has not looked at yet; a slot that is "open" with `owner = NoPeer` belongs to a
peer that lost power. `Freed` is `clientDisconnect` with the DISCONNECTED callback. The
counters `disconnect_count` and `data_flag` count passes of `loop` from small constants.

**WaterService** is what the owner of the tanks relies on: the pump of `PumpService`, the
last report of each tank, the tanks still heard of, and the app's wishes under way. `Look`
is a turn of `pump_operator`, at one moment and only while no request is on its way: tanks
are given up, the first low one of the others is filled, or the pump is stopped for one that
is full or silent. **TankHubRefinement** maps `TankHub` to it: `level` and `heard` are the
columns of `tankArray`, `wishes` the start and stop frames unread in any slot.

### The tank

**WaterReading** is what the node computes: `LastRead` says where `toFloat()` stops in the
joined texts (at a line end or before a sign), `Behind` puts the digits of one number behind
those of another, `Joined` does so from the first text on, `Percent` divides by the height.
`Percentages` are records: a number of hundredths, rounded down, or one of the three results a
division by zero has; a height below zero, which `toFloat()` accepts from a set-up, turns the
sign of the percentage. `IsFull` is the hub's comparison, which reads "inf" and "nan" as 0.

**TankNode** is a sensor board and a node. `toNode` holds the sensor's texts, `MaxUnread` at
most, what does not fit is lost. `node` is what the thread does next: `setup`, a pass of
`loop`, or one of the four commits of a set-up. A commit replaces the flash sector that
holds both areas; `PowerCut` inside one may lose both, which then read like a new chip
(`Factory`). A name longer than `name_len` goes on into the height's area until that is
erased. A frame is the sequence of its fields; `SetUpFrame` splits it as the code does, once
before it is looked at, so that of two fields the second is taken for both name and height.
`done` is a history variable: the last set-up no failure cut short. **MCTankNode** names
the frames.

**WebSocketLink** is the connection between a node and the hub. An action of `ClientLoop` is
one pass of `WebSocketsClient::loop()`: `NoticeLoss` (clientIsConnected), `Connect` and
`ConnectFails`, `HeaderTimeout`, and the passes of a connected client, which differ in what
the heartbeat does after one frame was read (`PingPass`, `PingFails`, `QuietPass`,
`TimeoutPass`, `HeartbeatDrops`). `clientDisconnect` calls the sketch back, which keeps
`connx_status`. `server` is the hub's end of this connection, `dead` the number of slots
held by ends whose client is gone; a hub inside a pump command (`busy`) neither accepts nor
answers. When the hub gives a tank up it disconnects the slot it has recorded for it, which
an end without a client may hold (`SlotFreed`) or this very node (`HubDisconnects`: the tank
may have fallen silent on a good connection, or the number be stale, see `hub_stale`); a
node that has been upgraded reads a close frame then (`ReadClose`). How often is left open.
`Tick` lets time pass when neither loop has anything to read (`Settled`): both loops make
thousands of passes in a second. `calm` and `spurious` are history variables.

### The legacy hub

**LegacyHub** is the hub before the present one, on the same client slots: tanks, pump and
app say hello and are then known by the number of their slot. Every text the hub sends
looks at the connection, and one that is over is cleaned up, with the callback
DISCONNECTED, in the middle of the handler. `Answer` is the end of every branch: the texts
to others, the echo, and the cleanups they cause, on the records the branch has changed.
A slot is "lost" when its peer closed it, "dead" when the peer vanished; `owner` is who
connected to it, also after that.

### WiFi provisioning

**WifiProvision** is `setup()` of the provisioning program: `testWifi` look by look, then
`setupAP`, which gives the station up, then the wait for `/setting` (`Setting`, `Save`). The
EEPROM is an array of bytes with two areas, because the question is what a text leaves of
an earlier one; `CString` reads an area, `Written` is the clearing and the two writes.
`PowerCut` inside a commit leaves the old sector, or an erased one of which any bytes have been
written (`Torn`; that a byte is written or not is an abstraction of the flash). `saved` is the
last request whose commit reached the flash, `torn` that this commit was cut: the request
before it is lost then, as there is one copy only, and the property says what may be used
instead. `lag`
bounds how long a router that is there takes to let the module in. **MCWifiProvision**
names the requests.

### Check in/out

**Attendance** holds what reader, bridge and server share: commands, the flags 3 to 10, what
the reader displays for each, and the server's table, which is *external*: it is read from
the reader's own table of answers.

**CheckInOut** is the reader (`reader`, `asked`, `lcd`), both directions of its serial line,
the bridge with its GET (`bridge`, `get`, `payload`), WiFi and server. `Forward` is the
whole of `connect_with_server` up to the GET, with the early way out when the WiFi is down.
A GET ends with the server's answer or fails, before or after the server carried it out. A
positive code says nothing of the body: it may be cut off, which the reader shows as it does
any text it does not know, or empty, and then `Serial.write` writes nothing and the reader waits
for ever (`mute`, a history variable, until the next card or a request sent with the WiFi up);
`late` counts, for each request, those the server may still get after the bridge gave up.
A reset of the reader forgets its request, one of the bridge its GET; `MaxResets` bounds
both together.

**CardService** is what a person at the reader relies on: the server carries the request out
at one moment between the card and the display, and the display shows what it said, or that
of a page cut off (`CutOff`); or the request is lost, the display says "Offline" or nothing,
and it may be carried out later, once. **CheckInOutRefinement** maps to it: a request is
"asked" while it is on the line or in an unanswered GET, "done" while the answer is in the
bridge or on the line, "lost" while neither; `told` is the display while it is shown.

**PumpLinkProofs**, **PumpRefinementProofs**, **TankHubProofs**, **TankNodeProofs**,
**WebSocketLinkProofs**, **CheckInOutProofs**, **LegacyHubProofs** and
**WifiProvisionProofs** hold the theorems. Definitions whose comment begins with "Mutant" are
deliberate mistakes: each is swapped in for the definition it follows the shape of, to see
that a property notices.

## 4. Runs

| Run | Module | What it shows |
|---|---|---|
| `link` | PumpLinkRefinement | lag up to 16 polls, two resets of the board, one of the hub, requests for a valve that does not exist: the pump is as believed (stopped, or running for one valve that exists), one valve is open at most; until the hub resets `PumpService` is implemented, and a command for a wired valve returns when the board comes to read in time |
| `link_boot` | PumpLink | *violated*: the "0,0" of `setup()` does not always stop the pump |
| `hub_safety` | TankHubRefinement | two tanks and a phone on two slots, breaks and resets: `APP.websock_num` never names somebody else's slot, the pump runs for a tank that needs it, `WaterService` is implemented until the hub resets |
| `hub_live` | TankHub | a tank and an app, levels 75, 76 and 100: `pump_operator` has its turn again and again, low tanks start the pump, full and silent tanks stop it |
| `hub_stale` | TankHub | *violated*: a tank stays recorded on a slot that was given to another client |
| `node` | MCTankNode | joined and lost readings, set-ups with a long name and with heights of zero and below, a power failure at any step: set-ups survive, no false "full" of a height from zero on, reports keep coming and full tanks are reported full, disconnected low nodes restart |
| `ws_client` | WebSocketLink | two faults among resets of either end, outages of the WiFi and pump commands, and a hub that disconnects the node any number of times: the sketch's flag is the library's status, attempts keep their interval, dead peers and silent hubs are noticed, at most one good connection is dropped in a row, and a node that can be connected stays so in the end, unless the hub throws it out again and again |
| `check_service` | CheckInOutRefinement | WiFi loss, GETs that fail or end with a cut or an empty body, late requests, a reset of either board: until the reader resets, `CardService` is implemented; a reset leaves one answer too many at most; while WiFi and bridge stay every request is answered whose GET does not end with an empty body |
| `check_offline` | CheckInOut | *violated*: without WiFi the reader waits for ever |
| `check_stale` | CheckInOut | *violated*: after a reset of the reader an old answer opens the door |
| `legacy` | LegacyHub | two tanks, a pump and an app on two slots, closing, vanishing, the hub resetting: numbers name the peer that said hello, a connected peer is forgotten by a late hello of its own only, a closed one is forgotten |
| `provision` | MCWifiProvision | names and passwords short, full and too long, two power failures, an outage of the router: the last request that reached the flash is used to the letter or, if its commit was cut, each of its texts is or shows an erased byte, and the router's own credentials connect |

Bounds. Two valves suffice for confusions between valves, since commands differ only in
being a start of some valve or the stop; one more request is the unwired valve. `MaxLag` is
16 in `link` so that several copies of a command are outstanding; the queues need no bound
of their own. In the hub two slots and at most three peers make slots scarce and reused; one
unread frame per connection lets an old frame be read after a newer one of the same tank;
`MaxBreaks` bounds connections closed or vanished. `DisconnectAfter = 1` stands for 75000
passes: a tank may be timed out after the first pass in which it was not heard, and also be
heard in time. In the node `MaxUnread = 2` gives every way two texts can join, `ResetAfter =
1` stands for 50000 passes, and one power failure meets every commit of every frame on top
of every earlier contents. At the reader a member and a stranger make the verdicts differ,
one late request per kind lets it overtake the next, and one reset is enough for an old
answer to meet a new request; the theorems hold for any number of them. At the websocket a
unit of time is about three seconds: a ping every 4 units, a pong within 1, two timeouts, an
attempt every 2, a header within 2. The order of the constants is the code's (15, 3, 5 and 5
seconds); the theorems ask for no order. With one slot and two faults an end that is gone
holds every slot while the hub is busy; disconnections by the hub are unbounded, and the
count of timeouts goes through all its 256 values with them. In `legacy` four peers compete
for two slots, and two breaks let a peer come back on a lower slot than the one its old
hello is still unread on. In `provision` areas of two bytes separate texts that are shorter,
as long and longer, a cut commit leaves every subset of the four bytes, and three looks with
a router that needs two separate success from giving up.

Why `CommandsReturn` asks for a lag below four polls in the end. The board's loop
delays a second and reads for at most another. With a board that always needs four polls the
drain before the repetition discards its answer every time and the command never returns:
three is the largest lag for which the code works, and the bound under which its authors
run it.

Why `FullTankIsReported` speaks of heights above zero. With a height of zero, from a set-up
without a number or from a chip that was never erased (its bytes 0xFF are not the "" that
stands for "nothing stored"), every percentage is infinite or no number, which the hub
reads as 0: the tank is always low. The code does not guard against it;
`HeightlessIsNeverFull` proves that it stays so.

`CHECK_DEADLOCK FALSE` stands in the `check_*` runs and in `provision` only: a reader that
waits for an answer that never comes, with all bounds used up, really stops, and so does the
provisioning, whose `loop()` blinks an LED once the module is connected.

## 5. Fairness

The boards run their loops for ever: the hub's poll (`Await`), the hub's loop (`LoopStep`),
the pump board's loop (`ReadSerial`), the sensor's and the node's (`Sensor`, `Pass`) are
weakly fair. In check in/out the reader's wait (`ShowAnswer`) and the bridge (`Bridge`) are,
the end of a GET included, because the HTTP client has a timeout. At the websocket both loops
(`ClientLoop`, `HubLoop`) and time (`Tick`) are; that TCP ever notices a dead peer, that the
WiFi comes back or that a pump command ends is not assumed. The legacy hub's `LoopStep` is,
and in the provisioning the program and the router's answer to a station that has its
credentials (`Join`). Nothing is assumed of
people, tanks, phones, servers or networks: they may fall silent at any time, and the
liveness properties of the node are stated for a connection that stays up, or stays down.

Weak fairness acts only where a loop can go on. That it can is how the loops are written: each
has a branch for whatever it finds, for texts that are joined, repeated or for nobody too. TLC
computes ENABLED when it checks the liveness properties; the theorems on liveness, whose prover
cannot, have it as a hypothesis (`LoopsRunOn`, in the provisioning `RunsOn`).

## 6. Proofs

`PumpLinkProofs` proves, for every set of valves and requests, every lag and every number
of resets:

* `TypeCorrect`, by the usual induction;
* `Inductive`: the invariant `IInv`. `StoppedIsStopped` is not inductive, it says nothing of
  the time between a command and its answer. The argument is that of the alternating bit: starts
  and stops alternate and so do "1" and "0". While a command waits, either the board has
  not carried it out, and then every answer under way belongs to the command before
  (`Asked`); or it has, and then no copy of the command before is left, because a read
  empties the line (`Done`). An accepted answer therefore excludes `Asked`.
  Resets of the board only add "or the pump was stopped since";
* from it `PumpIsAsBelievedAlways` (`StoppedIsSafe`, `RunningIsSafe` and
  `BelievesInWiredValveAlways` together), `OneOpenValveAlways` and `NoLateStartAlways`;
* `CommandsReturnAlways`: a command for a wired valve returns. The board's next read leaves
  the line empty; the polls that follow, four at most, end in a copy of the command that is
  alone on the line (`Copied`); the board reads it before the next repetition, so that its
  answer is alone too (`AnswerCame`), and the poll that finds it returns;
* `BootStopsPumpAlone`, where the finding `link_boot` ends: if no reset of the hub meets a
  command of its own unread, the "0,0" of `setup()` does stop the pump. After a reset
  `IInv` does not hold; `BootInv` keeps its alternation and says of the pump only what is
  left: when the hub believes that it stands, it does, or a lone "0,0" is unread;
* `UnwiredWaitsForEver` and `TrippedPumpStaysOff`, two things the code has no way out of: the
  start of a valve that does not exist, in a hub that has not reset, is awaited until it does
  (`Asked` is never left: `Done` needs a board that carries the command out), and a pump that a
  reset of its board has stopped stays off while `OnValve` names its valve (`Tripped`).

`PumpRefinementProofs` proves `LinkImplementsService`: until the hub resets,
every step of the protocol, resets of the board included, is a step of `PumpService` or
invisible to its caller. It needs one invariant more, `LastIsCmd`: the youngest text on the
line is the command being awaited. `LinkActs` is the half of it that speaks of the pump: what
is neither a start nor a stop of the hub is the pump settling, its confirmation, or a trip.

`TankHubProofs` proves of the hub, for any number of slots, tanks, apps and breaks:

* `HubTypeCorrect`; the frames under way are part of the type, so that a frame read from a
  slot names a valve that may be requested;
* `HubImplementsLink`: every step of the hub is one of the link's or leaves it alone, hence
  `HubKeepsLinkInvariant` and every theorem above holds of the pump the hub drives:
  `HubPumpIsSafe`; `UnwiredStopsTheHub` adds to `UnwiredWaitsForEver` that meanwhile no step
  of the hub's loop is taken;
* `RunsForAHungryTankAlways`: the invariant `Decision` says that between the decision of
  `pump_operator` and the end of the pass the command given, or the valve left open, is
  for a tank below 100 that is connected. It survives the seconds in `Await` because only
  `update_tank_data` and `is_tanks_connected` change the table, and both run on the thread
  that waits. The link's `IInv` says that the open valve is then the one decided on;
* `AppSlotIsAnAppsAlways`: it needs `SlotInv`: a slot whose peer is a tank holds reports
  only, so nobody but an app says hello, and what has no peer at all cannot send;
* `HubImplementsWaterService`: until the hub resets its every step is one of `WaterService`
  or invisible. A turn of `pump_operator` maps to `Look` (`OperateLooks`): that no request
  is under way then, and that the table it decides on is the one `is_tanks_connected` has
  just written, is why one moment is enough. Frames read, lost or thrown away with a slot
  only take wishes away (`FreedLoses`, `PoppedLoses`), so the app is obeyed in nothing it
  did not send; the link's steps map by `LinkActs`;
* `RecordedOnOwnWhileTanksStay`, where the finding `hub_stale` ends: phones and other
  strangers may come and go and the hub may give tanks up, but as long as no tank's own
  connection is lost or closed each is recorded on its own (`OwnInv`: the frames in a slot
  are of its owner, and a recorded tank owns the slot);
* `FullTankIsStoppedAlways` and `LowTankStartsPumpAlways`, from `OperatorKeepsLooking`, that
  `pump_operator` has its turn again and again: a turn that finds the tank full gives the
  command, the next turn can only come when that has returned, and then `OnValve` is
  another.

`TankNodeProofs` proves `SetUpSurvivesAlways`, for any frames, defaults and number of power
failures. The property speaks of the running node; the invariant `StoredInv` of the EEPROM:
outside a set-up it reads as the last complete one, from the write of the name on it holds
the name of the one under way, and the running node uses what it read. More theorems:

* `NodeTypeCorrect`, with `SetUpFacts`, that every stored field is a text the module can
  hold, and `BootType`, that a boot reads such fields from whatever the sector holds;
* `FullReportIsTrueAlways`: joining never makes zero or less of a distance above it
  (`ToFloatFacts`), and of a distance above zero no percentage is full (`PercentFacts`),
  whatever the height from zero on; of a height below zero every such distance is. `Joined`
  is recursive: `JoinedExists` and `JoinedSolves` show that its equations have a solution,
  which each element then satisfies. Induction over the texts is done from the least place
  where a claim would fail (`LeastElement`);
* `ReportsKeepComingAlways`: an unchanged level is written when the sensor's count has gone
  from two to zero, and a text in the line makes the next pass of the node a report;
* `FullTankIsReportedAlways`: after one report everything on the line was measured since
  the tank is full (`AllAtMark`), and from such texts a percentage is full
  (`PercentFacts`). `TankIsHeardOfAlways` is both;
* `HeightlessIsNeverFull`: a node that runs with a height of zero never reports full, across
  restarts and power failures, unless a phone sets it up (`Heightless`, with `StoredInv`).

`WebSocketLinkProofs` proves of the websocket, for any intervals, slots and faults:

* `LinkTypeCorrect`, with `SlotKept`: a client that has a slot leaves the ends that are gone
  one less than there are;
* `StatusIsReportedAlways`: it needs `EndedIsClean`, that nothing of a connection is left
  when it has ended;
* `DoesNotFloodAlways`: the invariant `Paced` says that the last attempt is as long ago as
  the failure that is waited out, which a reset of the node sets to zero too;
* `DropsAtMostOnceAlways`: after a needless drop the last ping is overdue (`Overdue`), so
  that the next connection starts with a ping, and on a connection that is calm its answer
  is under way until it is read (`Owed`).

`CheckInOutProofs` proves of check in/out, for any cards, members, late requests, outages
and resets:

* `CheckTypeCorrect` and `OneAnswerAlways`: what is under way, on the lines, in the bridge
  and in its GET, is one answer per request waited for and per reset of the reader;
* `OpensForMemberAlways`: the invariant `Honest` says, until the reader resets, that the
  line, the GET and the payload hold the reader's own request or its answer and nothing else,
  and that an answer under way is the server's word on it;
* `OpensForMemberUnlessCut`, where the finding `check_stale` ends: `Honest` also survives every
  reset of the reader that finds no command on the line and no GET under way, so that the
  door is safe however often that happens;
* `ImplementsCardServiceAlways`: with `Honest` each step maps to one of `CardService`, or is
  invisible at the reader;
* `AnsweredWhileOnlineAlways`: while the WiFi stays and the bridge does not reset a request is,
  in this order, on the line to the bridge (which may still be booting), in a GET, answered
  there, on the line back and shown (`Between`); each loop takes it one place further, unless
  the GET ends with an empty body (`mute`).

`LegacyHubProofs` proves, for any tanks, slots, levels and breaks, `LegacyTypeCorrect`,
`RoutesToItsPeerAlways` and `KnownWhileConnectedAlways`. The invariant is `Own`, that a slot
holds frames of its owner only, and `Routed`, that a recorded slot is in use and its owner's;
so two records never share a number and DISCONNECTED, which stops at the first record it
finds, finds all there is. A cleanup only ever meets lost slots, hence the action property.

`WifiProvisionProofs` proves `SavedIsUsedAlways`, for areas and texts of any length:
`CStringReads` and `WrittenIsRead` say that what is written and fits is what is read,
whatever was there before. `CStringOfTorn` and `TornIsRead` say the same after a cut: a byte of
the text, or its 0, that was not written stands in what is read, since no 0 stands before it;
so neither a shortened text nor one of an earlier request is ever read. `StoredInv` carries
it through later power failures and starts.
`ProvisionTypeCorrect` proves the types; `CStringType` needs the least byte 0 of an area,
where the text that is read from it ends. `SettingConnectsAlways` proves that the router's
credentials, once saved, connect: the commit ends in a station that is being tried, with as
many looks made as the router has taken time, so that the looks outlast it (`Joining`). It
asks for a router that lets the module in before the looks run out (`MaxJoin < MaxTries`) and
for credentials that fit their areas: otherwise the program gives up, or stores others.
`PortalNeedsAPhone` is the other side: a module in its portal has given the station up
(`GivenUp`) and stays unconnected, whatever the router does, until a phone or a power cut.

Assumed: that valves are positive numbers among the requests and that bounds are naturals
(`ValvesAssumption`, `RequestsAssumption`, `BoundsAssumption`, and those of `TankHub`);
that nobody is no card (`CardsAssumption`); that peers are different and tanks have numbers
from 1 to 4, and that there are at most ten slots, so that 10 is none
(`LegacyPeersAssumption`, `LegacyBoundsAssumption`); that requests are texts without the
byte 0 (`ProvisionAssumption`); otherwise only that bounds and intervals are naturals.
`TankNodeProofs` assumes for the types that frames are sequences of fields
(`NodeAssumption`), and for `FullReportIsTrue` and `FullTankIsReported` that a distance has at
most four digits (`DistancesAssumption`, in millimetres: an HC-SR04 reaches a few metres);
for `SetUpSurvives` nothing.

The prover derives liveness from fairness where that is a finite chain of steps, but it has
no rule for ENABLED. The theorems on liveness of the link, the node, check in/out and the
provisioning therefore have a second hypothesis, `[]LoopsRunOn` or `[]RunsOn`: that the loop's
action is ENABLED when its guards hold, which can be read off its disjuncts. The properties
themselves are checked by TLC without it. The theorems of the hub have `OperatorKeepsLooking`
as hypothesis, a property that a run checks.

Only model-checked:

* `OperatorKeepsLooking`, because a pass of the hub goes through as many slots as there are;
* liveness that counts down from a constant or empties a queue of any length, for which the
  prover would need induction over a temporal formula: `SilentTankIsNotFilled`
  (`disconnect_count`), `DisconnectedLowNodeRestarts` (`reset_flag`), `ClosedPeerIsForgotten`
  (unread frames), `DeadEndsAreLeft` and `StaysConnected` (pings, timeouts and time).

## 7. Findings

* `link_boot`: when the hub resets while a command it wrote is unread, the boot command
  joins it, the board ignores both, and the pump runs on with a hub that believes it off.
* `hub_stale`: DISCONNECTED does not clear the tank; its slot number survives the slot.
  When the count runs out the hub disconnects whichever client holds the slot now.
* `check_offline`: the reader has a text "Offline" for the answer 3, but without WiFi the
  bridge answers nothing and the reader waits for ever. (So it does after a GET with an empty
  body, which the property sets aside: no text of the repository speaks of it.)
* `check_stale`: the buffer is cleared before the countdown only. After a reset of the reader
  the answer to its old request may be taken for the answer to the next card.

For each a theorem says how far it goes, by proving the promise under the condition whose
absence the run exhibits: `BootStopsPumpAlone`, `RecordedOnOwnWhileTanksStay`,
`AnsweredWhileOnlineAlways` and `OpensForMemberUnlessCut`.

Smaller ones, met on the way and in no run: a set-up accepts a height below zero, with which
every level below the mark is reported full; the server's own 3 is shown as nothing, because
the bridge leaves the blank of the JSON in front and the reader compares without; the
reader's answer 5 displays "Already Checked In First" where its table (line 19) says "Please
Checked In first"; the comment on the percentage (`websocket_clientJ_tanky.ino:176`) says it
is the distance between water and sensor, the code computes the height of the water; a
set-up frame `name,height`, the form of the comment at line 93, sets the height as the name;
while the pump's WiFi is away a node does not leave `setup()` and cannot be set up from a
phone. The legacy hub tells the app the level of the first tank for every tank, and its
`(i+1)+":"` is an address inside a literal and not a text; it forgets a connected peer when
an old hello of it is read late; it compares the number of the tank, 1 to 4, with
`safety_height`, "15 cm far from sensor", so that its safety call goes out with every
report; and it uses a tank's number as an index without a check. The websocket client sets
`pongReceived`, `pongTimeoutCount` and `lastPing` when the sketch starts and not when a
connection does: a connection lost with a ping unanswered makes the heartbeat drop the next
one in the pass that reported it CONNECTED, which is the one drop that `DropsAtMostOnce`
allows. The provisioning's `setupAP` disconnects the station for good, so that a module that
started while the router was away waits for ever although the router is back, and its reset
comes before the answer "saved to eeprom" is sent.

## 8. Not modelled

The components marked `not_modelled` in `PROJECT.json` with the reason for each: the
irrigation controller, whose `loop()` has all its calls commented out and only delays, its
bridge, which forwards texts and keeps nothing, the camera example and the bench tests.

The libraries under `src/libraries` other than the websocket's are third-party code that
the programs merely link: drivers of infrared remotes, LEDs, card readers and sensors and
a JSON parser, whose protocols and waveforms are not these programs' logic. They are far
the most of the repository's lines. Of the websocket library TLS, Socket.IO, the
asynchronous variants, the text of the handshake and the framing are left out, and the
server's heartbeat, which neither hub enables.

Of the rest: whether a reading is the tank's (a measurement without an echo reads as full);
serial noise, such as a resetting ESP prints; brown-outs of the relay;
the wording of texts; the LED texts "5" and "-5" a node writes back to its sensor; names
longer than both EEPROM areas together; `automate_pump` and `show_tanks`, which are never
called; the way a card's number is written, its bytes without separators, so that two cards
may send the same text: a card of the model is such a text, all the server ever sees.

The hub waits for ever on a start command for a valve that is not wired (proved:
`UnwiredWaitsForEver`, `UnwiredStopsTheHub`); what is promised under fairness is therefore
promised for wired valves only.
