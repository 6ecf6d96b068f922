------------------------- MODULE PumpLinkRefinement -------------------------
(***************************************************************************)
(* The serial protocol implements PumpService while the hub does not reset. *)
(***************************************************************************)
EXTENDS PumpLink

ValveSet(v) == IF v = default_no THEN {} ELSE {v}
Target(c)   == IF c = Off THEN {} ELSE {c.valve}

requested == IF pc = "await" THEN Target(cmd) ELSE ValveSet(OnValve)
running   == IF pump_pin THEN open ELSE {}
believed  == ValveSet(OnValve)
tripped   == ctlResets > 0

Service == INSTANCE PumpService WITH
    Wired <- Valves, Named <- Requests,
    requested <- requested, running <- running,
    believed <- believed, tripped <- tripped

(* To its caller the protocol is one request at a time, each believed done  *)
(* only after the pump has done it, whatever is repeated, joined, late or   *)
(* lost with a reset of the board, until the hub itself is reset.           *)
ImplementsService ==
    Service!Init /\ [][hubResets' = 0 => [Service!Next]_(Service!vars)]_vars

=============================================================================
