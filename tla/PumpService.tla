---------------------------- MODULE PumpService -----------------------------
(***************************************************************************)
(* What the serial protocol of PumpLink promises the code that calls       *)
(* please_on_the_pump and please_off_the_pump as long as it does not reset *)
(* itself, with no texts, polls or retries in it: one request at a time,   *)
(* the pump changes only to what is requested at that moment, and the      *)
(* caller goes on believing the old state until the pump has changed.  The *)
(* board may reset, which stops the pump unnoticed.                        *)
(*                                                                         *)
(* The first three variables are the valves being served: none, or one.    *)
(***************************************************************************)
CONSTANTS
    Wired,           \* the valves the pump can serve
    Named            \* the valves a caller may ask for

VARIABLES requested, running, believed,
          tripped           \* has the board ever reset

vars == <<requested, running, believed, tripped>>

Init ==
    /\ requested = {}
    /\ running = {}
    /\ believed = {}
    /\ tripped = FALSE

Start(v) ==
    /\ believed = requested
    /\ requested = {}
    /\ requested' = {v}
    /\ UNCHANGED <<running, believed, tripped>>

Stop ==
    /\ believed = requested
    /\ requested # {}
    /\ requested' = {}
    /\ UNCHANGED <<running, believed, tripped>>

Settle ==
    /\ running # requested
    /\ requested \subseteq Wired
    /\ running' = requested
    /\ UNCHANGED <<requested, believed, tripped>>

Confirm ==
    /\ requested \subseteq Wired
    /\ running = requested \/ (tripped /\ running = {})
    /\ believed # requested
    /\ believed' = requested
    /\ UNCHANGED <<requested, running, tripped>>

Trip ==
    /\ running' = {}
    /\ tripped' = TRUE
    /\ UNCHANGED <<requested, believed>>

Next ==
    \/ \E v \in Named : Start(v)
    \/ Stop
    \/ Settle
    \/ Confirm
    \/ Trip

Spec == Init /\ [][Next]_vars

=============================================================================
