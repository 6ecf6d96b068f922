---------------------------- MODULE WaterService ----------------------------
(***************************************************************************)
(* What the hub promises the owner of the tanks until it resets, with no   *)
(* slots, frames, passes or serial texts in it: a table of what each tank  *)
(* reported last and which tanks are still heard of, the wishes of the app *)
(* under way, and the pump of PumpService.                                  *)
(*                                                                         *)
(* While a request is on its way to the pump nothing is heard, obeyed or   *)
(* decided.  When none is, the hub looks at the whole table at one moment: *)
(* it gives up the tanks it has not heard of, and fills the first low tank *)
(* of those it still hears, or stops for a tank that is full or silent.    *)
(***************************************************************************)
EXTENDS PumpService, Integers

CONSTANTS
    Percentages,     \* what a tank may report
    OnCondition,     \* at most this is low
    OffCondition     \* at least this is full

VARIABLES
    level,           \* the last report of each tank
    heard,           \* the tanks that have reported and not fallen silent
    wishes           \* of the app, under way: the valves to serve, none or one

table == <<level, heard>>
waterVars == <<vars, table, wishes>>

WaterInit ==
    /\ Init
    /\ level = [t \in Wired |-> 0]
    /\ heard = {}
    /\ wishes = {}

(* No request is on its way.                                                *)
Idle == believed = requested

(* Wishes may be lost with the connection they came on.                     *)
SomeLost == wishes' \subseteq wishes

Wish(w) ==
    /\ wishes' \subseteq wishes \cup {w}
    /\ UNCHANGED <<vars, table>>

Obey ==
    /\ \/ \E v \in Named : {v} \in wishes /\ Start(v)
       \/ {} \in wishes /\ Stop
    /\ SomeLost
    /\ UNCHANGED table

Hear(t, l) ==
    /\ Idle
    /\ level' = [level EXCEPT ![t] = l]
    /\ heard' = heard \cup {t}
    /\ SomeLost
    /\ UNCHANGED vars

(* Of the tanks still heard of, after a look at the table.                  *)
LowTanks == {t \in heard' : level[t] <= OnCondition}
Over(t)  == t \notin heard' \/ level[t] >= OffCondition

StartFirst == \E t \in LowTanks : (\A u \in LowTanks : t <= u) /\ Start(t)
StopOver   == (\A t \in requested : Over(t)) /\ Stop
LeaveIt ==
    /\ requested = {} => LowTanks = {}
    /\ \A t \in requested : ~Over(t)
    /\ UNCHANGED vars

Look ==
    /\ Idle
    /\ heard' \subseteq heard
    /\ StartFirst \/ StopOver \/ LeaveIt
    /\ SomeLost
    /\ UNCHANGED level

(* The pump on its own.                                                     *)
Pump == (Settle \/ Confirm \/ Trip) /\ SomeLost /\ UNCHANGED table

WaterNext ==
    \/ \E w \in {{}} \cup {{v} : v \in Named} : Wish(w)
    \/ Obey
    \/ \E t \in Wired, l \in Percentages : Hear(t, l)
    \/ Look
    \/ Pump

WaterSpec == WaterInit /\ [][WaterNext]_waterVars

=============================================================================
