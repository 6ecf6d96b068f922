-------------------------- MODULE TankHubRefinement -------------------------
(***************************************************************************)
(* The hub implements WaterService until it resets.                        *)
(***************************************************************************)
EXTENDS TankHub, PumpLinkRefinement

(* The wishes of the app that lie unread in some slot.                      *)
IsWish(f)   == f.kind \in {"on", "off"}
WishOf(f)   == IF f.kind = "on" THEN {f.valve} ELSE {}
WishesIn(q) == {WishOf(q[i]) : i \in {j \in 1..Len(q) : IsWish(q[j])}}

level  == [t \in Valves |-> tank[t].level]
heard  == {t \in Valves : IsConnected(t)}
wishes == UNION {WishesIn(inbox[s]) : s \in Slots}

Water == INSTANCE WaterService WITH
    Wired <- Valves, Named <- Requests, Percentages <- Levels,
    requested <- requested, running <- running,
    believed <- believed, tripped <- tripped,
    level <- level, heard <- heard, wishes <- wishes

(* However clients come, go and share slots, and however long the board     *)
(* takes and whatever its line joins: pump_operator decides on one table,   *)
(* the app is obeyed only for what it sent, and the pump serves what was    *)
(* decided, one valve at a time, until the hub is reset.                    *)
ImplementsWaterService ==
    /\ Water!WaterInit
    /\ [][hubResets' = 0 => [Water!WaterNext]_(Water!waterVars)]_allVars

=============================================================================
