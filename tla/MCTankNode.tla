----------------------------- MODULE MCTankNode -----------------------------
(* TankNode with three set-up frames: one with a name too long for its     *)
(* area, one with a height of zero, and one without the field in front and *)
(* with a height below zero; and with the question an app asks for what is *)
(* set.                                                                    *)
EXTENDS TankNode

Text(t, n)   == [text |-> t, number |-> n, long |-> FALSE]
Roof         == Text("roof", 0)
Garden       == [text |-> "cistern in the garden", number |-> 0, long |-> TRUE]
MCTank       == Text("tank", 0)
MCWords      == {"1", "0", "100", "-100", "app", "roof", "cistern in the garden", "tank"}
MCDistances  == {-50, 50}
MCFrames     ==
    {<<Text("1", 1), Garden, Text("100", 100)>>,
     <<Text("1", 1), Roof, Text("0", 0)>>,
     <<Roof, Text("-100", -100)>>,
     <<Text("app", 0)>>}
=============================================================================
