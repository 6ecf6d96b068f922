----------------------------- MODULE WaterReading ---------------------------
(***************************************************************************)
(* What the tank node makes of the sensor's texts                          *)
(* (websocket_clientJ_tanky.ino): readString() joins all the texts on the  *)
(* line, toFloat() reads a number from their front, and the height of the  *)
(* tank turns that distance into a percentage of water.                    *)
(***************************************************************************)
EXTENDS Integers, Sequences, FiniteSetsExt

On_level  == 75
Off_level == 100

\* A text of the sensor: a distance in millimetres, with or without a line end.
Reading(distance, eol) == [distance |-> distance, eol |-> eol]

\* The number after which toFloat() stops: the first whose text ends the line
\* or is followed by a sign.
LastRead(texts) ==
    Min({i \in DOMAIN texts :
            i = Len(texts) \/ texts[i].eol \/ texts[i + 1].distance < 0})

\* The number written as the digits of m behind those of n.
Shift(m) == Min({p \in {10, 100, 1000, 10000} : p > m})
Behind(n, m) == IF n < 0 THEN n * Shift(m) - m ELSE n * Shift(m) + m

\* The numbers that the first texts of the line make together.
Joined(texts) ==
    LET number[i \in DOMAIN texts] ==
            IF i = 1 THEN texts[1].distance ELSE Behind(number[i - 1], texts[i].distance)
    IN  number

toFloat(texts) == Joined(texts)[LastRead(texts)]

\* A percentage is a number, in hundredths, or what floating point makes of a
\* division by a height of 0.  A height that was set below 0 turns the sign.
Hundredths(n) == [kind |-> "number", hundredths |-> n]
Infinite      == [kind |-> "inf", hundredths |-> 0]
MinusInfinite == [kind |-> "-inf", hundredths |-> 0]
NotANumber    == [kind |-> "nan", hundredths |-> 0]
Percentages   == [kind : {"number", "inf", "-inf", "nan"}, hundredths : Int]

DivideBy(water_height, tank_height) ==
    IF tank_height > 0 THEN Hundredths((water_height * 10000) \div tank_height)
    ELSE IF tank_height < 0 THEN Hundredths((-water_height * 10000) \div (-tank_height))
    ELSE IF water_height > 0 THEN Infinite
    ELSE IF water_height < 0 THEN MinusInfinite
    ELSE NotANumber

\* Mutant: the distance in percent, as the comment on this line has it.
PercentOfDistance(tank_height, distance) == DivideBy(distance, tank_height)

Percent(tank_height, distance) == DivideBy(tank_height - distance, tank_height)

\* percent <= On_level in the node; false of NotANumber.
IsLow(percent) ==
    \/ percent.kind = "number" /\ percent.hundredths <= On_level * 100
    \/ percent.kind = "-inf"

\* level >= OffCondition in the hub, whose toInt() makes 0 of "inf" and "nan".
IsFull(percent) == percent.kind = "number" /\ percent.hundredths >= Off_level * 100
=============================================================================
