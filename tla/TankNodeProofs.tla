--------------------------- MODULE TankNodeProofs ---------------------------
(***************************************************************************)
(* A set-up survives, for any frames, defaults and number of power cuts;   *)
(* and a report that says full is true, however many texts were joined in  *)
(* it.  What toFloat makes of joined texts is a recursion over them; its   *)
(* facts are proved from the least place where they would fail.            *)
(***************************************************************************)
EXTENDS TankNode, WellFoundedInduction, TLAPS

-----------------------------------------------------------------------------
(* The texts of the sensor.                                                 *)

Texts == Seq([distance : Distances, eol : BOOLEAN]) \ {<<>>}

LEMMA DistanceFacts == ASSUME NEW d \in Distances PROVE d \in Int /\ d <= 9999
BY DistancesAssumption

\* A set of naturals has a least element.
LEMMA LeastElement ==
    ASSUME NEW T, T \subseteq Nat, T # {}
    PROVE  \E x \in T : \A y \in T : x <= y
<1>1. PICK x \in T : \A y \in T : ~(<<y, x>> \in OpToRel(<, Nat))
  BY WFMin, NatLessThanWellFounded
<1>2. \A y \in T : ~(y < x)
  BY <1>1 DEF OpToRel
<1>. QED  BY <1>2

LEMMA MinFacts ==
    ASSUME NEW T, T \subseteq Nat, T # {}
    PROVE  Min(T) \in T /\ \A y \in T : Min(T) <= y
BY LeastElement DEF Min

LEMMA TextFacts ==
    ASSUME NEW t \in Texts
    PROVE  /\ Len(t) \in Nat \ {0}
           /\ DOMAIN t = 1..Len(t)
           /\ Head(t) = t[1]
           /\ \A i \in 1..Len(t) : t[i].distance \in Distances
<1>1. t \in Seq([distance : Distances, eol : BOOLEAN]) /\ t # <<>>
  BY DEF Texts
<1>2. /\ Len(t) \in Nat \ {0}
      /\ DOMAIN t = 1..Len(t)
      /\ Head(t) = t[1]
  BY <1>1
<1>3. ASSUME NEW i \in 1..Len(t) PROVE t[i].distance \in Distances
  <2>. DEFINE R == [distance : Distances, eol : BOOLEAN]
  <2>1. t \in Seq(R) /\ i \in 1..Len(t)
    BY <1>1
  <2>2. t[i] \in R
    <3>. HIDE DEF R
    <3>. QED  BY <2>1
  <2>. QED  BY <2>2
<1>. QED  BY <1>2, <1>3

\* toFloat stops at one of the texts, and those it went on to have no sign.
LEMMA LastReadFacts ==
    ASSUME NEW t \in Texts
    PROVE  /\ LastRead(t) \in 1..Len(t)
           /\ \A i \in 2..LastRead(t) : t[i].distance >= 0
<1>. DEFINE Stops == {i \in DOMAIN t : i = Len(t) \/ t[i].eol \/ t[i + 1].distance < 0}
<1>1. Len(t) \in Stops /\ Stops \subseteq Nat /\ Stops \subseteq 1..Len(t)
  BY TextFacts
<1>2. LastRead(t) \in Stops /\ \A y \in Stops : LastRead(t) <= y
  BY <1>1, MinFacts DEF LastRead
<1>3. ASSUME NEW i \in 2..LastRead(t) PROVE t[i].distance >= 0
  <2>1. LastRead(t) \in Nat /\ LastRead(t) <= Len(t) /\ Len(t) \in Nat
    BY <1>1, <1>2, TextFacts
  <2>2. i - 1 \in 1..Len(t) /\ (i - 1) + 1 = i /\ i \in 1..Len(t) /\ ~(LastRead(t) <= i - 1)
    BY <2>1
  <2>3. i - 1 \notin Stops
    BY <1>2, <2>2
  <2>4. ~(t[(i - 1) + 1].distance < 0)
    BY <2>2, <2>3, TextFacts
  <2>. QED  BY <2>2, <2>4, TextFacts, DistanceFacts
<1>. QED  BY <1>1, <1>2, <1>3

LEMMA ShiftFacts ==
    ASSUME NEW m \in Int, m <= 9999
    PROVE  Shift(m) \in {10, 100, 1000, 10000}
<1>. DEFINE S == {p \in {10, 100, 1000, 10000} : p > m}
<1>1. 10000 \in S /\ S \subseteq Nat
  OBVIOUS
<1>. QED  BY <1>1, MinFacts DEF Shift

LEMMA BehindFacts ==
    ASSUME NEW n \in Int, NEW m \in Int, m <= 9999
    PROVE  /\ Behind(n, m) \in Int
           /\ n > 0 /\ m >= 0 => Behind(n, m) > 0
BY ShiftFacts, SMT DEF Behind

\* The recursion of Joined has a solution on every front part of the texts.
Turn(t, f, i) == IF i = 1 THEN t[1].distance ELSE Behind(f[i - 1], t[i].distance)
Solves(t, f, n) == f = [i \in 1..n |-> Turn(t, f, i)]

LEMMA JoinedExists ==
    ASSUME NEW t \in Texts
    PROVE  \E f : Solves(t, f, Len(t))
<1>. DEFINE Bad == {n \in Nat : ~\E f : Solves(t, f, n)}
<1>1. SUFFICES ASSUME Bad # {} PROVE FALSE
  BY TextFacts
<1>2. PICK n \in Bad : \A k \in Bad : n <= k
  BY <1>1, LeastElement
<1>3. CASE n = 0
  <2>1. Solves(t, [i \in 1..0 |-> 0], 0)
    BY DEF Solves
  <2>. QED  BY <1>2, <1>3, <2>1
<1>4. CASE n # 0
  <2>1. n - 1 \in Nat /\ n \in Nat /\ n - 1 \notin Bad
    BY <1>2, <1>4
  <2>2. PICK f : Solves(t, f, n - 1)
    BY <2>1
  <2>. DEFINE g == [i \in 1..n |-> Turn(t, f, i)]
  <2>3. ASSUME NEW i \in 1..n, i # 1 PROVE g[i - 1] = f[i - 1]
    <3>1. i - 1 \in 1..(n - 1) /\ i - 1 \in 1..n
      BY <2>1, <2>3
    <3>2. f[i - 1] = Turn(t, f, i - 1)
      BY <2>2, <3>1 DEF Solves
    <3>. QED  BY <3>1, <3>2
  <2>4. ASSUME NEW i \in 1..n PROVE Turn(t, f, i) = Turn(t, g, i)
    BY <2>3 DEF Turn
  <2>5. Solves(t, g, n)
    <3>1. g = [i \in 1..n |-> Turn(t, g, i)]
      BY <2>4
    <3>. QED  BY <3>1 DEF Solves
  <2>. QED  BY <1>2, <2>5
<1>. QED  BY <1>3, <1>4

LEMMA JoinedSolves ==
    ASSUME NEW t \in Texts
    PROVE  \A i \in 1..Len(t) : Joined(t)[i] = Turn(t, Joined(t), i)
<1>1. Joined(t) = CHOOSE f : Solves(t, f, Len(t))
  BY TextFacts DEF Joined, Solves, Turn
<1>2. Solves(t, Joined(t), Len(t))
  BY <1>1, JoinedExists
<1>. QED  BY <1>2 DEF Solves

\* The number read is one, and joining never makes a distance of zero or less
\* out of one above.
LEMMA ToFloatFacts ==
    ASSUME NEW t \in Texts
    PROVE  /\ toFloat(t) \in Int
           /\ Head(t).distance > 0 => toFloat(t) > 0
<1>. DEFINE last == LastRead(t)
            Good(i) == /\ Joined(t)[i] \in Int
                       /\ Head(t).distance > 0 => Joined(t)[i] > 0
            Bad == {i \in 1..last : ~Good(i)}
<1>0. last \in 1..Len(t) /\ Len(t) \in Nat /\ Bad \subseteq Nat /\ last \in 1..last
  BY LastReadFacts, TextFacts
<1>1. SUFFICES ASSUME Bad # {} PROVE FALSE
  BY <1>0 DEF toFloat
<1>2. PICK i \in Bad : \A k \in Bad : i <= k
  BY <1>0, <1>1, LeastElement
<1>3. i \in 1..last /\ i \in 1..Len(t) /\ ~Good(i) /\ t[i].distance \in Distances
  BY <1>0, <1>2, TextFacts
<1>4. Joined(t)[i] = Turn(t, Joined(t), i)
  BY <1>3, JoinedSolves
<1>5. CASE i = 1
  BY <1>3, <1>4, <1>5, TextFacts, DistanceFacts DEF Turn
<1>6. CASE i # 1
  <2>1. i - 1 \in 1..last /\ i \in 2..last /\ ~(i <= i - 1)
    BY <1>0, <1>3, <1>6
  <2>2. i - 1 \notin Bad
    BY <1>2, <2>1
  <2>3. Good(i - 1)
    BY <2>1, <2>2
  <2>4. t[i].distance >= 0 /\ t[i].distance \in Int /\ t[i].distance <= 9999
    BY <1>3, <2>1, LastReadFacts, DistanceFacts
  <2>5. Joined(t)[i] = Behind(Joined(t)[i - 1], t[i].distance)
    BY <1>4, <1>6 DEF Turn
  <2>6. Good(i)
    <3>1. Joined(t)[i - 1] \in Int
      BY <2>3
    <3>2. /\ Joined(t)[i] \in Int
          /\ Joined(t)[i - 1] > 0 => Joined(t)[i] > 0
      BY <2>4, <2>5, <3>1, BehindFacts
    <3>. QED  BY <2>3, <3>2
  <2>. QED  BY <1>3, <2>6
<1>. QED  BY <1>5, <1>6

\* A percentage that reads as full is one of water up to the sensor, and the
\* other way round when the tank has a height.
LEMMA PercentFacts ==
    ASSUME NEW h \in Int, NEW d \in Int
    PROVE  /\ Percent(h, d) \in Percentages
           /\ h >= 0 => (IsFull(Percent(h, d)) <=> h > 0 /\ d <= 0)
<1>1. CASE h = 0
  <2>1. Percent(h, d) \in {Infinite, MinusInfinite, NotANumber}
    BY <1>1 DEF Percent, DivideBy
  <2>. QED  BY <1>1, <2>1 DEF IsFull, Infinite, MinusInfinite, NotANumber, Percentages
<1>2. CASE h > 0
  <2>. DEFINE w == (h - d) * 10000
              q == w \div h
  <2>1. w \in Int /\ h \in Nat \ {0}
    BY <1>2, SMT
  <2>0. Percent(h, d) = Hundredths(q)
    BY <1>2 DEF Percent, DivideBy
  <2>2. q \in Int /\ h * q <= w /\ w < h * (q + 1)
    <3>. HIDE DEF w
    <3>. QED  BY <2>1, SMT
  <2>3. ASSUME q >= 10000 PROVE d <= 0
    <3>1. h * q >= h * 10000
      <4>. HIDE DEF q
      <4>. QED  BY <2>1, <2>2, <2>3, SMT
    <3>. QED  BY <2>1, <2>2, <3>1, SMT
  <2>4. ASSUME d <= 0 PROVE q >= 10000
    <3>1. w >= h * 10000
      BY <2>1, <2>4, SMT
    <3>2. h * (q + 1) > h * 10000
      <4>. HIDE DEF w, q
      <4>. QED  BY <2>1, <2>2, <3>1, SMT
    <3>3. q + 1 > 10000
      <4>. HIDE DEF w, q
      <4>1. q + 1 <= 10000 => h * (q + 1) <= h * 10000
        BY <2>1, <2>2, SMT
      <4>. QED  BY <2>1, <2>2, <3>2, <4>1, SMT
    <3>. QED  BY <2>2, <3>3, SMT
  <2>5. IsFull(Percent(h, d)) <=> q >= 10000
    BY <2>0, <2>2 DEF IsFull, Hundredths, Off_level
  <2>6. Percent(h, d) \in Percentages
    BY <2>0, <2>2 DEF Percentages, Hundredths
  <2>. QED  BY <2>1, <2>3, <2>4, <2>5, <2>6
<1>3. CASE h < 0
  <2>. DEFINE q == (-(h - d) * 10000) \div (-h)
  <2>1. Percent(h, d) = Hundredths(q)
    BY <1>3 DEF Percent, DivideBy
  <2>2. q \in Int
    BY <1>3, SMT
  <2>. QED  BY <1>3, <2>1, <2>2 DEF Percentages, Hundredths
<1>. QED  BY <1>1, <1>2, <1>3


-----------------------------------------------------------------------------
(* SetUpSurvives speaks of the running node only.  What makes it true is    *)
(* the EEPROM: outside a set-up it reads as the last complete set-up, and   *)
(* from the write of the name on it holds the name of the one under way.    *)

ReadsAs(contents, s) ==
    /\ StoredName(contents.name) = StoredName(s.name)
    /\ StoredHeight(contents.height) = StoredHeight(s.height)

AtRest == node \in {"boot", "loop"}

RestInv  == AtRest => \A s \in done : ReadsAs(eeprom, s)
NameInv  == node \in {"erase height", "write height"} => eeprom.name = setUp.name
RunInv   == node = "loop" => /\ tank_name = StoredName(eeprom.name)
                             /\ tank_height = StoredHeight(eeprom.height)

TwoAreas == \E name, height : eeprom = [name |-> name, height |-> height]

StoredInv == RestInv /\ NameInv /\ RunInv /\ TwoAreas

\* The node's own passes leave the EEPROM and what it read there alone, and
\* end in "boot" or where they began.
LEMMA PassKeepsStored ==
    ASSUME StoredInv, Pass
    PROVE  StoredInv'
<1>1. /\ node = "loop"
      /\ node' \in {"boot", "loop"}
      /\ UNCHANGED <<tank_name, tank_height, eeprom, setUp, done>>
  BY DEF Pass, Report, QuietPass, check_reset_requirement, setUpVars
<1>2. RestInv'
  BY <1>1 DEF StoredInv, RestInv, AtRest, ReadsAs, StoredName, StoredHeight
<1>3. NameInv'
  BY <1>1 DEF NameInv
<1>4. RunInv'
  BY <1>1 DEF StoredInv, RunInv, StoredName, StoredHeight
<1>5. TwoAreas'
  BY <1>1 DEF StoredInv, TwoAreas
<1>. QED  BY <1>2, <1>3, <1>4, <1>5 DEF StoredInv

\* The four commits of a set-up: only the last one ends it.
LEMMA SavingKeepsStored ==
    ASSUME StoredInv, Saving
    PROVE  StoredInv'
<1>. PICK name, height : eeprom = [name |-> name, height |-> height]
  BY DEF StoredInv, TwoAreas
<1>1. CASE EraseName
  <2>1. /\ node' = "write name"
        /\ eeprom' = [name |-> Empty, height |-> height]
    BY <1>1 DEF EraseName, Save
  <2>. QED  BY <2>1 DEF StoredInv, RestInv, NameInv, RunInv, TwoAreas, AtRest
<1>2. CASE WriteName
  BY <1>2 DEF WriteName, Save, StoredInv, RestInv, NameInv, RunInv, TwoAreas, AtRest
<1>3. CASE EraseHeight
  <2>1. /\ node = "erase height"
        /\ node' = "write height"
        /\ eeprom' = [name |-> name, height |-> Empty]
        /\ setUp' = setUp
    BY <1>3 DEF EraseHeight, Save
  <2>2. eeprom'.name = setUp'.name
    BY <2>1 DEF StoredInv, NameInv
  <2>. QED  BY <2>1, <2>2 DEF StoredInv, RestInv, NameInv, RunInv, TwoAreas, AtRest
<1>4. CASE WriteHeight
  <2>1. /\ node = "write height"
        /\ node' = "boot"
        /\ eeprom' = [name |-> name, height |-> setUp.height]
        /\ done' = {setUp}
    BY <1>4 DEF WriteHeight, Save
  <2>2. name = setUp.name
    BY <2>1 DEF StoredInv, NameInv
  <2>3. ReadsAs(eeprom', setUp)
    BY <2>1, <2>2 DEF ReadsAs
  <2>4. RestInv'
    BY <2>1, <2>3 DEF RestInv, ReadsAs
  <2>. QED  BY <2>1, <2>4 DEF StoredInv, NameInv, RunInv, TwoAreas
<1>. QED  BY <1>1, <1>2, <1>3, <1>4 DEF Saving

\* A power failure leaves the EEPROM of a node at rest alone, and forgets the
\* set-up it cuts short.
LEMMA PowerCutKeepsStored ==
    ASSUME StoredInv, PowerCut
    PROVE  StoredInv'
<1>1. node' = "boot"
  BY DEF PowerCut
<1>2. CASE node = "loop"
  <2>1. UNCHANGED <<eeprom, done>>
    BY <1>2 DEF PowerCut
  <2>. QED  BY <1>1, <1>2, <2>1 DEF StoredInv, RestInv, NameInv, RunInv, TwoAreas, AtRest,
                                    ReadsAs, StoredName, StoredHeight
<1>3. CASE node # "loop"
  <2>1. /\ done' = {}
        /\ eeprom' \in {eeprom, [name |-> Factory, height |-> Factory]}
    BY <1>3 DEF PowerCut
  <2>2. TwoAreas'
    BY <2>1 DEF StoredInv, TwoAreas
  <2>. QED  BY <1>1, <2>1, <2>2 DEF StoredInv, RestInv, NameInv, RunInv
<1>. QED  BY <1>2, <1>3

LEMMA StoredInductive == Spec => []StoredInv
<1>1. Init => StoredInv
  BY DEF Init, StoredInv, RestInv, NameInv, RunInv, TwoAreas
<1>2. StoredInv /\ [Next]_nodeVars => StoredInv'
  <2>. SUFFICES ASSUME StoredInv, [Next]_nodeVars
                PROVE  StoredInv'
    OBVIOUS
  <2>1. CASE Sensor
    <3>1. UNCHANGED <<node, tank_name, tank_height, eeprom, setUp, done>>
      BY <2>1 DEF Sensor, SensorPass, ramVars, setUpVars
    <3>. QED  BY <3>1 DEF StoredInv, RestInv, NameInv, RunInv, TwoAreas, AtRest, ReadsAs,
                          StoredName, StoredHeight
  <2>2. CASE Pass
    BY <2>2, PassKeepsStored
  <2>3. CASE \E status \in BOOLEAN : Connection(status)
    <3>1. UNCHANGED <<node, tank_name, tank_height, eeprom, setUp, done>>
      BY <2>3 DEF Connection, setUpVars
    <3>. QED  BY <3>1 DEF StoredInv, RestInv, NameInv, RunInv, TwoAreas, AtRest, ReadsAs,
                          StoredName, StoredHeight
  <2>4. CASE Phone
    <3>1. node' = "erase name" /\ eeprom' = eeprom
      BY <2>4 DEF Phone, SetUpFrame
    <3>. QED  BY <3>1 DEF StoredInv, RestInv, NameInv, RunInv, TwoAreas, AtRest
  <2>5. CASE Saving
    BY <2>5, SavingKeepsStored
  <2>6. CASE Boot
    <3>1. /\ node = "boot"
          /\ node' = "loop"
          /\ tank_name' = StoredName(eeprom.name)
          /\ tank_height' = StoredHeight(eeprom.height)
          /\ UNCHANGED <<eeprom, setUp, done>>
      BY <2>6 DEF Boot, setUpVars
    <3>. QED  BY <3>1 DEF StoredInv, RestInv, NameInv, RunInv, TwoAreas, AtRest, ReadsAs,
                          StoredName, StoredHeight
  <2>7. CASE PowerCut
    BY <2>7, PowerCutKeepsStored
  <2>8. CASE UNCHANGED nodeVars
    <3>1. UNCHANGED <<node, tank_name, tank_height, eeprom, setUp, done>>
      BY <2>8 DEF nodeVars, ramVars, setUpVars
    <3>. QED  BY <3>1 DEF StoredInv, RestInv, NameInv, RunInv, TwoAreas, AtRest, ReadsAs,
                          StoredName, StoredHeight
  <2>. QED  BY <2>1, <2>2, <2>3, <2>4, <2>5, <2>6, <2>7, <2>8 DEF Next
<1>. QED  BY <1>1, <1>2, PTL DEF Spec

\* For any frames, defaults and number of power failures: what a set-up that
\* ran to its end stored is what every later start reads.
THEOREM SetUpSurvivesAlways == Spec => []SetUpSurvives
<1>1. StoredInv => SetUpSurvives
  BY DEF StoredInv, RestInv, RunInv, AtRest, ReadsAs, SetUpSurvives
<1>. QED  BY <1>1, StoredInductive, PTL
-----------------------------------------------------------------------------
(* Types, and what a report says.  A set-up under way is one of a frame.    *)

SavingSteps == {"erase name", "write name", "erase height", "write height"}

NodeTypeInv == NodeTypeOK /\ (node \in SavingSteps => setUp \in SetUps)

LEMMA FieldOf ==
    ASSUME NEW t \in Words \cup {"", "0xff", "..."}, NEW n \in Int, NEW b \in BOOLEAN
    PROVE  [text |-> t, number |-> n, long |-> b] \in Field
BY DEF Field

LEMMA FieldFacts ==
    /\ Empty \in Field /\ Factory \in Field /\ NameEnd \in Field
    /\ NoSetUp.height \in Field /\ NoSetUp.name \in Field
    /\ \A x \in Field : Short(x) \in Field /\ x.number \in Int
<1>1. DefaultName \in Field
  BY NodeAssumption
<1>2. Empty \in Field /\ NameEnd \in Field
  <2>1. FALSE \in BOOLEAN
    OBVIOUS
  <2>2. 0 \in Int
    OBVIOUS
  <2>. QED  BY <2>1, <2>2, FieldOf DEF Empty, NameEnd
<1>3. Factory \in Field
  <2>1. TRUE \in BOOLEAN
    OBVIOUS
  <2>2. 0 \in Int
    OBVIOUS
  <2>. QED  BY <2>1, <2>2, FieldOf DEF Factory
<1>4. ASSUME NEW x \in Field PROVE Short(x) \in Field /\ x.number \in Int
  <2>1. x.text \in Words \cup {"", "0xff", "..."} /\ x.number \in Int
    BY DEF Field
  <2>2. FALSE \in BOOLEAN
    OBVIOUS
  <2>. QED  BY <2>1, <2>2, FieldOf DEF Short
<1>. QED  BY <1>1, <1>2, <1>3, <1>4 DEF NoSetUp

LEMMA RestFacts ==
    ASSUME NEW f \in Seq(Field), f # <<>>
    PROVE  Rest(f) \in Seq(Field) /\ Rest(f) # <<>> /\ Head(f) \in Field
<1>. HIDE DEF Field
<1>1. Head(f) \in Field /\ Len(f) \in Nat \ {0}
  OBVIOUS
<1>2. CASE Len(f) > 1
  <2>1. Tail(f) \in Seq(Field) /\ Len(Tail(f)) = Len(f) - 1
    BY <1>1
  <2>2. Len(Tail(f)) # 0
    BY <1>1, <1>2, <2>1
  <2>3. Tail(f) # <<>>
    <3>1. Len(<<>>) = 0
      OBVIOUS
    <3>. QED  BY <2>2, <3>1
  <2>. QED  BY <1>1, <1>2, <2>1, <2>3 DEF Rest
<1>. QED  BY <1>1, <1>2 DEF Rest

LEMMA SetUpFacts ==
    ASSUME NEW s \in SetUps \cup {NoSetUp}
    PROVE  s.name \in Field /\ s.height \in Field
<1>1. CASE s \in SetUps
  <2>1. PICK f \in Frames : s = [name |-> Head(Rest(f)), height |-> Head(Rest(Rest(f)))]
    BY <1>1 DEF SetUps
  <2>2. f \in Seq(Field) /\ f # <<>>
    BY NodeAssumption
  <2>3. Head(Rest(f)) \in Field /\ Head(Rest(Rest(f))) \in Field
    BY <2>2, RestFacts
  <2>. QED  BY <2>1, <2>3
<1>. QED  BY <1>1, FieldFacts

\* The sensor's pass writes at most one text, and a full buffer loses it.
LEMMA WriteType ==
    ASSUME NodeTypeOK, NEW d \in Distances, NEW b \in BOOLEAN, Write(Reading(d, b))
    PROVE  toNode' \in Seq([distance : Distances, eol : BOOLEAN]) /\ Len(toNode') <= MaxUnread
<1>. DEFINE R == [distance : Distances, eol : BOOLEAN]
<1>1. Reading(d, b) \in R
  BY DEF Reading
<1>2. toNode \in Seq(R) /\ Len(toNode) <= MaxUnread /\ MaxUnread \in Nat
  BY NodeAssumption DEF NodeTypeOK
<1>. HIDE DEF R
<1>3. /\ Append(toNode, Reading(d, b)) \in Seq(R)
      /\ Len(Append(toNode, Reading(d, b))) = Len(toNode) + 1
      /\ Len(toNode) \in Nat
  BY <1>1, <1>2
<1>4. toNode' \in Seq(R) /\ Len(toNode') <= MaxUnread
  BY <1>2, <1>3 DEF Write
<1>. QED  BY <1>4 DEF R

LEMMA SensorType == ASSUME NodeTypeInv, Sensor PROVE NodeTypeInv'
<1>1. PICK d \in Distances : SensorPass(d)
  BY DEF Sensor
<1>2. UNCHANGED <<node, tank_name, tank_height, percent, connx_status, reset_flag, eeprom,
                  setUp, done, cuts>>
  BY <1>1 DEF SensorPass, ramVars, setUpVars
<1>3. curr_value' \in Distances \cup {0} /\ count' \in 0 .. count_value
  <2>1. count \in 0 .. 2
    BY DEF NodeTypeInv, NodeTypeOK, count_value
  <2>2. /\ curr_value' = d
        /\ \/ count' = count_value - 1
           \/ count' = count_value
           \/ ~(count <= 0) /\ count' = count - 1
    BY <1>1, Zenon DEF SensorPass
  <2>. QED  BY <2>1, <2>2 DEF count_value
<1>4. toNode' \in Seq([distance : Distances, eol : BOOLEAN]) /\ Len(toNode') <= MaxUnread
  <2>1. CASE toNode' = toNode
    BY <2>1 DEF NodeTypeInv, NodeTypeOK
  <2>2. CASE \E b \in BOOLEAN : Write(Reading(d, b))
    BY <2>2, WriteType DEF NodeTypeInv
  <2>. QED  BY <1>1, <2>1, <2>2 DEF SensorPass
<1>. QED  BY <1>2, <1>3, <1>4 DEF NodeTypeInv, NodeTypeOK

LEMMA ResetCountType ==
    ASSUME NodeTypeOK, node = "loop", NEW STATE level, check_reset_requirement(level)
    PROVE  node' \in {"boot", "loop"} /\ reset_flag' \in 0 .. ResetAfter
<1>1. ResetAfter \in Nat
  BY NodeAssumption
<1>. QED  BY <1>1 DEF check_reset_requirement, NodeTypeOK

\* What a report makes of the texts it found.
LEMMA ReportFacts ==
    ASSUME NodeTypeOK, toNode # <<>>
    PROVE  /\ Percent(tank_height, toFloat(toNode)) \in Percentages
           /\ tank_height >= 0 /\ IsFull(Percent(tank_height, toFloat(toNode)))
                => Head(toNode).distance <= 0
<1>1. toNode \in Texts /\ tank_height \in Int
  BY DEF NodeTypeOK, Texts
<1>2. toFloat(toNode) \in Int
  BY <1>1, ToFloatFacts
<1>3. Head(toNode).distance \in Int
  <2>1. Head(toNode) = toNode[1] /\ toNode[1].distance \in Distances
    BY <1>1, TextFacts
  <2>. QED  BY <2>1, DistanceFacts
<1>4. Head(toNode).distance > 0 => toFloat(toNode) > 0
  BY <1>1, ToFloatFacts
<1>5. tank_height >= 0 /\ IsFull(Percent(tank_height, toFloat(toNode)))
        => toFloat(toNode) <= 0
  BY <1>1, <1>2, PercentFacts
<1>6. Percent(tank_height, toFloat(toNode)) \in Percentages
  BY <1>1, <1>2, PercentFacts
<1>7. ASSUME tank_height >= 0, IsFull(Percent(tank_height, toFloat(toNode)))
      PROVE  Head(toNode).distance <= 0
  BY <1>2, <1>3, <1>4, <1>5, <1>7, SMT
<1>. QED  BY <1>6, <1>7

LEMMA PassType == ASSUME NodeTypeInv, Pass PROVE NodeTypeInv'
<1>0. NodeTypeOK
  BY DEF NodeTypeInv
<1>1. /\ node = "loop"
      /\ UNCHANGED <<curr_value, count, tank_name, tank_height, connx_status, eeprom, setUp,
                     done, cuts>>
  BY DEF Pass, Report, QuietPass, sensorVars, setUpVars
<1>2. /\ node' \in {"boot", "loop"} /\ reset_flag' \in 0 .. ResetAfter
      /\ percent' \in Percentages
      /\ toNode' \in Seq([distance : Distances, eol : BOOLEAN]) /\ Len(toNode') <= MaxUnread
  <2>1. CASE Report
    <3>1. percent' \in Percentages
      BY <1>0, <2>1, ReportFacts DEF Report
    <3>2. node' \in {"boot", "loop"} /\ reset_flag' \in 0 .. ResetAfter
      BY <1>0, <1>1, <2>1, ResetCountType DEF Report
    <3>3. toNode' = <<>> /\ MaxUnread \in Nat
      BY <2>1, NodeAssumption DEF Report
    <3>4. /\ toNode' \in Seq([distance : Distances, eol : BOOLEAN])
          /\ Len(toNode') <= MaxUnread
      BY <3>3
    <3>. QED  BY <3>1, <3>2, <3>4
  <2>2. CASE QuietPass
    <3>1. node' \in {"boot", "loop"} /\ reset_flag' \in 0 .. ResetAfter
      BY <1>0, <1>1, <2>2, ResetCountType DEF QuietPass
    <3>. QED  BY <1>0, <2>2, <3>1 DEF QuietPass, NodeTypeOK
  <2>. QED  BY <2>1, <2>2 DEF Pass
<1>. QED  BY <1>0, <1>1, <1>2 DEF NodeTypeInv, NodeTypeOK, SavingSteps
LEMMA PhoneType == ASSUME NodeTypeInv, Phone PROVE NodeTypeInv'
<1>1. PICK f \in Frames : SetUpFrame(f)
  BY DEF Phone
<1>2. f \in Seq(Field) /\ f # <<>>
  BY NodeAssumption
<1>3. /\ Head(Rest(f)) \in Field /\ Head(Rest(Rest(f))) \in Field
      /\ Head(Rest(Rest(f))).number \in Int
  BY <1>2, RestFacts, FieldFacts
<1>4. /\ tank_name' = Head(Rest(f)) /\ tank_height' = Head(Rest(Rest(f))).number
      /\ setUp' = [name |-> Head(Rest(f)), height |-> Head(Rest(Rest(f)))]
      /\ node' = "erase name"
      /\ UNCHANGED <<curr_value, count, toNode, percent, connx_status, reset_flag, eeprom,
                     done, cuts>>
  BY <1>1 DEF SetUpFrame, sensorVars
<1>5. setUp' \in SetUps
  BY <1>4 DEF SetUps
<1>. QED  BY <1>3, <1>4, <1>5 DEF NodeTypeInv, NodeTypeOK

LEMMA SavingType == ASSUME NodeTypeInv, Saving PROVE NodeTypeInv'
<1>1. /\ node \in SavingSteps
      /\ node' \in SavingSteps \cup {"boot"}
      /\ UNCHANGED <<curr_value, count, toNode, tank_name, tank_height, percent,
                     connx_status, reset_flag, setUp, cuts>>
      /\ done' \in {done, {setUp}}
  BY DEF Saving, EraseName, WriteName, EraseHeight, WriteHeight, Save, SavingSteps,
         sensorVars, ramVars
<1>2. setUp \in SetUps /\ setUp.name \in Field /\ setUp.height \in Field
  BY <1>1, SetUpFacts DEF NodeTypeInv
<1>3. eeprom' \in [name : Field, height : Field]
  <2>1. eeprom \in [name : Field, height : Field]
    BY DEF NodeTypeInv, NodeTypeOK
  <2>. HIDE DEF Field
  <2>2. CASE EraseName
    BY <2>1, <2>2, FieldFacts DEF EraseName, Save
  <2>3. CASE WriteName
    <3>1. eeprom'.name = setUp.name /\ eeprom'.height \in {NameEnd, eeprom.height}
          /\ eeprom' = [name |-> eeprom'.name, height |-> eeprom'.height]
      BY <2>3 DEF WriteName, Save
    <3>. QED  BY <1>2, <2>1, <3>1, FieldFacts
  <2>4. CASE EraseHeight
    BY <2>1, <2>4, FieldFacts DEF EraseHeight, Save
  <2>5. CASE WriteHeight
    BY <1>2, <2>1, <2>5 DEF WriteHeight, Save
  <2>. QED  BY <2>2, <2>3, <2>4, <2>5 DEF Saving
<1>4. done' \subseteq SetUps
  BY <1>1, <1>2 DEF NodeTypeInv, NodeTypeOK
<1>. QED  BY <1>1, <1>2, <1>3, <1>4 DEF NodeTypeInv, NodeTypeOK, SavingSteps

LEMMA BootType == ASSUME NodeTypeInv, Boot PROVE NodeTypeInv'
<1>1. eeprom.name \in Field /\ eeprom.height \in Field
  BY DEF NodeTypeInv, NodeTypeOK
<1>2. StoredName(eeprom.name) \in Field
  BY <1>1, FieldFacts, NodeAssumption DEF StoredName
<1>3. StoredHeight(eeprom.height) \in Int
  BY <1>1, FieldFacts, NodeAssumption DEF StoredHeight
<1>4. ResetAfter \in 0 .. ResetAfter /\ MaxUnread \in Nat
  BY NodeAssumption
<1>5. toNode' \in Seq([distance : Distances, eol : BOOLEAN]) /\ Len(toNode') <= MaxUnread
  BY <1>4 DEF Boot
<1>6. /\ node' = "loop" /\ percent' = Hundredths(0) /\ connx_status' = FALSE
      /\ reset_flag' = ResetAfter
      /\ tank_name' = StoredName(eeprom.name) /\ tank_height' = StoredHeight(eeprom.height)
      /\ UNCHANGED <<curr_value, count, eeprom, setUp, done, cuts>>
  BY DEF Boot, sensorVars, setUpVars
<1>7. /\ tank_name' \in Field /\ tank_height' \in Int
      /\ reset_flag' \in 0 .. ResetAfter
  BY <1>2, <1>3, <1>4, <1>6, Zenon
<1>8. percent' \in Percentages
  BY <1>6 DEF Hundredths, Percentages
<1>9. connx_status' \in BOOLEAN
  BY <1>6
<1>10. node' \notin SavingSteps
  BY <1>6 DEF SavingSteps
<1>. QED  BY <1>5, <1>6, <1>7, <1>8, <1>9, <1>10 DEF NodeTypeInv, NodeTypeOK

LEMMA PowerCutType == ASSUME NodeTypeInv, PowerCut PROVE NodeTypeInv'
<1>1. eeprom' \in [name : Field, height : Field] /\ done' \subseteq SetUps
  <2>1. [name |-> Factory, height |-> Factory] \in [name : Field, height : Field]
    BY FieldFacts
  <2>. QED  BY <2>1 DEF PowerCut, NodeTypeInv, NodeTypeOK
<1>2. cuts' \in 0 .. MaxCuts
  <2>1. MaxCuts \in Nat /\ cuts \in 0 .. MaxCuts
    BY NodeAssumption DEF NodeTypeInv, NodeTypeOK
  <2>. QED  BY <2>1 DEF PowerCut
<1>3. /\ node' = "boot"
      /\ UNCHANGED <<curr_value, count, toNode, tank_name, tank_height, percent,
                     connx_status, reset_flag, setUp>>
  BY DEF PowerCut, sensorVars, ramVars
<1>. QED  BY <1>1, <1>2, <1>3 DEF NodeTypeInv, NodeTypeOK, SavingSteps

LEMMA NodeTypeInductive == Spec => []NodeTypeInv
<1>1. Init => NodeTypeInv
  <2>. SUFFICES ASSUME Init PROVE NodeTypeInv
    OBVIOUS
  <2>1. eeprom \in [name : Field, height : Field]
    BY FieldFacts DEF Init
  <2>2. /\ DefaultName \in Field /\ DefaultHeight \in Int /\ ResetAfter \in 0 .. ResetAfter
        /\ 0 \in 0 .. MaxCuts /\ 0 <= MaxUnread /\ count_value \in 0 .. count_value
    BY NodeAssumption DEF count_value
  <2>3. toNode \in Seq([distance : Distances, eol : BOOLEAN]) /\ Len(toNode) <= MaxUnread
    BY <2>2 DEF Init
  <2>4. /\ node = "boot" /\ node \notin SavingSteps
        /\ curr_value \in Distances \cup {0} /\ count \in 0 .. count_value
        /\ tank_name \in Field /\ tank_height \in Int
    BY <2>2 DEF Init, SavingSteps
  <2>5. /\ reset_flag \in 0 .. ResetAfter /\ setUp \in SetUps \cup {NoSetUp}
        /\ done \subseteq SetUps /\ cuts \in 0 .. MaxCuts
    BY <2>2, Zenon DEF Init
  <2>7. percent \in Percentages
    BY DEF Init, Hundredths, Percentages
  <2>8. connx_status \in BOOLEAN
    BY DEF Init
  <2>6. node \in {"boot", "loop"} \cup SavingSteps
    BY <2>4
  <2>. QED  BY <2>1, <2>3, <2>4, <2>5, <2>6, <2>7, <2>8, Zenon
       DEF NodeTypeInv, NodeTypeOK, SavingSteps
<1>2. NodeTypeInv /\ [Next]_nodeVars => NodeTypeInv'
  <2>. SUFFICES ASSUME NodeTypeInv, [Next]_nodeVars
                PROVE  NodeTypeInv'
    OBVIOUS
  <2>1. CASE \E status \in BOOLEAN : Connection(status)
    BY <2>1 DEF Connection, sensorVars, setUpVars, NodeTypeInv, NodeTypeOK
  <2>2. CASE UNCHANGED nodeVars
    BY <2>2 DEF nodeVars, sensorVars, ramVars, setUpVars, NodeTypeInv, NodeTypeOK
  <2>. QED  BY <2>1, <2>2, SensorType, PassType, PhoneType, SavingType, BootType,
               PowerCutType DEF Next
<1>. QED  BY <1>1, <1>2, PTL DEF Spec

\* Every variable has its type, for any distances and frames: the number read
\* from joined texts is one, the count to the restart stays in its range, and
\* only set-ups that a phone has sent are ever stored.
THEOREM NodeTypeCorrect == Spec => []NodeTypeOK
<1>1. NodeTypeInv => NodeTypeOK
  BY DEF NodeTypeInv
<1>. QED  BY <1>1, NodeTypeInductive, PTL

\* However many texts were joined in a report, and whatever the height, zero
\* included: the hub is told that a tank is full only when the first of them said
\* so.  Only a height below zero is left out.
THEOREM FullReportIsTrueAlways == Spec => FullReportIsTrue
<1>1. NodeTypeInv /\ [Next]_nodeVars
        => [Report /\ connx_status /\ tank_height >= 0 /\ IsFull(percent')
              => Head(toNode).distance <= 0]_nodeVars
  BY ReportFacts DEF NodeTypeInv, Report
<1>. QED  BY <1>1, NodeTypeInductive, PTL DEF Spec, FullReportIsTrue

-----------------------------------------------------------------------------
(* A node without a height.  A percentage of a height of zero is no number. *)
LEMMA NoHeightNotFull == \A d : ~IsFull(Percent(0, d))
BY DEF Percent, DivideBy, IsFull, Infinite, MinusInfinite, NotANumber

Heightless ==
    /\ AtRest
    /\ StoredHeight(eeprom.height) = 0
    /\ node = "loop" => tank_height = 0
    /\ ~IsFull(percent)

\* From its start on a node without a height has told nobody that it is full.
NoHeightInv == node = "loop" /\ tank_height = 0 => ~IsFull(percent)

\* A start makes the percentage zero.
LEMMA ZeroNotFull == ~IsFull(Hundredths(0))
BY DEF IsFull, Hundredths, Off_level

LEMMA NoHeightStep == ASSUME NoHeightInv, [Next]_nodeVars PROVE NoHeightInv'
<1>1. CASE Sensor \/ \E status \in BOOLEAN : Connection(status)
  BY <1>1 DEF Sensor, SensorPass, Connection, ramVars, NoHeightInv
<1>2. CASE Report
  BY <1>2, NoHeightNotFull DEF Report, NoHeightInv
<1>3. CASE QuietPass
  BY <1>3 DEF QuietPass, NoHeightInv
<1>4. CASE Boot
  BY <1>4, ZeroNotFull DEF Boot, NoHeightInv
<1>5. CASE Phone \/ Saving \/ PowerCut
  <2>1. node' # "loop"
    BY <1>5 DEF Phone, SetUpFrame, Saving, EraseName, WriteName, EraseHeight, WriteHeight,
                Save, PowerCut
  <2>. QED  BY <2>1 DEF NoHeightInv
<1>6. CASE UNCHANGED nodeVars
  BY <1>6 DEF nodeVars, ramVars, NoHeightInv
<1>. QED  BY <1>1, <1>2, <1>3, <1>4, <1>5, <1>6 DEF Next, Pass

LEMMA HeightlessStep ==
    ASSUME Heightless, [Next]_nodeVars, ~Phone
    PROVE  Heightless'
<1>1. CASE Sensor \/ \E status \in BOOLEAN : Connection(status)
  <2>1. UNCHANGED <<node, tank_height, percent, eeprom>>
    BY <1>1 DEF Sensor, SensorPass, Connection, ramVars, setUpVars
  <2>. QED  BY <2>1 DEF Heightless, AtRest, StoredHeight
<1>2. CASE Pass
  <2>1. /\ node = "loop" /\ node' \in {"boot", "loop"} /\ UNCHANGED <<tank_height, eeprom>>
        /\ percent' = percent \/ percent' = Percent(tank_height, toFloat(toNode))
    BY <1>2 DEF Pass, Report, QuietPass, check_reset_requirement, setUpVars
  <2>2. ~IsFull(percent')
    BY <2>1, NoHeightNotFull DEF Heightless
  <2>. QED  BY <2>1, <2>2 DEF Heightless, AtRest, StoredHeight
<1>3. CASE Boot
  <2>1. /\ node' = "loop" /\ tank_height' = StoredHeight(eeprom.height)
        /\ percent' = Hundredths(0) /\ eeprom' = eeprom
    BY <1>3 DEF Boot, setUpVars
  <2>. QED  BY <2>1, ZeroNotFull DEF Heightless, AtRest, StoredHeight
<1>4. CASE PowerCut
  <2>1. node' = "boot" /\ UNCHANGED <<eeprom, percent>>
    BY <1>4 DEF PowerCut, Heightless, AtRest, ramVars
  <2>. QED  BY <2>1 DEF Heightless, AtRest, StoredHeight
<1>5. ~Saving
  BY DEF Saving, EraseName, WriteName, EraseHeight, WriteHeight, Save, Heightless, AtRest
<1>6. CASE UNCHANGED nodeVars
  BY <1>6 DEF nodeVars, ramVars, setUpVars, Heightless, AtRest, StoredHeight
<1>. QED  BY <1>1, <1>2, <1>3, <1>4, <1>5, <1>6 DEF Next

\* A tank that was set up without a height, or whose chip was never erased, is
\* not reported full, whatever its sensor measures and however often it
\* restarts or loses its power, until a phone sets it up again.
THEOREM HeightlessIsNeverFull ==
    Spec => [](node = "loop" /\ tank_height = 0
                 => ([][~Phone]_nodeVars => []~IsFull(percent)))
<1>1. Init => NoHeightInv
  BY DEF Init, NoHeightInv
<1>2. NoHeightInv /\ [Next]_nodeVars => NoHeightInv'
  BY NoHeightStep
<1>3. NoHeightInv /\ StoredInv /\ node = "loop" /\ tank_height = 0 => Heightless
  BY DEF NoHeightInv, StoredInv, RunInv, Heightless, AtRest
<1>4. Heightless /\ [Next]_nodeVars /\ [~Phone]_nodeVars => Heightless'
  <2>1. UNCHANGED nodeVars /\ Heightless => Heightless'
    BY DEF nodeVars, ramVars, setUpVars, Heightless, AtRest, StoredHeight
  <2>. QED  BY <2>1, HeightlessStep
<1>5. Heightless => ~IsFull(percent)
  BY DEF Heightless
<1>. QED  BY <1>1, <1>2, <1>3, <1>4, <1>5, StoredInductive, PTL DEF Spec
-----------------------------------------------------------------------------
(* What the fairness of the two loops gives, for a node that is up, set up  *)
(* and connected from some time on.  The sensor writes in one of three      *)
(* passes at the latest, and what it wrote is there until it is reported.   *)
Serving == node = "loop" /\ connx_status
Quiet(n) == toNode = <<>> /\ count = n

\* A text that is written is on the line.
LEMMA WrittenIsThere ==
    ASSUME NodeTypeOK, NEW d \in Distances, NEW b \in BOOLEAN, Write(Reading(d, b)),
           toNode = <<>>
    PROVE  toNode' = <<Reading(d, b)>>
<1>1. Len(toNode) = 0 /\ MaxUnread \in Nat \ {0}
  BY NodeAssumption
<1>2. Append(toNode, Reading(d, b)) = <<Reading(d, b)>>
  OBVIOUS
<1>. QED  BY <1>1, <1>2 DEF Write

LEMMA SensorWrites ==
    ASSUME NodeTypeOK, NEW n \in 0..2, Quiet(n), Sensor
    PROVE  toNode' # <<>> \/ (n > 0 /\ Quiet(n - 1)')
<1>1. PICK d \in Distances : SensorPass(d)
  BY DEF Sensor
<1>2. CASE \E b \in BOOLEAN : Write(Reading(d, b))
  <2>1. PICK b \in BOOLEAN : toNode' = <<Reading(d, b)>>
    BY <1>2, WrittenIsThere DEF Quiet
  <2>. QED  BY <2>1
<1>3. CASE ~(count <= 0) /\ count' = count - 1 /\ UNCHANGED toNode
  BY <1>3 DEF Quiet
<1>. QED  BY <1>1, <1>2, <1>3 DEF SensorPass

\* Of the node's steps that leave it serving, only a report clears the line.
LEMMA ServingStep ==
    ASSUME NodeTypeOK, Serving, Serving', [Next]_nodeVars
    PROVE  \/ Sensor
           \/ Report
           \/ UNCHANGED <<sensorVars, toNode>>
<1>1. ~Phone /\ ~Saving /\ ~Boot /\ ~PowerCut
  BY DEF Serving, Phone, SetUpFrame, Saving, EraseName, WriteName, EraseHeight, WriteHeight,
         Save, Boot, PowerCut
<1>2. QuietPass \/ (\E status \in BOOLEAN : Connection(status)) \/ UNCHANGED nodeVars
        => UNCHANGED <<sensorVars, toNode>>
  BY DEF QuietPass, Connection, nodeVars, sensorVars
<1>. QED  BY <1>1, <1>2 DEF Next, Pass

LEMMA QuietStays ==
    ASSUME NodeTypeOK, Serving, Serving', [Next]_nodeVars, NEW n \in 0..2, Quiet(n)
    PROVE  \/ Quiet(n)' /\ ~<<Sensor>>_nodeVars
           \/ toNode' # <<>>
           \/ n > 0 /\ Quiet(n - 1)'
<1>1. ~Report
  BY DEF Quiet, Report
<1>2. CASE ~Sensor
  BY <1>1, <1>2, ServingStep DEF Quiet, sensorVars
<1>. QED  BY <1>2, SensorWrites

LEMMA UnreadStays ==
    ASSUME NodeTypeOK, Serving, Serving', [Next]_nodeVars, toNode # <<>>
    PROVE  \/ toNode' # <<>> /\ ~<<Pass>>_nodeVars
           \/ Report
<1>1. CASE Sensor
  <2>1. PICK d \in Distances : SensorPass(d)
    BY <1>1 DEF Sensor
  <2>2. toNode' # <<>>
    <3>1. \A b \in BOOLEAN : Append(toNode, Reading(d, b)) # <<>>
      <4>. DEFINE R == [distance : Distances, eol : BOOLEAN]
      <4>1. toNode \in Seq(R) /\ \A b \in BOOLEAN : Reading(d, b) \in R
        BY DEF NodeTypeOK, Reading
      <4>. HIDE DEF R
      <4>2. \A b \in BOOLEAN : Len(Append(toNode, Reading(d, b))) = Len(toNode) + 1
        BY <4>1
      <4>3. Len(toNode) + 1 # 0 /\ Len(<<>>) = 0
        BY <4>1
      <4>. QED  BY <4>2, <4>3
    <3>. QED  BY <2>1, <3>1 DEF SensorPass, Write
  <2>3. ~QuietPass /\ (Pass => Report)
    BY DEF Pass, QuietPass
  <2>. QED  BY <2>2, <2>3
<1>2. CASE ~Sensor /\ ~Report
  <2>1. toNode' = toNode /\ ~Pass
    BY <1>2, ServingStep DEF Pass, QuietPass
  <2>. QED  BY <2>1
<1>. QED  BY <1>1, <1>2

LoopsFair == WF_nodeVars(Sensor) /\ WF_nodeVars(Pass)
ServingTail == [][Next]_nodeVars /\ LoopsFair /\ []NodeTypeOK /\ []LoopsRunOn /\ []Serving

LEMMA ServingReports == ServingTail => []<><<Report /\ connx_status>>_nodeVars
<1>. DEFINE Q(n) == Quiet(n)
            Unread == toNode # <<>>
<1>1. NodeTypeOK => Unread \/ Q(0) \/ Q(1) \/ Q(2)
  <2>1. NodeTypeOK => count = 0 \/ count = 1 \/ count = 2
    <3>1. NodeTypeOK => count \in 0..2
      BY Zenon DEF NodeTypeOK, count_value
    <3>. QED  BY <3>1
  <2>. QED  BY <2>1 DEF Quiet
<1>2. LoopsRunOn => ENABLED <<Sensor>>_nodeVars
  BY DEF LoopsRunOn
<1>3. LoopsRunOn /\ Serving /\ Unread => ENABLED <<Pass>>_nodeVars
  BY DEF LoopsRunOn, Serving
<1>. DEFINE Step == NodeTypeOK /\ Serving /\ Serving' /\ [Next]_nodeVars
<1>4. /\ Step /\ Q(0) => (Q(0)' /\ ~<<Sensor>>_nodeVars) \/ Unread'
      /\ Step /\ Q(1) => (Q(1)' /\ ~<<Sensor>>_nodeVars) \/ Unread' \/ Q(0)'
      /\ Step /\ Q(2) => (Q(2)' /\ ~<<Sensor>>_nodeVars) \/ Unread' \/ Q(1)'
  <2>1. \A n \in 0..2 : Step /\ Q(n) =>
           \/ Q(n)' /\ ~<<Sensor>>_nodeVars
           \/ Unread'
           \/ n > 0 /\ Q(n - 1)'
    BY QuietStays
  <2>. QED  BY <2>1
<1>5. Step /\ Unread => (Unread' /\ ~<<Pass>>_nodeVars) \/ <<Report /\ connx_status>>_nodeVars
  <2>1. Report /\ Unread => nodeVars' # nodeVars
    BY DEF Report, nodeVars
  <2>. QED  BY <2>1, UnreadStays DEF Serving
<1>. HIDE DEF Q, Unread
<1>6. ServingTail => (Q(0) ~> Unread)
  BY <1>2, <1>4, PTL DEF ServingTail, LoopsFair
<1>7. ServingTail => (Q(1) ~> Unread)
  BY <1>2, <1>4, <1>6, PTL DEF ServingTail, LoopsFair
<1>8. ServingTail => (Q(2) ~> Unread)
  BY <1>2, <1>4, <1>7, PTL DEF ServingTail, LoopsFair
<1>9. ServingTail => []<>Unread
  BY <1>1, <1>6, <1>7, <1>8, PTL DEF ServingTail
<1>. QED  BY <1>3, <1>5, <1>9, PTL DEF ServingTail, LoopsFair

\* A node that stays connected reports again and again: of the fairness of the
\* two loops, with ENABLED as LoopsRunOn says it is.
THEOREM ReportsKeepComingAlways == FairSpec /\ []LoopsRunOn => ReportsKeepComing
BY ServingReports, NodeTypeCorrect, PTL
DEF FairSpec, Spec, ServingTail, Serving, ReportsKeepComing, LoopsFair

\* While the tank is full, what is written after a report is a distance of zero
\* or less, and so is the number toFloat makes of several of them.
Filled == Serving /\ tank_height > 0 /\ curr_value <= 0
AllAtMark == \A i \in 1..Len(toNode) : toNode[i].distance <= 0

LEMMA ToFloatAtMark ==
    ASSUME NEW t \in Texts, \A i \in 1..Len(t) : t[i].distance <= 0
    PROVE  toFloat(t) \in Int /\ toFloat(t) <= 0
<1>. DEFINE last == LastRead(t)
            Good(i) == Joined(t)[i] \in Int /\ Joined(t)[i] <= 0
            Bad == {i \in 1..last : ~Good(i)}
<1>0. last \in 1..Len(t) /\ Len(t) \in Nat /\ Bad \subseteq Nat /\ last \in 1..last
  BY LastReadFacts, TextFacts
<1>1. SUFFICES ASSUME Bad # {} PROVE FALSE
  BY <1>0 DEF toFloat
<1>2. PICK i \in Bad : \A k \in Bad : i <= k
  BY <1>0, <1>1, LeastElement
<1>3. i \in 1..last /\ i \in 1..Len(t) /\ ~Good(i) /\ t[i].distance \in Distances
  BY <1>0, <1>2, TextFacts
<1>4. Joined(t)[i] = Turn(t, Joined(t), i)
  BY <1>3, JoinedSolves
<1>5. CASE i = 1
  BY <1>3, <1>4, <1>5, TextFacts, DistanceFacts DEF Turn
<1>6. CASE i # 1
  <2>1. i - 1 \in 1..last /\ i \in 2..last /\ ~(i <= i - 1)
    BY <1>0, <1>3, <1>6
  <2>2. Good(i - 1)
    BY <1>2, <2>1
  <2>3. t[i].distance = 0
    BY <1>3, <2>1, LastReadFacts, DistanceFacts
  <2>4. Joined(t)[i] = Behind(Joined(t)[i - 1], 0)
    BY <1>4, <1>6, <2>3 DEF Turn
  <2>5. Shift(0) \in {10, 100, 1000, 10000}
    BY ShiftFacts
  <2>6. \A n \in Int : n <= 0 => Behind(n, 0) \in Int /\ Behind(n, 0) <= 0
    BY <2>5, SMT DEF Behind
  <2>. QED  BY <1>3, <2>2, <2>4, <2>6
<1>. QED  BY <1>5, <1>6

LEMMA FullIsReported ==
    ASSUME NodeTypeOK, Filled, AllAtMark, Report
    PROVE  IsFull(percent')
<1>1. toNode \in Texts /\ tank_height \in Int
  BY DEF NodeTypeOK, Texts, Report
<1>2. toFloat(toNode) \in Int /\ toFloat(toNode) <= 0
  BY <1>1, ToFloatAtMark DEF AllAtMark
<1>. QED  BY <1>1, <1>2, PercentFacts DEF Report, Filled

LEMMA MarkStays ==
    ASSUME NodeTypeOK, Filled, Filled', [Next]_nodeVars
    PROVE  /\ Report => AllAtMark'
           /\ AllAtMark => AllAtMark'
<1>1. Report => AllAtMark'
  <2>1. ASSUME Report PROVE Len(toNode') = 0
    BY <2>1 DEF Report
  <2>. QED  BY <2>1 DEF AllAtMark
<1>2. UNCHANGED toNode /\ AllAtMark => AllAtMark'
  BY DEF AllAtMark
<1>3. ASSUME Sensor, AllAtMark PROVE AllAtMark'
  <2>. DEFINE R == [distance : Distances, eol : BOOLEAN]
  <2>1. PICK d \in Distances : SensorPass(d)
    BY <1>3 DEF Sensor
  <2>2. d <= 0
    BY <2>1 DEF SensorPass, Filled
  <2>3. CASE \E b \in BOOLEAN : toNode' = Append(toNode, Reading(d, b))
    <3>1. PICK b \in BOOLEAN : toNode' = Append(toNode, Reading(d, b))
      BY <2>3
    <3>2. toNode \in Seq(R) /\ Reading(d, b) \in R /\ Reading(d, b).distance = d
      BY DEF NodeTypeOK, Reading
    <3>. HIDE DEF R
    <3>3. /\ Len(toNode') = Len(toNode) + 1 /\ Len(toNode) \in Nat
          /\ toNode'[Len(toNode) + 1] = Reading(d, b)
          /\ \A i \in 1..Len(toNode) : toNode'[i] = toNode[i]
      BY <3>1, <3>2
    <3>4. ASSUME NEW i \in 1..Len(toNode') PROVE toNode'[i].distance <= 0
      <4>1. i \in 1..Len(toNode) \/ i = Len(toNode) + 1
        BY <3>3
      <4>2. i \in 1..Len(toNode) => toNode'[i].distance <= 0
        BY <1>3, <3>3 DEF AllAtMark
      <4>. QED  BY <2>2, <3>2, <3>3, <4>1, <4>2
    <3>. QED  BY <3>4 DEF AllAtMark
  <2>4. CASE UNCHANGED toNode
    BY <1>2, <1>3, <2>4
  <2>. QED  BY <2>1, <2>3, <2>4 DEF SensorPass, Write
<1>. QED  BY <1>1, <1>2, <1>3, ServingStep DEF Filled

\* A tank with a height that is and stays full is reported full again and again,
\* whatever the line has joined.
THEOREM FullTankIsReportedAlways == FairSpec /\ []LoopsRunOn => FullTankIsReported
<1>. DEFINE FullTail == ServingTail /\ []Filled
<1>1. NodeTypeOK /\ Filled /\ AllAtMark /\ <<Report /\ connx_status>>_nodeVars
        => <<Report /\ IsFull(percent')>>_nodeVars
  BY FullIsReported
<1>2. NodeTypeOK /\ Filled /\ Filled' /\ [Next]_nodeVars
        => /\ <<Report /\ connx_status>>_nodeVars => AllAtMark'
           /\ AllAtMark => AllAtMark'
  BY MarkStays
<1>3. FullTail => []<><<Report /\ IsFull(percent')>>_nodeVars
  BY <1>1, <1>2, ServingReports, PTL DEF ServingTail
<1>4. Filled <=> node = "loop" /\ connx_status /\ tank_height > 0 /\ curr_value <= 0
  BY DEF Filled, Serving
<1>5. Filled => Serving
  BY DEF Filled
<1>. QED  BY <1>3, <1>4, <1>5, NodeTypeCorrect, PTL
     DEF FairSpec, Spec, ServingTail, FullTankIsReported, LoopsFair

\* The two together, as the run checks them.
THEOREM TankIsHeardOfAlways == FairSpec /\ []LoopsRunOn => TankIsHeardOf
BY ReportsKeepComingAlways, FullTankIsReportedAlways DEF TankIsHeardOf
=============================================================================
