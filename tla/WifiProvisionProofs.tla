------------------------ MODULE WifiProvisionProofs -------------------------
(***************************************************************************)
(* A saved request is used to the letter, or what is used shows that its   *)
(* commit was cut: for areas of any length, any requests, any earlier      *)
(* contents of the EEPROM and any power failures.                          *)
(*                                                                         *)
(* It rests on Written and CString being inverse on texts that fit, and on *)
(* CString of a torn text running over the first byte that was not         *)
(* written.                                                                *)
(***************************************************************************)
EXTENDS WifiProvision, WellFoundedInduction, TLAPS

(* Text s stands in an area, with a 0 behind it unless it fills the area.   *)
Stands(s, mem, from, len) ==
    /\ Len(s) <= len
    /\ \A k \in 0..(Len(s) - 1) : mem[from + k] = s[k + 1]
    /\ Len(s) < len => mem[from + Len(s)] = 0

LEMMA CharFacts == 0 \notin Char
  BY DEF Char

(* A set of naturals has a least element: what the search for the byte 0    *)
(* that ends a text rests on.                                               *)
LEMMA LeastElement ==
    ASSUME NEW T, T \subseteq Nat, T # {}
    PROVE  \E x \in T : \A y \in T : x <= y
  <1>1. PICK x \in T : \A y \in T : ~(<<y, x>> \in OpToRel(<, Nat))
    BY WFMin, NatLessThanWellFounded
  <1>2. \A y \in T : ~(y < x)
    BY <1>1 DEF OpToRel
  <1> QED BY <1>2

(* The text in an area is its first n bytes.                                *)
EndsAfter(n, mem, from, len) ==
    /\ \A j \in 0..(n - 1) : mem[from + j] # 0
    /\ n < len => mem[from + n] = 0
    /\ CString(mem, from, len) = [i \in 1..n |-> mem[from + i - 1]]

(* The 0 that ends a text, or the end of its area, is found.                *)
LEMMA CStringEnds ==
    ASSUME NEW mem, NEW from, NEW len \in Nat
    PROVE  \E n \in 0..len : EndsAfter(n, mem, from, len)
  <1> DEFINE P(k) == /\ \A j \in 0..(k - 1) : mem[from + j] # 0
                     /\ k < len => mem[from + k] = 0
             Z == {k \in 0..len : k < len => mem[from + k] = 0}
             n == CHOOSE k \in 0..len : P(k)
  <1>1. PICK x \in Z : \A y \in Z : x <= y
    <2>1. len \in Z /\ Z \subseteq Nat
      OBVIOUS
    <2> QED BY <2>1, LeastElement
  <1>2. x \in 0..len /\ P(x)
    <2>1. ASSUME NEW j \in 0..(x - 1) PROVE mem[from + j] # 0
      <3>1. j \in 0..len /\ j < len /\ ~(x <= j)
        BY <1>1
      <3> QED BY <1>1, <3>1
    <2> QED BY <1>1, <2>1
  <1>3. n \in 0..len /\ P(n)
    <2> HIDE DEF P
    <2> QED BY <1>2
  <1>4. CString(mem, from, len) = [i \in 1..n |-> mem[from + i - 1]]
    BY DEF CString
  <1> HIDE DEF n
  <1> QED BY <1>3, <1>4 DEF EndsAfter

LEMMA CStringReads ==
    ASSUME NEW mem, NEW from \in Nat, NEW len \in Nat, NEW s \in Text,
           Stands(s, mem, from, len)
    PROVE  CString(mem, from, len) = s
  <1> DEFINE m == Len(s)
             P(k) == /\ \A j \in 0..(k - 1) : mem[from + j] # 0
                     /\ k < len => mem[from + k] = 0
  <1>1. m \in 0..len /\ m \in Nat
    BY DEF Text, Stands
  <1>2. \A j \in 0..(m - 1) : mem[from + j] # 0
    <2> SUFFICES ASSUME NEW j \in 0..(m - 1) PROVE mem[from + j] # 0
      OBVIOUS
    <2>1. mem[from + j] = s[j + 1]
      BY DEF Stands
    <2>2. j + 1 \in 1..Len(s)
      BY <1>1
    <2>3. s[j + 1] \in Char
      BY <2>2 DEF Text
    <2> QED BY <2>1, <2>3, CharFacts
  <1>3. P(m)
    BY <1>2 DEF Stands
  <1>4. ASSUME NEW k \in 0..len, P(k) PROVE k = m
    <2>1. CASE k < m
      <3>1. k < len /\ k \in 0..(m - 1)
        BY <1>1, <2>1
      <3> QED BY <1>2, <1>4, <3>1
    <2>2. CASE k > m
      <3>1. m < len /\ m \in 0..(k - 1)
        BY <1>1, <2>2
      <3> QED BY <1>4, <3>1 DEF Stands
    <2> QED BY <1>1, <2>1, <2>2
  <1>5. (CHOOSE k \in 0..len : P(k)) = m
    <2> HIDE DEF P, m
    <2> QED BY <1>1, <1>3, <1>4
  <1>6. CString(mem, from, len) = [i \in 1..m |-> mem[from + i - 1]]
    BY <1>5 DEF CString
  <1>7. ASSUME NEW i \in 1..m PROVE mem[from + i - 1] = s[i]
    <2>1. i - 1 \in 0..(m - 1) /\ from + (i - 1) = from + i - 1 /\ (i - 1) + 1 = i
      BY <1>1
    <2>2. mem[from + (i - 1)] = s[(i - 1) + 1]
      BY <2>1 DEF Stands
    <2> QED BY <2>1, <2>2
  <1>8. s = [i \in 1..m |-> s[i]]
    BY DEF Text
  <1> QED BY <1>6, <1>7, <1>8

(* A byte of the text, or its 0, that was not written stands in what is     *)
(* read, as there is no 0 before it.                                        *)
LEMMA CStringOfTorn ==
    ASSUME NEW mem, NEW done, NEW from \in Nat, NEW len \in Nat, NEW s \in Text,
           Stands(s, mem, from, len), from + len <= SsidLen + PassLen
    PROVE  LET t == CString(Torn(mem, done), from, len) IN t = s \/ ErasedIn(t)
  <1> DEFINE w == Torn(mem, done)
  <1>1. \A i \in Bytes : w[i] = IF i \in done THEN mem[i] ELSE 255
    BY DEF Torn
  <1>2. Len(s) \in Nat /\ Len(s) <= len /\ SsidLen \in Nat /\ PassLen \in Nat
    BY ProvisionAssumption DEF Stands, Text
  <1>3. \A k \in 0..(len - 1) : from + k \in Bytes
    BY <1>2 DEF Bytes
  <1> HIDE DEF w
  <1>4. CASE \A k \in 0..Len(s) : k < len => from + k \in done
    <2>1. \A k \in 0..Len(s) : k < len => w[from + k] = mem[from + k]
      BY <1>1, <1>2, <1>3, <1>4
    <2>2. \A k \in 0..(Len(s) - 1) : w[from + k] = s[k + 1]
      <3> SUFFICES ASSUME NEW k \in 0..(Len(s) - 1) PROVE w[from + k] = s[k + 1]
        OBVIOUS
      <3>1. k \in 0..Len(s) /\ k < len
        BY <1>2
      <3>2. mem[from + k] = s[k + 1]
        BY DEF Stands
      <3> QED BY <2>1, <3>1, <3>2
    <2>3. Len(s) < len => w[from + Len(s)] = 0
      <3>1. Len(s) \in 0..Len(s) /\ (Len(s) < len => mem[from + Len(s)] = 0)
        BY <1>2 DEF Stands
      <3> QED BY <2>1, <3>1
    <2>4. Stands(s, w, from, len)
      BY <1>2, <2>2, <2>3 DEF Stands
    <2>5. CString(w, from, len) = s
      BY <2>4, CStringReads
    <2> QED BY <2>5 DEF w
  <1>5. CASE \E k \in 0..Len(s) : k < len /\ from + k \notin done
    <2>1. PICK k \in 0..Len(s) : k < len /\ from + k \notin done
      BY <1>5
    <2>2. w[from + k] = 255
      BY <1>1, <1>2, <1>3, <2>1
    <2>3. PICK n \in 0..len : EndsAfter(n, w, from, len)
      BY CStringEnds
    <2>4. k < n
      <3> SUFFICES ASSUME n <= k PROVE FALSE
        BY <1>2
      <3>1. n < len /\ w[from + n] = 0 /\ n # k
        BY <1>2, <2>1, <2>2, <2>3 DEF EndsAfter
      <3>2. n \in 0..(Len(s) - 1) /\ n + 1 \in 1..Len(s)
        BY <1>2, <3>1
      <3>3. mem[from + n] = s[n + 1]
        BY <3>2 DEF Stands
      <3>4. s[n + 1] \in Char
        BY <3>2 DEF Text
      <3>5. w[from + n] = mem[from + n] \/ w[from + n] = 255
        BY <1>1, <1>2, <1>3, <3>1
      <3> QED BY <3>1, <3>3, <3>4, <3>5, CharFacts
    <2>5. k + 1 \in 1..n /\ from + (k + 1) - 1 = from + k
      BY <1>2, <2>4
    <2>6. DOMAIN CString(w, from, len) = 1..n
          /\ CString(w, from, len)[k + 1] = w[from + (k + 1) - 1]
      BY <2>3, <2>5 DEF EndsAfter
    <2>7. ErasedIn(CString(w, from, len))
      BY <2>2, <2>5, <2>6 DEF ErasedIn
    <2> QED BY <2>7 DEF w
  <1> QED BY <1>4, <1>5

(* Where the set-up writes the texts of a request.                          *)
LEMMA WrittenStands ==
    ASSUME NEW mem, NEW r \in Requests, Fits(r)
    PROVE  /\ Stands(r.ssid, Written(mem, r), 0, SsidLen)
           /\ Stands(r.pass, Written(mem, r), SsidLen, PassLen)
  <1> DEFINE w == Written(mem, r)
  <1>1. /\ r.ssid \in Text /\ r.pass \in Text /\ r = [ssid |-> r.ssid, pass |-> r.pass]
        /\ Len(r.ssid) \in Nat /\ Len(r.pass) \in Nat
        /\ Len(r.ssid) <= SsidLen /\ Len(r.pass) <= PassLen
        /\ SsidLen \in Nat /\ PassLen \in Nat
    BY ProvisionAssumption DEF Fits, Text
  <1>2. \A i \in Bytes :
          w[i] = IF i - SsidLen + 1 \in 1..Len(r.pass) THEN r.pass[i - SsidLen + 1]
                 ELSE IF i + 1 \in 1..Len(r.ssid) THEN r.ssid[i + 1] ELSE 0
    BY DEF Written
  <1> HIDE DEF w
  <1>3. Stands(r.ssid, w, 0, SsidLen)
    <2>1. \A k \in 0..(Len(r.ssid) - 1) : w[0 + k] = r.ssid[k + 1]
      BY <1>1, <1>2 DEF Bytes
    <2>2. Len(r.ssid) < SsidLen => w[0 + Len(r.ssid)] = 0
      BY <1>1, <1>2 DEF Bytes
    <2> QED BY <1>1, <2>1, <2>2 DEF Stands
  <1>4. Stands(r.pass, w, SsidLen, PassLen)
    <2>1. \A k \in 0..(Len(r.pass) - 1) : w[SsidLen + k] = r.pass[k + 1]
      <3> SUFFICES ASSUME NEW k \in 0..(Len(r.pass) - 1)
                   PROVE  w[SsidLen + k] = r.pass[k + 1]
        OBVIOUS
      <3>1. SsidLen + k \in Bytes /\ (SsidLen + k) - SsidLen + 1 = k + 1
            /\ k + 1 \in 1..Len(r.pass)
        BY <1>1 DEF Bytes
      <3> QED BY <1>2, <3>1
    <2>2. Len(r.pass) < PassLen => w[SsidLen + Len(r.pass)] = 0
      <3> SUFFICES ASSUME Len(r.pass) < PassLen PROVE w[SsidLen + Len(r.pass)] = 0
        OBVIOUS
      <3>1. /\ SsidLen + Len(r.pass) \in Bytes
            /\ (SsidLen + Len(r.pass)) - SsidLen + 1 \notin 1..Len(r.pass)
            /\ (SsidLen + Len(r.pass)) + 1 \notin 1..Len(r.ssid)
        BY <1>1 DEF Bytes
      <3> QED BY <1>2, <3>1
    <2> QED BY <1>1, <2>1, <2>2 DEF Stands
  <1> QED BY <1>3, <1>4 DEF w

(* The set-up and the start that follows it.                                *)
LEMMA WrittenIsRead ==
    ASSUME NEW mem, NEW r \in Requests, Fits(r)
    PROVE  Credentials(Written(mem, r)) = r
  <1>1. /\ r.ssid \in Text /\ r.pass \in Text /\ r = [ssid |-> r.ssid, pass |-> r.pass]
        /\ 0 \in Nat /\ SsidLen \in Nat /\ PassLen \in Nat
    BY ProvisionAssumption DEF Text
  <1>2. CString(Written(mem, r), 0, SsidLen) = r.ssid
    BY <1>1, WrittenStands, CStringReads
  <1>3. CString(Written(mem, r), SsidLen, PassLen) = r.pass
    BY <1>1, WrittenStands, CStringReads
  <1> QED BY <1>1, <1>2, <1>3 DEF Credentials

(* The same after a cut within the commit.                                  *)
LEMMA TornIsRead ==
    ASSUME NEW mem, NEW done, NEW r \in Requests, Fits(r)
    PROVE  LET c == Credentials(Torn(Written(mem, r), done))
           IN  /\ c.ssid = r.ssid \/ ErasedIn(c.ssid)
               /\ c.pass = r.pass \/ ErasedIn(c.pass)
  <1>1. /\ r.ssid \in Text /\ r.pass \in Text
        /\ 0 \in Nat /\ SsidLen \in Nat /\ PassLen \in Nat
        /\ 0 + SsidLen <= SsidLen + PassLen
    BY ProvisionAssumption DEF Text
  <1> DEFINE w == Torn(Written(mem, r), done)
  <1>2. CString(w, 0, SsidLen) = r.ssid \/ ErasedIn(CString(w, 0, SsidLen))
    BY <1>1, WrittenStands, CStringOfTorn
  <1>3. CString(w, SsidLen, PassLen) = r.pass \/ ErasedIn(CString(w, SsidLen, PassLen))
    BY <1>1, WrittenStands, CStringOfTorn
  <1> QED BY <1>2, <1>3 DEF Credentials

LEMMA TornOfAll ==
    ASSUME NEW mem, NEW r
    PROVE  Torn(Written(mem, r), Bytes) = Written(mem, r)
  BY DEF Torn, Written

(* What the EEPROM holds is what is used, so that a start changes nothing.  *)
StoredInv ==
    /\ phase = "commit" => asked \in Requests
    /\ saved \in Requests \cup {NoRequest}
    /\ used = Credentials(flash)
    /\ SavedIsUsed

(* A commit that was done, or cut.                                          *)
LEMMA CommitKeeps ==
    ASSUME Boot, asked \in Requests, saved' = asked, NEW done \in SUBSET Bytes,
           flash' = Torn(Written(flash, asked), done), torn' = (done # Bytes)
    PROVE  StoredInv'
  <1> DEFINE c == Credentials(flash')
  <1>1. used' = c /\ phase' = "connect"
    BY DEF Boot
  <1>2. Fits(asked) => /\ c.ssid = asked.ssid \/ (torn' /\ ErasedIn(c.ssid))
                       /\ c.pass = asked.pass \/ (torn' /\ ErasedIn(c.pass))
    <2> SUFFICES ASSUME Fits(asked)
                 PROVE  /\ c.ssid = asked.ssid \/ (torn' /\ ErasedIn(c.ssid))
                        /\ c.pass = asked.pass \/ (torn' /\ ErasedIn(c.pass))
      OBVIOUS
    <2>1. CASE done = Bytes
      <3>1. c = asked
        BY <2>1, WrittenIsRead, TornOfAll
      <3> QED BY <3>1
    <2>2. CASE done # Bytes
      BY <2>2, TornIsRead
    <2> QED BY <2>1, <2>2
  <1> HIDE DEF c
  <1>3. SavedIsUsed'
    BY <1>1, <1>2 DEF SavedIsUsed, Fits
  <1>4. used' = Credentials(flash')
    BY <1>1 DEF c
  <1> QED BY <1>1, <1>3, <1>4 DEF StoredInv

(* A start that no commit came before.                                      *)
LEMMA BootKeeps ==
    ASSUME StoredInv, Boot, UNCHANGED <<flash, saved, torn>>
    PROVE  StoredInv'
  <1>1. used' = Credentials(flash') /\ used' = used /\ phase' = "connect"
    BY DEF StoredInv, Boot, Credentials, CString
  <1>2. SavedIsUsed'
    BY <1>1 DEF StoredInv, SavedIsUsed, Fits
  <1> QED BY <1>1, <1>2 DEF StoredInv

LEMMA StoredStep == ASSUME StoredInv, [Next]_vars PROVE StoredInv'
  <1>1. CASE Save
    <2>1. Bytes \in SUBSET Bytes /\ asked \in Requests /\ saved' = asked /\ Boot
          /\ flash' = Torn(Written(flash, asked), Bytes) /\ torn' = (Bytes # Bytes)
      BY <1>1, TornOfAll DEF Save, StoredInv
    <2> QED BY <2>1, CommitKeeps
  <1>2. CASE PowerCut
    <2>1. CASE UNCHANGED <<flash, saved, torn>>
      BY <1>2, <2>1, BootKeeps DEF PowerCut
    <2>2. CASE ~UNCHANGED <<flash, saved, torn>>
      <3>1. /\ Boot /\ phase = "commit" /\ saved' = asked
            /\ \E done \in SUBSET Bytes :
                  /\ flash' = Torn(Written(flash, asked), done)
                  /\ torn' = (done # Bytes)
        BY <1>2, <2>2 DEF PowerCut
      <3>2. asked \in Requests
        BY <3>1 DEF StoredInv
      <3> QED BY <3>1, <3>2, CommitKeeps
    <2> QED BY <2>1, <2>2
  <1>3. CASE Setting
    BY <1>3 DEF Setting, StoredInv, SavedIsUsed, Fits, Credentials, CString
  <1>4. CASE LookAgain \/ Succeeds \/ setupAP \/ Join \/ RouterDown \/ RouterUp
             \/ UNCHANGED vars
    BY <1>4 DEF LookAgain, Succeeds, setupAP, Join, RouterDown, RouterUp, vars,
                StoredInv, SavedIsUsed, Fits, Credentials, CString
  <1> QED BY <1>1, <1>2, <1>3, <1>4 DEF Next, Program

(* The last request whose commit reached the flash, if it fits its areas,   *)
(* is what every later start uses, whatever was stored before it; after a   *)
(* power failure within that commit, wherever it fell, each of its texts is *)
(* used to the letter or has an erased byte in what is used.                *)
THEOREM SavedIsUsedAlways == Spec => []SavedIsUsed
  <1>1. Init => StoredInv
    BY DEF Init, StoredInv, SavedIsUsed
  <1>2. StoredInv => SavedIsUsed
    BY DEF StoredInv, SavedIsUsed
  <1> QED BY <1>1, <1>2, StoredStep, PTL DEF Spec

-----------------------------------------------------------------------------
LEMMA CStringType ==
    ASSUME NEW mem \in [Bytes -> 0..255], NEW from \in Nat, NEW len \in Nat,
           from + len <= SsidLen + PassLen
    PROVE  CString(mem, from, len) \in Seq(1..255)
  <1>1. PICK n \in 0..len : EndsAfter(n, mem, from, len)
    BY CStringEnds
  <1>2. ASSUME NEW i \in 1..n PROVE mem[from + i - 1] \in 1..255
    <2>1. i - 1 \in 0..(n - 1) /\ from + (i - 1) = from + i - 1
      OBVIOUS
    <2>2. mem[from + i - 1] # 0
      BY <1>1, <2>1 DEF EndsAfter
    <2>3. from + i - 1 \in Bytes
      BY ProvisionAssumption DEF Bytes
    <2> QED BY <2>2, <2>3
  <1> QED BY <1>1, <1>2 DEF EndsAfter

LEMMA CredentialsType ==
    ASSUME NEW mem \in [Bytes -> 0..255]
    PROVE  Credentials(mem).ssid \in Seq(1..255) /\ Credentials(mem).pass \in Seq(1..255)
  <1>1. SsidLen \in Nat /\ PassLen \in Nat /\ 0 + SsidLen <= SsidLen + PassLen
    BY ProvisionAssumption
  <1>2. CString(mem, 0, SsidLen) \in Seq(1..255)
    BY <1>1, CStringType
  <1>3. CString(mem, SsidLen, PassLen) \in Seq(1..255)
    BY <1>1, CStringType
  <1> QED BY <1>2, <1>3 DEF Credentials

LEMMA WrittenType ==
    ASSUME NEW mem, NEW r \in Requests
    PROVE  Written(mem, r) \in [Bytes -> 0..255]
  <1>1. r.ssid \in Text /\ r.pass \in Text
    BY ProvisionAssumption
  <1>2. ASSUME NEW t \in Text, NEW k \in 1..Len(t) PROVE t[k] \in 0..255
    <2>1. t[k] \in Char
      BY DEF Text
    <2> QED BY <2>1 DEF Char
  <1> HIDE DEF Text
  <1>3. ASSUME NEW i \in Bytes
        PROVE  (IF i - SsidLen + 1 \in 1..Len(r.pass) THEN r.pass[i - SsidLen + 1]
                ELSE IF i + 1 \in 1..Len(r.ssid) THEN r.ssid[i + 1] ELSE 0) \in 0..255
    <2>1. CASE i - SsidLen + 1 \in 1..Len(r.pass)
      BY <1>1, <1>2, <2>1
    <2>2. CASE i + 1 \in 1..Len(r.ssid)
      <3>1. r.ssid[i + 1] \in 0..255
        BY <1>1, <1>2, <2>2
      <3> QED BY <2>1, <2>2, <3>1
    <2> QED BY <2>1, <2>2
  <1> QED BY <1>3 DEF Written

(* A commit is always one of a request.                                     *)
TypeInv == TypeOK /\ (phase = "commit" => asked \in Requests)

LEMMA TornType ==
    ASSUME NEW mem, NEW done, NEW r \in Requests
    PROVE  Torn(Written(mem, r), done) \in [Bytes -> 0..255]
  <1>1. Written(mem, r) \in [Bytes -> 0..255]
    BY WrittenType
  <1> QED BY <1>1 DEF Torn

LEMMA BoundsFacts ==
    MaxTries \in Nat /\ MaxJoin \in Nat /\ MaxCuts \in Nat /\ MaxOutages \in Nat
  BY ProvisionAssumption

LEMMA BootType ==
    ASSUME TypeOK, Boot, flash' \in [Bytes -> 0..255]
    PROVE  /\ phase' = "connect" /\ tries' \in 0..MaxTries /\ lag' \in 0..MaxJoin
           /\ used'.ssid \in Seq(1..255) /\ used'.pass \in Seq(1..255)
           /\ station' \in BOOLEAN /\ connected' \in BOOLEAN
           /\ asked' \in Requests \cup {NoRequest}
  <1>1. used' = Credentials(flash') /\ 0 \in 0..MaxTries /\ 0 \in 0..MaxJoin
    BY BoundsFacts DEF Boot
  <1>2. used'.ssid \in Seq(1..255) /\ used'.pass \in Seq(1..255)
    BY <1>1, CredentialsType
  <1> QED BY <1>1, <1>2 DEF Boot

LEMMA TypeStep == ASSUME TypeInv, [Next]_vars PROVE TypeInv'
  <1>0. TypeOK
    BY DEF TypeInv
  <1>1. CASE Save
    <2>1. flash' \in [Bytes -> 0..255] /\ asked \in Requests
      BY <1>1, WrittenType DEF Save, TypeInv
    <2> QED BY <1>0, <1>1, <2>1, BootType DEF Save, TypeInv, TypeOK
  <1>2. CASE PowerCut
    <2>1. /\ flash' \in [Bytes -> 0..255]
          /\ saved' \in Requests \cup {NoRequest} /\ torn' \in BOOLEAN
      <3>1. CASE UNCHANGED <<flash, saved, torn>>
        BY <1>0, <3>1 DEF TypeOK
      <3>2. CASE ~UNCHANGED <<flash, saved, torn>>
        <4>1. PICK done \in SUBSET Bytes :
                  /\ flash' = Torn(Written(flash, asked), done)
                  /\ torn' = (done # Bytes)
          BY <1>2, <3>2 DEF PowerCut
        <4>2. asked \in Requests /\ saved' = asked
          BY <1>2, <3>2 DEF PowerCut, TypeInv
        <4>3. torn' \in BOOLEAN
          BY <4>1, Zenon
        <4> QED BY <4>1, <4>2, <4>3, TornType
      <3> QED BY <3>1, <3>2
    <2>2. cuts' \in 0..MaxCuts /\ up' = up /\ outages' = outages
      BY <1>0, <1>2, BoundsFacts DEF PowerCut, TypeOK
    <2> QED BY <1>0, <1>2, <2>1, <2>2, BootType DEF PowerCut, TypeInv, TypeOK
  <1>3. CASE Setting
    BY <1>0, <1>3 DEF Setting, TypeInv, TypeOK
  <1>4. CASE LookAgain
    <2>1. tries' \in 0..MaxTries /\ lag' \in 0..MaxJoin
      BY <1>0, <1>4, BoundsFacts DEF LookAgain, GivesUp, TypeOK
    <2> QED BY <1>0, <1>4, <2>1 DEF LookAgain, TypeInv, TypeOK
  <1>5. CASE Succeeds
    BY <1>0, <1>5 DEF Succeeds, TypeInv, TypeOK
  <1>6. CASE setupAP
    <2>1. lag' \in 0..MaxJoin /\ phase' = "portal" /\ station' = FALSE /\ connected' = FALSE
          /\ UNCHANGED <<flash, used, tries, up, asked, saved, torn, cuts, outages>>
      BY <1>6, BoundsFacts DEF setupAP
    <2> QED BY <1>0, <2>1 DEF TypeInv, TypeOK
  <1>7. CASE Join
    BY <1>0, <1>7, BoundsFacts DEF Join, TypeInv, TypeOK
  <1>8. CASE RouterDown
    <2>1. lag' \in 0..MaxJoin /\ outages' \in 0..MaxOutages
      BY <1>0, <1>8, BoundsFacts DEF RouterDown, TypeOK
    <2> QED BY <1>0, <1>8, <2>1 DEF RouterDown, TypeInv, TypeOK
  <1>9. CASE RouterUp
    BY <1>0, <1>9 DEF RouterUp, TypeInv, TypeOK
  <1>10. CASE UNCHANGED vars
    BY <1>0, <1>10 DEF vars, TypeInv, TypeOK
  <1> QED BY <1>1, <1>2, <1>3, <1>4, <1>5, <1>6, <1>7, <1>8, <1>9, <1>10 DEF Next, Program

LEMMA TypeInvAlways == Spec => []TypeInv
  <1>1. Init => TypeInv
    <2>1. Erased \in [Bytes -> 0..255]
      BY DEF Erased
    <2>2. 0 \in 0..MaxTries /\ 0 \in 0..MaxJoin /\ 0 \in 0..MaxCuts /\ 0 \in 0..MaxOutages
      BY BoundsFacts
    <2>3. Credentials(Erased).ssid \in Seq(1..255) /\ Credentials(Erased).pass \in Seq(1..255)
      BY <2>1, CredentialsType
    <2> QED BY <2>1, <2>2, <2>3 DEF Init, TypeInv, TypeOK
  <1> QED BY <1>1, TypeStep, PTL DEF Spec

(* Every variable has its type, for areas and requests of any length: what  *)
(* is used never holds a byte 0, and the looks at the status are bounded.   *)
THEOREM ProvisionTypeCorrect == Spec => []TypeOK
  <1>1. TypeInv => TypeOK
    BY DEF TypeInv
  <1> QED BY <1>1, TypeInvAlways, PTL

-----------------------------------------------------------------------------
(* A request with the router's credentials, on its way to the connection.   *)
AskedFor(c) == phase = "commit" /\ asked = Router /\ cuts = c
Joining(c) ==
    /\ phase = "connect" /\ used = Router /\ station
    /\ tries = lag
    /\ cuts = c
Online(c) == connected \/ ~up \/ cuts # c

(* The commit is done and the module starts with what was asked.            *)
LEMMA CommitEnds ==
    ASSUME TypeInv, Fits(Router), NEW c \in 0..MaxCuts, AskedFor(c), [Next]_vars
    PROVE  \/ AskedFor(c)' /\ ~<<Program>>_vars
           \/ Joining(c)' \/ Online(c)'
  <1>1. CASE Save
    <2>1. Credentials(flash') = Router
      BY <1>1, WrittenIsRead DEF Save, TypeInv, AskedFor
    <2> QED BY <1>1, <2>1 DEF Save, Boot, Joining, AskedFor
  <1>2. CASE PowerCut
    BY <1>2 DEF PowerCut, AskedFor, Online, TypeInv, TypeOK
  <1>3. CASE ~Save /\ ~PowerCut
    BY <1>3 DEF Next, Program, LookAgain, Succeeds, setupAP, Setting, Join, RouterDown,
       RouterUp, vars, AskedFor, Online
  <1> QED BY <1>1, <1>2, <1>3

(* As many looks have passed as the router has had, and it is in before the *)
(* last of them.                                                            *)
LEMMA JoinComes ==
    ASSUME TypeOK, MaxJoin < MaxTries, NEW c \in 0..MaxCuts,
           Joining(c), ~Online(c), [Next]_vars
    PROVE  \/ Joining(c)' /\ ~<<Join>>_vars
           \/ Online(c)'
  <1>0. CanJoin /\ ~GivesUp
    BY BoundsFacts DEF TypeOK, Joining, Online, CanJoin, GivesUp
  <1>1. CASE LookAgain
    BY <1>0, <1>1 DEF LookAgain, Joining, Join, Online
  <1>2. CASE PowerCut
    BY <1>2 DEF PowerCut, Joining, Online, TypeOK
  <1>3. CASE Join \/ RouterDown
    BY <1>3 DEF Join, RouterDown, Online
  <1>4. CASE UNCHANGED vars
    BY <1>4 DEF vars, Joining
  <1> QED BY <1>0, <1>1, <1>2, <1>3, <1>4
          DEF Next, Program, Succeeds, setupAP, Save, Setting, RouterUp, Joining, CanJoin

(* A request that fits its areas brings the module onto a router that lets  *)
(* it in before testWifi has looked twenty times: of the fairness of the    *)
(* program and the router, with ENABLED as RunsOn says it is.               *)
THEOREM SettingConnectsAlways ==
    MaxJoin < MaxTries /\ Fits(Router) => (Spec /\ []RunsOn => SettingConnects)
  <1> SUFFICES ASSUME MaxJoin < MaxTries, Fits(Router)
               PROVE  Spec /\ []RunsOn => SettingConnects
    OBVIOUS
  <1>1. ASSUME NEW c \in 0..MaxCuts
        PROVE  Spec /\ []RunsOn =>
                 (phase = "commit" /\ asked = Router /\ cuts = c
                    ~> connected \/ ~up \/ cuts # c)
    <2>1. /\ TypeInv /\ AskedFor(c) /\ [Next]_vars =>
               (AskedFor(c)' /\ ~<<Program>>_vars) \/ Joining(c)' \/ Online(c)'
          /\ RunsOn /\ AskedFor(c) => ENABLED <<Program>>_vars
      BY CommitEnds DEF RunsOn, AskedFor
    <2>2. /\ TypeOK /\ Joining(c) /\ ~Online(c) /\ [Next]_vars =>
               (Joining(c)' /\ ~<<Join>>_vars) \/ Online(c)'
          /\ RunsOn /\ Joining(c) /\ ~Online(c) => ENABLED <<Join>>_vars
      BY JoinComes DEF RunsOn, Joining, Online, CanJoin
    <2>3. Spec => []TypeInv
      BY TypeInvAlways
    <2>4. Spec /\ []RunsOn => (Joining(c) ~> Online(c))
      BY <2>2, ProvisionTypeCorrect, PTL DEF Spec
    <2>5. Spec /\ []RunsOn => (AskedFor(c) ~> Online(c))
      BY <2>1, <2>3, <2>4, PTL DEF Spec
    <2> QED BY <2>5, PTL DEF AskedFor, Online
  <1> QED BY <1>1 DEF SettingConnects

-----------------------------------------------------------------------------
(* In the portal the station has been given up.                             *)
GivenUp == phase \in {"portal", "commit"} => ~station /\ ~connected

LEMMA GivenUpAlways == Spec => []GivenUp
  <1>1. Init => GivenUp
    BY DEF Init, GivenUp
  <1>2. GivenUp /\ [Next]_vars => GivenUp'
    BY DEF GivenUp, Next, Program, LookAgain, Succeeds, setupAP, Setting, Save, Boot, Join,
           CanJoin, PowerCut, RouterDown, RouterUp, vars
  <1> QED BY <1>1, <1>2, PTL DEF Spec

(* A module that was in its portal when the router came back stays there    *)
(* for ever, with the right credentials: only a request of a phone or a     *)
(* power failure ends it.                                                   *)
THEOREM PortalNeedsAPhone ==
    Spec => [](phase = "portal"
                 => ([][~Setting /\ ~PowerCut]_vars => [](phase = "portal" /\ ~connected)))
  <1>1. GivenUp /\ phase = "portal" /\ [Next]_vars /\ [~Setting /\ ~PowerCut]_vars
          => (phase = "portal")'
    BY DEF GivenUp, Next, Program, LookAgain, Succeeds, setupAP, Save, Join, CanJoin,
           RouterDown, RouterUp, vars
  <1>2. GivenUp /\ phase = "portal" => ~connected
    BY DEF GivenUp
  <1> QED BY <1>1, <1>2, GivenUpAlways, PTL DEF Spec

=============================================================================
