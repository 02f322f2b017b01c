------------------------ MODULE AirfiRegistersProofs ------------------------
(***************************************************************************)
(* What is proved of AirfiRegisters, for every entered value and every     *)
(* content a unit may report.                                              *)
(***************************************************************************)
EXTENDS AirfiRegisters, TLAPS

-----------------------------------------------------------------------------
(* The conversions.                                                        *)

\* A converted value is within half a unit of the value it is converted from.
LEMMA ToRawNearest ==
  ASSUME NEW v \in Int, NEW s \in {10, 100}
  PROVE  /\ ToRaw(v, s) \in Int
         /\ 2 * (s * ToRaw(v, s)) <= 2 * v + s
         /\ 2 * v - s <= 2 * (s * ToRaw(v, s))
<1>1. CASE s = 10
  BY <1>1 DEF ToRaw
<1>2. CASE s = 100
  BY <1>2 DEF ToRaw
<1> QED BY <1>1, <1>2

\* A limit, or what is shown of a register, converts back exactly.
LEMMA ToRawExact ==
  ASSUME NEW r \in Nat, NEW s \in {10, 100}
  PROVE  ToRaw(s * r, s) = r
<1>1. CASE s = 10
  BY <1>1 DEF ToRaw
<1>2. CASE s = 100
  BY <1>2 DEF ToRaw
<1> QED BY <1>1, <1>2

\* Clamping a nearest register content between the contents of the limits gives
\* the nearest content of the clamped value.
LEMMA ClampNearest ==
  ASSUME NEW s \in {10, 100}, NEW lo \in Nat, NEW hi \in Nat, lo <= hi,
         NEW v \in Int, NEW q \in Int, 2 * (s * q) <= 2 * v + s, 2 * v - s <= 2 * (s * q)
  PROVE  LET c      == Greatest(lo, Least(hi, q))
             wanted == Greatest(s * lo, Least(s * hi, v))
         IN  /\ c \in lo..hi
             /\ s * lo <= s * c /\ s * c <= s * hi
             /\ 2 * (s * c - wanted) <= s /\ 2 * (wanted - s * c) <= s
<1>1. CASE s = 10
  BY <1>1 DEF Greatest, Least
<1>2. CASE s = 100
  BY <1>2 DEF Greatest, Least
<1> QED BY <1>1, <1>2

-----------------------------------------------------------------------------
(* The table of numbers.                                                   *)

\* Limits are multiples of the scale that a register can hold.
RowOK(row) ==
  /\ row.scale \in {10, 100}
  /\ row.min \in Int /\ row.max \in Int
  /\ 0 <= row.min /\ row.min <= row.max /\ row.max <= MaxContent * row.scale
  /\ row.min % row.scale = 0 /\ row.max % row.scale = 0

NumberAddresses ==
  {4, 5, 6, 7, 10, 11} \cup (13..23) \cup {25, 26} \cup (28..32) \cup (35..44) \cup (46..50)
    \cup {52, 53, 54, 60, 62, 63, 66, 67, 68}

LEMMA NumberRows ==
  ASSUME NEW row \in NUMBER_REGISTERS
  PROVE  RowOK(row) /\ row.address \in NumberAddresses
BY DEF NUMBER_REGISTERS, Numbers, RowOK, NumberAddresses, MaxContent

LEMMA OneRow ==
  ASSUME NEW row \in NUMBER_REGISTERS, NEW other \in NUMBER_REGISTERS, row.address = other.address
  PROVE  row = other
BY SMTT(120) DEF NUMBER_REGISTERS, Numbers

\* Entities of other kinds write other registers.
LEMMA OtherRegisters ==
  ASSUME NEW row \in NUMBER_REGISTERS
  PROVE  /\ \A other \in SELECT_REGISTERS : other.address # row.address
         /\ row.address \notin SWITCH_REGISTERS
         /\ \A other \in BUTTON_REGISTERS : other.address # row.address
BY NumberRows DEF NumberAddresses, SELECT_REGISTERS, SWITCH_REGISTERS, BUTTON_REGISTERS

\* The limits of a row are those of a range of register contents.
LEMMA RowLimits ==
  ASSUME NEW row \in NUMBER_REGISTERS
  PROVE  /\ row.scale \in {10, 100}
         /\ \E lo, hi \in Nat :
              /\ lo <= hi /\ hi <= MaxContent
              /\ row.min = row.scale * lo /\ ToRaw(row.min, row.scale) = lo
              /\ row.max = row.scale * hi /\ ToRaw(row.max, row.scale) = hi
<1> DEFINE lo == row.min \div row.scale
           hi == row.max \div row.scale
<1>1. RowOK(row)
  BY NumberRows
<1>2. row.scale \in {10, 100}
  BY <1>1 DEF RowOK
<1>3. lo \in Nat /\ hi \in Nat /\ lo <= hi /\ hi <= MaxContent /\ row.min = row.scale * lo /\ row.max = row.scale * hi
  <2>1. CASE row.scale = 10
    BY <1>1, <2>1 DEF RowOK, MaxContent
  <2>2. CASE row.scale = 100
    BY <1>1, <2>2 DEF RowOK, MaxContent
  <2> QED BY <1>2, <2>1, <2>2
<1> HIDE DEF lo, hi
<1>5. ToRaw(row.scale * lo, row.scale) = lo /\ ToRaw(row.scale * hi, row.scale) = hi
  BY <1>2, <1>3, ToRawExact
<1>6. ToRaw(row.min, row.scale) = lo /\ ToRaw(row.max, row.scale) = hi
  BY <1>3, <1>5, Zenon
<1> QED BY <1>2, <1>3, <1>6, Zenon

\* Written: within the limits, nearest to the value or the limit it exceeds.
LEMMA WrittenFacts ==
  ASSUME NEW row \in NUMBER_REGISTERS, NEW v \in Int
  PROVE  /\ Written(row, v) \in Nat /\ Written(row, v) <= MaxContent
         /\ row.min <= row.scale * Written(row, v) /\ row.scale * Written(row, v) <= row.max
         /\ LET wanted == Greatest(row.min, Least(row.max, v))
                shown  == row.scale * Written(row, v)
            IN  2 * (shown - wanted) <= row.scale /\ 2 * (wanted - shown) <= row.scale
<1>1. PICK s \in {10, 100} : row.scale = s
  BY RowLimits
<1>2. PICK lo, hi \in Nat :
        /\ lo <= hi /\ hi <= MaxContent
        /\ row.min = row.scale * lo /\ ToRaw(row.min, row.scale) = lo
        /\ row.max = row.scale * hi /\ ToRaw(row.max, row.scale) = hi
  BY RowLimits
<1> DEFINE q == ToRaw(v, s)
           c == Greatest(lo, Least(hi, q))
           wanted == Greatest(s * lo, Least(s * hi, v))
<1>3. Written(row, v) = c
  BY <1>1, <1>2, Zenon DEF Written
<1>4. q \in Int /\ 2 * (s * q) <= 2 * v + s /\ 2 * v - s <= 2 * (s * q)
  BY <1>1, ToRawNearest, Zenon
<1>5. lo <= hi
  BY <1>2
<1> HIDE DEF q
<1>6. /\ c \in lo..hi
      /\ s * lo <= s * c /\ s * c <= s * hi
      /\ 2 * (s * c - wanted) <= s /\ 2 * (wanted - s * c) <= s
  BY <1>4, <1>5, ClampNearest
<1>7. c \in Nat /\ c <= MaxContent
  BY <1>2, <1>6 DEF MaxContent
<1>8. /\ row.min <= s * c /\ s * c <= row.max
      /\ wanted = Greatest(row.min, Least(row.max, v))
  BY <1>1, <1>2, <1>6, Zenon
<1> HIDE DEF c, wanted
<1> QED BY <1>1, <1>3, <1>6, <1>7, <1>8, Zenon

\* What is shown converts back to the register's content.
LEMMA WrittenStable ==
  ASSUME NEW row \in NUMBER_REGISTERS, NEW r \in Nat,
         row.min <= row.scale * r, row.scale * r <= row.max
  PROVE  Written(row, row.scale * r) = r
<1>1. row.scale \in {10, 100}
  BY RowLimits
<1>2. PICK lo, hi \in Nat :
        /\ lo <= hi /\ hi <= MaxContent
        /\ row.min = row.scale * lo /\ ToRaw(row.min, row.scale) = lo
        /\ row.max = row.scale * hi /\ ToRaw(row.max, row.scale) = hi
  BY RowLimits
<1>3. ToRaw(row.scale * r, row.scale) = r
  BY <1>1, ToRawExact
<1>4. lo <= r /\ r <= hi
  <2>1. CASE row.scale = 10
    BY <1>2, <2>1
  <2>2. CASE row.scale = 100
    BY <1>2, <2>2
  <2> QED BY <1>1, <2>1, <2>2
<1>5. Written(row, row.scale * r) = Greatest(lo, Least(hi, r))
  BY <1>2, <1>3, Zenon DEF Written
<1>6. Greatest(lo, Least(hi, r)) = r
  BY <1>4 DEF Greatest, Least
<1> QED BY <1>5, <1>6, Zenon

-----------------------------------------------------------------------------
(* The batches.                                                            *)

LEMMA BatchesAre ==
  /\ Batches(INPUT_REGISTER_BATCHES) = 1..49
  /\ Batches(HOLDING_REGISTER_BATCHES) = 1..68
<1>1. Batches(INPUT_REGISTER_BATCHES) = Batch(1, 20) \cup Batch(21, 20) \cup Batch(41, 9)
  <2> DEFINE S == <<<<1, 20>>, <<21, 20>>, <<41, 9>>>>
  <2>1. DOMAIN S = {1, 2, 3} /\ S[1] = <<1, 20>> /\ S[2] = <<21, 20>> /\ S[3] = <<41, 9>>
    OBVIOUS
  <2> HIDE DEF S
  <2>2. UNION {Batch(S[i][1], S[i][2]) : i \in DOMAIN S} =
          Batch(S[1][1], S[1][2]) \cup Batch(S[2][1], S[2][2]) \cup Batch(S[3][1], S[3][2])
    BY <2>1, SMT
  <2> QED BY <2>1, <2>2 DEF Batches, INPUT_REGISTER_BATCHES, S
<1>2. Batches(HOLDING_REGISTER_BATCHES) = Batch(1, 20) \cup Batch(21, 20) \cup Batch(41, 20) \cup Batch(61, 8)
  <2> DEFINE S == <<<<1, 20>>, <<21, 20>>, <<41, 20>>, <<61, 8>>>>
  <2>1. DOMAIN S = {1, 2, 3, 4} /\ S[1] = <<1, 20>> /\ S[2] = <<21, 20>> /\ S[3] = <<41, 20>> /\ S[4] = <<61, 8>>
    OBVIOUS
  <2> HIDE DEF S
  <2>2. UNION {Batch(S[i][1], S[i][2]) : i \in DOMAIN S} =
          Batch(S[1][1], S[1][2]) \cup Batch(S[2][1], S[2][2]) \cup Batch(S[3][1], S[3][2]) \cup Batch(S[4][1], S[4][2])
    BY <2>1, SMT
  <2> QED BY <2>1, <2>2 DEF Batches, HOLDING_REGISTER_BATCHES, S
<1>3. Batch(1, 20) \cup Batch(21, 20) \cup Batch(41, 9) = 1..49
  BY DEF Batch
<1>4. Batch(1, 20) \cup Batch(21, 20) \cup Batch(41, 20) \cup Batch(61, 8) = 1..68
  BY DEF Batch
<1> QED BY <1>1, <1>2, <1>3, <1>4

LEMMA ExtensionIs ==
  ASSUME NEW v \in Nat
  PROVE  UNION {Batch(b[1], b[2]) : b \in Extension(v)} =
           IF v >= 350 THEN 50..52 ELSE IF v >= 340 THEN {50} ELSE {}
<1>1. CASE v >= 350
  <2>1. Extension(v) = {<<50, 3>>}
    BY <1>1 DEF Extension, INPUT_EXTENSION_BATCHES
  <2> QED BY <1>1, <2>1 DEF Batch
<1>2. CASE v >= 340 /\ v < 350
  <2>1. Extension(v) = {<<50, 1>>}
    BY <1>2 DEF Extension, INPUT_EXTENSION_BATCHES
  <2> QED BY <1>2, <2>1 DEF Batch
<1>3. CASE v < 340
  <2>1. Extension(v) = {}
    BY <1>3 DEF Extension, INPUT_EXTENSION_BATCHES
  <2> QED BY <1>3, <2>1
<1> QED BY <1>1, <1>2, <1>3

-----------------------------------------------------------------------------
(* The state machine.                                                      *)

\* A value that was entered, and not overwritten by the unit, is what the
\* register holds.
AsEntered ==
  entered # NoValue =>
    \E row \in NUMBER_REGISTERS : register = Holding(row.address) /\ raw = Written(row, entered)

\* What the first refresh leaves.
Extended(v) == IF v >= 350 THEN 50..52 ELSE IF v >= 340 THEN {50} ELSE {}
Known(v) ==
  {Input(a) : a \in 1..49} \cup {Input(a) : a \in Extended(v)}
    \cup {Holding(a) : a \in 1..68}

AsPolled == polled = {} \/ polled = Known(version)

IInv == TypeOK /\ AsEntered /\ AsPolled

LEMMA InvInit == Init => IInv
BY RegistersAssumption DEF Init, IInv, TypeOK, AsEntered, AsPolled, NoValue

LEMMA InvPolls ==
  ASSUME IInv, Polls
  PROVE  IInv'
<1>1. version \in Nat
  BY RegistersAssumption DEF IInv, TypeOK
<1>2. polled' = Known(version)
  <2>1. UNION {Batch(b[1], b[2]) : b \in Extension(version)} = Extended(version)
    BY <1>1, ExtensionIs DEF Extended
  <2>2. polled' = {Input(a) : a \in Batches(INPUT_REGISTER_BATCHES)}
                   \cup {Input(a) : a \in UNION {Batch(b[1], b[2]) : b \in Extension(version)}}
                   \cup {Holding(a) : a \in Batches(HOLDING_REGISTER_BATCHES)}
    BY DEF Polls
  <2> QED BY <2>1, <2>2, BatchesAre, Zenon DEF Known
<1>3. Known(version) \in SUBSET ({"input", "holding"} \X (1..68))
  BY <1>1 DEF Known, Extended, Input, Holding
<1> QED BY <1>2, <1>3 DEF Polls, IInv, TypeOK, AsEntered, AsPolled

LEMMA InvSetsNumber ==
  ASSUME IInv, NEW row \in NUMBER_REGISTERS, NEW limit \in {row.min, row.max}, NEW d \in Offsets,
         SetsNumber(row, limit + d)
  PROVE  IInv'
<1>1. limit + d \in Int
  BY NumberRows, RegistersAssumption DEF RowOK
<1>2. raw' \in 0..MaxContent
  <2>1. raw' = Written(row, limit + d)
    BY DEF SetsNumber
  <2>2. Written(row, limit + d) \in Nat /\ Written(row, limit + d) <= MaxContent
    BY <1>1, WrittenFacts
  <2>3. MaxContent \in Nat
    BY DEF MaxContent
  <2> QED BY <2>1, <2>2, <2>3
<1> QED BY <1>1, <1>2 DEF SetsNumber, IInv, TypeOK, AsEntered, AsPolled

LEMMA InvWrites ==
  ASSUME IInv, NEW content \in 0..6, Writes(content)
  PROVE  IInv'
<1>1. raw' \in 0..MaxContent
  BY DEF Writes, MaxContent
<1>2. \A row \in NUMBER_REGISTERS : register # Holding(row.address)
  BY OtherRegisters DEF Writes, Holding
<1> QED BY <1>1, <1>2 DEF Writes, IInv, TypeOK, AsEntered, AsPolled

LEMMA InvReports ==
  ASSUME IInv, NEW content \in Reported, Reports(content)
  PROVE  IInv'
BY RegistersAssumption DEF Reports, IInv, TypeOK, AsEntered, AsPolled, NoValue

LEMMA InvNext ==
  ASSUME IInv, [Next]_vars
  PROVE  IInv'
<1>1. CASE Polls
  BY <1>1, InvPolls
<1>2. CASE \E row \in NUMBER_REGISTERS : \E limit \in {row.min, row.max} : \E d \in Offsets :
             SetsNumber(row, limit + d)
  BY <1>2, InvSetsNumber
<1>3. CASE \E content \in 0..6 : Writes(content)
  BY <1>3, InvWrites
<1>4. CASE \E content \in Reported : Reports(content)
  BY <1>4, InvReports
<1>5. CASE UNCHANGED vars
  BY <1>5 DEF vars, IInv, TypeOK, AsEntered, AsPolled
<1> QED BY <1>1, <1>2, <1>3, <1>4, <1>5 DEF Next

\* The inductive invariant.
THEOREM Invariant == Spec => []IInv
BY InvInit, InvNext, PTL DEF Spec

\* Every variable keeps its type; a register never holds more than 16 bits.
THEOREM TypeCorrect == Spec => []TypeOK
<1>1. IInv => TypeOK
  BY DEF IInv
<1> QED BY <1>1, Invariant, PTL

LEMMA EnteredIsWritten ==
  ASSUME IInv, entered # NoValue, NEW row \in NumberOf(register)
  PROVE  /\ row \in NUMBER_REGISTERS /\ entered \in Int
         /\ raw = Written(row, entered)
         /\ ScaledValue(raw, row.scale, FALSE) = row.scale * raw
<1>1. row \in NUMBER_REGISTERS /\ register = Holding(row.address)
  BY DEF NumberOf
<1>2. PICK other \in NUMBER_REGISTERS : register = Holding(other.address) /\ raw = Written(other, entered)
  BY DEF IInv, AsEntered
<1>3. other = row
  BY <1>1, <1>2, OneRow DEF Holding
<1> QED BY <1>1, <1>2, <1>3 DEF IInv, TypeOK, ScaledValue

\* What the code writes lies within the limits of the table, whatever is entered.
THEOREM WrittenInLimitsHolds == Spec => []WrittenInLimits
<1>1. IInv => WrittenInLimits
  BY EnteredIsWritten, WrittenFacts DEF WrittenInLimits
<1> QED BY <1>1, Invariant, PTL

\* What is shown is nearest to what was entered, whatever is entered.
THEOREM ShownIsNearestHolds == Spec => []ShownIsNearest
<1>1. IInv => ShownIsNearest
  BY EnteredIsWritten, WrittenFacts DEF ShownIsNearest
<1> QED BY <1>1, Invariant, PTL

\* Setting what is shown changes nothing, whatever the register holds.
THEOREM ShownIsStableHolds == Spec => []ShownIsStable
<1>1. ASSUME IInv, NEW row \in NumberOf(register),
             row.min <= ScaledValue(raw, row.scale, FALSE), ScaledValue(raw, row.scale, FALSE) <= row.max
      PROVE  Written(row, ScaledValue(raw, row.scale, FALSE)) = raw
  <2>1. row \in NUMBER_REGISTERS /\ ScaledValue(raw, row.scale, FALSE) = row.scale * raw
    BY <1>1 DEF NumberOf, ScaledValue
  <2>2. raw \in Nat
    BY <1>1 DEF IInv, TypeOK
  <2> QED BY <1>1, <2>1, <2>2, WrittenStable
<1>2. IInv => ShownIsStable
  BY <1>1 DEF ShownIsStable
<1> QED BY <1>2, Invariant, PTL

\* Temperatures are decoded as two's complement, for all 65536 contents.
THEOREM TemperatureIsSignedHolds == Spec => []TemperatureIsSigned
<1>1. IInv => raw \in Int /\ 0 <= raw /\ raw <= 65535
  BY SMT DEF IInv, TypeOK, MaxContent
<1>2. raw \in Int /\ 0 <= raw /\ raw <= 65535 => TemperatureIsSigned
  BY SMT DEF TemperatureIsSigned, ScaledValue
<1> QED BY <1>1, <1>2, Invariant, PTL

\* A bit is set if it is what remains of the content once the higher bits and
\* the lower ones are taken away.
LEMMA BitRemains ==
  ASSUME NEW r \in Int, 0 <= r, NEW bit \in ErrorBits
  PROVE  BitOn(r, bit) <=> (r % 2 ^ (bit + 1)) >= 2 ^ bit
<1>0. CASE bit = 0
  BY <1>0, SMT DEF BitOn
<1>1. CASE bit = 1
  BY <1>1, SMT DEF BitOn
<1>2. CASE bit = 2
  BY <1>2, SMT DEF BitOn
<1>3. CASE bit = 3
  BY <1>3, SMT DEF BitOn
<1>4. CASE bit = 4
  BY <1>4, SMT DEF BitOn
<1>5. CASE bit = 5
  BY <1>5, SMT DEF BitOn
<1>6. CASE bit = 6
  BY <1>6, SMT DEF BitOn
<1>7. CASE bit = 7
  BY <1>7, SMT DEF BitOn
<1>8. CASE bit = 8
  BY <1>8, SMT DEF BitOn
<1> QED BY <1>0, <1>1, <1>2, <1>3, <1>4, <1>5, <1>6, <1>7, <1>8, SMT DEF ErrorBits

\* Every error sensor shows its own bit, for all 65536 contents.
THEOREM ErrorsAreShownHolds == Spec => []ErrorsAreShown
<1>1. IInv => raw \in Int /\ 0 <= raw
  BY SMT DEF IInv, TypeOK, MaxContent
<1> DEFINE Remains(bit) == (raw % 2 ^ (bit + 1)) >= 2 ^ bit
<1>2. ASSUME raw \in Int, 0 <= raw
      PROVE  \A bit \in ErrorBits : BitOn(raw, bit) <=> Remains(bit)
  BY <1>2, BitRemains
<1>3. ErrorsAreShown <=>
        (register = Input(ErrorRegister) =>
           \A bits \in SUBSET ErrorBits :
             (\A bit \in ErrorBits : bit \in bits <=> Remains(bit)) => {bit \in ErrorBits : BitOn(raw, bit)} = bits)
  BY DEF ErrorsAreShown
<1> HIDE DEF Remains
<1>4. IInv => ErrorsAreShown
  BY <1>1, <1>2, <1>3, Zenon
<1> QED BY <1>4, Invariant, PTL

\* On every version exactly the described registers the unit has are polled.
THEOREM KnownIffPresentHolds == Spec => []KnownIffPresent
<1>1. ASSUME NEW v \in Nat
      PROVE  Known(v) \subseteq Present(v) /\ Described \cap Present(v) \subseteq Known(v)
  BY DEF Known, Extended, Present, Input, Holding
<1>2. IInv => KnownIffPresent
  BY <1>1, RegistersAssumption DEF IInv, TypeOK, AsPolled, KnownIffPresent
<1> QED BY <1>2, Invariant, PTL

-----------------------------------------------------------------------------
(* The tables are fit for the coordinator.                                 *)

\* Each extension is there from the version it is listed with on.
LEMMA ExtensionsPresent ==
  ASSUME NEW v \in Nat, NEW i \in DOMAIN INPUT_EXTENSION_BATCHES, v >= INPUT_EXTENSION_BATCHES[i][1]
  PROVE  {Input(a) : a \in Batch(INPUT_EXTENSION_BATCHES[i][2][1], INPUT_EXTENSION_BATCHES[i][2][2])}
           \subseteq Present(v)
<1>1. i = 1 \/ i = 2
  BY DEF INPUT_EXTENSION_BATCHES
<1>2. CASE i = 1
  <2>1. INPUT_EXTENSION_BATCHES[i] = <<350, <<50, 3>>>>
    BY <1>2 DEF INPUT_EXTENSION_BATCHES
  <2>2. v >= 350 /\ Batch(50, 3) = 50..52
    BY <2>1 DEF Batch
  <2> QED BY <2>1, <2>2 DEF Present, Input, Holding
<1>3. CASE i = 2
  <2>1. INPUT_EXTENSION_BATCHES[i] = <<340, <<50, 1>>>>
    BY <1>3 DEF INPUT_EXTENSION_BATCHES
  <2>2. v >= 340 /\ Batch(50, 1) = {50}
    BY <2>1 DEF Batch
  <2> QED BY <2>1, <2>2 DEF Present, Input, Holding
<1> QED BY <1>1, <1>2, <1>3

\* What AirfiCoordinator assumes of the firmware and of the batches is true of
\* the tables of const.py and of every version: a newer firmware serves what an
\* older one does, all of them serve the ordinary batches, and each extension
\* is served from its version on.
THEOREM TablesMeetFirmware ==
  ASSUME NEW v \in Nat
  PROVE  /\ \A w \in Nat : v <= w => Present(v) \subseteq Present(w)
         /\ {Input(a) : a \in Batches(INPUT_REGISTER_BATCHES)} \subseteq Present(v)
         /\ {Holding(a) : a \in Batches(HOLDING_REGISTER_BATCHES)} \subseteq Present(v)
         /\ \A i \in DOMAIN INPUT_EXTENSION_BATCHES :
              v >= INPUT_EXTENSION_BATCHES[i][1] =>
                {Input(a) : a \in Batch(INPUT_EXTENSION_BATCHES[i][2][1], INPUT_EXTENSION_BATCHES[i][2][2])}
                  \subseteq Present(v)
<1>1. ASSUME NEW w \in Nat, v <= w
      PROVE  Present(v) \subseteq Present(w)
  BY <1>1 DEF Present, Input, Holding
<1>2. {Input(a) : a \in 1..49} \subseteq Present(v) /\ {Holding(a) : a \in 1..68} \subseteq Present(v)
  BY DEF Present, Input, Holding
<1> QED BY <1>1, <1>2, BatchesAre, ExtensionsPresent

\* A register an entity writes lies in one holding batch and no other, so the
\* loop of async_write_register finds a batch to confirm every write with, and
\* its break skips none.
THEOREM EveryWriteIsConfirmed ==
  \A a : Holding(a) \in Described =>
    \E i \in DOMAIN HOLDING_REGISTER_BATCHES :
      /\ a \in Batch(HOLDING_REGISTER_BATCHES[i][1], HOLDING_REGISTER_BATCHES[i][2])
      /\ \A j \in DOMAIN HOLDING_REGISTER_BATCHES \ {i} :
           a \notin Batch(HOLDING_REGISTER_BATCHES[j][1], HOLDING_REGISTER_BATCHES[j][2])
<1> DEFINE S == HOLDING_REGISTER_BATCHES
           In(i) == Batch(S[i][1], S[i][2])
<1>1. DOMAIN S = {1, 2, 3, 4}
  BY DEF HOLDING_REGISTER_BATCHES
<1>2. In(1) = 1..20 /\ In(2) = 21..40 /\ In(3) = 41..60 /\ In(4) = 61..68
  <2>1. S[1] = <<1, 20>> /\ S[2] = <<21, 20>> /\ S[3] = <<41, 20>> /\ S[4] = <<61, 8>>
    BY DEF HOLDING_REGISTER_BATCHES
  <2> HIDE DEF S
  <2> QED BY <2>1 DEF Batch
<1> HIDE DEF S, In
<1>3. ASSUME NEW a \in 1..68
      PROVE  \E i \in DOMAIN S : a \in In(i) /\ \A j \in DOMAIN S \ {i} : a \notin In(j)
  <2>1. CASE a <= 20
    BY <1>1, <1>2, <2>1
  <2>2. CASE 20 < a /\ a <= 40
    BY <1>1, <1>2, <2>2
  <2>3. CASE 40 < a /\ a <= 60
    BY <1>1, <1>2, <2>3
  <2>4. CASE 60 < a
    BY <1>1, <1>2, <2>4
  <2> QED BY <2>1, <2>2, <2>3, <2>4
<1>4. ASSUME NEW a, Holding(a) \in Described
      PROVE  a \in 1..68
  <2>1. \/ \E row \in NUMBER_REGISTERS \cup SELECT_REGISTERS \cup BUTTON_REGISTERS : a = row.address
        \/ a \in SWITCH_REGISTERS \cup {FilterChangeDue}
    BY <1>4 DEF Described, Input, Holding
  <2>2. ASSUME NEW row \in NUMBER_REGISTERS
        PROVE  row.address \in 1..68
    BY NumberRows DEF NumberAddresses
  <2>3. ASSUME NEW row \in SELECT_REGISTERS \cup BUTTON_REGISTERS
        PROVE  row.address \in 1..68
    BY DEF SELECT_REGISTERS, BUTTON_REGISTERS
  <2>4. SWITCH_REGISTERS \cup {FilterChangeDue} \subseteq 1..68
    BY DEF SWITCH_REGISTERS, FilterChangeDue
  <2> QED BY <2>1, <2>2, <2>3, <2>4
<1> QED BY <1>3, <1>4 DEF S, In
=============================================================================
