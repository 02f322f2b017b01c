---------------------------- MODULE AirfiTables ----------------------------
(***************************************************************************)
(* The register tables (registers.py), the batches that are read           *)
(* (const.py), and the conversions between a register's content and what   *)
(* an entity shows or is set to (number.py, binary_sensor.py).             *)
(*                                                                         *)
(* Displayed values are decimal numbers with at most two places; they are  *)
(* modelled as whole hundredths, and so is a scale: 100 for 1.0, 10 for    *)
(* 0.1.  A register holds 16 bits.                                         *)
(***************************************************************************)
EXTENDS Integers, Sequences

\* The largest content of a register.
MaxContent == 65535

Input(a) == <<"input", a>>
Holding(a) == <<"holding", a>>
Batch(start, count) == start .. (start + count - 1)

-----------------------------------------------------------------------------
(* const.py                                                                *)

INPUT_REGISTER_BATCHES == <<<<1, 20>>, <<21, 20>>, <<41, 9>>>>
INPUT_EXTENSION_BATCHES == <<<<350, <<50, 3>>>>, <<340, <<50, 1>>>>>>
HOLDING_REGISTER_BATCHES == <<<<1, 20>>, <<21, 20>>, <<41, 20>>, <<61, 8>>>>

Batches(seq) == UNION {Batch(seq[i][1], seq[i][2]) : i \in DOMAIN seq}

\* Mutant: the oldest extension whose version is reached.
MutExtension(v) ==
  LET reached == {i \in DOMAIN INPUT_EXTENSION_BATCHES : v >= INPUT_EXTENSION_BATCHES[i][1]}
  IN  {INPUT_EXTENSION_BATCHES[i][2] : i \in {i \in reached : \A j \in reached : j <= i}}

\* The first extension whose version is reached.
Extension(v) ==
  LET reached == {i \in DOMAIN INPUT_EXTENSION_BATCHES : v >= INPUT_EXTENSION_BATCHES[i][1]}
  IN  {INPUT_EXTENSION_BATCHES[i][2] : i \in {i \in reached : \A j \in reached : i <= j}}

-----------------------------------------------------------------------------
(* registers.py: the rows of each table, without naming and presentation.  *)

\* The sensors of signed tenths of a degree, and the others.
TemperatureSensors == (4..9) \cup {28, 42}
PlainSensors ==
  (1..3) \cup (11..14) \cup (21..25) \cup {27} \cup (29..31) \cup {33, 34, 38} \cup (40..41)
    \cup {43, 45, 46, 48} \cup (50..52)

FlagSensors == (15..19) \cup {26, 35, 36, 37, 39, 44, 47, 49}
FilterChangeDue == 34
ErrorRegister == 32
ErrorBits == 0..8

\* Limits in hundredths.
Numbers(addresses, min, max) ==
  {[address |-> a, min |-> 100 * min, max |-> 100 * max, scale |-> 100] : a \in addresses}

NUMBER_REGISTERS ==
  {[address |-> 5, min |-> 1700, max |-> 2600, scale |-> 10],
   [address |-> 52, min |-> 500, max |-> 2600, scale |-> 10]}
    \cup Numbers({4, 7, 10, 11, 63, 66}, 0, 100) \cup Numbers({62}, 0, 120) \cup Numbers({6}, 0, 2000)
    \cup Numbers((13..22) \cup {28, 29}, 0, 999) \cup Numbers({23}, 5, 300) \cup Numbers({25, 26}, 5, 999)
    \cup Numbers({30, 31}, 0, 99) \cup Numbers({32}, 0, 10) \cup Numbers(35..44, 25, 100)
    \cup Numbers({46}, 1, 199) \cup Numbers({47}, 15, 30) \cup Numbers({48}, 1, 30)
    \cup Numbers({49}, 5, 30) \cup Numbers({50}, 10, 25) \cup Numbers({53}, 10, 99)
    \cup Numbers({54}, 2, 99) \cup Numbers({60, 67}, 0, 10000) \cup Numbers({68}, 0, 65535)

\* The raw values of each select's options.
SELECT_REGISTERS ==
  {[address |-> 1, options |-> 0..5], [address |-> 2, options |-> 0..2], [address |-> 8, options |-> 1..6],
   [address |-> 9, options |-> 0..2], [address |-> 12, options |-> 0..1], [address |-> 24, options |-> 0..2],
   [address |-> 56, options |-> 0..2], [address |-> 64, options |-> 0..4]}

SWITCH_REGISTERS == {3, 27, 33, 45, 51, 55, 57, 58, 59, 61, 65}

BUTTON_REGISTERS == {[address |-> 34, press_value |-> 0]}

\* The registers some entity shows or writes.
Described ==
  {Input(a) : a \in TemperatureSensors \cup PlainSensors \cup FlagSensors \cup {ErrorRegister}}
    \cup {Holding(row.address) : row \in NUMBER_REGISTERS \cup SELECT_REGISTERS \cup BUTTON_REGISTERS}
    \cup {Holding(a) : a \in SWITCH_REGISTERS \cup {FilterChangeDue}}

-----------------------------------------------------------------------------
(* Conversions.                                                            *)

\* Mutant: the sign bit alone is not taken for a sign.
MutScaledValue(content, scale, signed) ==
  scale * (IF signed /\ content > 32768 THEN content - 65536 ELSE content)

\* scaled_value, in hundredths: no digit is lost by its rounding to two places.
ScaledValue(content, scale, signed) ==
  scale * (IF signed /\ content > 32767 THEN content - 65536 ELSE content)

\* Mutant: int() without the rounding to the nearest.
MutToRaw(value, scale) == value \div scale

\* Mutant: the entered value is written without regard to the scale.
MutToRawUnscaled(value, scale) == value \div 100

\* _to_raw: half of a unit rounds away from zero.
ToRaw(value, scale) ==
  IF value >= 0 THEN (2 * value + scale) \div (2 * scale) ELSE - ((scale - 2 * value) \div (2 * scale))

Least(a, b) == IF a < b THEN a ELSE b
Greatest(a, b) == IF a > b THEN a ELSE b

\* Mutant: nothing is clamped.
MutWritten(row, value) == ToRaw(value, row.scale)

\* async_set_native_value: converted, then clamped between the converted limits.
Written(row, value) ==
  Greatest(ToRaw(row.min, row.scale), Least(ToRaw(row.max, row.scale), ToRaw(value, row.scale)))

\* Mutant: bits are counted from 1.
MutBitOn(content, bit) == (content \div 2 ^ (bit + 1)) % 2 = 1

\* AirfiBinarySensor.is_on of a bit: raw & (1 << bit).
BitOn(content, bit) == (content \div 2 ^ bit) % 2 = 1

NumberOf(r) == {row \in NUMBER_REGISTERS : r = Holding(row.address)}

-----------------------------------------------------------------------------
(* The unit's side.                                                        *)

\* Registers a firmware answers for: the input registers grew with versions.
Present(v) ==
  {Holding(a) : a \in 1..68} \cup {Input(a) : a \in 1 .. (IF v >= 350 THEN 52 ELSE IF v >= 340 THEN 50 ELSE 49)}
=============================================================================
