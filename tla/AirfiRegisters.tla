--------------------------- MODULE AirfiRegisters ---------------------------
(***************************************************************************)
(* The entities of one register at a time: what a service call writes into *)
(* it, what it may come to hold, and what is shown of it.                  *)
(***************************************************************************)
EXTENDS AirfiTables

CONSTANTS
  Versions,  \* register versions of the firmware
  Reported,  \* 16-bit contents a unit reports on its own
  Offsets    \* distances, in hundredths, of entered values from a limit

ASSUME RegistersAssumption ==
  /\ Versions \subseteq Nat
  /\ Reported \subseteq 0..MaxContent
  /\ Offsets \subseteq Int

VARIABLES
  version,   \* register version of the unit
  polled,    \* registers that coordinator.data holds
  register,  \* the register looked at
  raw,       \* its content
  entered    \* the value last asked of a number entity for it, NoValue if none

vars == <<version, polled, register, raw, entered>>

NoValue == -100000

-----------------------------------------------------------------------------

\* Every variable keeps its type.
TypeOK ==
  /\ version \in Versions
  /\ polled \in SUBSET ({"input", "holding"} \X (1..68))
  /\ register \in Described
  /\ raw \in 0..MaxContent
  /\ entered \in Int

Init ==
  /\ version \in Versions
  /\ polled = {}
  /\ register \in Described
  /\ raw \in Reported
  /\ entered = NoValue

\* The first refresh: every batch, and the extension the unit's version calls for.
Polls ==
  /\ polled = {}
  /\ polled' = {Input(a) : a \in Batches(INPUT_REGISTER_BATCHES)}
                 \cup {Input(a) : a \in UNION {Batch(b[1], b[2]) : b \in Extension(version)}}
                 \cup {Holding(a) : a \in Batches(HOLDING_REGISTER_BATCHES)}
  /\ UNCHANGED <<version, register, raw, entered>>

\* A number entity is set.
SetsNumber(row, value) ==
  /\ register = Holding(row.address)
  /\ polled # {}
  /\ entered' = value
  /\ raw' = Written(row, value)
  /\ UNCHANGED <<version, polled, register>>

\* An option is selected, a switch turned, a button pressed.
Writes(content) ==
  /\ polled # {}
  /\ \/ \E row \in SELECT_REGISTERS : register = Holding(row.address) /\ content \in row.options
     \/ \E a \in SWITCH_REGISTERS : register = Holding(a) /\ content \in {0, 1}
     \/ \E row \in BUTTON_REGISTERS : register = Holding(row.address) /\ content = row.press_value
  /\ raw' = content
  /\ UNCHANGED <<version, polled, register, entered>>

\* The unit changes the register on its own.
Reports(content) ==
  /\ raw' = content
  /\ entered' = NoValue
  /\ UNCHANGED <<version, polled, register>>

Next ==
  \/ Polls
  \/ \E row \in NUMBER_REGISTERS : \E limit \in {row.min, row.max} : \E d \in Offsets :
       SetsNumber(row, limit + d)
  \/ \E content \in 0..6 : Writes(content)
  \/ \E content \in Reported : Reports(content)

Spec == Init /\ [][Next]_vars

-----------------------------------------------------------------------------

\* Whatever is entered, the register receives a value within the limits of its
\* table row: the clamp works on converted values, whose rounding may cross a
\* limit that the entered value respects.
WrittenInLimits ==
  \A row \in NumberOf(register) : entered # NoValue =>
    row.min <= ScaledValue(raw, row.scale, FALSE) /\ ScaledValue(raw, row.scale, FALSE) <= row.max

\* What is shown after a number is set is the value entered, or the limit it
\* exceeds, to within half a unit of the register.
ShownIsNearest ==
  \A row \in NumberOf(register) : entered # NoValue =>
    LET wanted == Greatest(row.min, Least(row.max, entered))
        shown  == ScaledValue(raw, row.scale, FALSE)
    IN  2 * (shown - wanted) <= row.scale /\ 2 * (wanted - shown) <= row.scale

\* Setting a number to the value it shows leaves the register as it is.
ShownIsStable ==
  \A row \in NumberOf(register) :
    LET shown == ScaledValue(raw, row.scale, FALSE)
    IN  row.min <= shown /\ shown <= row.max => Written(row, shown) = raw

\* A temperature is shown as the two's complement reading of its register.
TemperatureIsSigned ==
  \A a \in TemperatureSensors : register = Input(a) =>
    LET shown == ScaledValue(raw, 10, TRUE)
    IN  -327680 <= shown /\ shown <= 327670 /\ (shown \div 10) % 65536 = raw

\* The nine error sensors show the low bits of their register, each its own.
ErrorsAreShown ==
  register = Input(ErrorRegister) =>
    LET On == {bit \in ErrorBits : BitOn(raw, bit)}
    IN  \A bits \in SUBSET ErrorBits :
          (\A bit \in ErrorBits : bit \in bits <=> (raw % 2 ^ (bit + 1)) >= 2 ^ bit) => On = bits

\* "A register outside every batch is silently never fetched and its entity
\* stays unknown forever": on every version, exactly the described registers
\* the unit has are known, and nothing it lacks is asked for.
KnownIffPresent ==
  polled # {} => polled \subseteq Present(version) /\ Described \cap Present(version) \subseteq polled
=============================================================================
