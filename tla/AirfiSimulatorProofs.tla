------------------------ MODULE AirfiSimulatorProofs ------------------------
(***************************************************************************)
(* Theorems about the integration before the simulated unit, with the real *)
(* tables and batches, for any other clients, whatever they request, and   *)
(* for all values that are written.                                        *)
(***************************************************************************)
EXTENDS AirfiSimulator, AirfiServerProofs, FiniteSetTheorems, SequenceTheorems

\* The requests the integration makes.
Frames == [function : {READ_HOLDING, READ_INPUT, WRITE_SINGLE}, address : 1..68, value : 0..MaxContent]
ReadFrames == {q \in Frames : Readable(q)}

\* The extensions there are.
Extensions == {{}, {<<50, 3>>}, {<<50, 1>>}}

\* What the ordinary batches read.
Base == ({"input"} \X (1..49)) \cup ({"holding"} \X (1..68))

-----------------------------------------------------------------------------
(* Requests.                                                               *)

\* A batch of at most 20 registers the unit has makes a request it serves.
LEMMA BatchRequest ==
  ASSUME NEW f \in {READ_HOLDING, READ_INPUT}, NEW s \in 1..68, NEW n \in 1..20,
         s + n - 1 <= IF f = READ_HOLDING THEN 68 ELSE 52
  PROVE  /\ Request(f, s, n) \in ReadFrames
         /\ Asked(Request(f, s, n)) = {IF f = READ_HOLDING THEN "holding" ELSE "input"} \X Batch(s, n)
<1> DEFINE q == Request(f, s, n)
<1>1. q \in Frames /\ q.function = f /\ q.address = s /\ q.value = n
  <2>1. n \in 0..MaxContent
    BY DEF MaxContent
  <2>2. f \in {READ_HOLDING, READ_INPUT, WRITE_SINGLE}
    OBVIOUS
  <2> QED BY <2>1, <2>2 DEF Request, Frames
<1>2. Asked(q) = {IF f = READ_HOLDING THEN "holding" ELSE "input"} \X Batch(s, n)
  BY <1>1 DEF Asked
<1>3. Asked(q) \subseteq StoreRegisters
  BY <1>2 DEF StoreRegisters, READ_HOLDING, READ_INPUT, Batch
<1> QED BY <1>1, <1>2, <1>3 DEF ReadFrames, Readable, MAX_REGISTERS_PER_READ

LEMMA InputRequest ==
  ASSUME NEW s \in 1..52, NEW n \in 1..20, s + n - 1 <= 52
  PROVE  /\ Request(READ_INPUT, s, n) \in ReadFrames
         /\ Asked(Request(READ_INPUT, s, n)) = {"input"} \X Batch(s, n)
<1>1. READ_INPUT # READ_HOLDING /\ s \in 1..68
  BY DEF READ_INPUT, READ_HOLDING
<1> QED BY <1>1, BatchRequest

LEMMA HoldingRequest ==
  ASSUME NEW s \in 1..68, NEW n \in 1..20, s + n - 1 <= 68
  PROVE  /\ Request(READ_HOLDING, s, n) \in ReadFrames
         /\ Asked(Request(READ_HOLDING, s, n)) = {"holding"} \X Batch(s, n)
BY BatchRequest

\* The set of one batch as a sequence.
LEMMA SetToSeqOne ==
  ASSUME NEW b
  PROVE  SetToSeq({b}) = <<b>>
<1> DEFINE F == [1..1 -> {b}]
<1>1. Cardinality({b}) = 1
  BY FS_Singleton
<1>2. <<b>> \in F /\ \A f \in F : f = <<b>>
  OBVIOUS
<1>3. IsInjective(<<b>>)
  BY DEF IsInjective
<1> HIDE DEF F
<1>4. (CHOOSE f \in F : IsInjective(f)) = <<b>>
  BY <1>2, <1>3
<1> QED BY <1>1, <1>4 DEF SetToSeq, F

LEMMA SetToSeqNone == SetToSeq({}) = << >>
<1> DEFINE F == [1..0 -> {}]
<1>1. Cardinality({}) = 0
  BY FS_EmptySet
<1>2. << >> \in F /\ \A f \in F : f = << >>
  OBVIOUS
<1>3. IsInjective(<< >>)
  BY DEF IsInjective
<1> HIDE DEF F
<1>4. (CHOOSE f \in F : IsInjective(f)) = << >>
  BY <1>2, <1>3
<1> QED BY <1>1, <1>4 DEF SetToSeq, F

\* A version leads to one of the extensions.
LEMMA ExtensionType ==
  ASSUME NEW v \in Nat
  PROVE  Extension(v) \in Extensions
<1>1. CASE v >= 350
  BY <1>1 DEF Extension, INPUT_EXTENSION_BATCHES, Extensions
<1>2. CASE v >= 340 /\ v < 350
  BY <1>2 DEF Extension, INPUT_EXTENSION_BATCHES, Extensions
<1>3. CASE v < 340
  BY <1>3 DEF Extension, INPUT_EXTENSION_BATCHES, Extensions
<1> QED BY <1>1, <1>2, <1>3

\* The requests of a sequence of batches.
LEMMA ReadsElements ==
  ASSUME NEW f, NEW batches \in Seq(Nat \X Nat),
         \A i \in 1..Len(batches) : Request(f, batches[i][1], batches[i][2]) \in ReadFrames
  PROVE  /\ Reads(f, batches) \in Seq(ReadFrames) /\ Len(Reads(f, batches)) = Len(batches)
         /\ \A i \in 1..Len(batches) : Reads(f, batches)[i] = Request(f, batches[i][1], batches[i][2])
<1>1. Reads(f, batches) = [i \in 1..Len(batches) |-> Request(f, batches[i][1], batches[i][2])]
  BY DEF Reads
<1> QED BY <1>1

\* An extension as a sequence of batches.
LEMMA ExtensionBatches ==
  ASSUME NEW ext \in Extensions
  PROVE  /\ SetToSeq(ext) \in Seq(Nat \X Nat)
         /\ Len(SetToSeq(ext)) = IF ext = {} THEN 0 ELSE 1
         /\ \A i \in 1..Len(SetToSeq(ext)) :
              Request(READ_INPUT, SetToSeq(ext)[i][1], SetToSeq(ext)[i][2]) \in ReadFrames
<1>2. CASE ext = {}
  <2>1. SetToSeq(ext) = << >> BY <1>2, SetToSeqNone
  <2>2. << >> \in Seq(Nat \X Nat) /\ Len(<< >>) = 0 OBVIOUS
  <2>3. SetToSeq(ext) \in Seq(Nat \X Nat) /\ Len(SetToSeq(ext)) = 0 BY <2>1, <2>2
  <2> HIDE <2>1
  <2> QED BY <1>2, <2>3
<1>3. ASSUME NEW n \in {1, 3}, ext = {<<50, n>>}
      PROVE  /\ SetToSeq(ext) \in Seq(Nat \X Nat) /\ Len(SetToSeq(ext)) = 1 /\ ext # {}
             /\ Request(READ_INPUT, SetToSeq(ext)[1][1], SetToSeq(ext)[1][2]) \in ReadFrames
  <2>1. SetToSeq(ext) = <<<<50, n>>>> BY <1>3, SetToSeqOne
  <2>2. <<<<50, n>>>> \in Seq(Nat \X Nat) /\ Len(<<<<50, n>>>>) = 1 /\ <<<<50, n>>>>[1] = <<50, n>> OBVIOUS
  <2>3. <<50, n>>[1] = 50 /\ <<50, n>>[2] = n OBVIOUS
  <2>4. SetToSeq(ext)[1][1] = 50 /\ SetToSeq(ext)[1][2] = n BY <2>1, <2>2, <2>3, Zenon
  <2>5. Request(READ_INPUT, SetToSeq(ext)[1][1], SetToSeq(ext)[1][2]) \in ReadFrames
    <3> DEFINE a == SetToSeq(ext)[1][1]
               k == SetToSeq(ext)[1][2]
    <3>1. a = 50 /\ k = n BY <2>4
    <3> HIDE DEF a, k
    <3>2. a \in 1..52 /\ k \in 1..20 /\ a + k - 1 <= 52 BY <1>3, <3>1
    <3>3. Request(READ_INPUT, a, k) \in ReadFrames BY <3>2, InputRequest
    <3> QED BY <3>3 DEF a, k
  <2>6. ext # {} BY <1>3
  <2> QED BY <2>1, <2>2, <2>5, <2>6, Zenon
<1>4. ext = {} \/ \E n \in {1, 3} : ext = {<<50, n>>}
  BY DEF Extensions
<1>5. CASE ext # {}
  <2>1. Len(SetToSeq(ext)) = 1 /\ Request(READ_INPUT, SetToSeq(ext)[1][1], SetToSeq(ext)[1][2]) \in ReadFrames
    BY <1>3, <1>4, <1>5
  <2>2. \A i \in 1..1 : i = 1 OBVIOUS
  <2> QED BY <1>3, <1>4, <1>5, <2>1, <2>2, Zenon
<1> QED BY <1>2, <1>5

\* The sequences of batches the code has.
LEMMA BatchSequences ==
  /\ INPUT_REGISTER_BATCHES \in Seq(Nat \X Nat) /\ Len(INPUT_REGISTER_BATCHES) = 3
  /\ HOLDING_REGISTER_BATCHES \in Seq(Nat \X Nat) /\ Len(HOLDING_REGISTER_BATCHES) = 4
BY DEF INPUT_REGISTER_BATCHES, HOLDING_REGISTER_BATCHES

\* Every input batch can be read, and every input register up to 49 is in one.
LEMMA InputBatches ==
  /\ \A i \in 1..3 : Request(READ_INPUT, INPUT_REGISTER_BATCHES[i][1], INPUT_REGISTER_BATCHES[i][2]) \in ReadFrames
  /\ \A r \in {"input"} \X (1..49) :
       \E i \in 1..3 : r \in Asked(Request(READ_INPUT, INPUT_REGISTER_BATCHES[i][1], INPUT_REGISTER_BATCHES[i][2]))
<1> DEFINE B == INPUT_REGISTER_BATCHES
<1>1. B[1] = <<1, 20>> /\ B[2] = <<21, 20>> /\ B[3] = <<41, 9>>
  BY DEF INPUT_REGISTER_BATCHES
<1>2. /\ B[1][1] = 1 /\ B[1][2] = 20 /\ B[2][1] = 21 /\ B[2][2] = 20 /\ B[3][1] = 41 /\ B[3][2] = 9
  BY <1>1
<1> HIDE DEF B
<1>3. \A i \in 1..3 : B[i][1] \in 1..52 /\ B[i][2] \in 1..20 /\ B[i][1] + B[i][2] - 1 <= 52
  BY <1>2
<1>4. \A i \in 1..3 : /\ Request(READ_INPUT, B[i][1], B[i][2]) \in ReadFrames
                      /\ Asked(Request(READ_INPUT, B[i][1], B[i][2])) = {"input"} \X Batch(B[i][1], B[i][2])
  BY <1>3, InputRequest
<1>5. \A r \in {"input"} \X (1..49) : \E i \in 1..3 : r \in {"input"} \X Batch(B[i][1], B[i][2])
  BY <1>2 DEF Batch
<1> QED BY <1>4, <1>5, Zenon DEF B

\* The same for the holding registers.
LEMMA HoldingBatches ==
  /\ \A i \in 1..4 : Request(READ_HOLDING, HOLDING_REGISTER_BATCHES[i][1], HOLDING_REGISTER_BATCHES[i][2]) \in ReadFrames
  /\ \A r \in {"holding"} \X (1..68) :
       \E i \in 1..4 : r \in Asked(Request(READ_HOLDING, HOLDING_REGISTER_BATCHES[i][1], HOLDING_REGISTER_BATCHES[i][2]))
<1> DEFINE B == HOLDING_REGISTER_BATCHES
<1>1. B[1] = <<1, 20>> /\ B[2] = <<21, 20>> /\ B[3] = <<41, 20>> /\ B[4] = <<61, 8>>
  BY DEF HOLDING_REGISTER_BATCHES
<1>2. /\ B[1][1] = 1 /\ B[1][2] = 20 /\ B[2][1] = 21 /\ B[2][2] = 20
      /\ B[3][1] = 41 /\ B[3][2] = 20 /\ B[4][1] = 61 /\ B[4][2] = 8
  BY <1>1
<1> HIDE DEF B
<1>3. \A i \in 1..4 : B[i][1] \in 1..68 /\ B[i][2] \in 1..20 /\ B[i][1] + B[i][2] - 1 <= 68
  BY <1>2
<1>4. \A i \in 1..4 : /\ Request(READ_HOLDING, B[i][1], B[i][2]) \in ReadFrames
                      /\ Asked(Request(READ_HOLDING, B[i][1], B[i][2])) = {"holding"} \X Batch(B[i][1], B[i][2])
  BY <1>3, HoldingRequest
<1>5. \A r \in {"holding"} \X (1..68) : \E i \in 1..4 : r \in {"holding"} \X Batch(B[i][1], B[i][2])
  BY <1>2 DEF Batch
<1> QED BY <1>4, <1>5, Zenon DEF B

\* What one refresh asks for: requests the unit serves, for every register of
\* the ordinary batches.
LEMMA ReadAllRequests ==
  ASSUME NEW ext \in Extensions
  PROVE  /\ ReadAll(ext) \in Seq(ReadFrames) /\ Len(ReadAll(ext)) >= 7
         /\ \A r \in Base : \E i \in DOMAIN ReadAll(ext) : r \in Asked(ReadAll(ext)[i])
<1> DEFINE E == SetToSeq(ext)
           I == INPUT_REGISTER_BATCHES \o E
           H == HOLDING_REGISTER_BATCHES
           R == Reads(READ_INPUT, I)
           S == Reads(READ_HOLDING, H)
<1>1. /\ E \in Seq(Nat \X Nat) /\ Len(E) \in Nat
      /\ \A i \in 1..Len(E) : Request(READ_INPUT, E[i][1], E[i][2]) \in ReadFrames
  BY ExtensionBatches
<1> HIDE DEF E
<1>2. /\ I \in Seq(Nat \X Nat) /\ Len(I) = 3 + Len(E)
      /\ \A i \in 1..3 : I[i] = INPUT_REGISTER_BATCHES[i]
      /\ \A i \in 1..Len(I) : i \in 1..3 \/ (i - 3 \in 1..Len(E) /\ I[i] = E[i - 3])
  <2> DEFINE B == INPUT_REGISTER_BATCHES
  <2>1. B \in Seq(Nat \X Nat) /\ Len(B) = 3 BY BatchSequences
  <2> HIDE DEF B
  <2>2. /\ B \o E \in Seq(Nat \X Nat) /\ Len(B \o E) = Len(B) + Len(E)
        /\ \A i \in 1..(Len(B) + Len(E)) : (B \o E)[i] = IF i <= Len(B) THEN B[i] ELSE E[i - Len(B)]
    BY <1>1, <2>1, ConcatProperties, Zenon
  <2>3. I = B \o E BY DEF I, B
  <2> HIDE DEF I
  <2>4. /\ I \in Seq(Nat \X Nat) /\ Len(I) = 3 + Len(E)
        /\ \A i \in 1..(3 + Len(E)) : I[i] = IF i <= 3 THEN B[i] ELSE E[i - 3]
    BY <2>1, <2>2, <2>3
  <2>5. \A i \in 1..3 : I[i] = B[i] BY <1>1, <2>4
  <2>6. \A i \in 1..Len(I) : i \in 1..3 \/ (i - 3 \in 1..Len(E) /\ I[i] = E[i - 3])
    BY <1>1, <2>4
  <2> QED BY <2>4, <2>5, <2>6, Zenon DEF B
<1> HIDE DEF I
<1>3. \A i \in 1..Len(I) : Request(READ_INPUT, I[i][1], I[i][2]) \in ReadFrames
  <2> TAKE i \in 1..Len(I)
  <2>1. CASE i \in 1..3 BY <1>2, <2>1, InputBatches
  <2>2. CASE i - 3 \in 1..Len(E) /\ I[i] = E[i - 3] BY <1>1, <2>2
  <2> QED BY <1>2, <2>1, <2>2
<1>4. /\ R \in Seq(ReadFrames) /\ Len(R) = Len(I)
      /\ \A i \in 1..Len(I) : R[i] = Request(READ_INPUT, I[i][1], I[i][2])
  BY <1>2, <1>3, ReadsElements
<1>5. /\ S \in Seq(ReadFrames) /\ Len(S) = 4
      /\ \A i \in 1..4 : S[i] = Request(READ_HOLDING, H[i][1], H[i][2])
  <2>1. H \in Seq(Nat \X Nat) /\ Len(H) = 4 BY BatchSequences
  <2>2. \A i \in 1..Len(H) : Request(READ_HOLDING, H[i][1], H[i][2]) \in ReadFrames BY <2>1, HoldingBatches
  <2> HIDE DEF H
  <2>3. /\ S \in Seq(ReadFrames) /\ Len(S) = Len(H)
        /\ \A i \in 1..Len(H) : S[i] = Request(READ_HOLDING, H[i][1], H[i][2])
    BY <2>1, <2>2, ReadsElements
  <2> QED BY <2>1, <2>3
<1>6. ReadAll(ext) = R \o S
  BY DEF ReadAll, E, I
<1> HIDE DEF R, S, H
<1>7. /\ R \o S \in Seq(ReadFrames) /\ Len(R \o S) = Len(R) + 4
      /\ \A i \in 1..Len(R) : (R \o S)[i] = R[i]
      /\ \A i \in 1..4 : (R \o S)[Len(R) + i] = S[i]
  <2>1. /\ R \o S \in Seq(ReadFrames) /\ Len(R \o S) = Len(R) + Len(S)
        /\ \A i \in 1..(Len(R) + Len(S)) : (R \o S)[i] = IF i <= Len(R) THEN R[i] ELSE S[i - Len(R)]
    BY <1>4, <1>5, ConcatProperties, Zenon
  <2>2. Len(R) \in Nat /\ Len(S) = 4 BY <1>4, <1>5
  <2> QED BY <2>1, <2>2
<1>8. Len(R) \in Nat /\ Len(R) >= 3
  BY <1>1, <1>2, <1>4
<1>9. \A r \in Base : \E i \in DOMAIN (R \o S) : r \in Asked((R \o S)[i])
  <2> TAKE r \in Base
  <2>1. CASE r \in {"input"} \X (1..49)
    <3>1. PICK i \in 1..3 : r \in Asked(Request(READ_INPUT, INPUT_REGISTER_BATCHES[i][1], INPUT_REGISTER_BATCHES[i][2]))
      BY <2>1, InputBatches
    <3>2. i \in 1..Len(I) /\ i \in 1..Len(R) /\ I[i] = INPUT_REGISTER_BATCHES[i]
      BY <1>1, <1>2, <1>4
    <3>3. (R \o S)[i] = Request(READ_INPUT, INPUT_REGISTER_BATCHES[i][1], INPUT_REGISTER_BATCHES[i][2])
      BY <1>4, <1>7, <3>2
    <3>4. i \in DOMAIN (R \o S)
      BY <1>7, <1>8, <3>2
    <3> QED BY <3>1, <3>3, <3>4
  <2>2. CASE r \in {"holding"} \X (1..68)
    <3>1. PICK i \in 1..4 : r \in Asked(Request(READ_HOLDING, H[i][1], H[i][2]))
      BY <2>2, HoldingBatches DEF H
    <3>2. (R \o S)[Len(R) + i] = Request(READ_HOLDING, H[i][1], H[i][2])
      BY <1>5, <1>7
    <3>3. Len(R) + i \in DOMAIN (R \o S)
      BY <1>7, <1>8
    <3> QED BY <3>1, <3>2, <3>3
  <2> QED BY <2>1, <2>2 DEF Base
<1> QED BY <1>6, <1>7, <1>8, <1>9

\* What the read of an extension asks for.
LEMMA ExtensionRequests ==
  ASSUME NEW ext \in Extensions, ext # {}
  PROVE  LET asked == Reads(READ_INPUT, SetToSeq(ext))
         IN  asked \in Seq(ReadFrames) /\ Len(asked) = 1
BY ExtensionBatches, ReadsElements

\* What a confirmation asks for.
LEMMA BatchOfRequest ==
  ASSUME NEW a \in 1..68
  PROVE  LET asked == Reads(READ_HOLDING, <<BatchOf(a)>>)
         IN  asked \in Seq(ReadFrames) /\ Len(asked) = 1
<1> DEFINE B == HOLDING_REGISTER_BATCHES
<1>1. DOMAIN B = 1..4 /\ \A i \in 1..4 : B[i] \in Nat \X Nat
  <2>1. B \in Seq(Nat \X Nat) /\ Len(B) = 4 BY BatchSequences
  <2> HIDE DEF B
  <2>2. \A i \in 1..Len(B) : B[i] \in Nat \X Nat BY <2>1, ElementOfSeq
  <2>3. DOMAIN B = 1..4 BY <2>1
  <2> QED BY <2>1, <2>2, <2>3
<1>2. \E i \in DOMAIN B : a \in Batch(B[i][1], B[i][2])
  <2>1. B[1] = <<1, 20>> /\ B[2] = <<21, 20>> /\ B[3] = <<41, 20>> /\ B[4] = <<61, 8>>
    BY DEF HOLDING_REGISTER_BATCHES
  <2>2. /\ B[1][1] = 1 /\ B[1][2] = 20 /\ B[2][1] = 21 /\ B[2][2] = 20
        /\ B[3][1] = 41 /\ B[3][2] = 20 /\ B[4][1] = 61 /\ B[4][2] = 8
    BY <2>1
  <2> HIDE DEF B
  <2> QED BY <1>1, <2>2 DEF Batch
<1>3. PICK i \in 1..4 : BatchOf(a) = B[i]
  BY <1>1, <1>2 DEF BatchOf
<1>4. Request(READ_HOLDING, B[i][1], B[i][2]) \in ReadFrames
  BY HoldingBatches
<1> DEFINE b == B[i]
<1>5. b \in Nat \X Nat /\ Request(READ_HOLDING, b[1], b[2]) \in ReadFrames
  BY <1>1, <1>4
<1> HIDE DEF b, B
<1>6. <<b>> \in Seq(Nat \X Nat) /\ Len(<<b>>) = 1 /\ \A k \in 1..1 : <<b>>[k] = b
  BY <1>5
<1>7. Reads(READ_HOLDING, <<b>>) \in Seq(ReadFrames) /\ Len(Reads(READ_HOLDING, <<b>>)) = 1
  BY <1>5, <1>6, ReadsElements
<1> QED BY <1>3, <1>7 DEF b

-----------------------------------------------------------------------------
(* The inductive invariant.                                                *)

\* What is sent in each operation is what the unit serves, and only a refresh
\* sends more than one request.
Sends ==
  /\ op = "none" => link[Home] = "none" /\ requests = << >>
  /\ op \in {"poll", "extend", "confirm"} => requests \in Seq(ReadFrames) /\ requests # << >>
  /\ op \in {"extend", "write", "confirm"} => Len(requests) = 1
  /\ op = "write" => Writable(requests[1])
  /\ op = "extend" => chosen # {}

\* What has been read is what the unit holds: while somebody is served nobody
\* else is.  The extension is read after another connection, but other clients
\* can only change holding registers.
GotCurrent ==
  /\ \A r \in DOMAIN got : got[r] = store[r] \/ (op = "extend" /\ r[1] = "holding")
  /\ op \in {"none", "write", "confirm"} => got = NoData
  /\ op = "poll" /\ link[Home] # "served" => got = NoData

\* A refresh has read, or will still read, every register of the ordinary
\* batches; so what is shown has a value for each of them.
GotWhole ==
  /\ op = "poll" => \A r \in Base : r \in DOMAIN got \/ \E i \in DOMAIN requests : r \in Asked(requests[i])
  /\ op = "extend" => Base \subseteq DOMAIN got
  /\ op \in {"write", "confirm"} => Base \subseteq DOMAIN data
  /\ data # NoData => Base \subseteq DOMAIN data

IInv == TypeOK /\ chosen \in Extensions /\ SlotMatches /\ Sends /\ GotCurrent /\ GotWhole

-----------------------------------------------------------------------------
(* What is read.                                                           *)

StoreTypeOK == store \in [StoreRegisters -> 0..MaxContent]

\* A request of ReadFrames is answered for exactly the registers asked for, each
\* with its own content; what was read before is kept of the others.
LEMMA ReceivedIs ==
  ASSUME NEW q \in ReadFrames
  PROVE  /\ Asked(q) \subseteq StoreRegisters
         /\ DOMAIN Received(q) = DOMAIN got \cup Asked(q)
         /\ \A x \in DOMAIN Received(q) : Received(q)[x] = IF x \in Asked(q) THEN store[x] ELSE got[x]
<1> DEFINE table == IF q.function = READ_HOLDING THEN "holding" ELSE "input"
           values == Answer(q)
           new == [x \in Asked(q) |-> values[x[2] - q.address + 1]]
<1>1. q.address \in 1..68 /\ q.value \in Nat /\ Asked(q) \subseteq StoreRegisters
  <2>1. q \in Frames /\ Readable(q) BY DEF ReadFrames
  <2>2. q.address \in 1..68 /\ q.value \in 0..MaxContent BY <2>1 DEF Frames
  <2>3. MaxContent \in Nat BY DEF MaxContent
  <2> QED BY <2>1, <2>2, <2>3 DEF Readable
<1>2. values = [i \in 1..q.value |-> store[<<table, q.address + i - 1>>]]
  BY DEF Answer
<1>3. \A x \in Asked(q) : new[x] = store[x]
  <2> TAKE x \in Asked(q)
  <2>1. PICK a \in q.address .. (q.address + q.value - 1) : x = <<table, a>>
    BY DEF Asked, Batch
  <2>2. x[2] = a /\ a - q.address + 1 \in 1..q.value /\ q.address + (a - q.address + 1) - 1 = a
    BY <1>1, <2>1
  <2>3. values[a - q.address + 1] = store[<<table, a>>]
    <3> HIDE DEF table, values
    <3> QED BY <1>2, <2>2
  <2> HIDE DEF values
  <2> QED BY <2>1, <2>2, <2>3
<1>4. Received(q) = Updated(got, new)
  BY DEF Received
<1> HIDE DEF new
<1>5. DOMAIN new = Asked(q)
  BY DEF new
<1> QED BY <1>1, <1>3, <1>4, <1>5 DEF Updated

\* dict.update
LEMMA UpdatedIs ==
  ASSUME NEW dict, NEW with
  PROVE  /\ DOMAIN Updated(dict, with) = DOMAIN dict \cup DOMAIN with
         /\ \A x \in DOMAIN Updated(dict, with) : Updated(dict, with)[x] = IF x \in DOMAIN with THEN with[x] ELSE dict[x]
BY DEF Updated

LEMMA NoDataIs == DOMAIN NoData = {}
BY DEF NoData

\* The extensions are those of the table.
LEMMA ExtensionsTyped ==
  ASSUME NEW ext \in Extensions
  PROVE  ext \subseteq {row[2] : row \in {INPUT_EXTENSION_BATCHES[i] : i \in DOMAIN INPUT_EXTENSION_BATCHES}}
<1> DEFINE B == INPUT_EXTENSION_BATCHES
<1>1. B[1] = <<350, <<50, 3>>>> /\ B[2] = <<340, <<50, 1>>>> /\ DOMAIN B = {1, 2}
  BY DEF INPUT_EXTENSION_BATCHES
<1>2. B[1][2] = <<50, 3>> /\ B[2][2] = <<50, 1>>
  BY <1>1
<1> HIDE DEF B
<1>3. \A b \in ext : b = <<50, 3>> \/ b = <<50, 1>>
  BY DEF Extensions
<1> DEFINE rows == {B[i] : i \in DOMAIN B}
<1>4. B[1] \in rows /\ B[2] \in rows
  BY <1>1
<1> HIDE DEF rows
<1>5. ASSUME NEW b \in ext PROVE \E row \in rows : row[2] = b
  BY <1>2, <1>3, <1>4, Zenon
<1>6. ext \subseteq {row[2] : row \in rows}
  BY <1>5, Zenon
<1> QED BY <1>6 DEF rows, B

-----------------------------------------------------------------------------
(* Every step preserves the invariant.                                     *)

LEMMA InvInit == Init => IInv
<1> SUFFICES ASSUME Init PROVE IInv
  OBVIOUS
<1>1. ServerInv
  BY ServerInvInit DEF Init
<1>2. RegisterStore \in [StoreRegisters -> 0..MaxContent]
  <2>1. \A d \in Defaults : d[2] \in 0..MaxContent
    <3> DEFINE contents == {100, 214, 360, 52, 215, 221, 68, 1450, 1390, 45, 650, 120, 115, 3}
    <3>1. \A d \in Defaults : d[2] \in contents BY DEF Defaults
    <3>2. contents \subseteq 0..MaxContent BY DEF MaxContent
    <3> QED BY <3>1, <3>2
  <2>2. \A r : DefaultOf(r) \subseteq 0..MaxContent
    BY <2>1 DEF DefaultOf
  <2>3. 0 \in 0..MaxContent
    BY DEF MaxContent
  <2> QED BY <2>2, <2>3 DEF RegisterStore
<1>3. TypeOK
  BY <1>1, <1>2, NoDataIs DEF Init, ServerInv, TypeOK
<1>4. link[Home] = "none"
  BY SimulatorAssumption DEF Init, ServerInit
<1>5. Sends /\ GotCurrent /\ GotWhole
  BY <1>4, NoDataIs DEF Init, Sends, GotCurrent, GotWhole
<1> QED BY <1>1, <1>3, <1>5 DEF IInv, ServerInv, Init, Extensions

\* Steps that leave the integration and the store alone.
LEMMA InvHomeKept ==
  ASSUME IInv, ServerInv', UNCHANGED <<store, homeVars>>,
         op = "none" => link'[Home] = "none", link[Home] = "served" => link'[Home] = "served"
  PROVE  IInv'
<1> USE DEF homeVars
<1>1. TypeOK' BY DEF IInv, TypeOK, ServerInv
<1>2. Sends' BY DEF IInv, Sends, Writable
<1>3. GotCurrent' BY DEF IInv, GotCurrent
<1>4. GotWhole' BY DEF IInv, GotWhole
<1> QED BY <1>1, <1>2, <1>3, <1>4 DEF IInv, ServerInv

LEMMA HomeIsTask == Home \in Tasks /\ Strangers \subseteq Tasks /\ Home \notin Strangers
BY SimulatorAssumption

\* Another client's request, whatever it is.
LEMMA InvStrangerAsks ==
  ASSUME IInv, NEW s \in Strangers, NEW r \in Foreign, StrangerAsks(s, r)
  PROVE  IInv'
<1>1. link[Home] # "served"
  BY HomeIsTask DEF StrangerAsks, IInv, SlotMatches
<1>2. /\ store' \in [StoreRegisters -> 0..MaxContent]
      /\ \A x \in StoreRegisters : x[1] = "input" => store'[x] = store[x]
  <2>1. store \in [StoreRegisters -> 0..MaxContent] BY DEF IInv, TypeOK
  <2>2. r.value \in 0..MaxContent BY SimulatorAssumption
  <2>3. CASE Writable(r)
    <3>1. store' = [store EXCEPT ![Holding(r.address)] = r.value] BY <2>3 DEF StrangerAsks, Served
    <3>2. Holding(r.address)[1] = "holding" BY DEF Holding
    <3> QED BY <2>1, <2>2, <3>1, <3>2
  <2>4. CASE ~ Writable(r) BY <2>1, <2>4 DEF StrangerAsks, Served
  <2> QED BY <2>3, <2>4
<1>3. UNCHANGED <<serverVars, homeVars>> BY DEF StrangerAsks
<1>4. TypeOK' BY <1>2, <1>3 DEF IInv, TypeOK, ServerTypeOK, serverVars, homeVars
<1>5. Sends' /\ GotWhole'
  BY <1>3 DEF IInv, Sends, GotWhole, Writable, serverVars, homeVars
<1>6. GotCurrent'
  <2>1. \A x \in DOMAIN got : x \in StoreRegisters /\ (x[1] = "input" \/ x[1] = "holding")
    BY DEF IInv, TypeOK, StoreRegisters
  <2>2. \A x \in DOMAIN got : got[x] = store'[x] \/ (op = "extend" /\ x[1] = "holding")
    <3> TAKE x \in DOMAIN got
    <3>1. CASE op = "extend" BY <1>2, <2>1, <3>1 DEF IInv, GotCurrent
    <3>2. CASE op # "extend"
      <4>1. got = NoData BY <1>1, <3>2 DEF IInv, GotCurrent, TypeOK
      <4> QED BY <4>1, NoDataIs
    <3> QED BY <3>1, <3>2
  <2> QED BY <1>3, <2>2 DEF IInv, GotCurrent, serverVars, homeVars
<1>7. SlotMatches' BY <1>3 DEF IInv, SlotMatches, serverVars
<1> QED BY <1>3, <1>4, <1>5, <1>6, <1>7 DEF IInv, homeVars

\* A poll begins.
LEMMA InvPollBegins ==
  ASSUME IInv, PollBegins
  PROVE  IInv'
<1>1. /\ op' = "poll" /\ requests' = ReadAll(chosen) /\ op = "none"
      /\ UNCHANGED <<serverVars, store, got, data, chosen>>
  BY DEF PollBegins, Begins
<1>2. /\ ReadAll(chosen) \in Seq(ReadFrames) /\ Len(ReadAll(chosen)) >= 7
      /\ \A r \in Base : \E i \in DOMAIN ReadAll(chosen) : r \in Asked(ReadAll(chosen)[i])
  BY ReadAllRequests DEF IInv
<1>3. ReadAll(chosen) \in Seq(Frames) /\ ReadAll(chosen) # << >>
  BY <1>2 DEF ReadFrames
<1>4. TypeOK'
  BY <1>1, <1>3 DEF IInv, TypeOK, ServerTypeOK, Frames, serverVars
<1>5. Sends' BY <1>1, <1>2, <1>3 DEF Sends
<1>6. GotCurrent' BY <1>1 DEF IInv, GotCurrent, NoData, serverVars
<1>7. GotWhole' BY <1>1, <1>2 DEF IInv, GotWhole
<1> QED BY <1>1, <1>4, <1>5, <1>6, <1>7 DEF IInv, SlotMatches, serverVars

\* A service call begins.
LEMMA InvWriteBegins ==
  ASSUME IInv, NEW value \in Values, WriteBegins(value)
  PROVE  IInv'
<1> DEFINE q == Request(WRITE_SINGLE, value[1], value[2])
<1>1. /\ op' = "write" /\ requests' = <<q>> /\ op = "none" /\ data # NoData
      /\ UNCHANGED <<serverVars, store, got, data, chosen>>
  BY DEF WriteBegins, Begins
<1>2. value[1] \in 1..68 /\ value[2] \in 0..MaxContent
  BY SimulatorAssumption
<1>3. q \in Frames /\ Writable(q)
  BY <1>2 DEF Request, Frames, Writable, Holding, StoreRegisters
<1> HIDE DEF q
<1>4. <<q>> \in Seq(Frames) /\ Len(<<q>>) = 1 /\ <<q>>[1] = q
  BY <1>3
<1>5. TypeOK'
  BY <1>1, <1>4 DEF IInv, TypeOK, ServerTypeOK, Frames, serverVars
<1>6. Sends' BY <1>1, <1>3, <1>4 DEF Sends, Writable
<1>7. GotCurrent' BY <1>1 DEF IInv, GotCurrent, serverVars
<1>8. GotWhole' BY <1>1 DEF IInv, GotWhole
<1> QED BY <1>1, <1>5, <1>6, <1>7, <1>8 DEF IInv, SlotMatches, serverVars

\* What is known when an answer arrives: only a refresh goes on after it.
LEMMA AnswerIs ==
  ASSUME IInv, op \in {"poll", "extend", "confirm"}, link[Home] = "served"
  PROVE  /\ Head(requests) \in ReadFrames /\ requests \in Seq(ReadFrames) /\ requests # << >>
         /\ LET all == Received(Head(requests))
            IN  /\ DOMAIN all \subseteq StoreRegisters
                /\ DOMAIN all = DOMAIN got \cup Asked(Head(requests))
                /\ \A x \in DOMAIN all : all[x] = store[x] \/ (op = "extend" /\ x[1] = "holding")
                /\ op # "confirm" /\ Len(requests) = 1 => Base \subseteq DOMAIN all
<1> DEFINE q == Head(requests)
           all == Received(q)
<1>1. requests \in Seq(ReadFrames) /\ requests # << >>
  BY DEF IInv, Sends
<1>2. q \in ReadFrames /\ q = requests[1]
  BY <1>1
<1>3. /\ Asked(q) \subseteq StoreRegisters
      /\ DOMAIN all = DOMAIN got \cup Asked(q)
      /\ \A x \in DOMAIN all : all[x] = IF x \in Asked(q) THEN store[x] ELSE got[x]
  BY <1>2, ReceivedIs
<1> HIDE DEF all
<1>4. \A x \in DOMAIN all : all[x] = store[x] \/ (op = "extend" /\ x[1] = "holding")
  BY <1>3 DEF IInv, GotCurrent
<1>5. ASSUME op # "confirm", Len(requests) = 1, NEW r \in Base
      PROVE  r \in DOMAIN all
  <2>1. r \in DOMAIN got \/ \E i \in DOMAIN requests : r \in Asked(requests[i])
    BY <1>5 DEF IInv, GotWhole
  <2>2. \A i \in DOMAIN requests : requests[i] = q
    BY <1>1, <1>2, <1>5
  <2> QED BY <1>3, <2>1, <2>2
<1>6. DOMAIN all \subseteq StoreRegisters
  BY <1>3 DEF IInv, TypeOK
<1> QED BY <1>1, <1>2, <1>3, <1>4, <1>5, <1>6 DEF all

\* What is left of a sequence once its head is taken.
LEMMA TailElements ==
  ASSUME NEW S, NEW s \in Seq(S), s # << >>, Len(s) # 1
  PROVE  /\ Tail(s) \in Seq(S) /\ Tail(s) # << >>
         /\ \A i \in DOMAIN s : s[i] = Head(s) \/ (i - 1 \in DOMAIN Tail(s) /\ s[i] = Tail(s)[i - 1])
<1>1. Len(s) \in Nat /\ Len(s) > 1 /\ DOMAIN s = 1..Len(s)
  <2>1. Len(s) # 0 BY EmptySeq
  <2>2. Len(s) \in Nat /\ DOMAIN s = 1..Len(s) OBVIOUS
  <2> QED BY <2>1, <2>2
<1>2. Tail(s) \in Seq(S) /\ Len(Tail(s)) = Len(s) - 1 /\ DOMAIN Tail(s) = 1..(Len(s) - 1)
  BY <1>1
<1>3. \A i \in 1..(Len(s) - 1) : Tail(s)[i] = s[i + 1]
  BY <1>1
<1>4. ASSUME NEW i \in DOMAIN s
      PROVE  s[i] = Head(s) \/ (i - 1 \in DOMAIN Tail(s) /\ s[i] = Tail(s)[i - 1])
  <2>1. CASE i = 1 BY <2>1
  <2>2. CASE i # 1
    <3>1. i - 1 \in 1..(Len(s) - 1) /\ (i - 1) + 1 = i BY <1>1, <1>4, <2>2
    <3> QED BY <1>2, <1>3, <3>1
  <2> QED BY <2>1, <2>2
<1>5. Tail(s) # << >>
  <2>1. Len(Tail(s)) # 0 BY <1>1, <1>2
  <2>2. Len(<< >>) = 0 BY EmptySeq
  <2> QED BY <2>1, <2>2, Zenon
<1> QED BY <1>2, <1>4, <1>5

\* The next request of a refresh.
LEMMA InvReadsOn ==
  ASSUME IInv, ReadsOn
  PROVE  IInv'
<1> DEFINE all == Received(Head(requests))
<1>1. /\ got' = all /\ requests' = Tail(requests) /\ link[Home] = "served" /\ Len(requests) # 1
      /\ UNCHANGED <<serverVars, store, op, data, chosen>>
  BY DEF ReadsOn, Asks
<1>2. op = "poll"
  BY <1>1 DEF IInv, TypeOK, Sends
<1>3. /\ Head(requests) \in ReadFrames /\ requests \in Seq(ReadFrames) /\ requests # << >>
      /\ DOMAIN all \subseteq StoreRegisters
      /\ DOMAIN all = DOMAIN got \cup Asked(Head(requests))
      /\ \A x \in DOMAIN all : all[x] = store[x]
  BY <1>1, <1>2, AnswerIs
<1> HIDE DEF all
<1>4. /\ Tail(requests) \in Seq(ReadFrames) /\ Tail(requests) # << >>
      /\ \A i \in DOMAIN requests : \/ requests[i] = Head(requests)
                                    \/ i - 1 \in DOMAIN Tail(requests) /\ requests[i] = Tail(requests)[i - 1]
  BY <1>1, <1>3, TailElements
<1>5. Tail(requests) \in Seq(Frames)
  BY <1>4 DEF ReadFrames
<1>6. TypeOK'
  BY <1>1, <1>3, <1>5 DEF IInv, TypeOK, ServerTypeOK, Frames, serverVars
<1>7. Sends' BY <1>1, <1>2, <1>4 DEF Sends
<1>8. GotCurrent' BY <1>1, <1>2, <1>3 DEF GotCurrent, serverVars
<1>9. \A r \in Base : r \in DOMAIN all \/ \E i \in DOMAIN Tail(requests) : r \in Asked(Tail(requests)[i])
  <2> TAKE r \in Base
  <2>1. r \in DOMAIN got \/ \E i \in DOMAIN requests : r \in Asked(requests[i])
    BY <1>2 DEF IInv, GotWhole
  <2> QED BY <1>3, <1>4, <2>1
<1>10. GotWhole' BY <1>1, <1>2, <1>9 DEF IInv, GotWhole
<1> QED BY <1>1, <1>6, <1>7, <1>8, <1>10 DEF IInv, SlotMatches, serverVars

\* An operation of the integration is over.
LEMMA InvLeaves ==
  ASSUME IInv, Leads("none", << >>), UNCHANGED <<store, chosen>>, got' = NoData,
         DOMAIN data' \subseteq StoreRegisters, data' # NoData => Base \subseteq DOMAIN data'
  PROVE  IInv'
<1>1. op' = "none" /\ requests' = << >> /\ Closes(Home)
  BY DEF Leads, Begins
<1>2. ServerInv' /\ link'[Home] = "none"
  BY <1>1, HomeIsTask, ClosesKeeps DEF IInv, TypeOK, ServerInv
<1>3. TypeOK' BY <1>1, <1>2, NoDataIs DEF IInv, TypeOK, ServerInv
<1>4. Sends' BY <1>1, <1>2 DEF Sends
<1>5. GotCurrent' BY <1>1, NoDataIs DEF GotCurrent, NoData
<1>6. GotWhole' BY <1>1 DEF GotWhole, NoData
<1> QED BY <1>2, <1>3, <1>4, <1>5, <1>6 DEF IInv, ServerInv

\* The last answer of a refresh: it is shown, or the extension read after it.
LEMMA InvPollEnds ==
  ASSUME IInv, PollEnds
  PROVE  IInv'
<1> DEFINE all == Received(Head(requests))
<1>1. op = "poll" /\ link[Home] = "served" /\ Len(requests) = 1 /\ store' = store
  BY DEF PollEnds, Asks
<1>2. /\ DOMAIN all \subseteq StoreRegisters /\ Base \subseteq DOMAIN all
      /\ \A x \in DOMAIN all : all[x] = store[x]
  BY <1>1, AnswerIs
<1>3. CASE /\ chosen' = Extension(all[Input(3)]) /\ chosen' # {}
           /\ Leads("extend", Reads(READ_INPUT, SetToSeq(chosen')))
           /\ got' = all /\ data' = data
  <2> DEFINE asked == Reads(READ_INPUT, SetToSeq(chosen'))
  <2>1. all[Input(3)] \in Nat
    <3>1. Input(3) \in Base /\ Input(3) \in StoreRegisters BY DEF Input, Base, StoreRegisters
    <3>2. all[Input(3)] = store[Input(3)] BY <1>2, <3>1
    <3>3. store[Input(3)] \in 0..MaxContent BY <3>1 DEF IInv, TypeOK
    <3>4. MaxContent \in Nat BY DEF MaxContent
    <3> HIDE DEF all
    <3>5. all[Input(3)] \in 0..MaxContent BY <3>2, <3>3
    <3> QED BY <3>4, <3>5
  <2> HIDE DEF all
  <2>2. chosen' \in Extensions BY <1>3, <2>1, ExtensionType
  <2>3. asked \in Seq(ReadFrames) /\ Len(asked) = 1
    <3> DEFINE ext == chosen'
    <3> HIDE DEF ext
    <3>1. ext \in Extensions /\ ext # {} BY <1>3, <2>2 DEF ext
    <3>2. Reads(READ_INPUT, SetToSeq(ext)) \in Seq(ReadFrames) /\ Len(Reads(READ_INPUT, SetToSeq(ext))) = 1
      BY <3>1, ExtensionRequests
    <3> QED BY <3>2 DEF ext
  <2>4. op' = "extend" /\ requests' = asked /\ Closes(Home)
    BY <1>3 DEF Leads, Begins
  <2> HIDE DEF asked
  <2>5. asked \in Seq(Frames) /\ asked # << >> BY <2>3 DEF ReadFrames
  <2>6. ServerInv' /\ link'[Home] = "none"
    BY <2>4, HomeIsTask, ClosesKeeps DEF IInv, TypeOK, ServerInv
  <2>7. TypeOK'
    <3>1. chosen' \subseteq {row[2] : row \in {INPUT_EXTENSION_BATCHES[i] : i \in DOMAIN INPUT_EXTENSION_BATCHES}}
      BY <2>2, ExtensionsTyped
    <3> QED BY <1>1, <1>2, <1>3, <2>4, <2>5, <2>6, <3>1 DEF IInv, TypeOK, ServerInv, Frames
  <2>8. Sends' BY <1>3, <2>3, <2>4, <2>5, <2>6 DEF Sends
  <2>9. GotCurrent' BY <1>1, <1>2, <1>3, <2>4 DEF GotCurrent
  <2>10. GotWhole' BY <1>2, <1>3, <2>4 DEF IInv, GotWhole
  <2> QED BY <2>2, <2>6, <2>7, <2>8, <2>9, <2>10 DEF IInv, ServerInv
<1>4. CASE Leads("none", << >>) /\ data' = all /\ got' = NoData /\ chosen' = chosen
  BY <1>1, <1>2, <1>4, InvLeaves
<1> QED BY <1>3, <1>4 DEF PollEnds

LEMMA InvExtensionRead ==
  ASSUME IInv, ExtensionRead
  PROVE  IInv'
<1> DEFINE all == Received(Head(requests))
<1>1. op = "extend" /\ link[Home] = "served" /\ Len(requests) = 1
  BY DEF ExtensionRead, Asks
<1>2. data' = all /\ got' = NoData /\ Leads("none", << >>) /\ UNCHANGED <<store, chosen>>
  BY DEF ExtensionRead
<1>3. DOMAIN all \subseteq StoreRegisters /\ Base \subseteq DOMAIN all
  BY <1>1, AnswerIs
<1> QED BY <1>2, <1>3, InvLeaves

LEMMA InvConfirmed ==
  ASSUME IInv, Confirmed
  PROVE  IInv'
<1> DEFINE all == Received(Head(requests))
<1>1. op = "confirm" /\ link[Home] = "served"
  BY DEF Confirmed, Asks
<1>2. data' = Updated(data, all) /\ Leads("none", << >>) /\ UNCHANGED <<store, got, chosen>>
  BY DEF Confirmed
<1>3. DOMAIN all \subseteq StoreRegisters
  BY <1>1, AnswerIs
<1> HIDE DEF all
<1>4. DOMAIN data' = DOMAIN data \cup DOMAIN all
  BY <1>2, UpdatedIs
<1>5. DOMAIN data' \subseteq StoreRegisters /\ Base \subseteq DOMAIN data'
  BY <1>1, <1>3, <1>4 DEF IInv, TypeOK, GotWhole
<1>6. got' = NoData
  BY <1>1, <1>2 DEF IInv, GotCurrent
<1> QED BY <1>2, <1>5, <1>6, InvLeaves

LEMMA InvHomeFails ==
  ASSUME IInv, HomeFails
  PROVE  IInv'
<1>1. /\ Leads("none", << >>) /\ data' = IF op = "extend" THEN got ELSE data
      /\ got' = NoData /\ UNCHANGED <<store, chosen>>
  BY DEF HomeFails
<1>2. DOMAIN data' \subseteq StoreRegisters
  BY <1>1 DEF IInv, TypeOK
<1>3. data' # NoData => Base \subseteq DOMAIN data'
  BY <1>1 DEF IInv, GotWhole
<1> QED BY <1>1, <1>2, <1>3, InvLeaves

LEMMA InvWriteAcked ==
  ASSUME IInv, WriteAcked
  PROVE  IInv'
<1> DEFINE q == Head(requests)
           asked == Reads(READ_HOLDING, <<BatchOf(q.address)>>)
           new == [r \in {Holding(q.address)} |-> q.value]
<1>1. /\ op = "write" /\ link[Home] = "served" /\ Writable(q)
      /\ store' = [store EXCEPT ![Holding(q.address)] = q.value]
      /\ data' = Updated(data, new) /\ Leads("confirm", asked) /\ UNCHANGED <<got, chosen>>
  BY DEF WriteAcked, Served
<1>2. q \in Frames
  <2>1. requests \in Seq(Frames) /\ Len(requests) = 1
    BY <1>1 DEF IInv, TypeOK, Sends, Frames
  <2> QED BY <2>1
<1>3. q.address \in 1..68 /\ q.value \in 0..MaxContent /\ Holding(q.address) \in StoreRegisters
  BY <1>1, <1>2 DEF Frames, Writable
<1>4. asked \in Seq(ReadFrames) /\ Len(asked) = 1
  BY <1>3, BatchOfRequest
<1>5. DOMAIN new = {Holding(q.address)}
  OBVIOUS
<1> HIDE DEF asked, q, new
<1>6. op' = "confirm" /\ requests' = asked /\ Closes(Home)
  BY <1>1 DEF Leads, Begins
<1>7. asked \in Seq(Frames) /\ asked # << >> BY <1>4 DEF ReadFrames
<1>8. ServerInv' /\ link'[Home] = "none"
  BY <1>6, HomeIsTask, ClosesKeeps DEF IInv, TypeOK, ServerInv
<1>9. store' \in [StoreRegisters -> 0..MaxContent]
  BY <1>1, <1>3 DEF IInv, TypeOK
<1>10. DOMAIN data' = DOMAIN data \cup {Holding(q.address)}
  BY <1>1, <1>5, UpdatedIs
<1>11. TypeOK'
  BY <1>1, <1>3, <1>6, <1>7, <1>8, <1>9, <1>10 DEF IInv, TypeOK, ServerInv, Frames
<1>12. Sends' BY <1>4, <1>6, <1>7 DEF Sends
<1>13. got = NoData BY <1>1 DEF IInv, GotCurrent
<1>14. GotCurrent' BY <1>1, <1>6, <1>13, NoDataIs DEF GotCurrent, NoData
<1>15. Base \subseteq DOMAIN data' BY <1>1, <1>10 DEF IInv, GotWhole
<1>16. GotWhole' BY <1>6, <1>15 DEF GotWhole
<1> QED BY <1>1, <1>8, <1>11, <1>12, <1>14, <1>16 DEF IInv, ServerInv

LEMMA InvNext ==
  ASSUME IInv, [Next]_vars
  PROVE  IInv'
<1>1. CASE PollBegins BY <1>1, InvPollBegins
<1>2. CASE \E value \in Values : WriteBegins(value) BY <1>2, InvWriteBegins
<1>3. CASE Connects
  <2>1. op # "none" /\ Opens(Home) /\ UNCHANGED <<store, homeVars>> /\ link[Home] = "none"
    BY <1>3 DEF Connects, Opens
  <2>2. ServerInv' BY <2>1, HomeIsTask, OpensKeeps DEF IInv, TypeOK, ServerInv
  <2> QED BY <2>1, <2>2, InvHomeKept DEF IInv, TypeOK
<1>4. CASE HomeStep
  BY <1>4, InvReadsOn, InvPollEnds, InvExtensionRead, InvWriteAcked, InvConfirmed, InvHomeFails DEF HomeStep
<1>5. ASSUME NEW s \in Strangers, StrangerOpens(s) \/ StrangerCloses(s)
      PROVE  IInv'
  <2>1. (Opens(s) \/ Closes(s)) /\ UNCHANGED <<store, homeVars>>
    BY <1>5 DEF StrangerOpens, StrangerCloses
  <2>2. ServerInv' /\ link'[Home] = link[Home]
    <3>1. ServerInv /\ link \in [Tasks -> {"none", "syn", "served", "refused"}]
      BY DEF IInv, TypeOK, ServerInv, ServerTypeOK
    <3>2. CASE Opens(s) BY <3>1, <3>2, HomeIsTask, OpensKeeps
    <3>3. CASE Closes(s) BY <3>1, <3>3, HomeIsTask, ClosesKeeps
    <3> QED BY <2>1, <3>2, <3>3
  <2>3. op = "none" => link[Home] = "none" BY DEF IInv, Sends
  <2> QED BY <2>1, <2>2, <2>3, InvHomeKept DEF IInv, TypeOK
<1>6. ASSUME NEW s \in Strangers, NEW r \in Foreign, StrangerAsks(s, r)
      PROVE  IInv'
  BY <1>6, InvStrangerAsks
<1>7. CASE ServerActs /\ UNCHANGED <<store, homeVars>>
  <2>1. ServerInv' /\ (link'[Home] = link[Home] \/ link[Home] = "syn")
    BY <1>7, HomeIsTask, ServerActsKeeps DEF IInv, TypeOK, ServerInv
  <2>2. op = "none" => link[Home] = "none" BY DEF IInv, Sends
  <2> QED BY <1>7, <2>1, <2>2, InvHomeKept DEF IInv, TypeOK
<1>8. CASE UNCHANGED vars
  <2>1. UNCHANGED <<serverVars, store, homeVars>> BY <1>8 DEF vars
  <2>2. ServerInv' /\ link' = link
    BY <2>1 DEF serverVars, IInv, TypeOK, ServerInv, ServerTypeOK, SlotMatches
  <2>3. op = "none" => link[Home] = "none" BY DEF IInv, Sends
  <2> QED BY <2>1, <2>2, <2>3, InvHomeKept
<1>9. CASE Server(Leaves) \/ Server(MeetsStray) \/ \E t \in Tasks : Server(Accepts(t)) \/ Server(Refuses(t))
  BY <1>7, <1>9 DEF Server, ServerActs
<1> QED BY <1>1, <1>2, <1>3, <1>4, <1>5, <1>6, <1>8, <1>9 DEF Next

-----------------------------------------------------------------------------
(* The theorems.                                                           *)

\* What is asked, read and shown stays as the invariant describes it.
THEOREM Invariant == Spec => []IInv
<1>1. Init => IInv BY InvInit
<1>2. IInv /\ [Next]_vars => IInv' BY InvNext
<1> QED BY <1>1, <1>2, PTL DEF Spec

\* Every variable keeps its type: whatever anybody sends, the store has the
\* registers it started with, and their contents fit 16 bits.
THEOREM TypeCorrect == Spec => []TypeOK
<1>1. IInv => TypeOK BY DEF IInv
<1> QED BY <1>1, Invariant, PTL

\* The unit never answers the integration with an exception: no batch of
\* const.py is too long for it or touches a register it lacks, with the
\* extension its own version leads to, and entities write registers it has.
THEOREM NeverRejectedHolds == Spec => []NeverRejected
<1>1. IInv => NeverRejected
  <2> SUFFICES ASSUME IInv, link[Home] = "served" PROVE Understood(Head(requests))
    BY DEF NeverRejected
  <2>1. op \in {"poll", "extend", "write", "confirm"}
    BY DEF IInv, TypeOK, Sends
  <2>2. CASE op = "write"
    <3>1. Len(requests) = 1 /\ requests \in Seq(Frames) /\ Writable(requests[1])
      BY <2>2 DEF IInv, Sends, TypeOK, Frames
    <3> QED BY <3>1 DEF Understood
  <2>3. CASE op # "write"
    <3>1. Head(requests) \in ReadFrames BY <2>1, <2>3, AnswerIs
    <3> QED BY <3>1 DEF ReadFrames, Understood
  <2> QED BY <2>2, <2>3
<1> QED BY <1>1, Invariant, PTL

\* A poll, a write and a confirmation newly show what the unit holds at that
\* moment, and only the first refresh may show holding registers that are as
\* old as its extension read is long.
THEOREM ShownIsCurrentHolds == Spec => ShownIsCurrent
<1> DEFINE Current == \A r \in DOMAIN data' :
                        \/ data'[r] = store'[r]
                        \/ op \in {"write", "confirm"} /\ r \in DOMAIN data /\ data'[r] = data[r]
                        \/ op = "extend" /\ r[1] = "holding"
           all == Received(Head(requests))
<1>1. ASSUME IInv, [Next]_vars, data' # data
      PROVE  Current
  <2>1. PollEnds \/ ExtensionRead \/ WriteAcked \/ Confirmed \/ HomeFails
    <3> USE <1>1
    <3>1. CASE PollBegins \/ Connects \/ (\E value \in Values : WriteBegins(value))
      BY <3>1 DEF PollBegins, Connects, WriteBegins, homeVars
    <3>2. CASE ReadsOn BY <3>2 DEF ReadsOn
    <3>3. CASE \E s \in Strangers : StrangerOpens(s) \/ StrangerCloses(s) \/ (\E r \in Foreign : StrangerAsks(s, r))
      BY <3>3 DEF StrangerOpens, StrangerCloses, StrangerAsks, homeVars
    <3>4. CASE Server(Leaves) \/ Server(MeetsStray) \/ \E t \in Tasks : Server(Accepts(t)) \/ Server(Refuses(t))
      BY <3>4 DEF Server, homeVars
    <3>5. CASE UNCHANGED vars BY <3>5 DEF vars, homeVars
    <3> QED BY <3>1, <3>2, <3>3, <3>4, <3>5 DEF Next, HomeStep
  <2>2. CASE PollEnds
    <3>1. op = "poll" /\ link[Home] = "served" /\ store' = store /\ data' = all
      BY <1>1, <2>2 DEF PollEnds, Asks
    <3>2. \A x \in DOMAIN all : all[x] = store[x]
      BY <1>1, <3>1, AnswerIs
    <3> HIDE DEF all
    <3> QED BY <3>1, <3>2
  <2>3. CASE ExtensionRead
    <3>1. op = "extend" /\ link[Home] = "served" /\ store' = store /\ data' = all
      BY <2>3 DEF ExtensionRead, Asks
    <3>2. \A x \in DOMAIN all : all[x] = store[x] \/ x[1] = "holding"
      BY <1>1, <3>1, AnswerIs
    <3> HIDE DEF all
    <3> QED BY <3>1, <3>2
  <2>4. CASE WriteAcked
    <3> DEFINE q == Head(requests)
               new == [r \in {Holding(q.address)} |-> q.value]
    <3>1. /\ op = "write" /\ Writable(q) /\ data' = Updated(data, new)
          /\ store' = [store EXCEPT ![Holding(q.address)] = q.value]
      BY <2>4 DEF WriteAcked, Served
    <3>2. store'[Holding(q.address)] = q.value
      BY <1>1, <3>1 DEF Writable, IInv, TypeOK
    <3>3. DOMAIN new = {Holding(q.address)} /\ new[Holding(q.address)] = q.value
      OBVIOUS
    <3> HIDE DEF q, new
    <3>4. \A x \in DOMAIN data' : /\ x \in DOMAIN new \/ x \in DOMAIN data
                                  /\ data'[x] = IF x \in DOMAIN new THEN new[x] ELSE data[x]
      <4> DEFINE u == Updated(data, new)
      <4>1. /\ DOMAIN u = DOMAIN data \cup DOMAIN new
            /\ \A x \in DOMAIN u : u[x] = IF x \in DOMAIN new THEN new[x] ELSE data[x]
        BY UpdatedIs
      <4> HIDE DEF u
      <4>2. data' = u BY <3>1 DEF u
      <4> QED BY <4>1, <4>2
    <3> QED BY <3>1, <3>2, <3>3, <3>4
  <2>5. CASE Confirmed
    <3>1. op = "confirm" /\ link[Home] = "served" /\ store' = store /\ data' = Updated(data, all)
      BY <2>5 DEF Confirmed, Asks
    <3>2. \A x \in DOMAIN all : all[x] = store[x]
      BY <1>1, <3>1, AnswerIs
    <3> HIDE DEF all
    <3>3. \A x \in DOMAIN data' : /\ x \in DOMAIN all \/ x \in DOMAIN data
                                  /\ data'[x] = IF x \in DOMAIN all THEN all[x] ELSE data[x]
      <4> DEFINE u == Updated(data, all)
      <4>1. /\ DOMAIN u = DOMAIN data \cup DOMAIN all
            /\ \A x \in DOMAIN u : u[x] = IF x \in DOMAIN all THEN all[x] ELSE data[x]
        BY UpdatedIs
      <4> HIDE DEF u
      <4>2. data' = u BY <3>1 DEF u
      <4> QED BY <4>1, <4>2
    <3> QED BY <3>1, <3>2, <3>3
  <2>6. CASE HomeFails
    <3>1. op = "extend" /\ data' = got /\ store' = store
      BY <1>1, <2>6 DEF HomeFails
    <3> QED BY <1>1, <3>1 DEF IInv, GotCurrent
  <2> QED BY <2>1, <2>2, <2>3, <2>4, <2>5, <2>6
<1>2. IInv /\ [Next]_vars => [data' # data => Current]_vars
  BY <1>1
<1> HIDE DEF Current, all
<1>3. [][data' # data => Current]_vars => ShownIsCurrent
  BY DEF ShownIsCurrent, Current
<1> QED BY <1>2, <1>3, Invariant, PTL DEF Spec

\* Once a refresh has succeeded, every described register outside the extension
\* has a value, in whatever order the tables and batches are gone through; no
\* write, no confirmation and no failure of a later refresh takes one away.
THEOREM DataIsWhole == Spec => [](data # NoData => Described \ ({"input"} \X (50..52)) \subseteq DOMAIN data)
<1>1. Described \ ({"input"} \X (50..52)) \subseteq Base
  <2>1. TemperatureSensors \cup PlainSensors \cup FlagSensors \cup {ErrorRegister} \subseteq 1..52
    BY DEF TemperatureSensors, PlainSensors, FlagSensors, ErrorRegister
  <2>2. \A row \in NUMBER_REGISTERS : row.address \in 1..68
    BY DEF NUMBER_REGISTERS, Numbers
  <2>3. \A row \in SELECT_REGISTERS \cup BUTTON_REGISTERS : row.address \in 1..68
    BY DEF SELECT_REGISTERS, BUTTON_REGISTERS
  <2>4. SWITCH_REGISTERS \cup {FilterChangeDue} \subseteq 1..68
    BY DEF SWITCH_REGISTERS, FilterChangeDue
  <2> QED BY <2>1, <2>2, <2>3, <2>4 DEF Described, Base, Input, Holding
<1>2. IInv => (data # NoData => Described \ ({"input"} \X (50..52)) \subseteq DOMAIN data)
  BY <1>1 DEF IInv, GotWhole
<1> QED BY <1>2, Invariant, PTL
=============================================================================
