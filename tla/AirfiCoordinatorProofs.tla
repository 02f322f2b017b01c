----------------------- MODULE AirfiCoordinatorProofs -----------------------
(***************************************************************************)
(* The inductive invariant of the coordinator and what follows from it for *)
(* every set of tasks, registers, batches and firmware versions.           *)
(***************************************************************************)
EXTENDS AirfiCoordinator, SequenceTheorems, TLAPS

\* The registers a poll reads when the extension is ext.
Covered(ext) == WritableRegs \cup (UNION {InputBatches[i] : i \in DOMAIN InputBatches}) \cup ext

-----------------------------------------------------------------------------
(* The inductive invariant.                                                *)

\* Only the holder of the lock is past it, and what was read is kept only
\* while the connection is open.
HolderOnly ==
  \A t \in Tasks : /\ pc[t] \in {"connecting", "open"} => t = holder
                   /\ pc[t] # "open" => got[t] = Nothing

\* Stamps are ordered the way the values travelled.
Ordered ==
  \A r \in Regs : /\ 1 <= device[r] /\ device[r] <= now
                  /\ cache[r] <= device[r]
                  /\ acked[r] <= cache[r]
                  /\ first[r] <= device[r]

\* What the holder has read is at least as new as what is shown.
GotFresh ==
  \A t \in Tasks : \A r \in Regs :
    /\ got[t][r] <= device[r]
    /\ got[t][r] # 0 => cache[r] <= got[t][r]

\* Before there is data only the setup's refresh runs; the extension is
\* chosen then and never again, and the firmware has it as long as no older
\* one is installed.
Boot ==
  /\ ~ ready => cache = Nothing /\ \A t \in Tasks : t # Timer => job[t] = "none"
  /\ ready => checked
  /\ ~ checked => extension = {}
  /\ ~ Downgrades => extension \subseteq Present[firmware]
  /\ \A t \in Tasks : job[t] = "extend" => checked /\ ~ ready

\* Requests are for registers the firmware has; those that feed the cache are
\* within the batches the coordinator polls.
Requests ==
  \A t \in Tasks : \A i \in DOMAIN todo[t] :
    /\ ~ Downgrades /\ todo[t][i].op = "read" => todo[t][i].regs \subseteq Present[firmware]
    /\ job[t] \in {"poll", "extend", "confirm"} =>
         todo[t][i].op = "read" /\ todo[t][i].regs \subseteq Covered(extension)
    /\ job[t] = "write" => todo[t][i].regs \subseteq WritableRegs

\* Nothing is shown that a later poll would not read again...
WithinCovered ==
  \A r \in Regs : r \notin Covered(extension) =>
    /\ cache[r] = 0 /\ first[r] = 0
    /\ \A t \in Tasks : job[t] \in {"poll", "extend", "confirm"} => got[t][r] = 0

\* ...and a poll that replaces data has read, or will read, all of it.
PollCovers ==
  ready => \A t \in Tasks : job[t] = "poll" => \A r \in Covered(extension) :
    got[t][r] # 0 \/ \E i \in DOMAIN todo[t] : r \in todo[t][i].regs

IInv ==
  /\ TypeOK /\ HolderOnly /\ Ordered /\ GotFresh
  /\ Boot /\ Requests /\ WithinCovered /\ PollCovers

-----------------------------------------------------------------------------
(* Lemmas about requests and batches.                                      *)

\* Reads turns a sequence of batches into as many read requests.
LEMMA ReadsType ==
  ASSUME NEW b \in Seq(SUBSET Regs)
  PROVE  /\ Reads(b) \in Seq(Request)
         /\ Len(Reads(b)) = Len(b)
         /\ \A i \in 1..Len(b) : Reads(b)[i] = Reading(b[i])
<1>1. Len(b) \in Nat /\ DOMAIN b = 1..Len(b) /\ \A i \in 1..Len(b) : b[i] \in SUBSET Regs
  OBVIOUS
<1>2. \A i \in 1..Len(b) : Reading(b[i]) \in Request
  BY <1>1 DEF Reading, Request
<1> QED BY <1>1, <1>2 DEF Reads

\* The batch re-read after a write lies within the polled holding batches.
LEMMA BatchOfType ==
  ASSUME NEW r \in Regs
  PROVE  BatchOf(r) \subseteq WritableRegs
BY DEF BatchOf, WritableRegs

\* The registers a write may address are registers.
LEMMA WritableType == WritableRegs \in SUBSET Regs
BY CoordinatorAssumption DEF WritableRegs

\* An extension is chosen only if the firmware has its registers.
LEMMA ChosenPresent ==
  ASSUME NEW v \in Versions
  PROVE  /\ ChosenExtension(v) \subseteq Present[v]
         /\ ChosenExtension(v) \subseteq Regs
<1>1. SUFFICES ASSUME NEW x \in ChosenExtension(v)
               PROVE  x \in Present[v] /\ x \in Regs
  BY <1>1
<1>2. PICK i \in DOMAIN ExtensionBatches :
        v >= ExtensionBatches[i].min /\ x \in ExtensionBatches[i].regs
  BY DEF ChosenExtension
<1>3. ExtensionBatches[i] \in [min : Nat, regs : SUBSET Regs]
  <2>1. ExtensionBatches \in Seq([min : Nat, regs : SUBSET Regs])
    BY CoordinatorAssumption
  <2>2. i \in 1..Len(ExtensionBatches)
    BY <2>1
  <2> QED BY <2>1, <2>2, ElementOfSeq
<1> QED BY <1>2, <1>3, FirmwareAssumption

\* Every firmware serves the registers a write may address.
LEMMA WritablePresent ==
  ASSUME NEW v \in Versions
  PROVE  WritableRegs \subseteq Present[v]
BY FirmwareAssumption DEF WritableRegs

\* Where a covered register comes from.
LEMMA CoveredElements ==
  ASSUME NEW ext
  PROVE  \A r : r \in Covered(ext) <=>
           \/ \E j \in DOMAIN InputBatches : r \in InputBatches[j]
           \/ r \in ext
           \/ \E j \in DOMAIN HoldingBatches : r \in HoldingBatches[j]
<1>1. \A r : r \in WritableRegs <=> \E j \in DOMAIN HoldingBatches : r \in HoldingBatches[j]
  BY DEF WritableRegs
<1> DEFINE polled == UNION {InputBatches[i] : i \in DOMAIN InputBatches}
<1>2. \A r : r \in polled <=> \E j \in DOMAIN InputBatches : r \in InputBatches[j]
  OBVIOUS
<1>3. Covered(ext) = WritableRegs \cup polled \cup ext
  BY DEF Covered
<1> HIDE DEF polled
<1> QED BY <1>1, <1>2, <1>3

\* The elements of a concatenation of three sequences.
LEMMA ConcatElements ==
  ASSUME NEW S, NEW a \in Seq(S), NEW b \in Seq(S), NEW c \in Seq(S)
  PROVE  /\ (a \o b) \o c \in Seq(S)
         /\ Len((a \o b) \o c) = Len(a) + Len(b) + Len(c)
         /\ \A i \in 1..Len(a) : ((a \o b) \o c)[i] = a[i]
         /\ \A i \in 1..Len(b) : ((a \o b) \o c)[Len(a) + i] = b[i]
         /\ \A i \in 1..Len(c) : ((a \o b) \o c)[Len(a) + Len(b) + i] = c[i]
<1>1. Len(a) \in Nat /\ Len(b) \in Nat /\ Len(c) \in Nat
  OBVIOUS
<1>2. a \o b \in Seq(S) /\ Len(a \o b) = Len(a) + Len(b)
  OBVIOUS
<1>3. /\ \A i \in 1..Len(a) : (a \o b)[i] = a[i]
      /\ \A i \in 1..Len(b) : (a \o b)[Len(a) + i] = b[i]
  BY <1>1
<1> DEFINE d == a \o b
<1>4. d \in Seq(S) /\ Len(d) = Len(a) + Len(b)
  BY <1>2
<1> HIDE DEF d
<1>5. d \o c \in Seq(S) /\ Len(d \o c) = Len(d) + Len(c)
  BY <1>4
<1>6. /\ \A i \in 1..Len(d) : (d \o c)[i] = d[i]
      /\ \A i \in 1..Len(c) : (d \o c)[Len(d) + i] = c[i]
  BY <1>1, <1>4
<1>7. \A i \in 1..Len(a) : (d \o c)[i] = a[i]
  BY <1>1, <1>3, <1>4, <1>6 DEF d
<1>8. ASSUME NEW i \in 1..Len(b)
      PROVE  (d \o c)[Len(a) + i] = b[i]
  <2>1. Len(a) + i \in 1..Len(d)
    BY <1>1, <1>4
  <2> QED BY <2>1, <1>3, <1>6 DEF d
<1> QED BY <1>4, <1>5, <1>6, <1>7, <1>8 DEF d

\* read_all reads exactly the covered registers, all present if the
\* extension is.
LEMMA ReadAllCovers ==
  ASSUME NEW ext \in SUBSET Regs
  PROVE  /\ ReadAll(ext) \in Seq(Request)
         /\ \A i \in DOMAIN ReadAll(ext) :
              /\ ReadAll(ext)[i].op = "read"
              /\ ReadAll(ext)[i].regs \subseteq Covered(ext)
              /\ \A v \in Versions : ext \subseteq Present[v] => ReadAll(ext)[i].regs \subseteq Present[v]
         /\ \A r \in Covered(ext) : \E i \in DOMAIN ReadAll(ext) : r \in ReadAll(ext)[i].regs
<1> DEFINE A == Reads(InputBatches)
           X == IF ext = {} THEN <<>> ELSE <<Reading(ext)>>
           H == Reads(HoldingBatches)
           n == Len(InputBatches)
           m == Len(HoldingBatches)
           x == Len(X)
<1>1. /\ A \in Seq(Request) /\ Len(A) = n
      /\ \A i \in 1..n : A[i] = Reading(InputBatches[i])
      /\ n \in Nat /\ DOMAIN InputBatches = 1..n
  BY ReadsType, CoordinatorAssumption
<1>2. /\ H \in Seq(Request) /\ Len(H) = m
      /\ \A i \in 1..m : H[i] = Reading(HoldingBatches[i])
      /\ m \in Nat /\ DOMAIN HoldingBatches = 1..m
  BY ReadsType, CoordinatorAssumption
<1>3. Reading(ext) \in Request
  BY DEF Reading, Request
<1>4. /\ X \in Seq(Request) /\ x \in Nat
      /\ ext = {} => x = 0
      /\ ext # {} => x = 1 /\ X[1] = Reading(ext)
      /\ \A i \in 1..x : ext # {} /\ i = 1
  BY <1>3
<1> HIDE DEF A, X, H, n, m, x
<1>5a. /\ (A \o X) \o H \in Seq(Request)
       /\ Len((A \o X) \o H) = Len(A) + Len(X) + Len(H)
       /\ \A i \in 1..Len(A) : ((A \o X) \o H)[i] = A[i]
       /\ \A i \in 1..Len(X) : ((A \o X) \o H)[Len(A) + i] = X[i]
       /\ \A i \in 1..Len(H) : ((A \o X) \o H)[Len(A) + Len(X) + i] = H[i]
  <2>1. A \in Seq(Request) /\ X \in Seq(Request) /\ H \in Seq(Request)
    BY <1>1, <1>2, <1>4
  <2> QED BY ONLY <2>1, ConcatElements
<1>5. /\ (A \o X) \o H \in Seq(Request)
      /\ Len((A \o X) \o H) = n + x + m
      /\ \A i \in 1..n : ((A \o X) \o H)[i] = A[i]
      /\ \A i \in 1..x : ((A \o X) \o H)[n + i] = X[i]
      /\ \A i \in 1..m : ((A \o X) \o H)[n + x + i] = H[i]
  BY <1>1, <1>2, <1>5a DEF x
<1>6. ReadAll(ext) = (A \o X) \o H
  BY DEF ReadAll, A, X, H
<1>7. DOMAIN ReadAll(ext) = 1..(n + x + m)
  BY <1>5, <1>6
<1>8. ASSUME NEW i \in 1..(n + x + m)
      PROVE  \/ i \in 1..n
             \/ \E j \in 1..x : i = n + j
             \/ \E j \in 1..m : i = n + x + j
  <2>1. CASE i <= n
    BY <2>1, <1>1
  <2>2. CASE i > n /\ i <= n + x
    <3>1. i - n \in 1..x /\ i = n + (i - n)
      BY <2>2, <1>1, <1>4
    <3> QED BY <3>1
  <2>3. CASE i > n + x
    <3>1. i - (n + x) \in 1..m /\ i = n + x + (i - (n + x))
      BY <2>3, <1>1, <1>2, <1>4
    <3> QED BY <3>1
  <2> QED BY <2>1, <2>2, <2>3, <1>1, <1>4
<1>9. \A b : Reading(b).op = "read" /\ Reading(b).regs = b
  BY DEF Reading
<1>10. \A j \in 1..n : /\ j \in DOMAIN ReadAll(ext)
                       /\ ReadAll(ext)[j] = Reading(InputBatches[j])
  BY <1>1, <1>2, <1>4, <1>5, <1>6, <1>7
<1>11. ASSUME ext # {}
       PROVE  n + 1 \in DOMAIN ReadAll(ext) /\ ReadAll(ext)[n + 1] = Reading(ext)
  <2>1. x = 1 /\ 1 \in 1..x /\ X[1] = Reading(ext)
    BY <1>4, <1>11
  <2>2. n + 1 \in 1..(n + x + m)
    BY <1>1, <1>2, <2>1
  <2> QED BY <2>1, <2>2, <1>5, <1>6, <1>7
<1>12. \A j \in 1..m : /\ n + x + j \in DOMAIN ReadAll(ext)
                       /\ ReadAll(ext)[n + x + j] = Reading(HoldingBatches[j])
  BY <1>1, <1>2, <1>4, <1>5, <1>6, <1>7
<1>13. \A i \in DOMAIN ReadAll(ext) :
         \/ \E j \in 1..n : ReadAll(ext)[i] = Reading(InputBatches[j])
         \/ ext # {} /\ ReadAll(ext)[i] = Reading(ext)
         \/ \E j \in 1..m : ReadAll(ext)[i] = Reading(HoldingBatches[j])
  <2> SUFFICES ASSUME NEW i \in 1..(n + x + m)
               PROVE  \/ \E j \in 1..n : ReadAll(ext)[i] = Reading(InputBatches[j])
                      \/ ext # {} /\ ReadAll(ext)[i] = Reading(ext)
                      \/ \E j \in 1..m : ReadAll(ext)[i] = Reading(HoldingBatches[j])
    BY <1>7
  <2>1. CASE i \in 1..n
    BY <2>1, <1>10
  <2>2. CASE \E j \in 1..x : i = n + j
    BY <2>2, <1>4, <1>11
  <2>3. CASE \E j \in 1..m : i = n + x + j
    BY <2>3, <1>12
  <2> QED BY <2>1, <2>2, <2>3, <1>8
<1>14. \A r \in Covered(ext) :
         \/ \E j \in 1..n : r \in InputBatches[j]
         \/ r \in ext
         \/ \E j \in 1..m : r \in HoldingBatches[j]
  BY <1>1, <1>2, CoveredElements
<1>15. \A r \in Covered(ext) : \E i \in DOMAIN ReadAll(ext) : r \in ReadAll(ext)[i].regs
  BY <1>9, <1>10, <1>11, <1>12, <1>14
<1>16. /\ \A j \in 1..n : InputBatches[j] \subseteq Covered(ext)
       /\ ext \subseteq Covered(ext)
       /\ \A j \in 1..m : HoldingBatches[j] \subseteq Covered(ext)
  BY <1>1, <1>2, CoveredElements
<1>17. \A v \in Versions : /\ \A j \in 1..n : InputBatches[j] \subseteq Present[v]
                           /\ \A j \in 1..m : HoldingBatches[j] \subseteq Present[v]
  BY <1>1, <1>2, FirmwareAssumption
<1>18. ASSUME NEW i \in DOMAIN ReadAll(ext)
       PROVE  /\ ReadAll(ext)[i].op = "read"
              /\ ReadAll(ext)[i].regs \subseteq Covered(ext)
              /\ \A v \in Versions : ext \subseteq Present[v] => ReadAll(ext)[i].regs \subseteq Present[v]
  BY <1>9, <1>13, <1>16, <1>17
<1> QED BY <1>5, <1>6, <1>15, <1>18

-----------------------------------------------------------------------------
(* Type correctness, and the lock: only its holder is past it.             *)

\* Entering the lock keeps the lock's types and its one holder.
LEMMA AcquireKeeps ==
  ASSUME LockTypeOK, HolderOnly, NEW t \in Tasks, NEW requests \in Seq(Request),
         Acquire(t, requests)
  PROVE  LockTypeOK' /\ HolderOnly'
<1>1. LockTypeOK'
  <2>1. Append(waiters, t) \in Seq(Tasks)
    BY DEF LockTypeOK
  <2>2. waiters' \in Seq(Tasks) /\ holder' \in Tasks \cup {NoTask}
    BY <2>1 DEF LockTypeOK, Acquire
  <2>3. pc' \in [Tasks -> {"idle", "waiting", "connecting", "open"}]
    BY DEF LockTypeOK, Acquire
  <2>4. todo' \in [Tasks -> Seq(Request)] /\ got' \in [Tasks -> [Regs -> Nat]]
    BY DEF LockTypeOK, Acquire
  <2> QED BY <2>2, <2>3, <2>4 DEF LockTypeOK
<1>2. HolderOnly'
  BY ModbusAssumption DEF LockTypeOK, HolderOnly, Acquire
<1> QED BY <1>1, <1>2

\* Leaving the lock hands it to one waiter at most.
LEMMA ReleaseKeeps ==
  ASSUME LockTypeOK, HolderOnly, NEW t \in Tasks, t = holder, Release(t)
  PROVE  LockTypeOK' /\ HolderOnly'
<1>1. waiters # <<>> => Longest \in Tasks /\ Tail(waiters) \in Seq(Tasks)
  BY DEF LockTypeOK, Longest
<1>2. Nothing \in [Regs -> Nat]
  BY DEF Nothing
<1>3. LockTypeOK'
  <2>1. waiters' \in Seq(Tasks) /\ holder' \in Tasks \cup {NoTask}
    BY <1>1 DEF LockTypeOK, Release
  <2>2. pc' \in [Tasks -> {"idle", "waiting", "connecting", "open"}]
    BY <1>1 DEF LockTypeOK, Release
  <2>3. todo' \in [Tasks -> Seq(Request)]
    BY DEF LockTypeOK, Release
  <2>4. got' \in [Tasks -> [Regs -> Nat]]
    BY <1>2 DEF LockTypeOK, Release
  <2> QED BY <2>1, <2>2, <2>3, <2>4 DEF LockTypeOK
<1>4. HolderOnly'
  <2> SUFFICES ASSUME NEW u \in Tasks
               PROVE  /\ pc'[u] \in {"connecting", "open"} => u = holder'
                      /\ pc'[u] # "open" => got'[u] = Nothing
    BY DEF HolderOnly
  <2>1. got'[u] = Nothing
    BY DEF HolderOnly, LockTypeOK, Release
  <2>2. u # t => pc[u] \notin {"connecting", "open"}
    BY DEF HolderOnly
  <2>3. CASE waiters = <<>>
    BY <2>1, <2>2, <2>3 DEF LockTypeOK, Release
  <2>4. CASE waiters # <<>>
    <3>1. holder' = Longest /\ (u # Longest => pc'[u] \in {pc[u], "idle", "waiting"} /\ (u = t => pc'[u] \in {"idle", "waiting"}))
      BY <1>1, <2>4 DEF LockTypeOK, Release
    <3> QED BY <2>1, <2>2, <3>1
  <2> QED BY <2>3, <2>4
<1> QED BY <1>3, <1>4

\* So does leaving it and queueing for it again in one step, as a write does
\* between its request and its confirmation.
LEMMA AgainKeeps ==
  ASSUME LockTypeOK, HolderOnly, NEW t \in Tasks, t = holder,
         NEW requests \in Seq(Request), AcquireAgain(t, requests)
  PROVE  LockTypeOK' /\ HolderOnly'
<1>1. waiters # <<>> => Longest \in Tasks /\ Append(Tail(waiters), t) \in Seq(Tasks)
  BY DEF LockTypeOK, Longest
<1>2. Nothing \in [Regs -> Nat]
  BY DEF Nothing
<1>3. LockTypeOK'
  <2>1. waiters' \in Seq(Tasks) /\ holder' \in Tasks \cup {NoTask}
    BY <1>1 DEF LockTypeOK, AcquireAgain
  <2>2. pc' \in [Tasks -> {"idle", "waiting", "connecting", "open"}]
    BY <1>1 DEF LockTypeOK, AcquireAgain
  <2>3. todo' \in [Tasks -> Seq(Request)]
    BY DEF LockTypeOK, AcquireAgain
  <2>4. got' \in [Tasks -> [Regs -> Nat]]
    BY <1>2 DEF LockTypeOK, AcquireAgain
  <2> QED BY <2>1, <2>2, <2>3, <2>4 DEF LockTypeOK
<1>4. HolderOnly'
  <2> SUFFICES ASSUME NEW u \in Tasks
               PROVE  /\ pc'[u] \in {"connecting", "open"} => u = holder'
                      /\ pc'[u] # "open" => got'[u] = Nothing
    BY DEF HolderOnly
  <2>1. got'[u] = Nothing
    BY DEF HolderOnly, LockTypeOK, AcquireAgain
  <2>2. u # t => pc[u] \notin {"connecting", "open"}
    BY DEF HolderOnly
  <2>3. CASE waiters = <<>>
    BY <2>1, <2>2, <2>3 DEF LockTypeOK, AcquireAgain
  <2>4. CASE waiters # <<>>
    <3>1. holder' = Longest /\ (u # Longest => pc'[u] \in {pc[u], "idle", "waiting"} /\ (u = t => pc'[u] \in {"idle", "waiting"}))
      BY <1>1, <2>4 DEF LockTypeOK, AcquireAgain
    <3> QED BY <2>1, <2>2, <3>1
  <2> QED BY <2>3, <2>4
<1> QED BY <1>3, <1>4

\* A change of the device keeps the types of the device.
LEMMA ChangeKeeps ==
  ASSUME DeviceTypeOK, NEW r \in Regs, Change(r), faults' \in Nat
  PROVE  DeviceTypeOK'
BY DEF DeviceTypeOK, Change

\* So does a failed operation, whether its write was applied or not.
LEMMA FailsKeeps ==
  ASSUME DeviceTypeOK, NEW t \in Tasks, Fails(t)
  PROVE  DeviceTypeOK'
<1>1. faults' \in Nat
  BY DEF DeviceTypeOK, Fails
<1>2. CASE UNCHANGED <<device, now, firmware, updates>>
  BY <1>1, <1>2 DEF DeviceTypeOK
<1>3. CASE \E r \in Regs : Change(r)
  BY <1>1, <1>3, ChangeKeeps
<1> QED BY <1>2, <1>3 DEF Fails, PerhapsApplied

\* What a task that reads has, its next batch included.
LEMMA SnapshotType ==
  ASSUME DeviceTypeOK, LockTypeOK, NEW t \in Tasks
  PROVE  Snapshot(t) \in [Regs -> Nat]
BY DEF DeviceTypeOK, LockTypeOK, Snapshot

\* dict.update of stamps gives stamps.
LEMMA UpdatedType ==
  ASSUME NEW f \in [Regs -> Nat], NEW g \in [Regs -> Nat]
  PROVE  Updated(f, g) \in [Regs -> Nat]
BY DEF Updated

\* A read of some registers is a request.
LEMMA ReadingType ==
  ASSUME NEW b \in SUBSET Regs
  PROVE  <<Reading(b)>> \in Seq(Request)
BY DEF Reading, Request

\* A write of a register is a request.
LEMMA WritingType ==
  ASSUME NEW r \in Regs
  PROVE  <<Writing(r)>> \in Seq(Request)
BY DEF Writing, Request

\* Connecting, and reading a batch that is not the last.
LEMMA TransferKeeps ==
  ASSUME DeviceTypeOK, LockTypeOK, HolderOnly, NEW t \in Tasks, Connect(t) \/ ReadNext(t)
  PROVE  DeviceTypeOK' /\ LockTypeOK' /\ HolderOnly'
<1>1. DeviceTypeOK'
  BY DEF DeviceTypeOK, Connect, ReadNext, deviceVars
<1>2. CASE Connect(t)
  BY <1>1, <1>2 DEF LockTypeOK, HolderOnly, Connect
<1>3. CASE ReadNext(t)
  <2>1. Snapshot(t) \in [Regs -> Nat]
    BY SnapshotType
  <2>2. Tail(todo[t]) \in Seq(Request) /\ t = holder
    BY <1>3 DEF LockTypeOK, HolderOnly, ReadNext, CanRead
  <2>3. LockTypeOK'
    BY <1>3, <2>1, <2>2 DEF LockTypeOK, ReadNext
  <2>4. pc[t] = "open" /\ pc' = pc /\ holder' = holder /\ \A u \in Tasks : u # t => got'[u] = got[u]
    BY <1>3 DEF LockTypeOK, ReadNext, CanRead
  <2>5. HolderOnly'
    BY <2>4 DEF HolderOnly
  <2> QED BY <1>1, <2>3, <2>5
<1> QED BY <1>2, <1>3

\* A cancelled waiter leaves the queue.
LEMMA CancelWaitingKeeps ==
  ASSUME DeviceTypeOK, LockTypeOK, HolderOnly, NEW t \in Tasks, CancelWaiting(t)
  PROVE  DeviceTypeOK' /\ LockTypeOK' /\ HolderOnly'
<1>1. waiters' \in Seq(Tasks)
  <2>1. PICK i \in DOMAIN waiters :
          waiters' = SubSeq(waiters, 1, i - 1) \o SubSeq(waiters, i + 1, Len(waiters))
    BY DEF CancelWaiting
  <2>2. SubSeq(waiters, 1, i - 1) \in Seq(Tasks) /\ SubSeq(waiters, i + 1, Len(waiters)) \in Seq(Tasks)
    BY DEF LockTypeOK
  <2> QED BY <2>1, <2>2
<1>2. DeviceTypeOK'
  BY DEF DeviceTypeOK, CancelWaiting, deviceVars
<1>3. LockTypeOK'
  <2>1. /\ pc' = [pc EXCEPT ![t] = "idle"] /\ todo' = [todo EXCEPT ![t] = <<>>]
        /\ holder' = holder /\ got' = got
    BY DEF CancelWaiting
  <2>2. pc' \in [Tasks -> {"idle", "waiting", "connecting", "open"}]
    BY <2>1 DEF LockTypeOK
  <2>3. todo' \in [Tasks -> Seq(Request)]
    <3>1. <<>> \in Seq(Request)
      OBVIOUS
    <3> QED BY <2>1, <3>1 DEF LockTypeOK
  <2>4. holder' \in Tasks \cup {NoTask} /\ got' \in [Tasks -> [Regs -> Nat]]
    BY <2>1 DEF LockTypeOK
  <2> QED BY <1>1, <2>2, <2>3, <2>4 DEF LockTypeOK
<1>4. /\ pc[t] = "waiting" /\ pc'[t] = "idle" /\ holder' = holder /\ got' = got
      /\ \A u \in Tasks : u # t => pc'[u] = pc[u]
  BY DEF LockTypeOK, CancelWaiting
<1>5. HolderOnly'
  BY <1>4 DEF HolderOnly
<1> QED BY <1>2, <1>3, <1>5

\* A cancelled holder releases the lock.
LEMMA CancelInsideKeeps ==
  ASSUME DeviceTypeOK, LockTypeOK, HolderOnly, NEW t \in Tasks, CancelInside(t)
  PROVE  DeviceTypeOK' /\ LockTypeOK' /\ HolderOnly'
<1>1. t = holder
  BY DEF HolderOnly, CancelInside
<1>2. DeviceTypeOK'
  <2>1. faults' \in Nat
    BY DEF DeviceTypeOK, CancelInside
  <2>2. CASE UNCHANGED <<device, now, firmware, updates>>
    BY <2>1, <2>2 DEF DeviceTypeOK
  <2>3. CASE \E r \in Regs : Change(r)
    BY <2>1, <2>3, ChangeKeeps
  <2> QED BY <2>2, <2>3 DEF CancelInside, PerhapsApplied
<1> QED BY <1>1, <1>2, ReleaseKeeps DEF CancelInside

\* A poll that ends with data.
LEMMA PublishKeeps ==
  ASSUME LockTypeOK, HolderOnly, CoordTypeOK, NEW p \in Pollers, p = holder,
         NEW values \in [Regs -> Nat], Publish(p, values),
         checked' \in BOOLEAN, extension' \in SUBSET Regs
  PROVE  LockTypeOK' /\ HolderOnly' /\ CoordTypeOK'
<1>1. p \in Tasks
  BY CoordinatorAssumption
<1>2. LockTypeOK' /\ HolderOnly'
  BY <1>1, ReleaseKeeps DEF Publish
<1>3. first' \in [Regs -> Nat]
  BY DEF Publish, Nothing
<1>4. CoordTypeOK'
  BY <1>1, <1>3 DEF CoordTypeOK, Publish, Done
<1> QED BY <1>2, <1>4

TypeInv == TypeOK /\ HolderOnly

\* Initially every variable has its type and nobody holds the lock.
LEMMA TypeInit == Init => TypeInv
<1> SUFFICES ASSUME Init PROVE TypeInv
  OBVIOUS
<1>1. Nothing \in [Regs -> Nat]
  BY DEF Nothing
<1>2. DeviceTypeOK
  BY DEF Init, ModbusInit, DeviceTypeOK
<1>3. LockTypeOK /\ HolderOnly
  BY <1>1 DEF Init, ModbusInit, LockTypeOK, HolderOnly
<1>4. CoordTypeOK
  BY <1>1 DEF Init, CoordTypeOK
<1> QED BY <1>2, <1>3, <1>4 DEF TypeInv, TypeOK

\* Every step keeps the types and the one holder; one case per action.
LEMMA TypeStep == TypeInv /\ [Next]_vars => TypeInv'
<1> SUFFICES ASSUME TypeInv, [Next]_vars PROVE TypeInv'
  OBVIOUS
<1>1. DeviceTypeOK /\ LockTypeOK /\ CoordTypeOK /\ HolderOnly
  BY DEF TypeInv, TypeOK
<1>2. \A t \in Tasks : pc[t] \in {"connecting", "open"} => t = holder
  BY <1>1 DEF HolderOnly
<1>3. ASSUME DeviceTypeOK', LockTypeOK', CoordTypeOK', HolderOnly'
      PROVE  TypeInv'
  BY <1>3 DEF TypeInv, TypeOK
<1>4. Pollers \subseteq Tasks /\ Writers \subseteq Tasks /\ Probers \subseteq Tasks
  BY CoordinatorAssumption
<1>5. \A t \in Tasks : Snapshot(t) \in [Regs -> Nat]
  BY <1>1, SnapshotType
<1>6. ASSUME NEW t \in Tasks, Transfer(t) PROVE TypeInv'
  <2>1. DeviceTypeOK' /\ LockTypeOK' /\ HolderOnly'
    BY <1>1, <1>6, TransferKeeps DEF Transfer
  <2>2. CoordTypeOK'
    BY <1>1, <1>6 DEF CoordTypeOK, Transfer, coordVars
  <2> QED BY <1>3, <2>1, <2>2
<1>7. ASSUME NEW p \in Pollers, PollBegins(p) PROVE TypeInv'
  <2>1. ReadAll(extension) \in Seq(Request)
    BY <1>1, ReadAllCovers DEF CoordTypeOK
  <2>2. DeviceTypeOK'
    BY <1>1, <1>7 DEF DeviceTypeOK, PollBegins, deviceVars
  <2>3. LockTypeOK' /\ HolderOnly'
    BY <1>1, <1>4, <1>7, <2>1, AcquireKeeps DEF PollBegins
  <2>4. CoordTypeOK'
    BY <1>1, <1>4, <1>7 DEF CoordTypeOK, PollBegins, Start
  <2> QED BY <1>3, <2>2, <2>3, <2>4
<1>8. ASSUME NEW p \in Pollers, PollSucceeds(p) PROVE TypeInv'
  <2>1. p \in Tasks /\ p = holder
    BY <1>2, <1>4, <1>8 DEF PollSucceeds, ReadLast, CanRead
  <2>2. DeviceTypeOK'
    BY <1>1, <1>8 DEF DeviceTypeOK, PollSucceeds, ReadLast, deviceVars
  <2>3. Publish(p, Snapshot(p)) /\ checked' \in BOOLEAN /\ extension' \in SUBSET Regs
    BY <1>1, <1>8 DEF PollSucceeds, CoordTypeOK
  <2> QED BY <1>1, <1>3, <1>5, <2>1, <2>2, <2>3, PublishKeeps
<1>9. ASSUME NEW p \in Pollers, PollExtends(p) PROVE TypeInv'
  <2>1. p \in Tasks /\ p = holder
    BY <1>2, <1>4, <1>9 DEF PollExtends, ReadLast, CanRead
  <2>2. DeviceTypeOK'
    BY <1>1, <1>9 DEF DeviceTypeOK, PollExtends, ReadLast, deviceVars
  <2>3. ChosenExtension(firmware) \in SUBSET Regs
    BY <1>1, ChosenPresent DEF DeviceTypeOK
  <2>4. LockTypeOK' /\ HolderOnly'
    BY <1>1, <1>9, <2>1, <2>3, ReadingType, AgainKeeps DEF PollExtends
  <2>5. CoordTypeOK'
    BY <1>1, <1>5, <1>9, <2>1, <2>3 DEF CoordTypeOK, PollExtends, Start
  <2> QED BY <1>3, <2>2, <2>4, <2>5
<1>10. ASSUME NEW p \in Pollers, ExtensionRead(p) PROVE TypeInv'
  <2>1. p \in Tasks /\ p = holder
    BY <1>2, <1>4, <1>10 DEF ExtensionRead, ReadLast, CanRead
  <2>2. DeviceTypeOK'
    BY <1>1, <1>10 DEF DeviceTypeOK, ExtensionRead, ReadLast, deviceVars
  <2>3. Publish(p, Updated(first, Snapshot(p))) /\ checked' \in BOOLEAN /\ extension' \in SUBSET Regs
    BY <1>1, <1>10 DEF ExtensionRead, CoordTypeOK
  <2>4. Updated(first, Snapshot(p)) \in [Regs -> Nat]
    BY <1>1, <1>5, <2>1, UpdatedType DEF CoordTypeOK
  <2> QED BY <1>1, <1>3, <2>1, <2>2, <2>3, <2>4, PublishKeeps
<1>11. ASSUME NEW p \in Pollers, ExtensionFails(p) PROVE TypeInv'
  <2>1. p \in Tasks /\ p = holder
    BY <1>2, <1>4, <1>11 DEF ExtensionFails, Fails
  <2>2. DeviceTypeOK'
    BY <1>1, <1>11, <2>1, FailsKeeps DEF ExtensionFails
  <2>3. Publish(p, first) /\ first \in [Regs -> Nat] /\ checked' \in BOOLEAN /\ extension' \in SUBSET Regs
    BY <1>1, <1>11 DEF ExtensionFails, CoordTypeOK
  <2> QED BY <1>1, <1>3, <2>1, <2>2, <2>3, PublishKeeps
<1>12. ASSUME NEW p \in Pollers, PollFails(p) PROVE TypeInv'
  <2>1. p \in Tasks /\ p = holder
    BY <1>2, <1>4, <1>12 DEF PollFails, Fails
  <2>2. DeviceTypeOK'
    BY <1>1, <1>12, <2>1, FailsKeeps DEF PollFails
  <2>3. LockTypeOK' /\ HolderOnly'
    BY <1>1, <1>12, <2>1, ReleaseKeeps DEF PollFails
  <2>4. CoordTypeOK'
    BY <1>1, <1>12, <2>1 DEF CoordTypeOK, PollFails, Done
  <2> QED BY <1>3, <2>2, <2>3, <2>4
<1>13. ASSUME NEW w \in Writers, NEW r \in WritableRegs, WriteBegins(w, r) PROVE TypeInv'
  <2>1. <<Writing(r)>> \in Seq(Request)
    BY WritableType, WritingType
  <2>2. DeviceTypeOK'
    BY <1>1, <1>13 DEF DeviceTypeOK, WriteBegins, deviceVars
  <2>3. LockTypeOK' /\ HolderOnly'
    BY <1>1, <1>4, <1>13, <2>1, AcquireKeeps DEF WriteBegins
  <2>4. CoordTypeOK'
    BY <1>1, <1>4, <1>13 DEF CoordTypeOK, WriteBegins, Start
  <2> QED BY <1>3, <2>2, <2>3, <2>4
<1>14. ASSUME NEW w \in Writers, NEW r \in Regs, WriteAcked(w, r) PROVE TypeInv'
  <2>1. w \in Tasks /\ w = holder
    BY <1>2, <1>4, <1>14 DEF WriteAcked, WriteLast
  <2>2. DeviceTypeOK'
    <3>1. Change(r) /\ faults' \in Nat
      BY <1>1, <1>14 DEF WriteAcked, WriteLast, DeviceTypeOK
    <3> QED BY <1>1, <3>1, ChangeKeeps
  <2>3. BatchOf(r) \in SUBSET Regs
    BY BatchOfType, WritableType
  <2>4. LockTypeOK' /\ HolderOnly'
    BY <1>1, <1>14, <2>1, <2>3, ReadingType, AgainKeeps DEF WriteAcked
  <2>5. CoordTypeOK'
    BY <1>1, <1>14, <2>1 DEF CoordTypeOK, DeviceTypeOK, WriteAcked, Optimistic, Start
  <2> QED BY <1>3, <2>2, <2>4, <2>5
<1>15. ASSUME NEW w \in Writers, WriteFails(w) PROVE TypeInv'
  <2>1. w \in Tasks /\ w = holder
    BY <1>2, <1>4, <1>15 DEF WriteFails, Fails
  <2>2. DeviceTypeOK'
    BY <1>1, <1>15, <2>1, FailsKeeps DEF WriteFails
  <2>3. LockTypeOK' /\ HolderOnly'
    BY <1>1, <1>15, <2>1, ReleaseKeeps DEF WriteFails
  <2>4. CoordTypeOK'
    BY <1>1, <1>15, <2>1 DEF CoordTypeOK, WriteFails, Done
  <2> QED BY <1>3, <2>2, <2>3, <2>4
<1>16. ASSUME NEW w \in Writers, Confirmed(w) PROVE TypeInv'
  <2>1. w \in Tasks /\ w = holder
    BY <1>2, <1>4, <1>16 DEF Confirmed, ReadLast, CanRead
  <2>2. DeviceTypeOK'
    BY <1>1, <1>16 DEF DeviceTypeOK, Confirmed, ReadLast, deviceVars
  <2>3. LockTypeOK' /\ HolderOnly'
    BY <1>1, <1>16, <2>1, ReleaseKeeps DEF Confirmed
  <2>4. Updated(cache, Snapshot(w)) \in [Regs -> Nat]
    BY <1>1, <1>5, <2>1, UpdatedType DEF CoordTypeOK
  <2>5. CoordTypeOK'
    BY <1>1, <1>16, <2>1, <2>4 DEF CoordTypeOK, Confirmed, Done
  <2> QED BY <1>3, <2>2, <2>3, <2>5
<1>17. ASSUME NEW w \in Writers, ConfirmFails(w) PROVE TypeInv'
  <2>1. w \in Tasks /\ w = holder
    BY <1>2, <1>4, <1>17 DEF ConfirmFails, Fails
  <2>2. DeviceTypeOK'
    BY <1>1, <1>17, <2>1, FailsKeeps DEF ConfirmFails
  <2>3. LockTypeOK' /\ HolderOnly'
    BY <1>1, <1>17, <2>1, ReleaseKeeps DEF ConfirmFails
  <2>4. CoordTypeOK'
    BY <1>1, <1>17, <2>1 DEF CoordTypeOK, ConfirmFails, Done
  <2> QED BY <1>3, <2>2, <2>3, <2>4
<1>18. ASSUME NEW w \in Writers, WriteCancelled(w) PROVE TypeInv'
  <2>1. DeviceTypeOK' /\ LockTypeOK' /\ HolderOnly'
    BY <1>1, <1>4, <1>18, CancelWaitingKeeps, CancelInsideKeeps DEF WriteCancelled
  <2>2. CoordTypeOK'
    BY <1>1, <1>4, <1>18 DEF CoordTypeOK, WriteCancelled, Done
  <2> QED BY <1>3, <2>1, <2>2
<1>19. ASSUME NEW o \in Probers, ProbeBegins(o) PROVE TypeInv'
  <2>1. <<Reading(ProbeBatch)>> \in Seq(Request)
    BY CoordinatorAssumption, ReadingType
  <2>2. DeviceTypeOK'
    BY <1>1, <1>19 DEF DeviceTypeOK, ProbeBegins, deviceVars
  <2>3. LockTypeOK' /\ HolderOnly'
    BY <1>1, <1>4, <1>19, <2>1, AcquireKeeps DEF ProbeBegins
  <2>4. CoordTypeOK'
    BY <1>1, <1>4, <1>19 DEF CoordTypeOK, ProbeBegins, Start
  <2> QED BY <1>3, <2>2, <2>3, <2>4
<1>20. ASSUME NEW o \in Probers, ProbeEnds(o) PROVE TypeInv'
  <2>1. o \in Tasks /\ o = holder
    BY <1>2, <1>4, <1>20 DEF ProbeEnds, ReadLast, CanRead, Fails
  <2>2. DeviceTypeOK'
    <3>1. CASE ReadLast(o)
      BY <1>1, <3>1 DEF DeviceTypeOK, ReadLast, deviceVars
    <3>2. CASE Fails(o)
      BY <1>1, <2>1, <3>2, FailsKeeps
    <3> QED BY <1>20, <3>1, <3>2 DEF ProbeEnds
  <2>3. LockTypeOK' /\ HolderOnly'
    BY <1>1, <1>20, <2>1, ReleaseKeeps DEF ProbeEnds
  <2>4. CoordTypeOK'
    BY <1>1, <1>20, <2>1 DEF CoordTypeOK, ProbeEnds, Done
  <2> QED BY <1>3, <2>2, <2>3, <2>4
<1>21. ASSUME NEW r \in Regs, DeviceChanges(r), UNCHANGED coordVars PROVE TypeInv'
  <2>1. DeviceTypeOK'
    <3>1. faults' \in Nat /\ Change(r)
      BY <1>1, <1>21 DEF DeviceTypeOK, DeviceChanges
    <3> QED BY <1>1, <3>1, ChangeKeeps
  <2>2. LockTypeOK' /\ HolderOnly' /\ CoordTypeOK'
    BY <1>1, <1>21 DEF LockTypeOK, HolderOnly, CoordTypeOK, DeviceChanges, lockVars, coordVars
  <2> QED BY <1>3, <2>1, <2>2
<1>22. ASSUME NEW v \in Versions, FirmwareChanges(v), UNCHANGED coordVars PROVE TypeInv'
  <2>1. DeviceTypeOK'
    BY <1>1, <1>22 DEF DeviceTypeOK, FirmwareChanges
  <2>2. LockTypeOK' /\ HolderOnly' /\ CoordTypeOK'
    BY <1>1, <1>22 DEF LockTypeOK, HolderOnly, CoordTypeOK, FirmwareChanges, lockVars, coordVars
  <2> QED BY <1>3, <2>1, <2>2
<1>23. CASE UNCHANGED vars
  <2>1. DeviceTypeOK' /\ LockTypeOK' /\ HolderOnly' /\ CoordTypeOK'
    BY <1>1, <1>23 DEF DeviceTypeOK, LockTypeOK, HolderOnly, CoordTypeOK,
         vars, modbusVars, lockVars, deviceVars, coordVars
  <2> QED BY <1>3, <2>1
<1> QED
  BY <1>6, <1>7, <1>8, <1>9, <1>10, <1>11, <1>12, <1>13, <1>14, <1>15, <1>16, <1>17, <1>18,
     <1>19, <1>20, <1>21, <1>22, <1>23 DEF Next, PollStep, WriteStep

\* Every variable has its type in every reachable state.
THEOREM TypeCorrect == Spec => []TypeOK
<1>1. TypeInv => TypeOK
  BY DEF TypeInv
<1> QED BY <1>1, TypeInit, TypeStep, PTL DEF Spec

\* The device allows one Modbus client: among the polls, writes, confirmations
\* and probes of a coordinator, at most one has its connection.
THEOREM OneConnectionHolds == Spec => []OneConnection
<1>1. TypeInv => OneConnection
  BY DEF TypeInv, HolderOnly, OneConnection
<1> QED BY <1>1, TypeInit, TypeStep, PTL DEF Spec

-----------------------------------------------------------------------------
(* The queue of the lock.                                                  *)

Distinct(q) == \A i, j \in DOMAIN q : q[i] = q[j] => i = j

Queued(q) == {q[i] : i \in DOMAIN q}

\* A task that joins the queue stands in it once.
LEMMA AppendQueue ==
  ASSUME NEW q \in Seq(Tasks), Distinct(q), NEW t \in Tasks, t \notin Queued(q)
  PROVE  Distinct(Append(q, t)) /\ Queued(Append(q, t)) = Queued(q) \cup {t}
<1>1. /\ Len(q) \in Nat /\ DOMAIN q = 1..Len(q) /\ DOMAIN Append(q, t) = 1..(Len(q) + 1)
      /\ \A i \in 1..Len(q) : Append(q, t)[i] = q[i]
      /\ Append(q, t)[Len(q) + 1] = t
  OBVIOUS
<1>2. Len(q) + 1 \in 1..(Len(q) + 1) /\ \A i \in 1..(Len(q) + 1) : i \in 1..Len(q) \/ i = Len(q) + 1
  BY <1>1
<1> QED BY ONLY <1>1, <1>2, Distinct(q), t \notin Queued(q) DEF Distinct, Queued

\* The longest waiter leaves, and nobody else.
LEMMA TailQueue ==
  ASSUME NEW q \in Seq(Tasks), Distinct(q), q # <<>>
  PROVE  /\ Tail(q) \in Seq(Tasks) /\ Head(q) \in Tasks
         /\ Distinct(Tail(q)) /\ Queued(Tail(q)) = Queued(q) \ {Head(q)}
<1>1. /\ Len(q) \in Nat \ {0} /\ DOMAIN q = 1..Len(q) /\ DOMAIN Tail(q) = 1..(Len(q) - 1)
      /\ \A i \in 1..(Len(q) - 1) : Tail(q)[i] = q[i + 1]
      /\ Head(q) = q[1]
  OBVIOUS
<1>2. /\ 1 \in 1..Len(q)
      /\ \A i \in 1..(Len(q) - 1) : i + 1 \in 1..Len(q) /\ i + 1 # 1
      /\ \A i \in 1..Len(q) : i # 1 => i - 1 \in 1..(Len(q) - 1) /\ (i - 1) + 1 = i
      /\ \A i, j \in 1..(Len(q) - 1) : i + 1 = j + 1 => i = j
  BY <1>1
<1>3. Distinct(Tail(q))
  BY <1>1, <1>2 DEF Distinct
<1>4. \A t : t \in Queued(Tail(q)) <=> t \in Queued(q) /\ t # Head(q)
  <2>1. ASSUME NEW t \in Queued(Tail(q)) PROVE t \in Queued(q) /\ t # Head(q)
    BY <1>1, <1>2 DEF Queued, Distinct
  <2>2. ASSUME NEW t \in Queued(q), t # Head(q) PROVE t \in Queued(Tail(q))
    <3>1. PICK i \in 1..Len(q) : t = q[i] /\ i # 1
      BY <1>1, <2>2 DEF Queued
    <3>2. i - 1 \in DOMAIN Tail(q) /\ Tail(q)[i - 1] = t
      BY <1>1, <1>2, <3>1
    <3> QED BY <3>2 DEF Queued
  <2> QED BY <2>1, <2>2
<1>5. Tail(q) \in Seq(Tasks) /\ Head(q) \in Tasks
  OBVIOUS
<1> QED BY <1>3, <1>4, <1>5

\* What is left of a queue when its k-th task leaves.
Without(q, k) == SubSeq(q, 1, k - 1) \o SubSeq(q, k + 1, Len(q))

\* Those before it keep their places, those behind it move up.
LEMMA WithoutElements ==
  ASSUME NEW q \in Seq(Tasks), NEW k \in DOMAIN q
  PROVE  /\ DOMAIN Without(q, k) = 1..(Len(q) - 1)
         /\ \A i \in 1..(k - 1) : Without(q, k)[i] = q[i]
         /\ \A i \in k..(Len(q) - 1) : Without(q, k)[i] = q[i + 1]
<1> DEFINE n == Len(q)
           before == SubSeq(q, 1, k - 1)
           after == SubSeq(q, k + 1, Len(q))
           rest == before \o after
<1>1. n \in Nat /\ k \in 1..n /\ DOMAIN q = 1..n
  OBVIOUS
<1>2. /\ before \in Seq(Tasks) /\ Len(before) = k - 1
      /\ after \in Seq(Tasks) /\ Len(after) = n - k
      /\ \A i \in 1..(k - 1) : before[i] = q[i]
      /\ \A i \in 1..(n - k) : after[i] = q[k + i]
  <2>1. /\ k - 1 \in Int /\ k + 1 \in Int /\ n \in Int /\ 1 \in Int /\ k \in Int
        /\ \A i \in 1..(k - 1) : q[i] \in Tasks
        /\ \A i \in (k + 1)..n : q[i] \in Tasks
    BY <1>1
  <2>2. /\ before \in Seq(Tasks) /\ Len(before) = IF 1 <= k - 1 THEN (k - 1) - 1 + 1 ELSE 0
        /\ \A i \in 1..((k - 1) - 1 + 1) : before[i] = q[1 + i - 1]
    BY <2>1, SubSeqProperties
  <2>3. /\ after \in Seq(Tasks) /\ Len(after) = IF k + 1 <= n THEN n - (k + 1) + 1 ELSE 0
        /\ \A i \in 1..(n - (k + 1) + 1) : after[i] = q[(k + 1) + i - 1]
    BY <2>1, SubSeqProperties
  <2>4. /\ \A i \in 1..(k - 1) : 1 + i - 1 = i /\ i \in 1..((k - 1) - 1 + 1)
        /\ \A i \in 1..(n - k) : (k + 1) + i - 1 = k + i /\ i \in 1..(n - (k + 1) + 1)
    BY <1>1
  <2> HIDE DEF n, before, after
  <2>5. Len(before) = k - 1 /\ Len(after) = n - k
    BY <1>1, <2>2, <2>3
  <2>6. ASSUME NEW i \in 1..(k - 1) PROVE before[i] = q[i]
    BY <2>2, <2>4
  <2>7. ASSUME NEW i \in 1..(n - k) PROVE after[i] = q[k + i]
    BY <2>3, <2>4
  <2> QED BY <2>2, <2>3, <2>5, <2>6, <2>7
<1> HIDE DEF n, before, after
<1>3. /\ DOMAIN rest = 1..(n - 1)
      /\ \A i \in 1..(k - 1) : rest[i] = q[i]
      /\ \A i \in k..(n - 1) : rest[i] = q[i + 1]
  <2>1. /\ Len(rest) = n - 1 /\ DOMAIN rest = 1..Len(rest)
        /\ \A i \in 1..(k - 1) : rest[i] = before[i]
        /\ \A i \in 1..(n - k) : rest[(k - 1) + i] = after[i]
    <3>1. /\ rest \in Seq(Tasks) /\ Len(rest) = Len(before) + Len(after)
          /\ \A i \in 1..(Len(before) + Len(after)) :
               rest[i] = IF i <= Len(before) THEN before[i] ELSE after[i - Len(before)]
      BY <1>2, ConcatProperties
    <3> HIDE DEF rest
    <3>2. Len(before) = k - 1 /\ Len(after) = n - k /\ (k - 1) + (n - k) = n - 1
      BY <1>1, <1>2
    <3>3. Len(rest) = n - 1 /\ DOMAIN rest = 1..Len(rest)
      BY <3>1, <3>2
    <3>4. ASSUME NEW i \in 1..(k - 1) PROVE rest[i] = before[i]
      <4>1. i \in 1..((k - 1) + (n - k)) /\ i <= k - 1
        BY <1>1
      <4> QED BY <3>1, <3>2, <4>1
    <3>5. ASSUME NEW i \in 1..(n - k) PROVE rest[(k - 1) + i] = after[i]
      <4>1. /\ (k - 1) + i \in 1..((k - 1) + (n - k)) /\ ~ (k - 1) + i <= k - 1
            /\ ((k - 1) + i) - (k - 1) = i
        BY <1>1
      <4> QED BY <3>1, <3>2, <4>1
    <3> QED BY <3>3, <3>4, <3>5
  <2>2. ASSUME NEW i \in k..(n - 1) PROVE rest[i] = q[i + 1]
    <3>1. i - (k - 1) \in 1..(n - k) /\ (k - 1) + (i - (k - 1)) = i /\ k + (i - (k - 1)) = i + 1
      BY <1>1
    <3>2. rest[(k - 1) + (i - (k - 1))] = after[i - (k - 1)] /\ after[i - (k - 1)] = q[k + (i - (k - 1))]
      BY <1>2, <2>1, <3>1
    <3> QED BY <3>1, <3>2
  <2> QED BY <1>2, <2>1, <2>2
<1> QED BY <1>3 DEF n, before, after, rest, Without

\* A cancelled waiter leaves from the middle, and nobody else.
LEMMA RemoveQueue ==
  ASSUME NEW q \in Seq(Tasks), Distinct(q), NEW k \in DOMAIN q
  PROVE  Distinct(Without(q, k)) /\ Queued(Without(q, k)) = Queued(q) \ {q[k]}
<1> DEFINE n == Len(q)
           rest == Without(q, k)
<1>1. n \in Nat /\ k \in 1..n /\ DOMAIN q = 1..n
  OBVIOUS
<1>3. /\ DOMAIN rest = 1..(n - 1)
      /\ \A i \in 1..(k - 1) : rest[i] = q[i]
      /\ \A i \in k..(n - 1) : rest[i] = q[i + 1]
  BY WithoutElements
<1> HIDE DEF n, rest
<1>4. /\ \A i \in 1..(n - 1) : i \in 1..(k - 1) \/ i \in k..(n - 1)
      /\ \A i \in 1..(k - 1) : i \in 1..n /\ i # k /\ i \in 1..(n - 1) /\ i < k
      /\ \A i \in k..(n - 1) : i + 1 \in 1..n /\ i + 1 # k /\ i \in 1..(n - 1) /\ i + 1 > k
      /\ \A i \in 1..n : i = k \/ i \in 1..(k - 1) \/ (i - 1 \in k..(n - 1) /\ (i - 1) + 1 = i)
  BY <1>1
<1>5. Distinct(rest)
  <2> SUFFICES ASSUME NEW i \in 1..(n - 1), NEW j \in 1..(n - 1), rest[i] = rest[j] PROVE i = j
    BY <1>3 DEF Distinct
  <2> DEFINE from(x) == IF x < k THEN x ELSE x + 1
  <2>1. from(i) \in 1..n /\ from(j) \in 1..n /\ (from(i) = from(j) => i = j)
    BY <1>1
  <2>2. rest[i] = q[from(i)] /\ rest[j] = q[from(j)]
    BY <1>1, <1>3
  <2> QED BY <1>1, <2>1, <2>2 DEF Distinct
<1>6. \A t : t \in Queued(rest) <=> t \in Queued(q) /\ t # q[k]
  <2>1. ASSUME NEW t \in Queued(rest) PROVE t \in Queued(q) /\ t # q[k]
    <3>1. PICK i \in 1..(n - 1) : t = rest[i]
      BY <1>3, <2>1 DEF Queued
    <3>2. PICK j \in 1..n : j # k /\ rest[i] = q[j]
      BY <1>3, <1>4, <3>1
    <3> QED BY <1>1, <3>1, <3>2 DEF Queued, Distinct
  <2>2. ASSUME NEW t \in Queued(q), t # q[k] PROVE t \in Queued(rest)
    <3>1. PICK i \in 1..n : t = q[i] /\ i # k
      BY <1>1, <2>2 DEF Queued
    <3>2. CASE i \in 1..(k - 1)
      BY <1>3, <1>4, <3>1, <3>2 DEF Queued
    <3>3. CASE i - 1 \in k..(n - 1) /\ (i - 1) + 1 = i
      <4>1. i - 1 \in DOMAIN rest /\ rest[i - 1] = t
        BY <1>3, <1>4, <3>1, <3>3
      <4> QED BY <4>1 DEF Queued
    <3> QED BY <1>4, <3>1, <3>2, <3>3
  <2> QED BY <2>1, <2>2
<1> QED BY <1>5, <1>6 DEF rest

\* LockConsistent in terms of the set of queued tasks.
Orderly ==
  /\ waiters # <<>> => holder # NoTask
  /\ \A t \in Tasks : pc[t] = "waiting" <=> t \in Queued(waiters)
  /\ Distinct(waiters)

\* Both say the same.
LEMMA OrderlyIsConsistent == Orderly <=> LockConsistent
BY DEF Orderly, LockConsistent, Queued, Distinct

\* A task that enters the lock takes it or joins the queue.
LEMMA AcquireOrderly ==
  ASSUME LockTypeOK, Orderly, NEW t \in Tasks, NEW requests, Acquire(t, requests)
  PROVE  Orderly'
<1>1. waiters \in Seq(Tasks) /\ t \notin Queued(waiters) /\ NoTask \notin Tasks
  BY ModbusAssumption DEF LockTypeOK, Orderly, Acquire
<1>2. CASE holder = NoTask
  BY <1>1, <1>2 DEF LockTypeOK, Orderly, Acquire
<1>3. CASE holder # NoTask
  <2>1. Distinct(waiters') /\ Queued(waiters') = Queued(waiters) \cup {t}
    BY <1>1, <1>3, AppendQueue DEF Orderly, Acquire
  <2>2. holder' = holder /\ pc' = [pc EXCEPT ![t] = "waiting"]
    BY <1>3 DEF Acquire
  <2> QED BY <1>3, <2>1, <2>2 DEF LockTypeOK, Orderly
<1> QED BY <1>2, <1>3

\* A task that leaves the lock hands it to the longest waiter.
LEMMA ReleaseOrderly ==
  ASSUME LockTypeOK, Orderly, NEW t \in Tasks, pc[t] # "waiting", Release(t)
  PROVE  Orderly'
<1>1. waiters \in Seq(Tasks) /\ t \notin Queued(waiters) /\ NoTask \notin Tasks
  BY ModbusAssumption DEF LockTypeOK, Orderly
<1>2. CASE waiters = <<>>
  BY <1>1, <1>2 DEF LockTypeOK, Orderly, Release
<1>3. CASE waiters # <<>>
  <2>1. /\ Longest \in Tasks /\ Distinct(waiters') /\ Queued(waiters') = Queued(waiters) \ {Longest}
        /\ holder' = Longest /\ pc' = [pc EXCEPT ![t] = "idle", ![Longest] = "connecting"]
    BY <1>1, <1>3, TailQueue DEF Orderly, Release, Longest
  <2> QED BY <1>1, <2>1 DEF LockTypeOK, Orderly
<1> QED BY <1>2, <1>3

\* A task that leaves the lock and enters it again goes behind the others.
LEMMA AgainOrderly ==
  ASSUME LockTypeOK, Orderly, NEW t \in Tasks, pc[t] # "waiting", NEW requests, AcquireAgain(t, requests)
  PROVE  Orderly'
<1>1. waiters \in Seq(Tasks) /\ t \notin Queued(waiters) /\ NoTask \notin Tasks
  BY ModbusAssumption DEF LockTypeOK, Orderly
<1>2. CASE waiters = <<>>
  BY <1>1, <1>2 DEF LockTypeOK, Orderly, AcquireAgain
<1>3. CASE waiters # <<>>
  <2>1. /\ Longest \in Tasks /\ Tail(waiters) \in Seq(Tasks) /\ Distinct(Tail(waiters))
        /\ Queued(Tail(waiters)) = Queued(waiters) \ {Longest}
    BY <1>1, <1>3, TailQueue DEF Orderly, Longest
  <2>2. Distinct(Append(Tail(waiters), t)) /\ Queued(Append(Tail(waiters), t)) = Queued(Tail(waiters)) \cup {t}
    BY <1>1, <2>1, AppendQueue
  <2>3. /\ Distinct(waiters') /\ Queued(waiters') = (Queued(waiters) \ {Longest}) \cup {t}
        /\ holder' = Longest /\ pc' = [pc EXCEPT ![t] = "waiting", ![Longest] = "connecting"]
    BY <1>3, <2>1, <2>2 DEF AcquireAgain
  <2>4. Longest # t /\ Longest \in Queued(waiters)
    <3>1. 1 \in DOMAIN waiters /\ Longest = waiters[1]
      BY <1>1, <1>3 DEF Longest
    <3> QED BY <1>1, <3>1 DEF Queued
  <2> QED BY <1>1, <2>1, <2>3, <2>4 DEF LockTypeOK, Orderly
<1> QED BY <1>2, <1>3

\* A task that is cancelled while it waits leaves the queue.
LEMMA CancelWaitingOrderly ==
  ASSUME LockTypeOK, Orderly, NEW t \in Tasks, CancelWaiting(t)
  PROVE  Orderly'
<1>1. PICK i \in DOMAIN waiters : waiters[i] = t /\ waiters' = Without(waiters, i)
  BY DEF CancelWaiting, Without
<1>2. waiters \in Seq(Tasks) /\ Distinct(waiters)
  BY DEF LockTypeOK, Orderly
<1>3. Distinct(waiters') /\ Queued(waiters') = Queued(waiters) \ {t}
  BY <1>1, <1>2, RemoveQueue
<1>4. waiters # <<>>
  BY <1>1
<1> QED BY <1>3, <1>4 DEF LockTypeOK, Orderly, CancelWaiting

\* A step lets one task in or out of the lock or its queue, or leaves both alone.
LockSteps ==
  \/ UNCHANGED <<holder, waiters>> /\ \A t \in Tasks : pc'[t] = "waiting" <=> pc[t] = "waiting"
  \/ \E t \in Tasks : CancelWaiting(t) \/ \E requests : Acquire(t, requests)
  \/ \E t \in Tasks : /\ t = holder /\ pc[t] # "waiting"
                      /\ Release(t) \/ \E requests : AcquireAgain(t, requests)

LEMMA LockKinds == TypeInv /\ [Next]_vars => LockSteps
<1> SUFFICES ASSUME TypeInv, [Next]_vars PROVE LockSteps
  OBVIOUS
<1>1. Pollers \subseteq Tasks /\ Writers \subseteq Tasks /\ Probers \subseteq Tasks
  BY CoordinatorAssumption
<1>2. \A t \in Tasks : pc[t] \in {"connecting", "open"} => t = holder /\ pc[t] # "waiting"
  BY DEF TypeInv, HolderOnly
<1>3. CASE UNCHANGED <<holder, waiters, pc>>
  BY <1>3 DEF LockSteps
<1>4. ASSUME NEW t \in Tasks, Transfer(t) PROVE LockSteps
  <2>1. holder' = holder /\ waiters' = waiters /\ \A u \in Tasks : (pc'[u] = "waiting") <=> (pc[u] = "waiting")
    BY <1>4 DEF TypeInv, TypeOK, LockTypeOK, Transfer, Connect, ReadNext
  <2> QED BY <2>1 DEF LockSteps
<1>5. ASSUME NEW p \in Pollers, PollBegins(p) PROVE LockSteps
  BY <1>1, <1>5 DEF PollBegins, LockSteps
<1>6. ASSUME NEW p \in Pollers, PollStep(p) PROVE LockSteps
  <2>1. p \in Tasks /\ p = holder /\ pc[p] # "waiting"
    BY <1>1, <1>2, <1>6 DEF PollStep, PollSucceeds, PollExtends, ExtensionRead, ExtensionFails, PollFails,
         ReadLast, CanRead, Fails
  <2>2. Release(p) \/ AcquireAgain(p, <<Reading(ChosenExtension(firmware))>>)
    BY <1>6 DEF PollStep, PollSucceeds, PollExtends, ExtensionRead, ExtensionFails, PollFails, Publish
  <2> QED BY <2>1, <2>2 DEF LockSteps
<1>7. ASSUME NEW w \in Writers, NEW r \in WritableRegs, WriteBegins(w, r) PROVE LockSteps
  BY <1>1, <1>7 DEF WriteBegins, LockSteps
<1>8. ASSUME NEW w \in Writers, WriteStep(w) PROVE LockSteps
  <2>1. w \in Tasks /\ w = holder /\ pc[w] # "waiting"
    BY <1>1, <1>2, <1>8 DEF WriteStep, WriteAcked, WriteLast, WriteFails, Confirmed, ConfirmFails,
         ReadLast, CanRead, Fails
  <2>2. Release(w) \/ \E r \in Regs : AcquireAgain(w, <<Reading(BatchOf(r))>>)
    BY <1>8 DEF WriteStep, WriteAcked, WriteFails, Confirmed, ConfirmFails
  <2> QED BY <2>1, <2>2 DEF LockSteps
<1>9. ASSUME NEW w \in Writers, WriteCancelled(w) PROVE LockSteps
  <2>1. w \in Tasks /\ (CancelInside(w) => w = holder /\ pc[w] # "waiting")
    BY <1>1, <1>2 DEF CancelInside
  <2> QED BY <1>9, <2>1 DEF WriteCancelled, CancelInside, LockSteps
<1>10. ASSUME NEW o \in Probers, ProbeBegins(o) PROVE LockSteps
  BY <1>1, <1>10 DEF ProbeBegins, LockSteps
<1>11. ASSUME NEW o \in Probers, ProbeEnds(o) PROVE LockSteps
  <2>1. o \in Tasks /\ o = holder /\ pc[o] # "waiting"
    BY <1>1, <1>2, <1>11 DEF ProbeEnds, ReadLast, CanRead, Fails
  <2> QED BY <1>11, <2>1 DEF ProbeEnds, LockSteps
<1>12. ASSUME NEW r \in Regs, DeviceChanges(r) PROVE LockSteps
  BY <1>3, <1>12 DEF DeviceChanges, lockVars
<1>13. ASSUME NEW v \in Versions, FirmwareChanges(v) PROVE LockSteps
  BY <1>3, <1>13 DEF FirmwareChanges, lockVars
<1>14. CASE UNCHANGED vars
  BY <1>3, <1>14 DEF vars, modbusVars, lockVars
<1> QED BY <1>4, <1>5, <1>6, <1>7, <1>8, <1>9, <1>10, <1>11, <1>12, <1>13, <1>14 DEF Next

\* The queue stays in order: one case per kind of step.
LEMMA OrderlyStep == TypeInv /\ Orderly /\ [Next]_vars => Orderly'
<1> SUFFICES ASSUME TypeInv, Orderly, LockSteps PROVE Orderly'
  BY LockKinds
<1>1. LockTypeOK
  BY DEF TypeInv, TypeOK
<1>2. CASE UNCHANGED <<holder, waiters>> /\ \A t \in Tasks : pc'[t] = "waiting" <=> pc[t] = "waiting"
  BY <1>2 DEF Orderly
<1>3. ASSUME NEW t \in Tasks, CancelWaiting(t) PROVE Orderly'
  BY <1>1, <1>3, CancelWaitingOrderly
<1>4. ASSUME NEW t \in Tasks, NEW requests, Acquire(t, requests) PROVE Orderly'
  BY <1>1, <1>4, AcquireOrderly
<1>5. ASSUME NEW t \in Tasks, pc[t] # "waiting", Release(t) PROVE Orderly'
  BY <1>1, <1>5, ReleaseOrderly
<1>6. ASSUME NEW t \in Tasks, pc[t] # "waiting", NEW requests, AcquireAgain(t, requests) PROVE Orderly'
  BY <1>1, <1>6, AgainOrderly
<1> QED BY <1>2, <1>3, <1>4, <1>5, <1>6 DEF LockSteps

\* No error, cancellation or handover leaves a task queued for a lock nobody
\* holds, twice in the queue, or waiting outside it.
THEOREM LockConsistentHolds == Spec => []LockConsistent
<1>1. Init => Orderly
  BY DEF Init, ModbusInit, Orderly, Queued, Distinct
<1>2. Orderly => LockConsistent
  BY OrderlyIsConsistent
<1> QED BY <1>1, <1>2, OrderlyStep, TypeInit, TypeStep, PTL DEF Spec

-----------------------------------------------------------------------------
(* What a step does to one task's operation and to the data.               *)

Others(t) == \A u \in Tasks : u # t => job'[u] = job[u] /\ todo'[u] = todo[u] /\ got'[u] = got[u]

Kept == UNCHANGED <<cache, first, acked, extension, checked, ready>>

Ends(t) == Others(t) /\ job'[t] = "none" /\ todo'[t] = <<>> /\ got'[t] = Nothing

Begins(t) ==
  /\ Others(t)
  /\ got'[t] = Nothing
  /\ \/ job'[t] = "poll" /\ (ready \/ t = Timer) /\ todo'[t] = ReadAll(extension)
     \/ job'[t] = "write" /\ ready /\ \E r \in WritableRegs : todo'[t] = <<Writing(r)>>
     \/ job'[t] = "probe" /\ ready /\ todo'[t] = <<Reading(ProbeBatch)>>

Progresses(t) ==
  /\ Others(t)
  /\ CanRead(t)
  /\ job'[t] = job[t]
  /\ todo'[t] = Tail(todo[t])
  /\ got'[t] = Snapshot(t)

Repeats(t, task, batch) ==
  Others(t) /\ job'[t] = task /\ todo'[t] = <<Reading(batch)>> /\ got'[t] = Nothing

StepKinds ==
  \/ Kept /\ UNCHANGED <<job, todo, got>>
  \/ Kept /\ \E t \in Tasks : Ends(t) \/ Begins(t) \/ Progresses(t)
  \/ \E p \in Pollers : Ends(p) /\ (PollSucceeds(p) \/ ExtensionRead(p) \/ ExtensionFails(p))
  \/ \E p \in Pollers : PollExtends(p) /\ Repeats(p, "extend", ChosenExtension(firmware))
  \/ \E w \in Writers, r \in Regs : WriteAcked(w, r) /\ Repeats(w, "confirm", BatchOf(r))
  \/ \E w \in Writers : Confirmed(w) /\ Ends(w)

\* What a task that leaves the lock no longer has: requests and data.
LEMMA ReleaseEnds ==
  ASSUME TypeInv, NEW t \in Tasks, Release(t), Done(t)
  PROVE  Ends(t)
BY DEF TypeInv, TypeOK, LockTypeOK, CoordTypeOK, Release, Done, Ends, Others

\* What a task that queues again asks for.
LEMMA AgainRepeats ==
  ASSUME TypeInv, NEW t \in Tasks, NEW task, NEW batch,
         AcquireAgain(t, <<Reading(batch)>>), Start(t, task)
  PROVE  Repeats(t, task, batch)
BY DEF TypeInv, TypeOK, LockTypeOK, CoordTypeOK, AcquireAgain, Start, Repeats, Others

\* What a task that enters the lock asks for.
LEMMA AcquireBegins ==
  ASSUME TypeInv, NEW t \in Tasks, NEW task, NEW requests, Acquire(t, requests), Start(t, task)
  PROVE  Others(t) /\ job'[t] = task /\ todo'[t] = requests /\ got'[t] = Nothing
BY DEF TypeInv, TypeOK, HolderOnly, LockTypeOK, CoordTypeOK, Acquire, Start, Others

\* Every step is of one of a few kinds, named for what happens to the device,
\* the cache and the requests; the later lemmas split on these.
LEMMA Kinds == TypeInv /\ [Next]_vars => StepKinds
<1> SUFFICES ASSUME TypeInv, [Next]_vars PROVE StepKinds
  OBVIOUS
<1>1. Pollers \subseteq Tasks /\ Writers \subseteq Tasks /\ Probers \subseteq Tasks
  BY CoordinatorAssumption
<1>2. ASSUME NEW t \in Tasks, Transfer(t) PROVE StepKinds
  <2>1. CASE Connect(t)
    BY <1>2, <2>1 DEF StepKinds, Kept, Transfer, Connect, coordVars
  <2>2. CASE ReadNext(t)
    <3>1. Progresses(t)
      BY <1>2, <2>2 DEF TypeInv, TypeOK, LockTypeOK, Progresses, Others, Transfer, ReadNext, coordVars
    <3> QED BY <1>2, <3>1 DEF StepKinds, Kept, Transfer, coordVars
  <2> QED BY <1>2, <2>1, <2>2 DEF Transfer
<1>3. ASSUME NEW p \in Pollers, PollBegins(p) PROVE StepKinds
  <2>1. Begins(p)
    BY <1>1, <1>3, AcquireBegins DEF PollBegins, Begins
  <2> QED BY <1>1, <1>3, <2>1 DEF StepKinds, Kept, PollBegins
<1>4. ASSUME NEW p \in Pollers, PollSucceeds(p) \/ ExtensionRead(p) \/ ExtensionFails(p) PROVE StepKinds
  <2>1. Ends(p)
    BY <1>1, <1>4, ReleaseEnds DEF PollSucceeds, ExtensionRead, ExtensionFails, Publish
  <2> QED BY <1>4, <2>1 DEF StepKinds
<1>5. ASSUME NEW p \in Pollers, PollExtends(p) PROVE StepKinds
  <2>1. Repeats(p, "extend", ChosenExtension(firmware))
    BY <1>1, <1>5, AgainRepeats DEF PollExtends
  <2> QED BY <1>5, <2>1 DEF StepKinds
<1>6. ASSUME NEW p \in Pollers, PollFails(p) PROVE StepKinds
  <2>1. Ends(p)
    BY <1>1, <1>6, ReleaseEnds DEF PollFails
  <2> QED BY <1>1, <1>6, <2>1 DEF StepKinds, Kept, PollFails
<1>7. ASSUME NEW w \in Writers, NEW r \in WritableRegs, WriteBegins(w, r) PROVE StepKinds
  <2>1. Begins(w)
    BY <1>1, <1>7, AcquireBegins DEF WriteBegins, Begins
  <2> QED BY <1>1, <1>7, <2>1 DEF StepKinds, Kept, WriteBegins
<1>8. ASSUME NEW w \in Writers, NEW r \in Regs, WriteAcked(w, r) PROVE StepKinds
  <2>1. Repeats(w, "confirm", BatchOf(r))
    BY <1>1, <1>8, AgainRepeats DEF WriteAcked
  <2> QED BY <1>8, <2>1 DEF StepKinds
<1>9. ASSUME NEW w \in Writers, WriteFails(w) \/ ConfirmFails(w) PROVE StepKinds
  <2>1. Ends(w)
    BY <1>1, <1>9, ReleaseEnds DEF WriteFails, ConfirmFails
  <2> QED BY <1>1, <1>9, <2>1 DEF StepKinds, Kept, WriteFails, ConfirmFails
<1>10. ASSUME NEW w \in Writers, Confirmed(w) PROVE StepKinds
  <2>1. Ends(w)
    BY <1>1, <1>10, ReleaseEnds DEF Confirmed
  <2> QED BY <1>10, <2>1 DEF StepKinds
<1>11. ASSUME NEW w \in Writers, WriteCancelled(w) PROVE StepKinds
  <2>1. CASE CancelWaiting(w)
    <3>1. Ends(w)
      BY <1>1, <1>11, <2>1 DEF TypeInv, TypeOK, HolderOnly, LockTypeOK, CoordTypeOK,
           WriteCancelled, CancelWaiting, Done, Ends, Others
    <3> QED BY <1>1, <1>11, <3>1 DEF StepKinds, Kept, WriteCancelled
  <2>2. CASE CancelInside(w)
    <3>1. Ends(w)
      BY <1>1, <1>11, <2>2, ReleaseEnds DEF WriteCancelled, CancelInside
    <3> QED BY <1>1, <1>11, <3>1 DEF StepKinds, Kept, WriteCancelled
  <2> QED BY <1>11, <2>1, <2>2 DEF WriteCancelled
<1>12. ASSUME NEW o \in Probers, ProbeBegins(o) PROVE StepKinds
  <2>1. Begins(o)
    BY <1>1, <1>12, AcquireBegins DEF ProbeBegins, Begins
  <2> QED BY <1>1, <1>12, <2>1 DEF StepKinds, Kept, ProbeBegins
<1>13. ASSUME NEW o \in Probers, ProbeEnds(o) PROVE StepKinds
  <2>1. Ends(o)
    BY <1>1, <1>13, ReleaseEnds DEF ProbeEnds
  <2> QED BY <1>1, <1>13, <2>1 DEF StepKinds, Kept, ProbeEnds
<1>14. ASSUME NEW r \in Regs, DeviceChanges(r), UNCHANGED coordVars PROVE StepKinds
  BY <1>14 DEF StepKinds, Kept, DeviceChanges, lockVars, coordVars
<1>15. ASSUME NEW v \in Versions, FirmwareChanges(v), UNCHANGED coordVars PROVE StepKinds
  BY <1>15 DEF StepKinds, Kept, FirmwareChanges, lockVars, coordVars
<1>16. CASE UNCHANGED vars
  BY <1>16 DEF StepKinds, Kept, vars, modbusVars, lockVars, coordVars
<1> QED
  BY <1>2, <1>3, <1>4, <1>5, <1>6, <1>7, <1>8, <1>9, <1>10, <1>11, <1>12, <1>13, <1>14, <1>15, <1>16
  DEF Next, PollStep, WriteStep

\* The device changes by one stamp or not at all, and its firmware only grows
\* unless it may be downgraded.
LEMMA DeviceStep ==
  ASSUME TypeInv, [Next]_vars
  PROVE  /\ Present[firmware] \subseteq Present[firmware'] \/ Downgrades
         /\ firmware' \in Versions
         /\ UNCHANGED <<device, now>> \/ \E r \in Regs : Change(r)
<1> USE DEF deviceVars
<1>0. firmware \in Versions
  BY DEF TypeInv, TypeOK, DeviceTypeOK
<1>1. ASSUME NEW t, Fails(t) \/ CancelInside(t)
      PROVE  /\ firmware' = firmware
             /\ UNCHANGED <<device, now>> \/ \E r \in Regs : Change(r)
  BY <1>1 DEF Fails, CancelInside, PerhapsApplied, Change
<1>2. ASSUME NEW t \in Tasks, Transfer(t)
      PROVE  UNCHANGED deviceVars
  BY <1>2 DEF Transfer, Connect, ReadNext
<1>3. ASSUME NEW p \in Pollers, PollBegins(p) \/ PollStep(p)
      PROVE  UNCHANGED deviceVars \/ Fails(p)
  BY <1>3 DEF PollBegins, PollStep, PollSucceeds, PollExtends, ExtensionRead, ExtensionFails, PollFails, ReadLast
<1>4. ASSUME NEW w \in Writers, (\E r \in WritableRegs : WriteBegins(w, r)) \/ WriteCancelled(w)
      PROVE  UNCHANGED deviceVars \/ CancelInside(w)
  BY <1>4 DEF WriteBegins, WriteCancelled, CancelWaiting
<1>5. ASSUME NEW w \in Writers, WriteStep(w)
      PROVE  \/ UNCHANGED deviceVars
             \/ Fails(w)
             \/ firmware' = firmware /\ \E r \in Regs : Change(r)
  BY <1>5 DEF WriteStep, WriteAcked, WriteLast, Change, WriteFails, Confirmed, ConfirmFails, ReadLast
<1>6. ASSUME NEW o \in Probers, ProbeBegins(o) \/ ProbeEnds(o)
      PROVE  UNCHANGED deviceVars \/ Fails(o)
  BY <1>6 DEF ProbeBegins, ProbeEnds, ReadLast
<1>7. ASSUME NEW r \in Regs, DeviceChanges(r)
      PROVE  firmware' = firmware /\ Change(r)
  BY <1>7 DEF DeviceChanges, Change
<1>8. CASE UNCHANGED vars
  BY <1>0, <1>8 DEF vars, modbusVars
<1>9. ASSUME NEW v \in Versions, FirmwareChanges(v)
      PROVE  /\ Present[firmware] \subseteq Present[firmware'] \/ Downgrades
             /\ firmware' \in Versions
             /\ UNCHANGED <<device, now>>
  <2>1. firmware' = v /\ UNCHANGED <<device, now>> /\ (Downgrades \/ v > firmware)
    BY <1>9 DEF FirmwareChanges
  <2>2. v > firmware => firmware <= v
    BY <1>0, ModbusAssumption
  <2> QED BY <1>0, <2>1, <2>2, FirmwareAssumption
<1> QED BY <1>0, <1>1, <1>2, <1>3, <1>4, <1>5, <1>6, <1>7, <1>8, <1>9 DEF Next

\* Stamps only grow.
LEMMA DeviceGrows ==
  ASSUME TypeInv, Ordered, [Next]_vars
  PROVE  \A r \in Regs : device[r] <= device'[r] /\ 1 <= device'[r] /\ device'[r] <= now'
<1>1. CASE UNCHANGED <<device, now>>
  BY <1>1, DeviceStep DEF TypeInv, TypeOK, DeviceTypeOK, Ordered
<1>2. CASE \E r \in Regs : Change(r)
  BY <1>2, DeviceStep DEF TypeInv, TypeOK, DeviceTypeOK, Ordered, Change
<1> QED BY <1>1, <1>2, DeviceStep

\* What a read returns is at least as new as what is shown of it.
LEMMA SnapshotFresh ==
  ASSUME IInv, NEW t \in Tasks, NEW r \in Regs
  PROVE  /\ Snapshot(t)[r] <= device[r]
         /\ Snapshot(t)[r] # 0 => cache[r] <= Snapshot(t)[r]
         /\ Snapshot(t)[r] \in Nat
         /\ r \in Head(todo[t]).regs => Snapshot(t)[r] # 0
         /\ got[t][r] # 0 => Snapshot(t)[r] # 0
BY DEF IInv, TypeOK, DeviceTypeOK, LockTypeOK, CoordTypeOK, Ordered, GotFresh, Snapshot

\* A poll that replaces data has read everything shown.
LEMMA LastSnapshotCovers ==
  ASSUME IInv, NEW p \in Pollers, ready, job[p] = "poll", ReadLast(p)
  PROVE  \A r \in Regs : r \in Covered(extension) => Snapshot(p)[r] # 0
<1>1. p \in Tasks
  BY CoordinatorAssumption
<1>2. todo[p] \in Seq(Request) /\ Len(todo[p]) = 1
  BY <1>1 DEF IInv, TypeOK, LockTypeOK, ReadLast
<1>3. DOMAIN todo[p] = {1} /\ Head(todo[p]) = todo[p][1]
  BY <1>2
<1>4. \A r \in Covered(extension) : got[p][r] # 0 \/ r \in Head(todo[p]).regs
  BY <1>1, <1>3 DEF IInv, PollCovers
<1> QED BY <1>1, <1>4, SnapshotFresh

\* Whatever a step publishes is at least as new as what was shown, and no
\* older than what was acknowledged.
LEMMA ValuesAdvance ==
  ASSUME IInv, TypeInv', [Next]_vars, NEW r \in Regs
  PROVE  /\ cache[r] <= cache'[r]
         /\ cache'[r] <= device'[r]
         /\ acked'[r] <= cache'[r]
         /\ first'[r] <= device'[r]
<1>1. /\ TypeInv
      /\ cache[r] \in Nat /\ device[r] \in Nat /\ acked[r] \in Nat /\ first[r] \in Nat /\ now \in Nat
      /\ cache'[r] \in Nat /\ device'[r] \in Nat /\ first'[r] \in Nat
      /\ cache[r] <= device[r] /\ acked[r] <= cache[r] /\ first[r] <= device[r] /\ device[r] <= now
  BY DEF IInv, TypeInv, TypeOK, DeviceTypeOK, CoordTypeOK, Ordered
<1>2. device[r] <= device'[r]
  BY <1>1, DeviceGrows DEF IInv
<1>3. Pollers \subseteq Tasks /\ Writers \subseteq Tasks
  BY CoordinatorAssumption
<1>4. Nothing[r] = 0
  BY DEF Nothing
<1>5. CASE Kept
  BY <1>1, <1>2, <1>5 DEF Kept
<1>6. ASSUME NEW p \in Pollers, PollSucceeds(p)
      PROVE  cache'[r] = Snapshot(p)[r] /\ cache[r] <= Snapshot(p)[r] /\ acked' = acked /\ first'[r] = 0
  <2>1. cache'[r] = Snapshot(p)[r] /\ acked' = acked /\ first'[r] = 0
    BY <1>4, <1>6 DEF PollSucceeds, Publish
  <2>2. CASE ~ ready
    BY <1>1, <1>3, <1>4, <2>1, <2>2, SnapshotFresh DEF IInv, Boot
  <2>3. CASE ready /\ r \in Covered(extension)
    BY <1>3, <1>6, <2>1, <2>3, LastSnapshotCovers, SnapshotFresh DEF PollSucceeds
  <2>4. CASE r \notin Covered(extension)
    BY <1>1, <1>3, <2>1, <2>4, SnapshotFresh DEF IInv, WithinCovered
  <2> QED BY <2>1, <2>2, <2>3, <2>4
<1>7. ASSUME NEW p \in Pollers, ExtensionRead(p) \/ ExtensionFails(p)
      PROVE  /\ cache'[r] = first[r] \/ (ExtensionRead(p) /\ cache'[r] = Snapshot(p)[r])
             /\ cache[r] = 0 /\ acked' = acked /\ first'[r] = 0
  BY <1>3, <1>4, <1>7 DEF IInv, Boot, ExtensionRead, ExtensionFails, Publish, Updated
<1>8. ASSUME NEW p \in Pollers, PollExtends(p)
      PROVE  cache' = cache /\ acked' = acked /\ first'[r] = Snapshot(p)[r]
  BY <1>8 DEF PollExtends
<1>9. ASSUME NEW w \in Writers, NEW s \in Regs, WriteAcked(w, s)
      PROVE  /\ first' = first
             /\ r = s => cache'[r] = now + 1 /\ acked'[r] = now + 1 /\ device'[r] = now + 1
             /\ r # s => cache'[r] = cache[r] /\ acked'[r] = acked[r]
  BY <1>9 DEF IInv, TypeOK, DeviceTypeOK, CoordTypeOK, WriteAcked, WriteLast, Change, Optimistic
<1>10. ASSUME NEW w \in Writers, Confirmed(w)
       PROVE  /\ cache'[r] = cache[r] \/ (Snapshot(w)[r] # 0 /\ cache'[r] = Snapshot(w)[r])
              /\ acked' = acked /\ first' = first
  BY <1>10 DEF Confirmed, Updated
<1>11. \A t \in Tasks : /\ Snapshot(t)[r] <= device[r]
                        /\ Snapshot(t)[r] # 0 => cache[r] <= Snapshot(t)[r]
                        /\ Snapshot(t)[r] \in Nat
  BY SnapshotFresh
<1>12. CASE \E p \in Pollers : PollSucceeds(p) \/ ExtensionRead(p) \/ ExtensionFails(p) \/ PollExtends(p)
  BY <1>1, <1>2, <1>3, <1>6, <1>7, <1>8, <1>11, <1>12
<1>13. CASE \E w \in Writers, s \in Regs : WriteAcked(w, s)
  BY <1>1, <1>2, <1>9, <1>13
<1>14. CASE \E w \in Writers : Confirmed(w)
  BY <1>1, <1>2, <1>3, <1>10, <1>11, <1>14
<1> QED BY <1>1, <1>5, <1>12, <1>13, <1>14, Kinds DEF StepKinds

-----------------------------------------------------------------------------
(* Each part of the invariant is preserved.                                *)

\* No step breaks acked <= cache <= device.
LEMMA OrderedStep ==
  ASSUME IInv, TypeInv', [Next]_vars
  PROVE  Ordered'
<1>1. TypeInv /\ Ordered
  BY DEF IInv, TypeInv
<1> QED BY <1>1, DeviceGrows, ValuesAdvance DEF Ordered

\* Between two steps nobody but the lock's holder has read anything, so a step
\* that advances the cache cannot overtake what another task has read.
LEMMA OnlyHolderGot ==
  ASSUME TypeInv, NEW t \in Tasks, NEW u \in Tasks, u # t, pc[t] \in {"connecting", "open"}
  PROVE  got[u] = Nothing
BY DEF TypeInv, HolderOnly

\* Data read under the lock stays as new as what is shown while others run.
LEMMA GotFreshStep ==
  ASSUME IInv, TypeInv', [Next]_vars
  PROVE  GotFresh'
<1> SUFFICES ASSUME NEW t \in Tasks, NEW r \in Regs
             PROVE  got'[t][r] <= device'[r] /\ (got'[t][r] # 0 => cache'[r] <= got'[t][r])
  BY DEF GotFresh
<1>1. /\ TypeInv /\ Ordered /\ GotFresh
      /\ got[t][r] \in Nat /\ device[r] \in Nat /\ cache[r] \in Nat
      /\ got'[t][r] \in Nat /\ device'[r] \in Nat /\ cache'[r] \in Nat
  BY DEF IInv, TypeInv, TypeOK, DeviceTypeOK, LockTypeOK, CoordTypeOK
<1>2. device[r] <= device'[r]
  BY <1>1, DeviceGrows
<1>3. Nothing[r] = 0
  BY DEF Nothing
<1>4. Pollers \subseteq Tasks /\ Writers \subseteq Tasks
  BY CoordinatorAssumption
<1>5. CASE got'[t][r] = 0
  BY <1>1, <1>5
<1>6. CASE got'[t] = got[t] /\ cache'[r] = cache[r]
  BY <1>1, <1>2, <1>6 DEF GotFresh
<1>7. CASE got'[t] = Snapshot(t) /\ cache'[r] = cache[r]
  BY <1>1, <1>2, <1>7, SnapshotFresh
<1>8. CASE Kept /\ (UNCHANGED <<job, todo, got>> \/ \E u \in Tasks : Ends(u) \/ Begins(u) \/ Progresses(u))
  <2>1. cache' = cache
    BY <1>8 DEF Kept
  <2>2. ASSUME NEW u \in Tasks, Ends(u) \/ Begins(u) \/ Progresses(u)
        PROVE  got'[t] = got[t] \/ got'[t] = Nothing \/ got'[t] = Snapshot(t)
    BY <2>2 DEF Ends, Begins, Progresses, Others
  <2> QED BY <1>3, <1>5, <1>6, <1>7, <1>8, <2>1, <2>2
<1>9. ASSUME NEW u \in Tasks, pc[u] \in {"connecting", "open"}, Others(u), got'[u] = Nothing
      PROVE  got'[t][r] = 0
  <2>1. CASE t = u
    BY <1>3, <1>9, <2>1
  <2>2. CASE t # u
    BY <1>1, <1>3, <1>9, <2>2, OnlyHolderGot DEF Others
  <2> QED BY <2>1, <2>2
<1>10. ASSUME NEW p \in Pollers, Ends(p), PollSucceeds(p) \/ ExtensionRead(p) \/ ExtensionFails(p)
       PROVE  got'[t][r] = 0
  BY <1>4, <1>9, <1>10 DEF Ends, PollSucceeds, ExtensionRead, ExtensionFails, ReadLast, CanRead, Fails
<1>11. ASSUME NEW p \in Pollers, PollExtends(p), Repeats(p, "extend", ChosenExtension(firmware))
       PROVE  got'[t][r] = 0
  BY <1>4, <1>9, <1>11 DEF Repeats, PollExtends, ReadLast, CanRead
<1>12. ASSUME NEW w \in Writers, NEW s \in Regs, WriteAcked(w, s), Repeats(w, "confirm", BatchOf(s))
       PROVE  got'[t][r] = 0
  BY <1>4, <1>9, <1>12 DEF Repeats, WriteAcked, WriteLast
<1>13. ASSUME NEW w \in Writers, Confirmed(w), Ends(w)
       PROVE  got'[t][r] = 0
  BY <1>4, <1>9, <1>13 DEF Ends, Confirmed, ReadLast, CanRead
<1> QED BY <1>1, <1>5, <1>8, <1>10, <1>11, <1>12, <1>13, Kinds DEF StepKinds

\* The registers a poll covers never become fewer.
LEMMA CoveredGrows ==
  ASSUME IInv, [Next]_vars, TypeInv'
  PROVE  /\ Covered(extension) \subseteq Covered(extension')
         /\ ready => extension' = extension
         /\ ~ Downgrades => extension' \subseteq Present[firmware]
         /\ extension' \in SUBSET Regs
<1>1. TypeInv /\ Boot
  BY DEF IInv, TypeInv
<1>2. extension' = extension \/ (extension' = ChosenExtension(firmware) /\ extension = {} /\ ~ ready)
  BY <1>1, Kinds DEF StepKinds, Kept, PollSucceeds, ExtensionRead, ExtensionFails, PollExtends,
       WriteAcked, Confirmed, Boot
<1>3. (~ Downgrades => extension \subseteq Present[firmware]) /\ firmware \in Versions
  BY <1>1 DEF Boot, TypeInv, TypeOK, DeviceTypeOK
<1>4. ChosenExtension(firmware) \subseteq Present[firmware]
  BY <1>3, ChosenPresent
<1> QED BY <1>1, <1>2, <1>3, <1>4 DEF Covered, TypeInv, TypeOK, CoordTypeOK

\* Before the first data nobody but the setup's poll is at work.
LEMMA BootStep ==
  ASSUME IInv, TypeInv', [Next]_vars
  PROVE  Boot'
<1>1. TypeInv /\ Boot
  BY DEF IInv, TypeInv
<1>0. ~ Downgrades => extension' \subseteq Present[firmware']
  BY <1>1, CoveredGrows, DeviceStep
<1>2. Timer \in Tasks /\ Pollers \subseteq Tasks /\ Writers \subseteq Tasks
  BY CoordinatorAssumption
<1>3. CASE Kept /\ UNCHANGED <<job, todo, got>>
  BY <1>0, <1>1, <1>3 DEF Boot, Kept
<1>4. ASSUME NEW t \in Tasks, Kept, Ends(t) \/ Begins(t) \/ Progresses(t)
      PROVE  Boot'
  <2>1. job'[t] \in {"none", "poll", "write", "probe", job[t]}
    BY <1>4 DEF Ends, Begins, Progresses
  <2>2. job'[t] \in {"none", job[t]} \/ ready \/ t = Timer
    BY <1>4 DEF Ends, Begins, Progresses
  <2>3. \A u \in Tasks : u # t => job'[u] = job[u]
    BY <1>4 DEF Ends, Begins, Progresses, Others
  <2> QED BY <1>0, <1>1, <1>4, <2>1, <2>2, <2>3 DEF Boot, Kept
<1>5. ASSUME NEW p \in Pollers, Ends(p), PollSucceeds(p) \/ ExtensionRead(p) \/ ExtensionFails(p)
      PROVE  Boot'
  <2>1. ready' /\ checked'
    BY <1>1, <1>2, <1>5 DEF Boot, PollSucceeds, ExtensionRead, ExtensionFails, Publish
  <2>2. \A u \in Tasks : job'[u] # "extend"
    <3> SUFFICES ASSUME NEW u \in Tasks, u # p PROVE job[u] # "extend"
      BY <1>5 DEF Ends, Others
    <3>1. job[p] # "none"
      BY <1>5 DEF PollSucceeds, ExtensionRead, ExtensionFails
    <3> QED BY <1>1, <1>2, <3>1 DEF Boot
  <2> QED BY <1>0, <2>1, <2>2 DEF Boot
<1>6. ASSUME NEW p \in Pollers, PollExtends(p), Repeats(p, "extend", ChosenExtension(firmware))
      PROVE  Boot'
  <2>1. ~ ready /\ ready' = ready /\ checked' /\ cache' = cache
    BY <1>1, <1>6 DEF Boot, PollExtends
  <2>2. p = Timer
    BY <1>1, <1>2, <1>6, <2>1 DEF Boot, PollExtends
  <2>3. \A u \in Tasks : u # p => job'[u] = job[u]
    BY <1>6 DEF Repeats, Others
  <2> QED BY <1>0, <1>1, <2>1, <2>2, <2>3 DEF Boot
<1>7. ASSUME NEW w \in Writers, NEW s \in Regs, WriteAcked(w, s), Repeats(w, "confirm", BatchOf(s))
      PROVE  Boot'
  <2>1. job[w] = "write" /\ ready' = ready /\ checked' = checked /\ extension' = extension
    BY <1>7 DEF WriteAcked
  <2>2. w # Timer
    BY CoordinatorAssumption
  <2>3. ready
    BY <1>1, <1>2, <2>1, <2>2 DEF Boot
  <2>4. \A u \in Tasks : job'[u] \in {job[u], "confirm"}
    BY <1>7 DEF Repeats, Others
  <2> QED BY <1>0, <1>1, <2>1, <2>3, <2>4 DEF Boot
<1>8. ASSUME NEW w \in Writers, Confirmed(w), Ends(w)
      PROVE  Boot'
  <2>1. job[w] = "confirm" /\ ready' = ready /\ checked' = checked /\ extension' = extension
    BY <1>8 DEF Confirmed
  <2>2. w # Timer
    BY CoordinatorAssumption
  <2>3. ready
    BY <1>1, <1>2, <2>1, <2>2 DEF Boot
  <2>4. \A u \in Tasks : job'[u] \in {job[u], "none"}
    BY <1>8 DEF Ends, Others
  <2> QED BY <1>0, <1>1, <2>1, <2>3, <2>4 DEF Boot
<1> QED BY <1>1, <1>3, <1>4, <1>5, <1>6, <1>7, <1>8, Kinds DEF StepKinds

\* What the requests of one task must satisfy.
RequestsOf(t) ==
  \A i \in DOMAIN todo[t] :
    /\ ~ Downgrades /\ todo[t][i].op = "read" => todo[t][i].regs \subseteq Present[firmware]
    /\ job[t] \in {"poll", "extend", "confirm"} =>
         todo[t][i].op = "read" /\ todo[t][i].regs \subseteq Covered(extension)
    /\ job[t] = "write" => todo[t][i].regs \subseteq WritableRegs

\* A task whose operation did not change, or lost its first request, still
\* asks for nothing else.
LEMMA SameRequests ==
  ASSUME IInv, TypeInv', [Next]_vars, NEW t \in Tasks, job'[t] = job[t],
         todo'[t] = todo[t] \/ (todo[t] # <<>> /\ todo'[t] = Tail(todo[t]))
  PROVE  RequestsOf(t)'
<1>1. todo[t] \in Seq(Request) /\ RequestsOf(t)
  BY DEF IInv, TypeOK, LockTypeOK, Requests, RequestsOf
<1>2. /\ Covered(extension) \subseteq Covered(extension')
      /\ ~ Downgrades => Present[firmware] \subseteq Present[firmware']
  BY CoveredGrows, DeviceStep DEF IInv, TypeInv
<1>3. ASSUME NEW i \in DOMAIN todo'[t]
      PROVE  \E j \in DOMAIN todo[t] : todo'[t][i] = todo[t][j]
  <2>1. CASE todo'[t] = todo[t]
    BY <1>3, <2>1
  <2>2. CASE todo[t] # <<>> /\ todo'[t] = Tail(todo[t])
    <3>1. i + 1 \in DOMAIN todo[t] /\ todo'[t][i] = todo[t][i + 1]
      BY <1>1, <1>3, <2>2
    <3> QED BY <3>1
  <2> QED BY <2>1, <2>2
<1> QED BY <1>1, <1>2, <1>3 DEF RequestsOf

\* Every request pending after a step lies within what its task may ask for.
LEMMA RequestsStep ==
  ASSUME IInv, TypeInv', [Next]_vars
  PROVE  Requests'
<1> SUFFICES ASSUME NEW t \in Tasks PROVE RequestsOf(t)'
  BY DEF Requests, RequestsOf
<1>1. /\ TypeInv /\ Boot
      /\ firmware \in Versions /\ firmware' \in Versions /\ extension \in SUBSET Regs
      /\ ~ Downgrades => Present[firmware] \subseteq Present[firmware']
  BY DeviceStep DEF IInv, TypeInv, TypeOK, DeviceTypeOK, CoordTypeOK
<1>2. Pollers \subseteq Tasks /\ Writers \subseteq Tasks
  BY CoordinatorAssumption
<1>3. ASSUME todo'[t] = <<>> PROVE RequestsOf(t)'
  BY <1>3 DEF RequestsOf
<1>4. ASSUME NEW u \in Tasks, u # t, Others(u) PROVE RequestsOf(t)'
  BY <1>4, SameRequests DEF Others
<1>5. ASSUME NEW u \in Tasks, Ends(u) PROVE RequestsOf(t)'
  BY <1>3, <1>4, <1>5 DEF Ends
<1>6. ASSUME Kept, Begins(t) PROVE RequestsOf(t)'
  <2>1. extension' = extension
    BY <1>6 DEF Kept
  <2>2. CASE job'[t] = "poll" /\ todo'[t] = ReadAll(extension)
    <3>1. \A i \in DOMAIN ReadAll(extension) :
            /\ ReadAll(extension)[i].op = "read"
            /\ ReadAll(extension)[i].regs \subseteq Covered(extension)
            /\ ~ Downgrades => ReadAll(extension)[i].regs \subseteq Present[firmware]
      BY <1>1, ReadAllCovers DEF Boot
    <3> QED BY <1>1, <2>1, <2>2, <3>1 DEF RequestsOf
  <2>3. CASE job'[t] = "write" /\ \E r \in WritableRegs : todo'[t] = <<Writing(r)>>
    BY <2>3 DEF RequestsOf, Writing
  <2>4. CASE job'[t] = "probe" /\ todo'[t] = <<Reading(ProbeBatch)>>
    BY <1>1, <2>4, FirmwareAssumption DEF RequestsOf, Reading
  <2> QED BY <1>6, <2>2, <2>3, <2>4 DEF Begins
<1>7. ASSUME Progresses(t) PROVE RequestsOf(t)'
  BY <1>7, SameRequests DEF Progresses, CanRead
<1>8. ASSUME NEW p \in Pollers, PollExtends(p), Repeats(p, "extend", ChosenExtension(firmware))
      PROVE  RequestsOf(t)'
  <2>1. CASE t = p
    <3>1. ChosenExtension(firmware) \subseteq Present[firmware]
      BY <1>1, ChosenPresent
    <3>2. extension' = ChosenExtension(firmware)
      BY <1>8 DEF PollExtends
    <3> QED BY <1>1, <1>8, <2>1, <3>1, <3>2 DEF RequestsOf, Repeats, Reading, Covered
  <2>2. CASE t # p
    BY <1>2, <1>4, <1>8, <2>2 DEF Repeats
  <2> QED BY <2>1, <2>2
<1>9. ASSUME NEW w \in Writers, NEW r \in Regs, WriteAcked(w, r), Repeats(w, "confirm", BatchOf(r))
      PROVE  RequestsOf(t)'
  <2>1. CASE t = w
    <3>1. BatchOf(r) \subseteq Present[firmware] /\ BatchOf(r) \subseteq Covered(extension')
      BY <1>1, BatchOfType, WritablePresent DEF Covered
    <3> QED BY <1>1, <1>9, <2>1, <3>1 DEF RequestsOf, Repeats, Reading
  <2>2. CASE t # w
    BY <1>2, <1>4, <1>9, <2>2 DEF Repeats
  <2> QED BY <2>1, <2>2
<1>10. CASE UNCHANGED <<job, todo, got>>
  BY <1>10, SameRequests
<1>11. CASE Kept /\ \E u \in Tasks : Ends(u) \/ Begins(u) \/ Progresses(u)
  <2>1. PICK u \in Tasks : Ends(u) \/ Begins(u) \/ Progresses(u)
    BY <1>11
  <2>2. Others(u)
    BY <2>1 DEF Ends, Begins, Progresses
  <2> QED BY <1>4, <1>5, <1>6, <1>7, <1>11, <2>1, <2>2
<1> QED BY <1>1, <1>2, <1>5, <1>8, <1>9, <1>10, <1>11, Kinds DEF StepKinds

\* What a last read returns lies within the covered registers.
LEMMA SnapshotWithin ==
  ASSUME IInv, NEW t \in Tasks, CanRead(t), job[t] \in {"poll", "extend", "confirm"},
         NEW r \in Regs, r \notin Covered(extension)
  PROVE  Snapshot(t)[r] = 0
<1>1. todo[t] \in Seq(Request) /\ todo[t] # <<>>
  BY DEF IInv, TypeOK, LockTypeOK, CanRead
<1>2. 1 \in DOMAIN todo[t] /\ Head(todo[t]) = todo[t][1]
  BY <1>1
<1>3. Head(todo[t]).regs \subseteq Covered(extension)
  BY <1>2 DEF IInv, Requests
<1> QED BY <1>3 DEF IInv, WithinCovered, Snapshot

\* Nothing is shown, read or acknowledged beyond the covered registers.
LEMMA WithinCoveredStep ==
  ASSUME IInv, TypeInv', [Next]_vars
  PROVE  WithinCovered'
<1> SUFFICES ASSUME NEW r \in Regs, r \notin Covered(extension')
             PROVE  /\ cache'[r] = 0 /\ first'[r] = 0
                    /\ \A t \in Tasks : job'[t] \in {"poll", "extend", "confirm"} => got'[t][r] = 0
  BY DEF WithinCovered, Covered
<1>1. r \notin Covered(extension) /\ TypeInv
  BY CoveredGrows DEF IInv, TypeInv
<1>2. /\ cache[r] = 0 /\ first[r] = 0
      /\ \A t \in Tasks : job[t] \in {"poll", "extend", "confirm"} => got[t][r] = 0
  BY <1>1 DEF IInv, WithinCovered
<1>3. Pollers \subseteq Tasks /\ Writers \subseteq Tasks
  BY CoordinatorAssumption
<1>4. Nothing[r] = 0
  BY DEF Nothing
<1>5. ASSUME NEW u \in Tasks, Others(u), got'[u] = Nothing
      PROVE  \A t \in Tasks : job'[t] \in {"poll", "extend", "confirm"} => got'[t][r] = 0
  BY <1>2, <1>4, <1>5 DEF Others
<1>6. ASSUME NEW u \in Tasks, Progresses(u)
      PROVE  \A t \in Tasks : job'[t] \in {"poll", "extend", "confirm"} => got'[t][r] = 0
  BY <1>1, <1>2, <1>6, SnapshotWithin DEF Progresses, Others
<1>7. CASE Kept /\ (UNCHANGED <<job, todo, got>> \/ \E u \in Tasks : Ends(u) \/ Begins(u) \/ Progresses(u))
  <2>1. cache'[r] = 0 /\ first'[r] = 0
    BY <1>2, <1>7 DEF Kept
  <2>2. \A t \in Tasks : job'[t] \in {"poll", "extend", "confirm"} => got'[t][r] = 0
    BY <1>2, <1>5, <1>6, <1>7 DEF Ends, Begins
  <2> QED BY <2>1, <2>2
<1>8. ASSUME NEW p \in Pollers, Ends(p), PollSucceeds(p) \/ ExtensionRead(p) \/ ExtensionFails(p)
      PROVE  cache'[r] = 0 /\ first'[r] = 0
  <2>1. CASE PollSucceeds(p)
    <3>1. Snapshot(p)[r] = 0
      BY <1>1, <1>3, <2>1, SnapshotWithin DEF PollSucceeds, ReadLast
    <3> QED BY <1>4, <2>1, <3>1 DEF PollSucceeds, Publish
  <2>2. CASE ExtensionRead(p)
    <3>1. Snapshot(p)[r] = 0
      BY <1>1, <1>3, <2>2, SnapshotWithin DEF ExtensionRead, ReadLast
    <3> QED BY <1>2, <1>4, <2>2, <3>1 DEF ExtensionRead, Publish, Updated
  <2>3. CASE ExtensionFails(p)
    BY <1>2, <1>4, <2>3 DEF ExtensionFails, Publish
  <2> QED BY <1>8, <2>1, <2>2, <2>3
<1>9. ASSUME NEW p \in Pollers, PollExtends(p)
      PROVE  cache'[r] = 0 /\ first'[r] = 0
  <2>1. Snapshot(p)[r] = 0
    BY <1>1, <1>3, <1>9, SnapshotWithin DEF PollExtends, ReadLast
  <2> QED BY <1>2, <1>9, <2>1 DEF PollExtends
<1>10. ASSUME NEW w \in Writers, NEW s \in Regs, WriteAcked(w, s)
       PROVE  cache'[r] = 0 /\ first'[r] = 0
  <2>1. todo[w] \in Seq(Request) /\ todo[w] # <<>> /\ Head(todo[w]).regs = {s} /\ job[w] = "write"
    <3>1. todo[w] \in Seq(Request)
      BY <1>3 DEF IInv, TypeOK, LockTypeOK
    <3>2. todo[w] # <<>> /\ Head(todo[w]) = Writing(s) /\ job[w] = "write"
      BY <1>10 DEF WriteAcked, WriteLast
    <3>3. Writing(s).regs = {s}
      BY DEF Writing
    <3> QED BY <3>1, <3>2, <3>3
  <2>2. 1 \in DOMAIN todo[w] /\ Head(todo[w]) = todo[w][1]
    BY <2>1
  <2>3. s \in WritableRegs
    BY <1>3, <2>1, <2>2 DEF IInv, Requests
  <2>4. r # s
    BY <1>1, <2>3 DEF Covered
  <2> QED BY <1>2, <1>10, <2>4 DEF IInv, TypeOK, CoordTypeOK, WriteAcked, Optimistic
<1>11. ASSUME NEW w \in Writers, Confirmed(w)
       PROVE  cache'[r] = 0 /\ first'[r] = 0
  <2>1. Snapshot(w)[r] = 0
    BY <1>1, <1>3, <1>11, SnapshotWithin DEF Confirmed, ReadLast
  <2> QED BY <1>2, <1>11, <2>1 DEF Confirmed, Updated
<1>12. CASE \E p \in Pollers : Ends(p) /\ (PollSucceeds(p) \/ ExtensionRead(p) \/ ExtensionFails(p))
  BY <1>3, <1>5, <1>8, <1>12 DEF Ends
<1>13. CASE \E p \in Pollers : PollExtends(p) /\ Repeats(p, "extend", ChosenExtension(firmware))
  BY <1>3, <1>5, <1>9, <1>13 DEF Repeats
<1>14. CASE \E w \in Writers, s \in Regs : WriteAcked(w, s) /\ Repeats(w, "confirm", BatchOf(s))
  BY <1>3, <1>5, <1>10, <1>14 DEF Repeats
<1>15. CASE \E w \in Writers : Confirmed(w) /\ Ends(w)
  BY <1>3, <1>5, <1>11, <1>15 DEF Ends
<1> QED BY <1>1, <1>7, <1>12, <1>13, <1>14, <1>15, Kinds DEF StepKinds

\* What one poll has read, or will still read.
CoversBy(t) ==
  \A r \in Covered(extension) : got[t][r] # 0 \/ \E i \in DOMAIN todo[t] : r \in todo[t][i].regs

\* A batch moves from the requests of a poll to its data.
LEMMA ProgressCovers ==
  ASSUME IInv, NEW t \in Tasks, Progresses(t), CoversBy(t), extension' = extension
  PROVE  CoversBy(t)'
<1>1. todo[t] \in Seq(Request) /\ todo[t] # <<>> /\ todo'[t] = Tail(todo[t]) /\ got'[t] = Snapshot(t)
  BY DEF IInv, TypeOK, LockTypeOK, Progresses, CanRead
<1>2. Head(todo[t]) = todo[t][1]
  BY <1>1
<1>3. \A i \in DOMAIN todo[t] : i # 1 => i - 1 \in DOMAIN todo'[t] /\ todo'[t][i - 1] = todo[t][i]
  BY <1>1
<1>4. Covered(extension) \subseteq Regs
  BY CoordinatorAssumption, WritableType DEF Covered, IInv, TypeOK, CoordTypeOK
<1>5. SUFFICES ASSUME NEW r \in Covered(extension)
               PROVE  got'[t][r] # 0 \/ \E i \in DOMAIN todo'[t] : r \in todo'[t][i].regs
  BY DEF CoversBy
<1>6. CASE got[t][r] # 0
  BY <1>1, <1>4, <1>6, SnapshotFresh
<1>7. CASE \E i \in DOMAIN todo[t] : r \in todo[t][i].regs
  <2>1. PICK i \in DOMAIN todo[t] : r \in todo[t][i].regs
    BY <1>7
  <2>2. CASE i = 1
    BY <1>1, <1>2, <1>4, <2>1, <2>2, SnapshotFresh
  <2>3. CASE i # 1
    BY <1>3, <2>1, <2>3
  <2> QED BY <2>2, <2>3
<1> QED BY <1>6, <1>7 DEF CoversBy

\* A poll has read, or has still to read, all that is covered.
LEMMA PollCoversStep ==
  ASSUME IInv, TypeInv', [Next]_vars
  PROVE  PollCovers'
<1> SUFFICES ASSUME ready', NEW t \in Tasks, job'[t] = "poll"
             PROVE  CoversBy(t)'
  BY DEF PollCovers, CoversBy
<1>1. TypeInv /\ Boot
  BY DEF IInv, TypeInv
<1>2. Pollers \subseteq Tasks /\ Writers \subseteq Tasks
  BY CoordinatorAssumption
<1>3. ASSUME ready, job[t] = "poll" PROVE CoversBy(t) /\ extension' = extension
  BY <1>3, CoveredGrows DEF IInv, PollCovers, CoversBy
<1>4. ASSUME ready, NEW u \in Tasks, u # t, Others(u) PROVE CoversBy(t)'
  BY <1>3, <1>4 DEF Others, CoversBy
<1>5. CASE Kept /\ UNCHANGED <<job, todo, got>>
  BY <1>3, <1>5 DEF Kept, CoversBy
<1>6. ASSUME Kept, NEW u \in Tasks, Ends(u) \/ Begins(u) \/ Progresses(u) PROVE CoversBy(t)'
  <2>1. ready /\ extension' = extension
    BY <1>6 DEF Kept
  <2>2. CASE u # t
    BY <1>4, <1>6, <2>1, <2>2 DEF Ends, Begins, Progresses
  <2>3. CASE u = t /\ Begins(t)
    <3>1. todo'[t] = ReadAll(extension)
      BY <2>3 DEF Begins
    <3>2. \A r \in Covered(extension) :
            \E i \in DOMAIN ReadAll(extension) : r \in ReadAll(extension)[i].regs
      BY <1>1, ReadAllCovers DEF TypeInv, TypeOK, CoordTypeOK
    <3> QED BY <2>1, <3>1, <3>2 DEF CoversBy
  <2>4. CASE u = t /\ Progresses(t)
    BY <1>3, <2>1, <2>4, ProgressCovers DEF Progresses
  <2> QED BY <1>6, <2>2, <2>3, <2>4 DEF Ends
<1>7. ASSUME NEW p \in Pollers, Ends(p), PollSucceeds(p) \/ ExtensionRead(p) \/ ExtensionFails(p)
      PROVE  CoversBy(t)'
  <2>1. t # p /\ job[t] = "poll" /\ Others(p) /\ job[p] # "none"
    BY <1>2, <1>7 DEF Ends, Others, PollSucceeds, ExtensionRead, ExtensionFails
  <2>2. ready
    BY <1>1, <1>2, <2>1 DEF Boot
  <2> QED BY <1>2, <1>4, <2>1, <2>2
<1>8. ASSUME NEW p \in Pollers, PollExtends(p) PROVE FALSE
  BY <1>1, <1>8 DEF Boot, PollExtends
<1>9. ASSUME NEW w \in Writers, NEW r \in Regs, WriteAcked(w, r), Repeats(w, "confirm", BatchOf(r))
      PROVE  CoversBy(t)'
  BY <1>2, <1>4, <1>9 DEF Repeats, WriteAcked
<1>10. ASSUME NEW w \in Writers, Confirmed(w), Ends(w) PROVE CoversBy(t)'
  BY <1>2, <1>4, <1>10 DEF Ends, Confirmed
<1> QED BY <1>1, <1>5, <1>6, <1>7, <1>8, <1>9, <1>10, Kinds DEF StepKinds

-----------------------------------------------------------------------------
(* The theorems.                                                           *)

\* The inductive invariant holds initially.
LEMMA InvInit == Init => IInv
<1> SUFFICES ASSUME Init PROVE IInv
  OBVIOUS
<1>1. TypeInv
  BY TypeInit
<1>2. \A r \in Regs : Nothing[r] = 0
  BY DEF Nothing
<1>3. Ordered /\ GotFresh
  BY <1>1, <1>2 DEF Init, ModbusInit, Ordered, GotFresh
<1>4. Boot
  BY DEF Init, ModbusInit, Boot
<1>5. Requests
  BY DEF Init, ModbusInit, Requests
<1>6. WithinCovered /\ PollCovers
  BY <1>2 DEF Init, ModbusInit, WithinCovered, PollCovers
<1> QED BY <1>1, <1>3, <1>4, <1>5, <1>6 DEF IInv, TypeInv

\* Every step keeps the inductive invariant.
LEMMA InvStep == IInv /\ [Next]_vars => IInv'
<1> SUFFICES ASSUME IInv, [Next]_vars PROVE IInv'
  OBVIOUS
<1>1. TypeInv'
  BY TypeStep DEF IInv, TypeInv
<1> QED
  BY <1>1, OrderedStep, GotFreshStep, BootStep, RequestsStep, WithinCoveredStep, PollCoversStep
  DEF IInv, TypeInv

\* The inductive invariant holds in every reachable state.
THEOREM Invariant == Spec => []IInv
BY InvInit, InvStep, PTL DEF Spec

\* What the user was told is set is never hidden by an older value, however
\* many polls, writes and confirmations overlap.
THEOREM AckedIsShownHolds == Spec => []AckedIsShown
<1>1. IInv => AckedIsShown
  BY DEF IInv, Ordered, AckedIsShown
<1> QED BY <1>1, Invariant, PTL

\* The values shown only move forward.
THEOREM CacheNeverRegressesHolds == Spec => CacheNeverRegresses
<1>1. IInv /\ [Next]_vars => [\A r \in Regs : cache'[r] >= cache[r]]_vars
  <2> SUFFICES ASSUME IInv, [Next]_vars PROVE \A r \in Regs : cache'[r] >= cache[r]
    OBVIOUS
  <2>1. TypeInv /\ TypeInv'
    BY TypeStep DEF IInv, TypeInv
  <2>2. \A r \in Regs : cache[r] <= cache'[r] /\ cache[r] \in Nat /\ cache'[r] \in Nat
    BY <2>1, ValuesAdvance DEF TypeInv, TypeOK, CoordTypeOK
  <2> QED BY <2>2
<1> QED BY <1>1, Invariant, PTL DEF Spec, CacheNeverRegresses

\* No operation asks the firmware for a register it does not have, unless an
\* older firmware is installed while the entry stays loaded.
THEOREM OnlyPresentAreReadHolds == ~ Downgrades /\ Spec => []OnlyPresentAreRead
<1>1. ~ Downgrades /\ IInv => OnlyPresentAreRead
  BY DEF IInv, Requests, OnlyPresentAreRead
<1>2. ~ Downgrades /\ [Next]_vars => (~ Downgrades)'
  OBVIOUS
<1> QED BY <1>1, <1>2, Invariant, PTL DEF Spec

\* The coordinator implements the abstract cache: a step that changes the
\* device, acknowledges a write or publishes values is a step of it, and every
\* other step leaves it alone.
THEOREM Refinement == Spec => CoherentSpec
<1>1. Init => Coherent!Init
  BY DEF Init, ModbusInit, Coherent!Init, Nothing
<1>2. IInv /\ [Next]_vars => [Coherent!Next]_(Coherent!cacheVars)
  <2> SUFFICES ASSUME IInv, [Next]_vars
               PROVE  Coherent!Next \/ UNCHANGED <<device, acked, cache>>
    BY DEF Coherent!cacheVars
  <2>1. TypeInv /\ TypeInv'
    BY TypeStep DEF IInv, TypeInv
  <2>2. /\ cache \in [Regs -> Nat] /\ cache' \in [Regs -> Nat]
        /\ device \in [Regs -> Nat] /\ acked \in [Regs -> Nat] /\ now \in Nat
        /\ \A r \in Regs : device[r] <= now
    BY <2>1 DEF IInv, Ordered, TypeInv, TypeOK, DeviceTypeOK, CoordTypeOK
  <2>3. \A r \in Regs : cache[r] <= cache'[r] /\ cache'[r] <= device'[r]
    BY <2>1, ValuesAdvance
  <2>4. CASE UNCHANGED <<device, acked>>
    <3>1. Coherent!CatchUp
      BY <2>2, <2>3, <2>4 DEF Coherent!CatchUp
    <3> QED BY <3>1 DEF Coherent!Next
  <2>5. CASE UNCHANGED <<acked, cache>> /\ \E r \in Regs : Change(r)
    <3>1. PICK r \in Regs : Change(r)
      BY <2>5
    <3>2. Coherent!Drift(r)
      <4>1. device' = [device EXCEPT ![r] = now + 1] /\ device'[r] = now + 1
        BY <2>2, <3>1 DEF Change
      <4>2. device'[r] > device[r]
        BY <2>2, <4>1
      <4> QED BY <2>5, <4>1, <4>2 DEF Coherent!Drift
    <3> QED BY <3>2 DEF Coherent!Next
  <2>6. ASSUME NEW w \in Writers, NEW r \in Regs, WriteAcked(w, r) PROVE Coherent!Write(r)
    BY <2>2, <2>6 DEF WriteAcked, WriteLast, Change, Optimistic, Coherent!Write
  <2>7. CASE \E w \in Writers, r \in Regs : WriteAcked(w, r)
    BY <2>6, <2>7 DEF Coherent!Next
  <2>8. ASSUME NEW q \in Pollers, ExtensionFails(q) PROVE device' = device
    <3>1. q \in Tasks
      BY CoordinatorAssumption
    <3>2. pc[q] = "open" /\ todo[q] # <<>> => Head(todo[q]).op = "read"
      <4>1. todo[q] # <<>> => 1 \in DOMAIN todo[q] /\ Head(todo[q]) = todo[q][1]
        BY <2>1, <3>1 DEF TypeInv, TypeOK, LockTypeOK
      <4> QED BY <2>8, <3>1, <4>1 DEF IInv, Requests, ExtensionFails
    <3>3. \A r \in Regs : Writing(r).op = "write"
      BY DEF Writing
    <3> QED BY <2>8, <3>2, <3>3 DEF ExtensionFails, Fails, PerhapsApplied
  <2>9. CASE ~ \E w \in Writers, r \in Regs : WriteAcked(w, r)
    <3>1. acked' = acked /\ (device' = device \/ cache' = cache)
      BY <2>1, <2>8, <2>9, Kinds DEF StepKinds, Kept, PollSucceeds, ExtensionRead, ExtensionFails,
           Publish, PollExtends, Confirmed, ReadLast, deviceVars
    <3>2. device' = device \/ \E r \in Regs : Change(r)
      BY <2>1, DeviceStep
    <3> QED BY <2>4, <2>5, <3>1, <3>2
  <2> QED BY <2>7, <2>9
<1> QED BY <1>1, <1>2, Invariant, PTL DEF Spec, CoherentSpec, Coherent!Spec
=============================================================================
