---------------------------- MODULE AirfiModbus ----------------------------
(***************************************************************************)
(* The Modbus client of one Airfi device (modbus.py).  Every operation     *)
(* takes the client's asyncio.Lock, connects, performs its requests one    *)
(* after the other, closes the connection and releases the lock.  A step   *)
(* of this module is what one task does between two awaits.                *)
(*                                                                         *)
(* A register's content is abstracted to a stamp: the n-th change of the   *)
(* device since the start.  Larger stamps are newer, which is all the      *)
(* properties compare.  Stamp 0 stands for "no value read".                *)
(***************************************************************************)
EXTENDS Naturals, Sequences, FiniteSets

CONSTANTS
  Tasks,      \* the asyncio tasks that use this client
  NoTask,     \* nobody holds the lock
  Regs,       \* registers, input and holding
  Versions,   \* register versions a device may report (input register 3)
  Present,    \* Present[v]: the registers firmware of version v answers for
  MaxStamp,   \* bound: changes of the device, the initial content included
  MaxFaults,  \* bound: operations that fail for a reason outside the program
  MaxUpdates, \* bound: firmware updates
  Downgrades  \* whether an update may also install an older version

ASSUME ModbusAssumption ==
  /\ NoTask \notin Tasks
  /\ Present \in [Versions -> SUBSET Regs]
  /\ Versions \subseteq Nat
  /\ MaxStamp \in Nat /\ MaxFaults \in Nat /\ MaxUpdates \in Nat
  /\ Downgrades \in BOOLEAN

VARIABLES
  device,     \* stamp of every register's content in the device
  now,        \* the latest stamp given out
  firmware,   \* the register version the device reports
  updates,    \* firmware updates so far
  faults,     \* failures so far
  holder,     \* the task that holds _lock, or NoTask
  waiters,    \* the tasks that wait for _lock, first come first served
  pc,         \* where each task stands in its operation
  todo,       \* the requests each task has still to perform
  got         \* what each task's operation has read, 0 where nothing

lockVars   == <<holder, waiters, pc, todo, got>>
deviceVars == <<device, now, firmware, updates, faults>>
modbusVars == <<lockVars, deviceVars>>

Request == [op : {"read", "write"}, regs : SUBSET Regs]
Reading(batch) == [op |-> "read", regs |-> batch]
Writing(r)     == [op |-> "write", regs |-> {r}]

Nothing == [r \in Regs |-> 0]

DeviceTypeOK ==
  /\ device \in [Regs -> Nat]
  /\ now \in Nat
  /\ firmware \in Versions
  /\ updates \in Nat
  /\ faults \in Nat

LockTypeOK ==
  /\ holder \in Tasks \cup {NoTask}
  /\ waiters \in Seq(Tasks)
  /\ pc \in [Tasks -> {"idle", "waiting", "connecting", "open"}]
  /\ todo \in [Tasks -> Seq(Request)]
  /\ got \in [Tasks -> [Regs -> Nat]]

ModbusInit ==
  /\ device = [r \in Regs |-> 1]
  /\ now = 1
  /\ firmware \in Versions
  /\ updates = 0
  /\ faults = 0
  /\ holder = NoTask
  /\ waiters = <<>>
  /\ pc = [t \in Tasks |-> "idle"]
  /\ todo = [t \in Tasks |-> <<>>]
  /\ got = [t \in Tasks |-> Nothing]

-----------------------------------------------------------------------------
(* The device.                                                             *)

Change(r) ==
  /\ now' = now + 1
  /\ device' = [device EXCEPT ![r] = now + 1]
  /\ UNCHANGED <<firmware, updates>>

\* Writers in flight will need a stamp each: nothing else may take the last.
StampsLeft ==
  now + Cardinality({t \in Tasks : \E i \in DOMAIN todo[t] :
                        todo[t][i].op = "write"}) < MaxStamp

\* A measurement changes, or somebody uses the panel of the unit.
DeviceChanges(r) ==
  /\ StampsLeft
  /\ Change(r)
  /\ UNCHANGED <<faults, lockVars>>

\* The firmware of the unit is updated while the integration runs.  The unit
\* restarts for it: no connection lives through an update.
FirmwareChanges(v) ==
  /\ updates < MaxUpdates
  /\ \A t \in Tasks : pc[t] # "open"
  /\ updates' = updates + 1
  /\ v # firmware
  /\ Downgrades \/ v > firmware
  /\ firmware' = v
  /\ UNCHANGED <<device, now, faults, lockVars>>

-----------------------------------------------------------------------------
(* The lock: "async with self._lock" enters with Acquire and leaves with   *)
(* Release.  AcquireAgain is a task that leaves one operation and enters   *)
(* its next without an await in between; it goes behind those who wait.    *)

Longest == Head(waiters)   \* the task that has waited longest

\* Mutant: the lock is not taken.
MutAcquireNoLock(t, requests) ==
  /\ pc[t] = "idle"
  /\ todo' = [todo EXCEPT ![t] = requests]
  /\ holder' = t
  /\ pc' = [pc EXCEPT ![t] = "connecting"]
  /\ UNCHANGED <<waiters, got>>

Acquire(t, requests) ==
  /\ pc[t] = "idle"
  /\ todo' = [todo EXCEPT ![t] = requests]
  /\ IF holder = NoTask
       THEN /\ holder' = t
            /\ pc' = [pc EXCEPT ![t] = "connecting"]
            /\ UNCHANGED waiters
       ELSE /\ waiters' = Append(waiters, t)
            /\ pc' = [pc EXCEPT ![t] = "waiting"]
            /\ UNCHANGED holder
  /\ UNCHANGED got

\* Mutant: the lock is released without waking who waits.
MutReleaseNoWake(t) ==
  /\ holder' = NoTask
  /\ pc' = [pc EXCEPT ![t] = "idle"]
  /\ todo' = [todo EXCEPT ![t] = <<>>]
  /\ got' = [got EXCEPT ![t] = Nothing]
  /\ UNCHANGED waiters

Release(t) ==
  /\ IF waiters = <<>>
       THEN /\ holder' = NoTask
            /\ pc' = [pc EXCEPT ![t] = "idle"]
            /\ UNCHANGED waiters
       ELSE /\ holder' = Longest
            /\ waiters' = Tail(waiters)
            /\ pc' = [pc EXCEPT ![t] = "idle", ![Longest] = "connecting"]
  /\ todo' = [todo EXCEPT ![t] = <<>>]
  /\ got' = [got EXCEPT ![t] = Nothing]

AcquireAgain(t, requests) ==
  /\ IF waiters = <<>>
       THEN /\ pc' = [pc EXCEPT ![t] = "connecting"]
            /\ UNCHANGED <<holder, waiters>>
       ELSE /\ holder' = Longest
            /\ waiters' = Append(Tail(waiters), t)
            /\ pc' = [pc EXCEPT ![t] = "waiting", ![Longest] = "connecting"]
  /\ todo' = [todo EXCEPT ![t] = requests]
  /\ got' = [got EXCEPT ![t] = Nothing]

-----------------------------------------------------------------------------
(* One operation of the lock's holder.                                     *)

\* _connect succeeds.
Connect(t) ==
  /\ pc[t] = "connecting"
  /\ pc' = [pc EXCEPT ![t] = "open"]
  /\ UNCHANGED <<deviceVars, holder, waiters, todo, got>>

\* The request at the head of todo is a read the device can answer.
CanRead(t) ==
  /\ pc[t] = "open"
  /\ todo[t] # <<>>
  /\ Head(todo[t]).op = "read"
  /\ Head(todo[t]).regs \subseteq Present[firmware]

\* _read_batch: what the operation has read, this batch included.
Snapshot(t) ==
  [r \in Regs |-> IF r \in Head(todo[t]).regs THEN device[r] ELSE got[t][r]]

\* A batch is read and more requests follow.
ReadNext(t) ==
  /\ CanRead(t)
  /\ Len(todo[t]) > 1
  /\ got' = [got EXCEPT ![t] = Snapshot(t)]
  /\ todo' = [todo EXCEPT ![t] = Tail(@)]
  /\ UNCHANGED <<deviceVars, holder, waiters, pc>>

\* The last batch is read: the operation returns Snapshot(t).  What the
\* caller does then is conjoined to this.
ReadLast(t) ==
  /\ CanRead(t)
  /\ Len(todo[t]) = 1
  /\ UNCHANGED deviceVars

\* The device acknowledges the write of register r.
WriteLast(t, r) ==
  /\ pc[t] = "open"
  /\ todo[t] # <<>>
  /\ Head(todo[t]) = Writing(r)
  /\ Change(r)
  /\ UNCHANGED faults

\* A write whose answer the task never sees may have reached the device.
PerhapsApplied(t) ==
  \/ UNCHANGED <<device, now, firmware, updates>>
  \/ \E r \in Regs : /\ pc[t] = "open"
                     /\ todo[t] # <<>>
                     /\ Head(todo[t]) = Writing(r)
                     /\ Change(r)

\* The device has no such register: it answers every such read with an error.
MustFail(t) ==
  /\ pc[t] = "open"
  /\ todo[t] # <<>>
  /\ Head(todo[t]).op = "read"
  /\ ~ Head(todo[t]).regs \subseteq Present[firmware]

\* The operation ends in AirfiConnectionError (connecting) or AirfiModbusError
\* (open): refused or timed out, a lost answer, an error answer.
Fails(t) ==
  /\ pc[t] \in {"connecting", "open"}
  /\ IF MustFail(t)
       THEN UNCHANGED faults
       ELSE faults < MaxFaults /\ faults' = faults + 1
  /\ PerhapsApplied(t)

\* The task is cancelled while it waits: asyncio.Lock forgets it.
CancelWaiting(t) ==
  /\ pc[t] = "waiting"
  /\ \E i \in DOMAIN waiters :
       /\ waiters[i] = t
       /\ waiters' = SubSeq(waiters, 1, i - 1) \o SubSeq(waiters, i + 1, Len(waiters))
  /\ pc' = [pc EXCEPT ![t] = "idle"]
  /\ todo' = [todo EXCEPT ![t] = <<>>]
  /\ UNCHANGED <<deviceVars, holder, got>>

\* The task is cancelled inside its operation: the "finally" closes and the
\* lock is released.
CancelInside(t) ==
  /\ pc[t] \in {"connecting", "open"}
  /\ PerhapsApplied(t)
  /\ UNCHANGED faults
  /\ Release(t)

-----------------------------------------------------------------------------
(* What the client promises to whoever uses it.                            *)

\* The lock is never idle while somebody waits, and its queue holds exactly
\* the tasks that wait, each once: a wakeup lost on an error or cancellation
\* path would block every later operation on the device for good.
LockConsistent ==
  /\ waiters # <<>> => holder # NoTask
  /\ \A t \in Tasks : (pc[t] = "waiting") <=> (\E i \in DOMAIN waiters : waiters[i] = t)
  /\ \A i, j \in DOMAIN waiters : waiters[i] = waiters[j] => i = j

\* The device allows one Modbus client at a time: at most one task of the
\* client has the connection open or is opening it.
OneConnection ==
  \A t, u \in Tasks :
    (pc[t] \in {"connecting", "open"} /\ pc[u] \in {"connecting", "open"}) => t = u
=============================================================================
