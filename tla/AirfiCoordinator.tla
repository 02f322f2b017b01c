-------------------------- MODULE AirfiCoordinator --------------------------
(***************************************************************************)
(* The coordinator of one loaded config entry (coordinator.py) on top of   *)
(* its Modbus client: polls that replace the cached data, writes that      *)
(* update it optimistically and confirm it, and the probe of the options   *)
(* flow, all through one lock.                                             *)
(*                                                                         *)
(* self.data is the function cache.  A confirmation read updates the dict  *)
(* it fetched from self.data before its await; "detached" are the writers  *)
(* whose dict a poll has replaced since.                                   *)
(***************************************************************************)
EXTENDS AirfiModbus

CONSTANTS
  Pollers,          \* tasks that refresh: the timer's, homeassistant.update_entity's
  Timer,            \* the poller the update interval starts; the setup's before there is data
  Writers,          \* service calls that write
  Probers,          \* options flows that probe a Modbus id
  InputBatches,     \* INPUT_REGISTER_BATCHES, a sequence of sets of registers
  HoldingBatches,   \* HOLDING_REGISTER_BATCHES
  ExtensionBatches, \* INPUT_EXTENSION_BATCHES: [min |-> version, regs |-> batch]
  ProbeBatch        \* the input register the probe reads

ASSUME CoordinatorAssumption ==
  /\ Tasks = Pollers \cup Writers \cup Probers
  /\ Pollers \cap Writers = {} /\ Pollers \cap Probers = {} /\ Writers \cap Probers = {}
  /\ Timer \in Pollers
  /\ InputBatches \in Seq(SUBSET Regs) /\ InputBatches # <<>>
  /\ HoldingBatches \in Seq(SUBSET Regs) /\ HoldingBatches # <<>>
  /\ ExtensionBatches \in Seq([min : Nat, regs : SUBSET Regs])
  /\ ProbeBatch \subseteq Regs

\* Every firmware serves the ordinary batches, and an extension from its
\* register version on; a newer version serves what an older one does.
ASSUME FirmwareAssumption ==
  \A v \in Versions :
    /\ \A w \in Versions : v <= w => Present[v] \subseteq Present[w]
    /\ \A i \in DOMAIN InputBatches : InputBatches[i] \subseteq Present[v]
    /\ \A i \in DOMAIN HoldingBatches : HoldingBatches[i] \subseteq Present[v]
    /\ \A i \in DOMAIN ExtensionBatches :
         v >= ExtensionBatches[i].min => ExtensionBatches[i].regs \subseteq Present[v]
    /\ ProbeBatch \subseteq Present[v]

VARIABLES
  job,        \* what each task is doing: "none", "poll", "extend", "write", "confirm", "probe"
  cache,      \* self.data: the stamp shown for each register, 0 where none
  ready,      \* self.data is not None: the first refresh has succeeded
  available,  \* last_update_success
  checked,    \* _version_checked
  extension,  \* _input_extension, {} for None
  first,      \* what the first read_all returned, while its extension is read
  detached,   \* writers that will confirm into a dict self.data no longer holds
  acked       \* stamp of the latest write of each register reported as done

coordVars == <<job, cache, ready, available, checked, extension, first, detached, acked>>
vars == <<modbusVars, coordVars>>

CoordTypeOK ==
  /\ job \in [Tasks -> {"none", "poll", "extend", "write", "confirm", "probe"}]
  /\ cache \in [Regs -> Nat]
  /\ ready \in BOOLEAN /\ available \in BOOLEAN /\ checked \in BOOLEAN
  /\ extension \in SUBSET Regs
  /\ first \in [Regs -> Nat]
  /\ detached \in SUBSET Writers
  /\ acked \in [Regs -> Nat]

\* Every variable keeps its type.
TypeOK == DeviceTypeOK /\ LockTypeOK /\ CoordTypeOK

Init ==
  /\ ModbusInit
  /\ job = [t \in Tasks |-> "none"]
  /\ cache = Nothing
  /\ ready = FALSE
  /\ available = TRUE
  /\ checked = FALSE
  /\ extension = {}
  /\ first = Nothing
  /\ detached = {}
  /\ acked = Nothing

-----------------------------------------------------------------------------
(* Pure parts.                                                             *)

\* dict.update: the values of "new" over those of "old".
Updated(old, new) == [r \in Regs |-> IF new[r] # 0 THEN new[r] ELSE old[r]]

Reads(batches) == [i \in DOMAIN batches |-> Reading(batches[i])]

\* read_all: the input batches, the extension if there is one, the holding batches.
ReadAll(ext) ==
  Reads(InputBatches)
    \o (IF ext = {} THEN <<>> ELSE <<Reading(ext)>>)
    \o Reads(HoldingBatches)

\* Mutant: the largest extension whatever the version.
MutExtensionAlways(version) == ExtensionBatches[1].regs

\* Mutant: the table's row is kept in place of its batch.
MutExtensionRow(version) == {ExtensionBatches[1]}

\* Mutant: the loop does not stop at the first match.
MutExtensionLast(version) ==
  LET reached == {i \in DOMAIN ExtensionBatches : version >= ExtensionBatches[i].min}
  IN  UNION {ExtensionBatches[i].regs : i \in {i \in reached : \A j \in reached : i >= j}}

\* The first batch in INPUT_EXTENSION_BATCHES whose version is reached, {} if none.
ChosenExtension(version) ==
  LET reached == {i \in DOMAIN ExtensionBatches : version >= ExtensionBatches[i].min}
  IN  UNION {ExtensionBatches[i].regs : i \in {i \in reached : \A j \in reached : i <= j}}

WritableRegs == UNION {HoldingBatches[i] : i \in DOMAIN HoldingBatches}

\* The holding batch that contains register r.
BatchOf(r) ==
  UNION {HoldingBatches[i] : i \in {i \in DOMAIN HoldingBatches :
    r \in HoldingBatches[i] /\ \A j \in 1..(i - 1) : r \notin HoldingBatches[j]}}

Start(t, task) == job' = [job EXCEPT ![t] = task]
Done(t) == job' = [job EXCEPT ![t] = "none"]

-----------------------------------------------------------------------------
(* Polls: _async_update_data and what the update coordinator does with its *)
(* result.  Only the setup's first refresh runs before there is data.      *)

PollBegins(p) ==
  /\ job[p] = "none"
  /\ ready \/ p = Timer
  /\ Start(p, "poll")
  /\ Acquire(p, ReadAll(extension))
  /\ UNCHANGED <<deviceVars, cache, ready, available, checked, extension, first, detached, acked>>

\* The assignment self.data = <what was read>, the lock just released.
Publish(p, values) ==
  /\ cache' = values
  /\ ready' = TRUE
  /\ available' = TRUE
  /\ first' = Nothing
  /\ detached' = detached \cup {w \in Writers : job[w] = "confirm"}
  /\ Done(p)
  /\ Release(p)
  /\ UNCHANGED acked

PollSucceeds(p) ==
  /\ job[p] = "poll"
  /\ checked \/ ChosenExtension(firmware) = {}
  /\ ReadLast(p)
  /\ checked' = TRUE
  /\ Publish(p, Snapshot(p))
  /\ UNCHANGED extension

\* The first read_all: the extension is chosen and read at once.
PollExtends(p) ==
  /\ job[p] = "poll"
  /\ ~ checked
  /\ ChosenExtension(firmware) # {}
  /\ ReadLast(p)
  /\ checked' = TRUE
  /\ extension' = ChosenExtension(firmware)
  /\ first' = Snapshot(p)
  /\ Start(p, "extend")
  /\ AcquireAgain(p, <<Reading(ChosenExtension(firmware))>>)
  /\ UNCHANGED <<cache, ready, available, detached, acked>>

ExtensionRead(p) ==
  /\ job[p] = "extend"
  /\ ReadLast(p)
  /\ Publish(p, Updated(first, Snapshot(p)))
  /\ UNCHANGED <<checked, extension>>

\* A failed extension read is only logged.
ExtensionFails(p) ==
  /\ job[p] = "extend"
  /\ Fails(p)
  /\ Publish(p, first)
  /\ UNCHANGED <<checked, extension>>

\* UpdateFailed: the entities become unavailable, the data stays.  Before there
\* is data the setup fails instead, and is retried with a coordinator in the
\* same, still initial, state.
PollFails(p) ==
  /\ job[p] = "poll"
  /\ Fails(p)
  /\ available' = FALSE
  /\ Done(p)
  /\ Release(p)
  /\ UNCHANGED <<cache, ready, checked, extension, first, detached, acked>>

-----------------------------------------------------------------------------
(* Writes: async_write_value, called by the services of available entities.*)
(* Entities exist only once there is data, so its "data is None" branch    *)
(* has no step here.                                                       *)

WriteBegins(w, r) ==
  /\ job[w] = "none"
  /\ ready /\ available
  /\ StampsLeft
  /\ Start(w, "write")
  /\ Acquire(w, <<Writing(r)>>)
  /\ UNCHANGED <<deviceVars, cache, ready, available, checked, extension, first, detached, acked>>

\* Mutant: the confirmation read alone updates the cache.
MutNotOptimistic(r) == UNCHANGED cache

\* self.data[REG_HOLDING][address] = raw_value
Optimistic(r) == cache' = [cache EXCEPT ![r] = now + 1]

WriteAcked(w, r) ==
  /\ job[w] = "write"
  /\ WriteLast(w, r)
  /\ acked' = [acked EXCEPT ![r] = now + 1]
  /\ Optimistic(r)
  /\ Start(w, "confirm")
  /\ AcquireAgain(w, <<Reading(BatchOf(r))>>)
  /\ UNCHANGED <<ready, available, checked, extension, first, detached>>

\* HomeAssistantError for the caller; the cache is left alone.
WriteFails(w) ==
  /\ job[w] = "write"
  /\ Fails(w)
  /\ Done(w)
  /\ Release(w)
  /\ UNCHANGED <<cache, ready, available, checked, extension, first, detached, acked>>

Confirmed(w) ==
  /\ job[w] = "confirm"
  /\ ReadLast(w)
  /\ cache' = IF w \in detached THEN cache ELSE Updated(cache, Snapshot(w))
  /\ detached' = detached \ {w}
  /\ Done(w)
  /\ Release(w)
  /\ UNCHANGED <<ready, available, checked, extension, first, acked>>

\* The optimistic value stays until the next poll.
ConfirmFails(w) ==
  /\ job[w] = "confirm"
  /\ Fails(w)
  /\ detached' = detached \ {w}
  /\ Done(w)
  /\ Release(w)
  /\ UNCHANGED <<cache, ready, available, checked, extension, first, acked>>

\* The service call is cancelled (a script that is stopped or restarted).
WriteCancelled(w) ==
  /\ job[w] # "none"
  /\ CancelWaiting(w) \/ CancelInside(w)
  /\ detached' = detached \ {w}
  /\ Done(w)
  /\ UNCHANGED <<cache, ready, available, checked, extension, first, acked>>

-----------------------------------------------------------------------------
(* The options flow of a loaded entry: read_input_register with another id. *)

ProbeBegins(o) ==
  /\ job[o] = "none"
  /\ ready
  /\ Start(o, "probe")
  /\ Acquire(o, <<Reading(ProbeBatch)>>)
  /\ UNCHANGED <<deviceVars, cache, ready, available, checked, extension, first, detached, acked>>

\* Answered, or an error the flow reports in its form.
ProbeEnds(o) ==
  /\ job[o] = "probe"
  /\ ReadLast(o) \/ Fails(o)
  /\ Done(o)
  /\ Release(o)
  /\ UNCHANGED <<cache, ready, available, checked, extension, first, detached, acked>>

-----------------------------------------------------------------------------

Transfer(t) == (Connect(t) \/ ReadNext(t)) /\ UNCHANGED coordVars

PollStep(p) ==
  PollSucceeds(p) \/ PollExtends(p) \/ ExtensionRead(p) \/ ExtensionFails(p) \/ PollFails(p)

WriteStep(w) ==
  (\E r \in Regs : WriteAcked(w, r)) \/ WriteFails(w) \/ Confirmed(w) \/ ConfirmFails(w)

Next ==
  \/ \E t \in Tasks : Transfer(t)
  \/ \E p \in Pollers : PollBegins(p) \/ PollStep(p)
  \/ \E w \in Writers : (\E r \in WritableRegs : WriteBegins(w, r)) \/ WriteStep(w) \/ WriteCancelled(w)
  \/ \E o \in Probers : ProbeBegins(o) \/ ProbeEnds(o)
  \/ \E r \in Regs : DeviceChanges(r) /\ UNCHANGED coordVars
  \/ \E v \in Versions : FirmwareChanges(v) /\ UNCHANGED coordVars

\* The update interval starts a poll again and again.  A transfer ends: the
\* device answers or pymodbus times out after MODBUS_TIMEOUT.
Fairness ==
  /\ WF_vars(PollBegins(Timer))
  /\ \A p \in Pollers : WF_vars(PollStep(p))
  /\ \A w \in Writers : WF_vars(WriteStep(w))
  /\ \A o \in Probers : WF_vars(ProbeEnds(o))
  /\ \A t \in Tasks : WF_vars(Transfer(t))

Spec == Init /\ [][Next]_vars
FairSpec == Spec /\ Fairness

-----------------------------------------------------------------------------
(* Safety.                                                                 *)

\* A value the user was told is set is never hidden again by an older one,
\* and nothing is shown that the device never had: no poll that read a
\* register before a write may publish it after the write's acknowledgement.
AckedIsShown ==
  \A r \in Regs : acked[r] <= cache[r] /\ cache[r] <= device[r]

\* No step shows an older value than the step before, or takes a value away:
\* polls, optimistic updates and confirmations arrive in the order in which
\* the device was read.
CacheNeverRegresses == [][\A r \in Regs : cache'[r] >= cache[r]]_vars

\* "Registers beyond 49 exist only on newer register versions; reading them
\* on older firmware would fail the whole batch": no operation asks the device
\* for a register it does not have, also after an update of its firmware.
OnlyPresentAreRead ==
  \A t \in Tasks : \A i \in DOMAIN todo[t] :
    todo[t][i].op = "read" => todo[t][i].regs \subseteq Present[firmware]

\* The abstract cache the entities see.
Coherent == INSTANCE CoherentCache WITH
  Regs <- Regs, device <- device, acked <- acked, cache <- cache
CoherentSpec == Coherent!Spec

\* "Write one holding register and confirm it from the device": after a
\* confirmation read that succeeds, self.data holds what it read, or newer.
ConfirmedIsCached ==
  [][\A w \in Writers : Confirmed(w) => \A r \in Regs : cache'[r] >= Snapshot(w)[r]]_vars

-----------------------------------------------------------------------------
(* Liveness, once failures and changes of the device cease.                *)

\* Every operation ends: no error, cancellation or handover of the lock
\* leaves a task waiting for ever.
OperationsEnd == \A t \in Tasks : (job[t] # "none") ~> (job[t] = "none")

\* "Let the next scheduled poll reconcile": whatever write, lost answer or
\* failed confirmation came before, in the end the entities are available and
\* every register the firmware has is shown as it is.  Only one that came with
\* a firmware update, after the extension was chosen, may be missing.
Reconciles ==
  <>[](available /\ \A r \in Present[firmware] :
         \/ cache[r] = device[r]
         \/ updates > 0 /\ r \notin extension \cup WritableRegs
              /\ \A i \in DOMAIN InputBatches : r \notin InputBatches[i])
=============================================================================
