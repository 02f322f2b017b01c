# A TLA+ model of the Airfi integration

This directory models the Home Assistant integration in
`src/custom_components/airfi/`: what its tasks may do to each other while they
poll, write, rediscover and configure units that serve one Modbus client at a
time and move around the network. TLC checks small instances; TLAPS proves the
main safety properties for every value of the constants.

The modules were translated from the code. Two things they rely on are not in
`src/`: Home Assistant's rules for config entries, flows and coordinators, and
the unit itself. Both are modelled from how the code uses them and are marked
external in `PROJECT.json`.

## The system

| component | source | state | operations | modelled in |
|---|---|---|---|---|
| Modbus client | `modbus.py` | lock and its queue, connection | `read_all`, `read_*_batch`, `read_input_register`, `write_register` | `AirfiModbus` |
| Coordinator | `coordinator.py` | `self.data`, availability, `_version_checked`, `_input_extension` | refresh, `async_write_value` | `AirfiCoordinator`, over `CoherentCache` |
| Clients of one unit | `__init__.py`, `coordinator.py`, `modbus.py` | a client and its lock for every setup and unloaded probe | set up, reload, poll, requested refresh, write, probe | `AirfiIntegration`, on `AirfiServer` |
| Options flow | `config_flow.py` | options of an entry | probe an id, save | `AirfiIntegration`; the probe's place in the queue in `AirfiCoordinator` |
| Announcement listener | `__init__.py`, `discovery.py` | `hass.data` slot and retry timer | set up, unload, remove an entry; start, stop, retry | `AirfiDiscovery` |
| Announcement handling | `__init__.py` | config entries | heal a host, upgrade a manual entry | `AirfiEntries`, over `EntryIdentity` |
| Config flow | `config_flow.py` | found devices, unique id of the flow | discover, select, manual | `AirfiEntries` |
| Register tables, conversions, entities | `registers.py`, `const.py`, `number.py`, ... | none of their own | what is written, what is shown | `AirfiTables`, `AirfiRegisters` |
| Simulator | `tools/simulator.py` | register store, connection | serve, announce | `AirfiSimulator`, on `AirfiServer` and `AirfiTables` |

How they interact: every entity service call and every poll goes through the
coordinator, and through it the client's lock, to the unit. All entries share
one announcement listener, kept in `hass.data` and started and stopped by the
entries' setups and unloads. Announcements change the entries and schedule
their reloads; config flows create entries, some after an await. Everything
runs on one asyncio loop, so the only interleaving points are awaits. **A step
of a module is what one task does between two awaits.**

What is hard, and which properties are about it, is listed as `hazards` in
`PROJECT.json`, each at its line.

## The modules

### AirfiModbus and AirfiCoordinator

`AirfiModbus` is one client. A task is `idle`, `waiting` in the FIFO queue of
`asyncio.Lock`, `connecting`, or has the connection `open` with a list `todo`
of requests. `Acquire`, `Release` and `AcquireAgain` are the two ends of `async
with self._lock`; the release and the continuation of the caller up to its next
await are one step, as in asyncio. Errors (`Fails`), cancellation while waiting
or inside (`CancelWaiting`, `CancelInside`) and writes whose answer is lost
(`PerhapsApplied`) are there; a register's value is a *stamp*, the n-th change
of the unit, so "older" and "newer" can be compared.

`AirfiCoordinator` extends it with what runs on that client:

| action | code |
|---|---|
| `PollBegins`, `PollSucceeds`, `PollFails` | `_async_update_data`, `coordinator.py:93-98`, 127 |
| `PollExtends`, `ExtensionRead`, `ExtensionFails` | the choice of the input extension and its first read, 99-126 |
| `WriteBegins`, `WriteAcked`, `WriteFails` | `async_write_value` up to the optimistic update, 136-145 |
| `Confirmed`, `ConfirmFails` | the confirmation read, 146-157 |
| `WriteCancelled` | a cancelled service call |
| `ProbeBegins`, `ProbeEnds` | the options flow's probe through the running client, `config_flow.py:260-280` |

The unit changes registers on its own, and its firmware may be updated
(`FirmwareChanges`) whenever no connection is open, since it restarts for that.
The extension is chosen once in a coordinator's life: after an upgrade the new
registers stay unread until the entry reloads (`Reconciles` says so); after a
downgrade every poll would ask for registers that are gone, so
`OnlyPresentAreRead` holds for `Downgrades = FALSE` only.

`self.data[REG_HOLDING].update(await ...)` looks up the dict before it awaits.
The variable `detached` holds the writers whose dict a poll has replaced since.

`CoherentCache` is the abstract specification: a cache that moves only forward,
shows nothing the unit has not had, and is never behind an acknowledged write.
`AirfiCoordinator` implements it (`CoherentSpec`); the mapping takes `device`,
`acked` and `cache` as they are and forgets the lock, the queue and every
operation in flight.

### AirfiServer and AirfiIntegration

`AirfiServer` is the unit's end: one slot (`active`), connections that are made
(`syn`) and then `served` or `refused`. `close()` does not wait for the unit, so
the slot may be held by somebody `Gone`, and a connection closed before it was
accepted may still arrive (`stray`). It is translated from `ModbusServer` of
`tools/simulator.py`, which states that it behaves like the hardware.

`AirfiIntegration` puts one entry on it, with its state, options and scheduled
reload. Every setup creates a client with a lock of its own, and so does the
probe of an entry that is not loaded. Only the timer's poll is a background task
of its entry and is cancelled with it. A service call in flight, be it a write or
a refresh that `homeassistant.update_entity` requested, is neither cancelled nor
waited for and keeps the client it began with across a reload; so does a probe.
Hence a refresh is either the `Poller`'s or one of the `Callers`'. An operation
is connect, transfer, close; who waits for a lock in which order is
`AirfiModbus`'s business. The unit answers its own Modbus id only, which
somebody may change at its panel.

| action | code |
|---|---|
| `SetsUp`, `SetupReads`, `SetupExtends`, `SetupFails` | `async_setup_entry` and the first refresh; Home Assistant retries it |
| `PollBegins`, `PollEnds` | later refreshes by the timer |
| `ReloadScheduled`, `ReloadBegins`, `Unloads` | `async_schedule_reload`, `async_unload_entry` |
| `RequestBegins`, `RequestEnds` | `async_update` of an entity (`CoordinatorEntity`, `entity.py:14`), a refresh in the caller's task |
| `WriteBegins`, `WriteStep` | `async_write_value` |
| `CallCancelled` | a cancelled service call |
| `Submits`, `ProbeAnswered`, `ProbeFailed` | `AirfiOptionsFlow`, `config_flow.py:217-280` |
| `Connects`, `Closes` | `_connect` and `close()` |

### AirfiDiscovery

The shared slot (`absent`, `reserved`, `listening`), the retry timer, the tasks
that await a start, and the state of each config entry. `StartEnds` is the code
after the await in `_async_ensure_discovery_listener` (`__init__.py:102-115`):
it looks only at whether the slot exists, so a start may find a slot that
another start has reserved or filled. `orphans` counts the listeners that are
overwritten that way.

`popped` and `deserted` are history variables, on which no step depends. They
record the two events after which the listener's code no longer keeps what it
promises: discovery was stopped while a start was under way (`popped`), and a
stop, or a retry that found no loaded entry and was spent, gave up the listener
while other entries were being set up (`deserted`). `OrphanNeedsPoppedStart`
says that a listener leaks only after the first, `LoadedServed` that a loaded
entry is stranded only after the second; everything else holds under every
interleaving. To rule out leaks and strandings, a correction would have to make
these two events harmless, and nothing else. The shortest ways to strand an
entry: the retry fires while the leader still refreshes, or another entry
unloads while the leader is being set up.

### AirfiEntries

Units with their addresses, announcements on their way, the config entries, the
endpoint each entry's client uses, scheduled reloads, and the config flows.
`Hear` is `_async_handle_announcement`, its two loops the actions `Heal` and
`Upgrade`. An announcement stays in `air` until it is `Lost`, so it may be late,
repeated, reordered, or heard by several listeners. `Submits` and `Validated`
are the two halves of `async_step_manual` around the connection check.

`EntryIdentity` is what this amounts to from outside: an entry belongs to one
unit for good, follows only that unit and only to where it announced itself,
and an entry nobody owns may be adopted once, from its address on the default
port. A unit is added only at an address it was heard from and is `offered` at,
so that every address an entry ever has of its unit is one the unit announced;
an entry is added by hand only where a unit answers. Units that move and
announcements that are lost are steps of the abstract specification too. The
mapping takes the network as it is, keeps of an entry its serial number, host
and port (`OwnerOf`) and of the flows what they have found (`Found`), and
forgets unique ids, the flows' steps, clients and reloads; the code must get
identity right through unique ids that sometimes are addresses (`IdentitySpec`).

### AirfiTables and AirfiRegisters

`AirfiTables` holds the tables of `registers.py`, the batches of `const.py` and
the conversions. Displayed values are whole hundredths: `scaled_value` rounds to
two places, and `_to_raw` computes in decimals, so that no binary fraction
decides an outcome. `AirfiRegisters` looks at one register at a time: what an
entity writes into it and what is then shown.

### AirfiSimulator

The requests that `modbus.py` really sends, built from the real batches, before
`build_response`, the register store with its defaults and the single slot, and
beside another Modbus client. `Home` is the integration: as its client's lock
admits one operation at a time, one task runs them all. A request is a function
and two numbers; `Readable` and `Writable` are the conditions under which
`build_response` does not answer with an exception. What `announce_loop` sends is
`Announces` of `AirfiEntries`.

### Proof modules

`AirfiCoordinatorProofs`, `AirfiIntegrationProofs`, `AirfiDiscoveryProofs`,
`AirfiEntriesProofs`, `AirfiRegistersProofs` and `AirfiSimulatorProofs` extend
the component's module and hold nothing but proofs and the invariants they need.
`AirfiCoordinatorProgress` goes on from `AirfiCoordinatorProofs` with what is
proved about waiting. `AirfiServerProofs` has the facts about the unit's slot
that the proofs of the two modules on `AirfiServer` share. The `MC` modules give
constants their values for TLC.

## The runs

| run | bounds | checks |
|---|---|---|
| `Coordinator` | a poller, a writer, a probe; 6 registers, 2 holding batches, 3 firmware versions; 3 stamps, 1 failure, 1 upgrade | safety of client and coordinator, refinement of `CoherentCache`, `OperationsEnd`, `Reconciles` |
| `CoordinatorConfirm` | 1 poller, 1 writer | violation of `ConfirmedIsCached` |
| `Integration` | the poller, a service call (a write or a requested refresh), 2 options flows, 4 client names, 2 ids; 2 faults, 2 submissions or reloads, 1 stray connection | who may meet at the unit, which id the entry ends up with, `Recovers` |
| `IntegrationReconnect` | the poller, 1 service call, no reload | violation of `RefusedOnlyByAnother` |
| `IntegrationReload` | the poller, 1 service call, 1 reload | violation of `OneClient` |
| `Discovery` | 3 entries, 2 retry tasks | what holds of the slot under every interleaving, and which events alone orphan a listener or strand an entry |
| `DiscoveryOrphan`, `DiscoveryUnwanted` | 1 entry, 1 retry task | violations of `NoOrphan` and `ListenerWanted` |
| `Entries` | 2 units, 2 hosts, 2 ports, 2 entries, 1 flow; 2 moves, 1 announcement in the air | identity of the entries, refinement of `EntryIdentity`, `HostFollows` |
| `EntriesDuplicate` | 1 unit, 2 entries, 2 flows | violation of `NoDuplicateEndpoint` |
| `Registers` | every row of the tables; contents and entered values around each limit | conversions, limits, coverage of the batches |
| `Simulator` | one other client with requests at `build_response`'s limits, writes into two batches | `NeverRejected`, `ShownIsCurrent`, `EntitiesKnown` |

Why the bounds are enough. Every safety property that holds is also proved
for all values of the constants, so the runs need only reach each case, and
their liveness properties decide the size.

- A violation of the coordinator's properties takes a poll, a write and one
  more task that queues between them, and a stamp each for the initial content,
  a write and one more change. The batches are cut to the ones that behave
  differently: an ordinary input register, a holding batch with two registers
  (one is re-read because the other is written), another that a poll reads at
  another moment, and two extensions that overlap.
- In `Integration` four tasks meet on up to four clients: a service call that
  outlived its coordinator, the refresh of the new setup, and two flows that
  probe and save concurrently. Two faults allow a changed id and a lost transfer. A
  client's name is used again once nobody refers to it, and which unused name a
  new one gets makes no difference, so it is a `CHOOSE`.
- Discovery needs two starts in flight and an entry that unloads; it has up to
  five. The 2 orphans that are told apart suffice to see that there is one.
- Entries need two units for a confusion of identities, and an address that is
  vacated and taken by the other unit, which two moves allow. An announcement
  stays until it is lost, so one in the air is repeated and late; older after
  newer ones, and several flows, are covered by the proofs.
- The tables of `Registers` and `Simulator` are the real ones; contents and
  entered values are samples on both sides of every limit, rounding boundary
  and sign change.

Symmetry is used only in `EntriesDuplicate`.

## Fairness

- `AirfiCoordinator`: weak fairness of the timer's poll (the update interval
  starts one again and again) and of every step inside an operation (the unit
  answers or `MODBUS_TIMEOUT` runs out). Nothing is assumed of failures, of
  users or of changes of the unit; they are bounded (`MaxFaults`, `MaxStamp`,
  `MaxUpdates`), which is how `Reconciles` can speak of what happens once they
  cease.
- `AirfiIntegration`: weak fairness of the server's steps, of connecting and of
  the ends of transfers, of setups and their retries, scheduled reloads and
  unloads. Nobody has to write, request, poll or submit; faults and users are bounded.
- `AirfiSimulator`: weak fairness of the server and of the integration's polls
  and steps. `EntitiesKnown` supposes that strangers leave the slot alone in the
  end and that no write is under way: a poll is not promised its turn between
  two service calls.
- `AirfiDiscovery`: weak fairness of everything that awaits and of the retry
  timer, and strong fairness of a successful start: a multicast socket that can
  never be opened leaves nothing to promise.
- `AirfiEntries`: a unit that is on announces itself again and again, not every
  one of its announcements is lost, and scheduled reloads and setups run.

## What the violations show

Each is a behaviour of the code against its own comments; `findings` in
`PROJECT.json` quotes both.

- `NoOrphan`: a retry's start that spans an unload and a new setup overwrites a
  running listener; the check for the popped slot misses a slot that was popped
  and reserved again. It takes a stop during a start (`OrphanNeedsPoppedStart`).
- `ListenerWanted`: an entry disabled while in setup-retry leaves its listener
  running, for no hook of the integration is called. That an entry leaves
  setup-retry without being set up again is the only way to it
  (`WantedUnlessRetryLeft`, proved).
- `ConfirmedIsCached`: a confirmation read overtaken by a poll is put into a
  dict that nothing reads any more.
- `NoDuplicateEndpoint`: the manual flow checks, awaits, and creates without
  checking again, while a flow that selects the discovered unit checks only the
  serial number. Two manual entries never share an endpoint (`ManualApart`,
  proved), so that one of two that do has a serial number.
- `RefusedOnlyByAnother`: the extension read after `read_all`, or the
  confirmation after a write, connects while the unit still holds the slot for
  the connection just closed, and is refused.
- `OneClient`: a write or a requested refresh in flight is connected on the old
  client while the setup that follows a reload connects on the new one. So is
  the probe of an entry that is not loaded beside a retried setup.
  `OnlyOutlivedMeet` is what does hold: one of two that meet is always a service
  call's or an options flow's, on a client that is not the coordinator's. The
  entry's own first refreshes and polls meet nobody unless one of those is there.

## The proofs

All theorems are about every value of the constants that satisfies the named
assumptions of the modules: disjoint kinds of tasks, batches that are sets of
registers, firmware that serves the ordinary batches and those extensions whose
version it has reached (`FirmwareAssumption`), entries that are not retry
tasks, units that are not endpoints, a default port among the ports. Nothing is
assumed about how many there are.

**Coordinator.** Type correctness is proved together with `HolderOnly`: only the
lock's holder is past the lock, and what a task has read is dropped when it
leaves. `LockConsistent` follows every step's effect on the queue: `LockKinds`
shows that a task is appended, the longest waiter removed, or a cancelled one
taken out of the middle (`Without`), and positions in the queue, the holder and
the tasks' states agree. `AckedIsShown`, `CacheNeverRegresses` and the refinement
need more, since a poll publishes at the end what it read batch by batch:

- `GotFresh`: what the holder has read is at least as new as what is shown,
  because the cache only changes when the lock is handed over;
- `Requests`, `WithinCovered`, `PollCovers`: nothing is shown that the next
  poll would not read again, so replacing `self.data` loses no register. This is
  where the choice of the extension (`Boot`: made before there is data, never
  again) matters;
- `Ordered`: acknowledged <= shown <= held by the unit.

`StepKinds` first reduces the steps to six kinds, so that each later lemma
splits on those and not on the fifteen actions. `IInv` is their conjunction; the
three parts `InvInit`, `InvStep` and the conclusions follow the usual pattern.
The refinement maps each kind to a step of `CoherentCache` or a stutter.
`OnlyPresentAreRead` is proved under `~ Downgrades`.

**Waiting.** Of `OperationsEnd` everything is proved but that steps that can be
taken are taken. `FirstComeFirstServed`: who is ahead of a waiting task, the
holder and those before it in the queue, only becomes fewer, and a task that
leaves the lock and queues again, for its confirmation or its extension, is not
ahead of it any more. `NobodyIsStuck`: whenever an operation is under way its
task holds the lock or waits for it, the lock is held, and its holder has a next
step. That needs `Engaged`: a task has work to do exactly while it is not idle,
of its own kind, with at least one request left of the kind its job makes. So
a wait is as long as the finitely many operations ahead of it, each a finite
list of requests that are answered or time out.

**Integration.** `TaskInv` is about one task and its connection: it has one only
with work to do, on one client at most one task has one, and the slot is held
by whoever is served (`ServerInv`, in `AirfiServerProofs`). `EntryInv` is about
the entry: a coordinator's client is `running` exactly while it is set up, loaded
or unloading, the entry's own refreshes are on that client (`PollOnCurrent`; those
of service calls need not be), and one that runs with a stale id is about to be
replaced. From these follow `OnlyOutlivedMeet`, `StaleIdReloads` and
`SavedIdAnswered`.

**Discovery.** Four properties are nearly inductive with `TypeOK`. Leaks:
`StartHoldsSlot` (there is one start at most, the slot is reserved while
there is one, and no listener has leaked) is preserved until discovery is stopped during a start.
Strandings: `Served` (an entry that is starting has a slot, one that refreshes
or is loaded has a slot or a retry) is preserved until `deserted`. And `Wanted`
(a slot or a retry only with an entry in use) by every step but those of
`LeavesRetry`.

**Entries.** `UniqueIds` is not inductive: it needs `Reserved` (an endpoint under
validation is the unique id of no entry, and of no other flow) and `ManualIds`
(an entry without serial number has an endpoint as its unique id). `Clients`
(only configured entries have one) supports `StaleClientReloads`: only a healed
host separates a client from its entry, and healing schedules the reload.
`ManualOwnId` sharpens `ManualIds`: the unique id of a manual entry is its own
endpoint, since only entries with a serial number are healed. With `UniqueIds`
this keeps manual entries apart.

`IdentityRefined` maps every step to a step of `EntryIdentity` or a stutter;
`UniqueIds` is what makes an owner's unit unique there, and `FlowOffers` is how a
flow's list of units stays within what was heard and offered.

**Registers.** `RowLimits` establishes, row by row, that limits are multiples of
the scale that fit 16 bits. With it, `ToRawNearest` (a converted value is within
half a unit) and `ClampNearest` (clamping converted values between converted
limits gives the content nearest to the clamped value) give `WrittenInLimits`,
`ShownIsNearest` and `ShownIsStable` for every entered value, where TLC samples
them. The batches cover exactly the registers a firmware has, for every version.

`TablesMeetFirmware` discharges what the coordinator's theorems assume of
firmware and batches for the real tables, and `EveryWriteIsConfirmed` shows that
the confirmation's search for a batch finds exactly one for every register an
entity writes.

**Simulator.** The refresh is a list of up to eight requests made from the
batches. The lemmas on requests show that every one of them, for either
extension and for none, is one `build_response` serves, and that together they
ask for all of `Base`, the registers outside the extension. `Sends` keeps that
for what is still to be sent, `GotCurrent` says that what has been read is what
the unit holds, because while `Home` is served nobody else is, and `GotWhole`
that every register of `Base` has been read or still will be. They give
`NeverRejected` and `ShownIsCurrent` for any other clients whatever they send,
and `DataIsWhole`: from the first refresh on, every entity outside the extension
has a value for good.

Checked by TLC only: the liveness properties (`OperationsEnd`, `Reconciles`,
`Recovers`, `LoadedHeard`, `HostFollows`, `EntitiesKnown`),
which rest on fairness and are out of the prover's reach, and of course the six properties that are violated.

## What is not modelled

- The bytes of packets and of Modbus frames, and frames that cannot be
  unpacked; a packet is a serial number and an address. The simulator ignores
  the unit id of a frame; its start-up and command line are left out, and so is the flag of
  `announce_loop`, which only decides what it prints.
- Reconnects of pymodbus's own, and a connection left behind by a task that is
  cancelled while `connect()` runs other than as a `stray` one.
- Which of the integration's errors is raised, its texts, and logging.
- In `AirfiIntegration`: the validation of the config flow before the entry
  exists, and disabling or removing the entry (`AirfiDiscovery` and
  `AirfiEntries` have the latter). Polls of an unloaded entry do not occur.
- In `AirfiIntegration` and `AirfiEntries`, an unload that fails (FAILED_UNLOAD),
  after which Home Assistant does not reload the entry; `AirfiDiscovery` has it.
- The debouncer of requested refreshes, which only delays or drops some: one may
  begin whenever its caller is idle and the entry is loaded.
- `format_version`, the names of select options (they are their raw values
  here), the inversion of input register 16 by its binary sensor, icons,
  translations and entity registration.
- The `data is None` branch of `async_write_value`: entities exist only after
  the first refresh has succeeded.
- The manifest and strings, which are static, and the tests, which were read
  for what they assert.

## Plan

1. `AirfiIntegration`: an abstract specification of the unit's clients, to say
   once what `OnlyOutlivedMeet`, `StaleIdReloads` and `SavedIdAnswered` say in
   parts, and its refinement.
2. The safety half of `Reconciles`: what a poll that succeeds makes of the cache.
3. The safety half of `HostFollows`: as long as a unit stays where it is, an entry
   that has followed it there is not led away again but by an older announcement.
