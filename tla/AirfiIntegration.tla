-------------------------- MODULE AirfiIntegration --------------------------
(***************************************************************************)
(* Everything of one config entry that connects to its unit, across setups *)
(* and reloads: every setup creates a client with a lock of its own, and   *)
(* so does the options flow of an entry that is not loaded.  AirfiModbus   *)
(* is about one client; this module is about several clients of a unit     *)
(* that serves one.                                                        *)
(*                                                                         *)
(* An operation is connect, a transfer, close.  Its requests and who waits *)
(* for the lock in which order are AirfiModbus's; here whoever waits may   *)
(* go next.  The unit answers requests for its own Modbus id only.         *)
(***************************************************************************)
EXTENDS AirfiServer

CONSTANTS
  Poller,     \* the entry's own task: the first refresh of a setup, and the timer's polls
  Callers,    \* service calls: writes, and refreshes by homeassistant.update_entity
  Probers,    \* options flows
  Clients,    \* names for AirfiModbusClient instances
  Ids,        \* Modbus ids
  DataId,     \* the id in the entry's data, DEFAULT_MODBUS_ID when it has none
  MaxFaults,  \* bound: lost transfers and changes of the unit's id
  MaxUser     \* bound: submitted options, and reloads by others

ASSUME IntegrationAssumption ==
  /\ Tasks = {Poller} \cup Callers \cup Probers
  /\ Poller \notin Callers \cup Probers
  /\ Callers \cap Probers = {}
  /\ None \notin Ids \cup Clients
  /\ DataId \in Ids
  /\ MaxFaults \in Nat /\ MaxUser \in Nat

VARIABLES
  unitId,     \* the Modbus id the unit answers to
  faults,     \* faults so far
  used,       \* submissions and reloads so far
  state,      \* entry.state
  running,    \* the client of the entry's coordinator, None without one
  runningId,  \* its device id
  option,     \* entry.options[CONF_MODBUS_ID], None when never saved
  reload,     \* a reload is scheduled
  job,        \* what each task is doing
  client,     \* on which client
  asks        \* with which Modbus id

entryVars == <<state, running, runningId, option, reload>>
taskVars == <<job, client, asks>>
vars == <<serverVars, unitId, faults, used, entryVars, taskVars>>

\* Every variable keeps its type.
TypeOK ==
  /\ ServerTypeOK
  /\ unitId \in Ids
  /\ faults \in Nat /\ used \in Nat
  /\ state \in {"idle", "setup", "loaded", "retry", "unloading"}
  /\ running \in Clients \cup {None}
  /\ runningId \in Ids \cup {None}
  /\ option \in Ids \cup {None}
  /\ reload \in BOOLEAN
  /\ job \in [Tasks -> {"none", "refresh", "extend", "write", "confirm", "probe"}]
  /\ client \in [Tasks -> Clients \cup {None}]
  /\ asks \in [Tasks -> Ids \cup {None}]

Init ==
  /\ ServerInit
  /\ unitId \in Ids
  /\ faults = 0 /\ used = 0
  /\ state = "idle"
  /\ running = None /\ runningId = None
  /\ option = None
  /\ reload = FALSE
  /\ job = [t \in Tasks |-> "none"]
  /\ client = [t \in Tasks |-> None]
  /\ asks = [t \in Tasks |-> None]

-----------------------------------------------------------------------------
(* Operations.                                                             *)

Busy(t) == job[t] # "none"
Unused == Clients \ ({running} \cup {client[t] : t \in Tasks})

\* The name a new AirfiModbusClient gets: which of the unused ones is the same.
NewClient == {c \in Unused : c = CHOOSE x \in Unused : TRUE}

Begins(t, what, c, id) ==
  /\ job' = [job EXCEPT ![t] = what]
  /\ client' = [client EXCEPT ![t] = c]
  /\ asks' = [asks EXCEPT ![t] = id]

\* The operation is over, and the task goes on to its next on the same client.
Continues(t, what) ==
  /\ job' = [job EXCEPT ![t] = what]
  /\ Closes(t)
  /\ UNCHANGED <<client, asks>>

Ends(t) == Begins(t, "none", None, None) /\ Closes(t)

\* Mutant: the lock is not taken.
MutConnects(t) ==
  /\ Busy(t)
  /\ Opens(t)
  /\ UNCHANGED <<unitId, faults, used, entryVars, taskVars>>

\* The client's lock is free, and the task connects.
Connects(t) ==
  /\ Busy(t)
  /\ \A u \in Tasks : client[u] = client[t] => link[u] = "none"
  /\ Opens(t)
  /\ UNCHANGED <<unitId, faults, used, entryVars, taskVars>>

Answered(t) == link[t] = "served" /\ asks[t] = unitId /\ UNCHANGED faults

\* AirfiConnectionError or AirfiModbusError: the unit closed the connection, is
\* silent because of the id, or the transfer is lost.
Failed(t) ==
  \/ /\ link[t] = "refused" \/ (link[t] = "served" /\ asks[t] # unitId)
     /\ UNCHANGED faults
  \/ /\ link[t] \in {"syn", "served"}
     /\ faults < MaxFaults /\ faults' = faults + 1

-----------------------------------------------------------------------------
(* Setup, polls and unload.                                                *)

\* Mutant: the id of the entry's data is used, whatever the options say.
MutDeviceId == DataId

\* AirfiCoordinator.__init__: the options before the data.
DeviceId == IF option # None THEN option ELSE DataId

\* async_setup_entry, up to the await of the first refresh; Home Assistant
\* tries again and again while the entry is in setup-retry.
SetsUp ==
  /\ state \in {"idle", "retry"}
  /\ state' = "setup"
  /\ \E c \in NewClient :
       /\ running' = c
       /\ runningId' = DeviceId
       /\ Begins(Poller, "refresh", c, DeviceId)
  /\ UNCHANGED <<serverVars, unitId, faults, used, option, reload>>

\* read_all of the first refresh; the firmware may have an extension to read.
SetupReads ==
  /\ state = "setup" /\ job[Poller] = "refresh"
  /\ Answered(Poller)
  /\ \/ Continues(Poller, "extend") /\ UNCHANGED state
     \/ Ends(Poller) /\ state' = "loaded"
  /\ UNCHANGED <<unitId, used, running, runningId, option, reload>>

\* A failed extension read does not fail the setup.
SetupExtends ==
  /\ state = "setup" /\ job[Poller] = "extend"
  /\ Answered(Poller) \/ Failed(Poller)
  /\ Ends(Poller)
  /\ state' = "loaded"
  /\ UNCHANGED <<unitId, used, running, runningId, option, reload>>

\* ConfigEntryNotReady
SetupFails ==
  /\ state = "setup" /\ job[Poller] = "refresh"
  /\ Failed(Poller)
  /\ Ends(Poller)
  /\ state' = "retry"
  /\ running' = None /\ runningId' = None
  /\ UNCHANGED <<unitId, used, option, reload>>

PollBegins ==
  /\ state = "loaded"
  /\ ~ Busy(Poller)
  /\ Begins(Poller, "refresh", running, runningId)
  /\ UNCHANGED <<serverVars, unitId, faults, used, entryVars>>

PollEnds ==
  /\ state \in {"loaded", "unloading"} /\ job[Poller] = "refresh"
  /\ Answered(Poller) \/ Failed(Poller)
  /\ Ends(Poller)
  /\ UNCHANGED <<unitId, used, entryVars>>

\* A scheduled reload finds the entry loaded, or in setup-retry.
ReloadBegins ==
  /\ reload
  /\ \/ state = "loaded" /\ state' = "unloading"
     \/ state = "retry" /\ state' = "idle"
  /\ reload' = FALSE
  /\ UNCHANGED <<serverVars, unitId, faults, used, running, runningId, option, taskVars>>

\* async_unload_entry is done, and the entry's background tasks are cancelled.
\* The timer's poll is one; a write, a requested refresh and a probe are not, and
\* go on with the client they began with.
Unloads ==
  /\ state = "unloading"
  /\ state' = "idle"
  /\ running' = None /\ runningId' = None
  /\ IF Busy(Poller) THEN Ends(Poller) ELSE UNCHANGED <<serverVars, taskVars>>
  /\ UNCHANGED <<unitId, faults, used, option, reload>>

\* The user, or an announcement that moved the entry, schedules a reload.
ReloadScheduled ==
  /\ used < MaxUser /\ used' = used + 1
  /\ reload' = TRUE
  /\ UNCHANGED <<serverVars, unitId, faults, state, running, runningId, option, taskVars>>

-----------------------------------------------------------------------------
(* Service calls.  Each works on the coordinator it began with, and neither *)
(* an unload nor the coordinator's shutdown cancels it.                    *)

\* async_update of an entity: a refresh of the coordinator in the caller's task.
RequestBegins(c) ==
  /\ state = "loaded"
  /\ ~ Busy(c)
  /\ Begins(c, "refresh", running, runningId)
  /\ UNCHANGED <<serverVars, unitId, faults, used, entryVars>>

RequestEnds(c) ==
  /\ job[c] = "refresh"
  /\ Answered(c) \/ Failed(c)
  /\ Ends(c)
  /\ UNCHANGED <<unitId, used, entryVars>>

\* async_write_value: a write and its confirmation are two operations.

WriteBegins(c) ==
  /\ state = "loaded"
  /\ ~ Busy(c)
  /\ Begins(c, "write", running, runningId)
  /\ UNCHANGED <<serverVars, unitId, faults, used, entryVars>>

WriteStep(c) ==
  /\ \/ job[c] = "write" /\ Answered(c) /\ Continues(c, "confirm")
     \/ job[c] = "write" /\ Failed(c) /\ Ends(c)
     \/ job[c] = "confirm" /\ (Answered(c) \/ Failed(c)) /\ Ends(c)
  /\ UNCHANGED <<unitId, used, entryVars>>

CallCancelled(c) ==
  /\ Busy(c)
  /\ Ends(c)
  /\ UNCHANGED <<unitId, faults, used, entryVars>>

-----------------------------------------------------------------------------
(* The options flow.                                                       *)

\* Mutant: the id is compared with the one the entry was created with.
MutCurrentId == DataId

\* current_modbus_id
CurrentId == IF option # None THEN option ELSE DataId

\* async_create_entry of an OptionsFlowWithReload.  The scan interval, which is
\* saved with the id, may have changed as well.
Saves(id) ==
  /\ option' = id
  /\ IF id # option THEN reload' = TRUE ELSE reload' \in {reload, TRUE}

\* async_step_init with the user's input.  A changed id is probed first, on the
\* client of the running coordinator if there is one.
Submits(o, id) ==
  /\ ~ Busy(o)
  /\ used < MaxUser /\ used' = used + 1
  /\ \/ id = CurrentId /\ Saves(id) /\ UNCHANGED taskVars
     \/ /\ id # CurrentId
        /\ \E c \in (IF state = "loaded" THEN {running} ELSE NewClient) : Begins(o, "probe", c, id)
        /\ UNCHANGED <<option, reload>>
  /\ UNCHANGED <<serverVars, unitId, faults, state, running, runningId>>

ProbeAnswered(o) ==
  /\ job[o] = "probe"
  /\ Answered(o)
  /\ Saves(asks[o])
  /\ Ends(o)
  /\ UNCHANGED <<unitId, used, state, running, runningId>>

\* The form shows "cannot_connect" or "no_response".
ProbeFailed(o) ==
  /\ job[o] = "probe"
  /\ Failed(o)
  /\ Ends(o)
  /\ UNCHANGED <<unitId, used, entryVars>>

-----------------------------------------------------------------------------

\* Somebody changes the unit's Modbus id at its panel.
UnitIdChanges(id) ==
  /\ faults < MaxFaults /\ faults' = faults + 1
  /\ id # unitId
  /\ unitId' = id
  /\ UNCHANGED <<serverVars, used, entryVars, taskVars>>

Unit(step) == step /\ UNCHANGED <<unitId, faults, used, entryVars, taskVars>>

RefreshStep == SetupReads \/ SetupExtends \/ SetupFails \/ PollEnds

Next ==
  \/ Unit(Leaves) \/ Unit(MeetsStray)
  \/ \E t \in Tasks : Unit(Accepts(t)) \/ Unit(Refuses(t)) \/ Connects(t)
  \/ SetsUp \/ PollBegins \/ RefreshStep \/ ReloadBegins \/ Unloads \/ ReloadScheduled
  \/ \E c \in Callers :
       RequestBegins(c) \/ RequestEnds(c) \/ WriteBegins(c) \/ WriteStep(c) \/ CallCancelled(c)
  \/ \E o \in Probers : (\E id \in Ids : Submits(o, id)) \/ ProbeAnswered(o) \/ ProbeFailed(o)
  \/ \E id \in Ids : UnitIdChanges(id)

\* The server goes on, a transfer ends with an answer or after MODBUS_TIMEOUT,
\* and Home Assistant runs retries, reloads and unloads.  Nobody has to write,
\* to request a refresh, to submit, or to poll.
Fairness ==
  /\ WF_vars(Unit(Leaves)) /\ WF_vars(Unit(MeetsStray))
  /\ \A t \in Tasks : WF_vars(Unit(Accepts(t) \/ Refuses(t))) /\ WF_vars(Connects(t))
  /\ \A c \in Callers : WF_vars(RequestEnds(c) \/ WriteStep(c))
  /\ \A o \in Probers : WF_vars(ProbeAnswered(o) \/ ProbeFailed(o))
  /\ WF_vars(RefreshStep) /\ WF_vars(SetsUp) /\ WF_vars(ReloadBegins) /\ WF_vars(Unloads)

Spec == Init /\ [][Next]_vars
FairSpec == Spec /\ Fairness

-----------------------------------------------------------------------------

Connected(t) == link[t] # "none"

\* "The device allows only one Modbus client at a time [...].  Both constraints
\* are handled here so nothing else has to care": no two tasks have, or try to
\* have, a connection at once.
OneClient == \A t, u \in Tasks : Connected(t) /\ Connected(u) => t = u

\* Where two connections meet after all, one is that of a service call (a write
\* or a requested refresh) or of an options flow, on a client that is not, or no
\* longer, the coordinator's: the entry's own refreshes never outlive their
\* client, and on one client everybody waits for the lock.
OnlyOutlivedMeet ==
  \A t, u \in Tasks : Connected(t) /\ Connected(u) /\ t # u =>
    \E x \in {t, u} : x \in Callers \cup Probers /\ client[x] # running

\* The unit turns the integration away only while it serves another of the
\* integration's connections, not for one that was closed before.
RefusedOnlyByAnother == [][\A t \in Tasks : Refuses(t) => active \in Tasks]_vars

\* "Probe the device with a changed Modbus id before saving it": the id the
\* entry uses changes only to one the unit has just answered to, whatever
\* other flows saved since the form was opened.
SavedIdAnswered == [][DeviceId' # DeviceId => DeviceId' = unitId]_vars

\* A coordinator that runs with another id than the entry's is being replaced or
\* about to be, also one that was being set up when the id was saved.
StaleIdReloads == running # None => runningId = CurrentId \/ reload \/ state = "unloading"

\* "OptionsFlowWithReload applies changes immediately even when the entry is
\* stuck in setup-retry": once faults and users cease, an entry whose id is the
\* unit's is loaded with it for good, and no connection left behind blocks it.
Recovers == <>[](CurrentId = unitId => state = "loaded" /\ runningId = unitId)
=============================================================================
