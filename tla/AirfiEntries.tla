---------------------------- MODULE AirfiEntries ----------------------------
(***************************************************************************)
(* The config entries of the domain and who creates and changes them: the  *)
(* announcements of the units (__init__.py) and the config flows           *)
(* (config_flow.py), beside the setups and reloads that carry an entry's   *)
(* address into its running client.  A step is what one task does between  *)
(* two awaits.                                                             *)
(*                                                                         *)
(* A unit is its serial number.  The units serve Modbus on the default     *)
(* port; any other port is a forwarded one.  The listener is taken to run: *)
(* AirfiDiscovery is about when it does.                                   *)
(***************************************************************************)
EXTENDS Naturals, FiniteSets

CONSTANTS
  Devices,      \* units, each with a serial number of its own
  Hosts,        \* IP addresses
  Ports,        \* Modbus ports
  DefaultPort,  \* DEFAULT_PORT
  Entries,      \* names for config entries
  Flows,        \* names for config flows
  None,
  MaxMoves,     \* bound: changes of address
  MaxAir        \* bound: announcements on their way

Endpoints == [host : Hosts, port : Ports]

ASSUME EntriesAssumption ==
  /\ DefaultPort \in Ports
  /\ Devices \cap Endpoints = {}
  /\ None \notin Devices \cup Hosts \cup Endpoints
  /\ MaxMoves \in Nat /\ MaxAir \in Nat

VARIABLES
  at,       \* the address of each unit, None while it is off
  moves,    \* changes of address so far
  air,      \* announcements on their way: lost, delayed, reordered, heard twice
  entries,  \* the config entries: DOMAIN entries are the configured ones
  running,  \* the endpoint each entry's Modbus client uses, None without one
  reload,   \* entries with a reload scheduled
  flow      \* the config flows

vars == <<at, moves, air, entries, running, reload, flow>>

\* A unique id is a serial number, or "host:port" of a manual entry.
UniqueIdsOf == Devices \cup Endpoints
Entry == [uid : UniqueIdsOf, host : Hosts, port : Ports, serial : Devices \cup {None}]
Packet == [serial : Devices, ip : Hosts]

\* "found": the address first heard from each unit, then what is offered.
\* "uid": the unique id the flow has set, an endpoint under validation.
FlowSteps == {"none", "listening", "select", "form", "validating"}
Flow == [step : FlowSteps, found : [Devices -> Hosts \cup {None}], uid : Endpoints \cup {None}]

Nobody == [d \in Devices |-> None]
NoFlow == [step |-> "none", found |-> Nobody, uid |-> None]

Configured == DOMAIN entries
Endpoint(e) == [host |-> entries[e].host, port |-> entries[e].port]

\* Every variable keeps its type.
TypeOK ==
  /\ at \in [Devices -> Hosts \cup {None}]
  /\ moves \in Nat
  /\ air \in SUBSET Packet
  /\ Configured \subseteq Entries
  /\ entries \in [Configured -> Entry]
  /\ running \in [Entries -> Endpoints \cup {None}]
  /\ reload \in SUBSET Entries
  /\ flow \in [Flows -> Flow]

Init ==
  /\ at \in [Devices -> Hosts \cup {None}]
  /\ \A c, d \in Devices : c # d /\ at[c] # None => at[c] # at[d]
  /\ moves = 0
  /\ air = {}
  /\ entries = [e \in {} |-> None]
  /\ running = [e \in Entries |-> None]
  /\ reload = {}
  /\ flow = [f \in Flows |-> NoFlow]

-----------------------------------------------------------------------------
(* The network.                                                            *)

\* A unit gets another address, is switched on or off.
Moves(d, h) ==
  /\ moves < MaxMoves
  /\ moves' = moves + 1
  /\ h # at[d] /\ (h = None \/ \A c \in Devices : at[c] # h)
  /\ at' = [at EXCEPT ![d] = h]
  /\ UNCHANGED <<air, entries, running, reload, flow>>

\* One round of announce_loop; without a network nothing is sent, and it goes on.
Announces(d) ==
  /\ at[d] # None
  /\ Cardinality(air) < MaxAir
  /\ air' = air \cup {[serial |-> d, ip |-> at[d]]}
  /\ UNCHANGED <<at, moves, entries, running, reload, flow>>

Lost(p) ==
  /\ p \in air
  /\ air' = air \ {p}
  /\ UNCHANGED <<at, moves, entries, running, reload, flow>>

-----------------------------------------------------------------------------
(* _async_handle_announcement                                              *)

\* The entries whose unique_id is the announced serial number.
Identified(p) == {e \in Configured : entries[e].uid = p.serial}

\* Mutant: the announced device itself is stored, not its address.
MutHealDevice(p) ==
  \E e \in Identified(p) :
    /\ entries[e].host # p.ip
    /\ entries' = [entries EXCEPT ![e].host = p]
    /\ reload' = reload \cup {e}

\* Mutant: the entry is updated and left running as it is.
MutHealNoReload(p) ==
  \E e \in Identified(p) :
    /\ entries[e].host # p.ip
    /\ entries' = [entries EXCEPT ![e].host = p.ip]
    /\ UNCHANGED reload

\* The first loop: a known unit has moved.
Heal(p) ==
  \E e \in Identified(p) :
    /\ entries[e].host # p.ip
    /\ entries' = [entries EXCEPT ![e].host = p.ip]
    /\ reload' = reload \cup {e}

\* Mutants: an entry that has a serial number is a candidate too; an entry on
\* another port is.
MutManualAny(p) == {e \in Configured : entries[e].host = p.ip /\ entries[e].port = DefaultPort}
MutManualPort(p) == {e \in Configured : entries[e].host = p.ip /\ entries[e].serial = None}

\* The manual entries an announcement from their address may upgrade.
Manual(p) ==
  {e \in Configured : /\ entries[e].host = p.ip
                      /\ entries[e].port = DefaultPort
                      /\ entries[e].serial = None}

\* Mutant: the first loop does not return.
MutUpgradeAlways(p) ==
  \E e \in Manual(p) :
    /\ entries' = [entries EXCEPT ![e].uid = p.serial, ![e].serial = p.serial]
    /\ reload' = reload \cup {e}

\* The second loop, when no entry has the serial number: it takes the first of
\* the manual entries, here any of them.
Upgrade(p) ==
  /\ Identified(p) = {}
  /\ \E e \in Manual(p) :
       /\ entries' = [entries EXCEPT ![e].uid = p.serial, ![e].serial = p.serial]
       /\ reload' = reload \cup {e}

\* An announcement that changes nothing is not a step.
Hear(p) ==
  /\ p \in air
  /\ Heal(p) \/ Upgrade(p)
  /\ UNCHANGED <<at, moves, air, running, flow>>

-----------------------------------------------------------------------------
(* The config flow.                                                        *)

Uids == {entries[e].uid : e \in Configured}
KnownHosts == {entries[e].host : e \in Configured}

\* Another flow of the domain has set this unique id: async_set_unique_id
\* ends the flow with "already_in_progress".
InProgress(f, u) == \E g \in Flows \ {f} : flow[g].uid = u

To(f, step, found, uid) == flow' = [flow EXCEPT ![f] = [step |-> step, found |-> found, uid |-> uid]]
Ends(f) == flow' = [flow EXCEPT ![f] = NoFlow]

Create(e, uid, host, port, serial) ==
  /\ e \notin Configured
  /\ entries' = [x \in Configured \cup {e} |->
       IF x = e THEN [uid |-> uid, host |-> host, port |-> port, serial |-> serial] ELSE entries[x]]

\* async_step_discover, first call: async_discover_devices starts to listen.
DiscoverBegins(f) ==
  /\ flow[f].step = "none"
  /\ To(f, "listening", Nobody, None)
  /\ UNCHANGED <<at, moves, air, entries, running, reload>>

\* found.setdefault(dev.serial, dev)
FlowHears(f, p) ==
  /\ flow[f].step = "listening"
  /\ p \in air
  /\ flow[f].found[p.serial] = None
  /\ To(f, "listening", [flow[f].found EXCEPT ![p.serial] = p.ip], None)
  /\ UNCHANGED <<at, moves, air, entries, running, reload>>

\* What is offered of what was found: no known serial number, no known host.
Offered(f) ==
  [d \in Devices |-> IF d \in Uids \/ flow[f].found[d] \in KnownHosts THEN None ELSE flow[f].found[d]]

\* async_step_discover, second call.
DiscoverEnds(f) ==
  /\ flow[f].step = "listening"
  /\ To(f, IF Offered(f) = Nobody THEN "form" ELSE "select", Offered(f), None)
  /\ UNCHANGED <<at, moves, air, entries, running, reload>>

\* async_step_select_device with the user's choice.  There is no await between
\* the check of the unique id and the creation.
Selects(f, d, e) ==
  /\ flow[f].step = "select"
  /\ flow[f].found[d] # None
  /\ Ends(f)
  /\ \/ (d \in Uids \/ InProgress(f, d)) /\ UNCHANGED entries
     \/ ~ (d \in Uids \/ InProgress(f, d)) /\ Create(e, d, flow[f].found[d], DefaultPort, d)
  /\ UNCHANGED <<at, moves, air, running, reload>>

\* The checks of async_step_manual: an entry has this host and port, or this
\* unique id, or another flow is at work on it.
Taken(f, endpoint) ==
  \/ \E e \in Configured : Endpoint(e) = endpoint
  \/ InProgress(f, endpoint)
  \/ endpoint \in Uids

\* async_step_manual up to the await of _validate_connection.
Submits(f, endpoint) ==
  /\ flow[f].step \in {"none", "form"}
  /\ IF Taken(f, endpoint) THEN Ends(f) ELSE To(f, "validating", Nobody, endpoint)
  /\ UNCHANGED <<at, moves, air, entries, running, reload>>

\* The rest of it: some unit answered at the endpoint.
Validated(f, e) ==
  /\ flow[f].step = "validating"
  /\ LET endpoint == flow[f].uid
     IN  /\ \E d \in Devices : at[d] = endpoint.host
         /\ Create(e, endpoint, endpoint.host, endpoint.port, None)
  /\ Ends(f)
  /\ UNCHANGED <<at, moves, air, running, reload>>

\* Nothing answered: the form is shown again, and the unique id stays set.
Refused(f) ==
  /\ flow[f].step = "validating"
  /\ To(f, "form", Nobody, flow[f].uid)
  /\ UNCHANGED <<at, moves, air, entries, running, reload>>

\* The user closes the dialog.
Abandons(f) ==
  /\ flow[f].step # "none"
  /\ Ends(f)
  /\ UNCHANGED <<at, moves, air, entries, running, reload>>

-----------------------------------------------------------------------------
(* The lifecycle of an entry, as far as its client's address goes.         *)

\* async_setup_entry: the coordinator takes the address from the entry.
SetsUp(e) ==
  /\ e \in Configured
  /\ running[e] = None
  /\ running' = [running EXCEPT ![e] = Endpoint(e)]
  /\ UNCHANGED <<at, moves, air, entries, reload, flow>>

\* The entry is unloaded, or its setup fails and will be tried again.
Stops(e) ==
  /\ running[e] # None
  /\ running' = [running EXCEPT ![e] = None]
  /\ UNCHANGED <<at, moves, air, entries, reload, flow>>

\* A scheduled reload unloads the entry; SetsUp follows.
Reloads(e) ==
  /\ e \in reload
  /\ reload' = reload \ {e}
  /\ running' = [running EXCEPT ![e] = None]
  /\ UNCHANGED <<at, moves, air, entries, flow>>

Removes(e) ==
  /\ e \in Configured
  /\ entries' = [x \in Configured \ {e} |-> entries[x]]
  /\ running' = [running EXCEPT ![e] = None]
  /\ reload' = reload \ {e}
  /\ UNCHANGED <<at, moves, air, flow>>

-----------------------------------------------------------------------------

Next ==
  \/ \E d \in Devices : Announces(d) \/ \E h \in Hosts \cup {None} : Moves(d, h)
  \/ \E p \in air : Lost(p) \/ Hear(p)
  \/ \E f \in Flows :
       \/ DiscoverBegins(f) \/ DiscoverEnds(f) \/ Refused(f) \/ Abandons(f)
       \/ \E p \in air : FlowHears(f, p)
       \/ \E endpoint \in Endpoints : Submits(f, endpoint)
       \/ \E e \in Entries : Validated(f, e) \/ \E d \in Devices : Selects(f, d, e)
  \/ \E e \in Entries : SetsUp(e) \/ Stops(e) \/ Reloads(e) \/ Removes(e)

\* A unit that is on announces itself again and again, and not every
\* announcement is lost; Home Assistant runs what is scheduled.
Fairness ==
  /\ \A p \in Packet : WF_vars(Lost(p)) /\ SF_vars(Hear(p))
  /\ \A d \in Devices : SF_vars(Announces(d))
  /\ \A e \in Entries : WF_vars(Reloads(e)) /\ WF_vars(SetsUp(e))

Spec == Init /\ [][Next]_vars
FairSpec == Spec /\ Fairness

-----------------------------------------------------------------------------

\* No two entries have the same unique id, however flows and announcements
\* interleave: a manual flow creates its entry after an await, and an
\* announcement turns a manual entry's id into a serial number meanwhile.
UniqueIds == \A c, e \in Configured : entries[c].uid = entries[e].uid => c = e

\* "Announcing devices always serve Modbus on the default port, so a manual
\* entry on another port is a different endpoint and must not adopt this
\* identity": only entries on the default port have a serial number, and it
\* is their unique id.
IdentityOnDefaultPort ==
  \A e \in Configured : entries[e].serial # None =>
    entries[e].port = DefaultPort /\ entries[e].uid = entries[e].serial

\* Once an entry has its unit's serial number it belongs to that unit for
\* good, and its address changes only to one the unit itself announced.
IdentityKept ==
  [][\A e \in Configured \cap Configured' : entries[e].serial # None =>
       /\ entries'[e].serial = entries[e].serial
       /\ entries'[e].uid = entries[e].uid
       /\ entries'[e].host # entries[e].host =>
            [serial |-> entries[e].serial, ip |-> entries'[e].host] \in air]_vars

\* Whom an entry belongs to, as EntryIdentity has it: one entry for a unit,
\* which stays that unit's and follows it; a manual entry is adopted at most
\* once, by a unit heard from its address on the default port.  The code gets
\* there by comparing unique ids, which only sometimes are serial numbers.
OwnerOf == [e \in Entries |->
  IF e \in Configured
    THEN [unit |-> entries[e].serial, host |-> entries[e].host, port |-> entries[e].port]
    ELSE [unit |-> None, host |-> None, port |-> None]]

\* What the flows have found.
Found == {p \in Packet : \E f \in Flows : flow[f].found[p.serial] = p.ip}

Identity == INSTANCE EntryIdentity WITH owner <- OwnerOf, heard <- air, offered <- Found
IdentitySpec == Identity!Spec

\* A client that talks to another endpoint than its entry names is about to be
\* replaced.
StaleClientReloads ==
  \A e \in Configured : running[e] \notin {None, Endpoint(e)} => e \in reload

\* "If a configured unit changes IP (DHCP), the integration picks up the new
\* address automatically": once the units stay where they are, every entry
\* with a serial number, and its client, end up at its unit's address.
HostFollows ==
  <>[](\A e \in Configured : entries[e].serial # None /\ at[entries[e].serial] # None =>
         /\ entries[e].host = at[entries[e].serial]
         /\ running[e] \in {None, Endpoint(e)})

\* "Offering it again would create a duplicate entry fighting over the
\* single-client Modbus socket": no two entries have the same host and port.
NoDuplicateEndpoint == \A c, e \in Configured : Endpoint(c) = Endpoint(e) => c = e
=============================================================================
