--------------------------- MODULE AirfiSimulator ---------------------------
(***************************************************************************)
(* The simulated unit of tools/simulator.py and the integration's client   *)
(* and coordinator before it: what build_response answers to the requests  *)
(* that modbus.py really sends, for the real tables and batches, while     *)
(* another Modbus client comes and goes.                                   *)
(*                                                                         *)
(* AirfiServer is the server's slot.  The lock of the client admits one    *)
(* operation of the integration at a time, so one task, Home, runs them.   *)
(* A frame that cannot be unpacked, and so ends its connection, is not     *)
(* among the requests.                                                     *)
(***************************************************************************)
EXTENDS AirfiServer, AirfiTables, SequencesExt

CONSTANTS
  Home,       \* the integration's operations
  Strangers,  \* other Modbus clients
  Foreign,    \* the requests they send
  Values      \* what Home writes: pairs of an address and a content

\* A frame: the function, and the two numbers of its body.
Request(function, address, value) == [function |-> function, address |-> address, value |-> value]

\* Entities write the registers they describe; the numbers of a frame have 16 bits.
ASSUME SimulatorAssumption ==
  /\ Tasks = {Home} \cup Strangers /\ Home \notin Strangers
  /\ Values \subseteq {a \in 1..68 : Holding(a) \in Described} \X (0..MaxContent)
  /\ \A r \in Foreign : /\ r = Request(r.function, r.address, r.value)
                        /\ r.address \in 0..MaxContent /\ r.value \in 0..MaxContent

VARIABLES
  store,    \* RegisterStore
  op,       \* what Home is doing
  requests, \* what it still has to send in this connection
  got,      \* what it has read
  data,     \* coordinator.data
  chosen    \* the input extension the coordinator has chosen, {} before

homeVars == <<op, requests, got, data, chosen>>
vars == <<serverVars, store, homeVars>>

READ_HOLDING == 3
READ_INPUT == 4
WRITE_SINGLE == 6
MAX_REGISTERS_PER_READ == 20

StoreRegisters == ({"input"} \X (1..52)) \cup ({"holding"} \X (1..68))

NoData == [r \in {} |-> 0]

\* dict.update
Updated(dict, with) == [r \in DOMAIN dict \cup DOMAIN with |-> IF r \in DOMAIN with THEN with[r] ELSE dict[r]]

\* Nothing but the registers it starts with enters the store, from a frame or
\* otherwise, and every variable keeps its type.
TypeOK ==
  /\ ServerTypeOK
  /\ store \in [StoreRegisters -> 0..MaxContent]
  /\ op \in {"none", "poll", "extend", "write", "confirm"}
  /\ requests \in Seq([function : {READ_HOLDING, READ_INPUT, WRITE_SINGLE}, address : 1..68, value : 0..MaxContent])
  /\ DOMAIN got \subseteq StoreRegisters /\ DOMAIN data \subseteq StoreRegisters
  /\ chosen \subseteq {row[2] : row \in {INPUT_EXTENSION_BATCHES[i] : i \in DOMAIN INPUT_EXTENSION_BATCHES}}

-----------------------------------------------------------------------------
(* RegisterStore and build_response.                                       *)

\* The "plausible defaults" that are not 0.
Defaults ==
  {<<Input(1), 100>>, <<Input(2), 214>>, <<Input(3), 360>>, <<Input(4), 52>>, <<Input(5), 215>>, <<Input(6), 221>>,
   <<Input(7), 68>>, <<Input(21), 1450>>, <<Input(22), 1390>>, <<Input(23), 45>>, <<Input(50), 650>>,
   <<Input(51), 120>>, <<Input(52), 115>>, <<Holding(1), 3>>, <<Holding(5), 215>>, <<Holding(8), 3>>}

DefaultOf(r) == {d[2] : d \in {e \in Defaults : e[1] = r}}

RegisterStore == [r \in StoreRegisters |-> IF DefaultOf(r) = {} THEN 0 ELSE CHOOSE v \in DefaultOf(r) : TRUE]

\* The registers a read asks for.
Asked(r) == {IF r.function = READ_HOLDING THEN "holding" ELSE "input"} \X Batch(r.address, r.value)

\* Mutant: one register less than the unit allows.
MutReadable(r) ==
  /\ r.function \in {READ_HOLDING, READ_INPUT}
  /\ r.value < MAX_REGISTERS_PER_READ
  /\ Asked(r) \subseteq StoreRegisters

Readable(r) ==
  /\ r.function \in {READ_HOLDING, READ_INPUT}
  /\ r.value <= MAX_REGISTERS_PER_READ
  /\ Asked(r) \subseteq StoreRegisters

Writable(r) == r.function = WRITE_SINGLE /\ Holding(r.address) \in StoreRegisters

\* The values of an answered read: "the wire address IS the 1-based register number".
Answer(r) ==
  LET table == IF r.function = READ_HOLDING THEN "holding" ELSE "input"
  IN  [i \in 1..r.value |-> store[<<table, r.address + i - 1>>]]

\* A request that is answered, not with an exception.
Understood(r) == Readable(r) \/ Writable(r)

\* Mutant: a write is stored whatever its address.
MutServed(r) ==
  IF r.function = WRITE_SINGLE THEN Updated(store, [x \in {Holding(r.address)} |-> r.value]) ELSE store

\* What serving a request leaves in the store.
Served(r) == IF Writable(r) THEN [store EXCEPT ![Holding(r.address)] = r.value] ELSE store

-----------------------------------------------------------------------------
(* The integration.                                                        *)

Reads(function, batches) == [i \in DOMAIN batches |-> Request(function, batches[i][1], batches[i][2])]

\* read_all: the input batches, the extension, the holding batches.
ReadAll(extension) ==
  Reads(READ_INPUT, INPUT_REGISTER_BATCHES \o SetToSeq(extension)) \o Reads(READ_HOLDING, HOLDING_REGISTER_BATCHES)

\* The holding batch that contains a register, which a confirmation reads.
BatchOf(a) ==
  LET i == CHOOSE i \in DOMAIN HOLDING_REGISTER_BATCHES :
             a \in Batch(HOLDING_REGISTER_BATCHES[i][1], HOLDING_REGISTER_BATCHES[i][2])
  IN  HOLDING_REGISTER_BATCHES[i]

Init ==
  /\ ServerInit
  /\ store = RegisterStore
  /\ op = "none" /\ requests = << >>
  /\ got = NoData /\ data = NoData
  /\ chosen = {}

Begins(what, asked) ==
  /\ op' = what
  /\ requests' = asked

PollBegins ==
  /\ op = "none"
  /\ Begins("poll", ReadAll(chosen))
  /\ UNCHANGED <<serverVars, store, got, data, chosen>>

\* A service call, of an entity that the first refresh has created.
WriteBegins(value) ==
  /\ op = "none" /\ data # NoData
  /\ Begins("write", <<Request(WRITE_SINGLE, value[1], value[2])>>)
  /\ UNCHANGED <<serverVars, store, got, data, chosen>>

Connects ==
  /\ op # "none"
  /\ Opens(Home)
  /\ UNCHANGED <<store, homeVars>>

\* The dict of _read_batch, {start + i: value}, merged into what was read before.
Received(r) ==
  LET values == Answer(r)
  IN  Updated(got, [x \in Asked(r) |-> values[x[2] - r.address + 1]])

Asks(last) ==
  /\ link[Home] = "served"
  /\ (Len(requests) = 1) = last
  /\ Readable(Head(requests))

ReadsOn ==
  /\ Asks(FALSE)
  /\ got' = Received(Head(requests))
  /\ requests' = Tail(requests)
  /\ UNCHANGED <<serverVars, store, op, data, chosen>>

\* Home leaves the connection, and goes on with another operation or none.
Leads(what, asked) == Begins(what, asked) /\ Closes(Home)

\* _async_update_data after the last answer to read_all: the first time it
\* chooses the extension by the version it has read, and reads it.
PollEnds ==
  LET all == Received(Head(requests)) IN
  /\ op = "poll" /\ Asks(TRUE)
  /\ IF chosen = {} /\ data = NoData /\ Extension(all[Input(3)]) # {}
     THEN /\ chosen' = Extension(all[Input(3)])
          /\ Leads("extend", Reads(READ_INPUT, SetToSeq(chosen')))
          /\ got' = all
          /\ UNCHANGED data
     ELSE /\ Leads("none", << >>)
          /\ data' = all
          /\ got' = NoData
          /\ UNCHANGED chosen
  /\ UNCHANGED store

ExtensionRead ==
  /\ op = "extend" /\ Asks(TRUE)
  /\ data' = Received(Head(requests))
  /\ got' = NoData
  /\ Leads("none", << >>)
  /\ UNCHANGED <<store, chosen>>

\* write_register is answered: the value is shown, and its batch read.
WriteAcked ==
  LET write == Head(requests) IN
  /\ op = "write" /\ link[Home] = "served"
  /\ Writable(write)
  /\ store' = Served(write)
  /\ data' = Updated(data, [r \in {Holding(write.address)} |-> write.value])
  /\ Leads("confirm", Reads(READ_HOLDING, <<BatchOf(write.address)>>))
  /\ UNCHANGED <<got, chosen>>

Confirmed ==
  /\ op = "confirm" /\ Asks(TRUE)
  /\ data' = Updated(data, Received(Head(requests)))
  /\ Leads("none", << >>)
  /\ UNCHANGED <<store, got, chosen>>

\* The server has closed the connection, or the request got an exception.  After
\* a failed extension read what read_all returned is the new data.
HomeFails ==
  /\ \/ link[Home] = "refused"
     \/ link[Home] = "served" /\ ~ Understood(Head(requests))
  /\ Leads("none", << >>)
  /\ data' = IF op = "extend" THEN got ELSE data
  /\ got' = NoData
  /\ UNCHANGED <<store, chosen>>

HomeStep == ReadsOn \/ PollEnds \/ ExtensionRead \/ WriteAcked \/ Confirmed \/ HomeFails

-----------------------------------------------------------------------------
(* Other clients, and the server.                                          *)

StrangerOpens(s) == Opens(s) /\ UNCHANGED <<store, homeVars>>

StrangerCloses(s) == link[s] # "none" /\ Closes(s) /\ UNCHANGED <<store, homeVars>>

StrangerAsks(s, r) ==
  /\ link[s] = "served"
  /\ store' = Served(r)
  /\ UNCHANGED <<serverVars, homeVars>>

Server(step) == step /\ UNCHANGED <<store, homeVars>>

Next ==
  \/ PollBegins \/ (\E value \in Values : WriteBegins(value)) \/ Connects \/ HomeStep
  \/ \E s \in Strangers :
       StrangerOpens(s) \/ StrangerCloses(s) \/ (\E r \in Foreign : StrangerAsks(s, r))
  \/ Server(Leaves) \/ Server(MeetsStray)
  \/ \E t \in Tasks : Server(Accepts(t)) \/ Server(Refuses(t))

\* The server goes on, the integration polls again and again, and its operations
\* end.  Nobody has to write, or to go away.
Fairness ==
  /\ WF_vars(PollBegins) /\ WF_vars(Connects) /\ WF_vars(HomeStep)
  /\ WF_vars(Server(Leaves)) /\ WF_vars(Server(MeetsStray))
  /\ \A t \in Tasks : WF_vars(Server(Accepts(t) \/ Refuses(t)))

Spec == Init /\ [][Next]_vars /\ Fairness

-----------------------------------------------------------------------------

\* Every request the integration sends is one the unit serves: no batch exceeds
\* "at most 20 registers per read", and none touches an address it lacks, with
\* the extension that the unit's own register version leads to.
NeverRejected == link[Home] = "served" => Understood(Head(requests))

\* What a poll, a write or a confirmation newly shows is what the unit holds at
\* that moment: read_all is up to eight requests, but nobody else is served
\* between them, and every value is shown for the address it was read from.
\* The holding registers of the very first refresh are as old as the extension
\* read is long.
ShownIsCurrent ==
  [][data' # data =>
       \A r \in DOMAIN data' :
         \/ data'[r] = store'[r]
         \/ op \in {"write", "confirm"} /\ r \in DOMAIN data /\ data'[r] = data[r]
         \/ op = "extend" /\ r[1] = "holding"]_vars

\* Once other clients stay away and nobody writes, every entity has a value: a
\* slot given back late, or an extension whose first read failed, only delays it.
Undisturbed == (\A s \in Strangers : link[s] = "none") /\ op \notin {"write", "confirm"}
EntitiesKnown == <>[]Undisturbed => <>(Described \subseteq DOMAIN data)
=============================================================================
