----------------------- MODULE AirfiIntegrationProofs -----------------------
(***************************************************************************)
(* Theorems about the clients of one entry, for any number of service      *)
(* calls in flight, options flows, clients and Modbus ids.  What a step    *)
(* does to the tasks and the server (TaskInv) is proved apart from what it *)
(* does to the entry (EntryInv): there are only five ways to do the former.*)
(***************************************************************************)
EXTENDS AirfiIntegration, AirfiServerProofs

\* Only a task at work has a connection, and it works with a client.
WorkNeeded == \A t \in Tasks : IF Busy(t) THEN client[t] \in Clients ELSE link[t] = "none"

\* On one client, at most one task has a connection: the lock.
ClientLock == \A t, u \in Tasks : Connected(t) /\ Connected(u) /\ client[t] = client[u] => t = u

TaskTypeOK ==
  /\ ServerTypeOK
  /\ job \in [Tasks -> {"none", "refresh", "extend", "write", "confirm", "probe"}]
  /\ client \in [Tasks -> Clients \cup {None}]
  /\ asks \in [Tasks -> Ids \cup {None}]

TaskInv == TaskTypeOK /\ WorkNeeded /\ ClientLock /\ SlotMatches

EntryTypeOK ==
  /\ unitId \in Ids
  /\ faults \in Nat /\ used \in Nat
  /\ state \in {"idle", "setup", "loaded", "retry", "unloading"}
  /\ running \in Clients \cup {None}
  /\ runningId \in Ids \cup {None}
  /\ option \in Ids \cup {None}
  /\ reload \in BOOLEAN

\* There is a coordinator from the start of a setup to its failure or the
\* unload, with an id.
Running ==
  IF state \in {"idle", "retry"} THEN running = None ELSE running \in Clients /\ runningId \in Ids

\* The entry's own refreshes are made only on the client of its coordinator, while
\* there is one.  Those that service calls request may outlive it.
PollOnCurrent ==
  Busy(Poller) => client[Poller] = running /\ state \notin {"idle", "retry"}

EntryInv == EntryTypeOK /\ Running /\ PollOnCurrent /\ StaleIdReloads

IInv == TaskInv /\ EntryInv

-----------------------------------------------------------------------------
(* The tasks and the server.                                               *)

\* A task that was idle begins an operation.
LEMMA TaskBegins ==
  ASSUME TaskInv, NEW t \in Tasks, ~ Busy(t), NEW c \in Clients, NEW id \in Ids,
         NEW what \in {"refresh", "write", "probe"}, Begins(t, what, c, id), UNCHANGED serverVars
  PROVE  TaskInv'
<1> USE DEF TaskInv, TaskTypeOK
<1>1. /\ job' = [job EXCEPT ![t] = what] /\ client' = [client EXCEPT ![t] = c]
      /\ asks' = [asks EXCEPT ![t] = id]
  BY DEF Begins
<1>2. link' = link /\ active' = active /\ stray' = stray BY DEF serverVars
<1>3. TaskTypeOK' BY <1>1, <1>2 DEF ServerTypeOK
<1>4. link[t] = "none" BY DEF WorkNeeded
<1>5. WorkNeeded' BY <1>1, <1>2, <1>4 DEF WorkNeeded, Busy
<1>6. ClientLock' BY <1>1, <1>2, <1>4 DEF ClientLock, Connected
<1>7. SlotMatches' BY <1>2 DEF SlotMatches
<1> QED BY <1>3, <1>5, <1>6, <1>7

\* A task ends an operation and goes on to its next on the same client.
LEMMA TaskContinues ==
  ASSUME TaskInv, NEW t \in Tasks, Busy(t), NEW what \in {"extend", "confirm"}, Continues(t, what)
  PROVE  TaskInv'
<1> USE DEF TaskInv, TaskTypeOK
<1>1. job' = [job EXCEPT ![t] = what] /\ client' = client /\ asks' = asks /\ Closes(t)
  BY DEF Continues
<1>2. /\ ServerTypeOK' /\ SlotMatches'
      /\ link'[t] = "none" /\ \A u \in Tasks \ {t} : link'[u] = link[u]
  BY <1>1, ClosesKeeps DEF ServerInv
<1>3. TaskTypeOK' BY <1>1, <1>2
<1>4. WorkNeeded' BY <1>1, <1>2 DEF WorkNeeded, Busy
<1>5. ClientLock' BY <1>1, <1>2 DEF ClientLock, Connected
<1> QED BY <1>2, <1>3, <1>4, <1>5

\* A task's operation is over, or cancelled.
LEMMA TaskEnds ==
  ASSUME TaskInv, NEW t \in Tasks, Ends(t)
  PROVE  TaskInv'
<1> USE DEF TaskInv, TaskTypeOK
<1>1. /\ job' = [job EXCEPT ![t] = "none"] /\ client' = [client EXCEPT ![t] = None]
      /\ asks' = [asks EXCEPT ![t] = None] /\ Closes(t)
  BY DEF Ends, Begins
<1>2. /\ ServerTypeOK' /\ SlotMatches'
      /\ link'[t] = "none" /\ \A u \in Tasks \ {t} : link'[u] = link[u]
  BY <1>1, ClosesKeeps DEF ServerInv
<1>3. TaskTypeOK' BY <1>1, <1>2
<1>4. WorkNeeded' BY <1>1, <1>2 DEF WorkNeeded, Busy
<1>5. ClientLock' BY <1>1, <1>2 DEF ClientLock, Connected
<1> QED BY <1>2, <1>3, <1>4, <1>5

\* A task connects under its client's lock.
LEMMA TaskConnects ==
  ASSUME TaskInv, NEW t \in Tasks, Connects(t)
  PROVE  TaskInv'
<1> USE DEF TaskInv, TaskTypeOK
<1>1. /\ job' = job /\ client' = client /\ asks' = asks /\ active' = active /\ stray' = stray
      /\ Busy(t) /\ link[t] = "none" /\ link' = [link EXCEPT ![t] = "syn"]
      /\ \A u \in Tasks : client[u] = client[t] => link[u] = "none"
  BY DEF Connects, Opens, taskVars
<1>2. TaskTypeOK' BY <1>1 DEF ServerTypeOK
<1>3. WorkNeeded' BY <1>1 DEF WorkNeeded, Busy
<1>4. ClientLock' BY <1>1 DEF ClientLock, Connected
<1>5. active # t BY <1>1 DEF SlotMatches
<1>6. SlotMatches' BY <1>1, <1>5 DEF SlotMatches, ServerTypeOK
<1> QED BY <1>2, <1>3, <1>4, <1>6

\* The server's steps: accepting, refusing, and noticing that somebody left.
ServerSteps ==
  Unit(Leaves) \/ Unit(MeetsStray) \/ \E t \in Tasks : Unit(Accepts(t)) \/ Unit(Refuses(t))

LEMMA TaskServer ==
  ASSUME TaskInv, ServerSteps
  PROVE  TaskInv' /\ UNCHANGED <<unitId, faults, used, entryVars, taskVars>>
<1> USE DEF TaskInv, TaskTypeOK
<1>1. UNCHANGED <<unitId, faults, used, entryVars, taskVars>> BY DEF ServerSteps, Unit
<1>2. job' = job /\ client' = client /\ asks' = asks BY <1>1 DEF taskVars
<1>3. Leaves \/ MeetsStray \/ \E t \in Tasks : Accepts(t) \/ Refuses(t) BY DEF ServerSteps, Unit
<1>4. ServerTypeOK' /\ SlotMatches' /\ \A t \in Tasks : link'[t] = "none" <=> link[t] = "none"
  <2>1. ServerInv /\ ServerActs BY <1>3 DEF ServerInv, ServerActs
  <2> QED BY <2>1, ServerActsKeeps DEF ServerInv
<1>5. TaskTypeOK' BY <1>2, <1>4
<1>6. WorkNeeded' BY <1>2, <1>4 DEF WorkNeeded, Busy
<1>7. ClientLock' BY <1>2, <1>4 DEF ClientLock, Connected
<1> QED BY <1>1, <1>4, <1>5, <1>6, <1>7

-----------------------------------------------------------------------------
(* The entry.                                                              *)

\* The poller is another task than the callers and the probers, the only others.
LEMMA TaskKinds ==
  /\ Poller \in Tasks
  /\ \A t \in Callers \cup Probers : t \in Tasks /\ t # Poller
  /\ \A t \in Tasks : t = Poller \/ t \in Callers \cup Probers
BY IntegrationAssumption

\* What the entry is to use is always an id.
LEMMA CurrentIdType == ASSUME EntryTypeOK PROVE CurrentId \in Ids /\ CurrentId = DeviceId
BY IntegrationAssumption DEF EntryTypeOK, CurrentId, DeviceId

\* A step that leaves the entry and the poller's operation alone.
LEMMA EntryKept ==
  ASSUME EntryInv, UNCHANGED entryVars, unitId' \in Ids, faults' \in Nat, used' \in Nat,
         Busy(Poller)' => Busy(Poller) /\ client'[Poller] = client[Poller]
  PROVE  EntryInv'
<1>1. /\ state' = state /\ running' = running /\ runningId' = runningId
      /\ option' = option /\ reload' = reload
  BY DEF entryVars
<1> QED BY <1>1 DEF EntryInv, EntryTypeOK, Running, PollOnCurrent, StaleIdReloads, CurrentId

\* Another task than the poller begins, continues or ends.
LEMMA OthersTask ==
  ASSUME TaskInv, NEW t \in Tasks \ {Poller},
         \E what, c, id : Begins(t, what, c, id) \/ (job' = [job EXCEPT ![t] = what] /\ client' = client)
  PROVE  job'[Poller] = job[Poller] /\ client'[Poller] = client[Poller]
<1>1. Poller \in Tasks BY TaskKinds
<1> QED BY <1>1 DEF Begins, TaskInv, TaskTypeOK

\* A transfer that is answered or fails changes at most the count of faults.
LEMMA TransferFaults ==
  ASSUME faults \in Nat, NEW t \in Tasks, Answered(t) \/ Failed(t)
  PROVE  faults' \in Nat
BY DEF Answered, Failed

LEMMA InvInit == Init => IInv
<1> SUFFICES ASSUME Init PROVE IInv OBVIOUS
<1> USE DEF Init, ServerInit
<1>1. TaskInv
  <2>1. TaskTypeOK BY DEF TaskTypeOK, ServerTypeOK
  <2>2. WorkNeeded BY DEF WorkNeeded, Busy
  <2>3. ClientLock BY DEF ClientLock, Connected
  <2>4. SlotMatches BY ServerAssumption DEF SlotMatches
  <2> QED BY <2>1, <2>2, <2>3, <2>4 DEF TaskInv
<1>2. EntryInv
  BY TaskKinds DEF EntryInv, EntryTypeOK, Running, PollOnCurrent, StaleIdReloads, Busy
<1> QED BY <1>1, <1>2 DEF IInv

\* A setup: the poller is idle, and gets a client that nobody uses.
LEMMA InvSetsUp == ASSUME IInv, SetsUp PROVE IInv'
<1> USE DEF IInv
<1>1. PICK c \in NewClient :
        running' = c /\ runningId' = DeviceId /\ Begins(Poller, "refresh", c, DeviceId)
  BY DEF SetsUp
<1>2. ~ Busy(Poller) BY DEF SetsUp, EntryInv, PollOnCurrent
<1>3. Poller \in Tasks /\ c \in Clients /\ DeviceId \in Ids
  BY TaskKinds, CurrentIdType DEF NewClient, Unused, EntryInv
<1>4. UNCHANGED serverVars BY DEF SetsUp
<1>5. TaskInv' BY <1>1, <1>2, <1>3, <1>4, TaskBegins
<1>6. client'[Poller] = c BY <1>1, <1>3 DEF Begins, TaskInv, TaskTypeOK
<1>7. state' = "setup" /\ UNCHANGED <<unitId, faults, used, option, reload>> BY DEF SetsUp
<1>8. CurrentId' = CurrentId BY <1>7 DEF CurrentId
<1>9. EntryInv'
  BY <1>1, <1>3, <1>6, <1>7, <1>8, CurrentIdType
  DEF EntryInv, EntryTypeOK, Running, PollOnCurrent, StaleIdReloads
<1> QED BY <1>5, <1>9

\* The steps of a first refresh or a poll.
LEMMA InvRefresh == ASSUME IInv, RefreshStep PROVE IInv'
<1> USE DEF IInv
<1>r. Poller \in Tasks BY TaskKinds
<1>b. Busy(Poller) BY DEF RefreshStep, SetupReads, SetupExtends, SetupFails, PollEnds, Busy
<1>f. faults' \in Nat /\ unitId' = unitId /\ used' = used /\ option' = option /\ reload' = reload
  BY <1>r, TransferFaults
  DEF RefreshStep, SetupReads, SetupExtends, SetupFails, PollEnds, entryVars, EntryInv, EntryTypeOK
<1>c. CurrentId' = CurrentId BY <1>f DEF CurrentId
<1>1. CASE SetupReads /\ Continues(Poller, "extend") /\ UNCHANGED state
  <2>1. TaskInv' BY <1>1, <1>r, <1>b, TaskContinues
  <2>2. client' = client /\ running' = running /\ runningId' = runningId /\ state' = state
    BY <1>1 DEF Continues, SetupReads
  <2>3. EntryInv'
    BY <1>b, <1>c, <1>f, <2>2 DEF EntryInv, EntryTypeOK, Running, PollOnCurrent, StaleIdReloads
  <2> QED BY <2>1, <2>3
<1>2. CASE Ends(Poller)
  <2>1. TaskInv' BY <1>2, <1>r, TaskEnds
  <2>2. ~ Busy(Poller)' BY <1>2, <1>r DEF Ends, Begins, Busy, TaskInv, TaskTypeOK
  <2>3. CASE state' = "loaded" /\ state = "setup" /\ UNCHANGED <<running, runningId>>
    <3>1. EntryTypeOK' BY <1>f, <2>3 DEF EntryInv, EntryTypeOK
    <3>2. Running' BY <2>3 DEF EntryInv, Running
    <3>3. PollOnCurrent' BY <2>2 DEF PollOnCurrent
    <3>4. state # "unloading" BY <2>3
    <3>5. StaleIdReloads' BY <1>c, <1>f, <2>3, <3>4 DEF EntryInv, StaleIdReloads
    <3> QED BY <2>1, <3>1, <3>2, <3>3, <3>5 DEF EntryInv
  <2>4. CASE SetupFails
    BY <1>c, <1>f, <2>1, <2>2, <2>4
    DEF SetupFails, EntryInv, EntryTypeOK, Running, PollOnCurrent, StaleIdReloads
  <2>5. CASE PollEnds
    <3>1. unitId' \in Ids /\ used' \in Nat BY <1>f DEF EntryInv, EntryTypeOK
    <3>2. UNCHANGED entryVars BY <2>5 DEF PollEnds
    <3> QED BY <1>f, <2>1, <2>2, <3>1, <3>2, EntryKept
  <2>6. SetupReads /\ Ends(Poller) =>
          \/ state' = "loaded" /\ state = "setup" /\ UNCHANGED <<running, runningId>>
          \/ Continues(Poller, "extend")
    BY DEF SetupReads
  <2>7. ~ Continues(Poller, "extend")
    BY <1>2, <1>r DEF Continues, Ends, Begins, TaskInv, TaskTypeOK
  <2> QED BY <1>2, <2>1, <2>3, <2>4, <2>5, <2>6, <2>7 DEF RefreshStep, SetupExtends
<1>3. \/ SetupReads /\ Continues(Poller, "extend") /\ UNCHANGED state
      \/ Ends(Poller)
  BY DEF RefreshStep, SetupReads, SetupExtends, SetupFails, PollEnds
<1> QED BY <1>1, <1>2, <1>3

\* A poll begins on the running coordinator's client.
LEMMA InvPollBegins == ASSUME IInv, PollBegins PROVE IInv'
<1> USE DEF IInv
<1>1. /\ Poller \in Tasks /\ ~ Busy(Poller) /\ state = "loaded"
      /\ Begins(Poller, "refresh", running, runningId) /\ UNCHANGED serverVars
      /\ UNCHANGED <<unitId, faults, used, entryVars>>
  BY TaskKinds DEF PollBegins
<1>2. running \in Clients /\ runningId \in Ids BY <1>1 DEF EntryInv, Running
<1>3. TaskInv' BY <1>1, <1>2, TaskBegins
<1>4. client'[Poller] = running BY <1>1 DEF Begins, TaskInv, TaskTypeOK
<1>5. EntryInv'
  BY <1>1, <1>4
  DEF entryVars, EntryInv, EntryTypeOK, Running, PollOnCurrent, StaleIdReloads, CurrentId
<1> QED BY <1>3, <1>5

\* Reloads, and the unload that cancels the poll.
LEMMA InvReload == ASSUME IInv, ReloadBegins \/ Unloads \/ ReloadScheduled PROVE IInv'
<1> USE DEF IInv
<1>r. Poller \in Tasks BY TaskKinds
<1>1. CASE ReloadBegins
  <2>1. UNCHANGED <<serverVars, taskVars>> BY <1>1 DEF ReloadBegins
  <2>2. TaskInv'
    BY <2>1 DEF serverVars, taskVars, TaskInv, TaskTypeOK, ServerTypeOK, WorkNeeded, ClientLock,
                Busy, Connected, SlotMatches
  <2>3. EntryInv'
    BY <1>1, <2>1 DEF ReloadBegins, taskVars, EntryInv, EntryTypeOK, Running, PollOnCurrent,
                      StaleIdReloads, CurrentId, Busy
  <2> QED BY <2>2, <2>3
<1>2. CASE Unloads
  <2>1. TaskInv' /\ ~ Busy(Poller)'
    <3>1. CASE Busy(Poller)
      <4>1. Ends(Poller) BY <1>2, <3>1 DEF Unloads
      <4> QED BY <4>1, <1>r, TaskEnds DEF Ends, Begins, Busy, TaskInv, TaskTypeOK
    <3>2. CASE ~ Busy(Poller)
      <4>1. UNCHANGED <<serverVars, taskVars>> BY <1>2, <3>2 DEF Unloads
      <4> QED BY <3>2, <4>1 DEF serverVars, taskVars, TaskInv, TaskTypeOK, ServerTypeOK, WorkNeeded,
                ClientLock, Busy, Connected, SlotMatches
    <3> QED BY <3>1, <3>2
  <2>2. EntryInv'
    BY <1>2, <2>1 DEF Unloads, EntryInv, EntryTypeOK, Running, PollOnCurrent, StaleIdReloads, CurrentId
  <2> QED BY <2>1, <2>2
<1>3. CASE ReloadScheduled
  <2>1. UNCHANGED <<serverVars, taskVars>> BY <1>3 DEF ReloadScheduled
  <2>2. TaskInv'
    BY <2>1 DEF serverVars, taskVars, TaskInv, TaskTypeOK, ServerTypeOK, WorkNeeded, ClientLock,
                Busy, Connected, SlotMatches
  <2>3. EntryInv'
    BY <1>3, <2>1 DEF ReloadScheduled, taskVars, EntryInv, EntryTypeOK, Running, PollOnCurrent,
                      StaleIdReloads, CurrentId, Busy
  <2> QED BY <2>2, <2>3
<1> QED BY <1>1, <1>2, <1>3

\* The steps of a service call, on whatever client it began with.
LEMMA InvCall ==
  ASSUME IInv, NEW c \in Callers,
         RequestBegins(c) \/ RequestEnds(c) \/ WriteBegins(c) \/ WriteStep(c) \/ CallCancelled(c)
  PROVE  IInv'
<1> USE DEF IInv
<1>c. c \in Tasks /\ c # Poller BY TaskKinds
<1>e. UNCHANGED <<unitId, used, entryVars>>
  BY DEF RequestBegins, RequestEnds, WriteBegins, WriteStep, CallCancelled
<1>f. faults' \in Nat
  BY <1>c, TransferFaults
  DEF RequestBegins, RequestEnds, WriteBegins, WriteStep, CallCancelled, EntryInv, EntryTypeOK
<1>1. TaskInv' /\ \E what, x, id : Begins(c, what, x, id) \/ (job' = [job EXCEPT ![c] = what] /\ client' = client)
  <2>1. CASE RequestBegins(c) \/ WriteBegins(c)
    <3>1. PICK what \in {"refresh", "write"} : Begins(c, what, running, runningId)
      BY <2>1 DEF RequestBegins, WriteBegins
    <3>2. ~ Busy(c) /\ UNCHANGED serverVars /\ running \in Clients /\ runningId \in Ids
      BY <2>1 DEF RequestBegins, WriteBegins, EntryInv, Running
    <3> QED BY <1>c, <3>1, <3>2, TaskBegins
  <2>2. CASE Ends(c)
    <3>1. Begins(c, "none", None, None) BY <2>2 DEF Ends
    <3> QED BY <1>c, <2>2, <3>1, TaskEnds
  <2>3. CASE Busy(c) /\ Continues(c, "confirm")
    <3>1. job' = [job EXCEPT ![c] = "confirm"] /\ client' = client BY <2>3 DEF Continues
    <3> QED BY <1>c, <2>3, <3>1, TaskContinues
  <2>4. \/ RequestBegins(c) \/ WriteBegins(c) \/ Ends(c)
        \/ Busy(c) /\ Continues(c, "confirm")
    BY DEF RequestEnds, WriteStep, CallCancelled, Busy
  <2> QED BY <2>1, <2>2, <2>3, <2>4
<1>2. job'[Poller] = job[Poller] /\ client'[Poller] = client[Poller]
  BY <1>1, <1>c, OthersTask
<1>3. EntryInv' BY <1>e, <1>f, <1>2, EntryKept DEF EntryInv, EntryTypeOK, Busy
<1> QED BY <1>1, <1>3

\* What is saved is the id, and a change of it schedules a reload.
LEMMA SavesEntry ==
  ASSUME EntryInv, NEW id \in Ids, Saves(id), UNCHANGED <<state, running, runningId, unitId>>,
         faults' \in Nat, used' \in Nat,
         Busy(Poller)' => Busy(Poller) /\ client'[Poller] = client[Poller]
  PROVE  EntryInv'
<1>1. option' = id /\ reload' \in BOOLEAN /\ (id # option => reload') /\ (reload => reload')
  <2>1. CASE id # option BY <2>1 DEF Saves
  <2>2. CASE id = option BY <2>2 DEF Saves, EntryInv, EntryTypeOK
  <2> QED BY <2>1, <2>2
<1>2. EntryTypeOK' BY <1>1 DEF EntryInv, EntryTypeOK
<1>3. Running' BY DEF EntryInv, Running
<1>4. PollOnCurrent' BY DEF EntryInv, PollOnCurrent
<1>5. StaleIdReloads'
  <2>1. CASE id # option BY <1>1, <2>1 DEF StaleIdReloads
  <2>2. CASE id = option
    <3>1. CurrentId' = CurrentId BY <1>1, <2>2 DEF CurrentId
    <3>2. running # None => runningId = CurrentId \/ reload \/ state = "unloading"
      BY DEF EntryInv, StaleIdReloads
    <3>3. CASE reload BY <1>1, <3>3 DEF StaleIdReloads
    <3>4. CASE ~ reload BY <3>1, <3>2, <3>4 DEF StaleIdReloads
    <3> QED BY <3>3, <3>4
  <2> QED BY <2>1, <2>2
<1> QED BY <1>2, <1>3, <1>4, <1>5 DEF EntryInv

\* The steps of an options flow.
LEMMA InvProbe ==
  ASSUME IInv, NEW o \in Probers,
         (\E id \in Ids : Submits(o, id)) \/ ProbeAnswered(o) \/ ProbeFailed(o)
  PROVE  IInv'
<1> USE DEF IInv
<1>o. o \in Tasks /\ o # Poller /\ o \in Tasks \ {Poller} BY TaskKinds
<1>1. ASSUME NEW id \in Ids, Submits(o, id) PROVE IInv'
  <2>1. /\ ~ Busy(o) /\ used' \in Nat
        /\ UNCHANGED <<serverVars, unitId, faults, state, running, runningId>>
    BY <1>1 DEF Submits, EntryInv, EntryTypeOK
  <2>2. CASE id = CurrentId /\ Saves(id) /\ UNCHANGED taskVars
    <3>1. TaskInv'
      BY <2>1, <2>2 DEF serverVars, taskVars, TaskInv, TaskTypeOK, ServerTypeOK, WorkNeeded, ClientLock,
                        Busy, Connected, SlotMatches
    <3>2. Busy(Poller)' => Busy(Poller) /\ client'[Poller] = client[Poller]
      BY <2>2 DEF taskVars, Busy
    <3>3. faults' \in Nat BY <2>1 DEF EntryInv, EntryTypeOK
    <3> QED BY <2>1, <2>2, <3>1, <3>2, <3>3, SavesEntry
  <2>3. CASE /\ \E c \in (IF state = "loaded" THEN {running} ELSE NewClient) : Begins(o, "probe", c, id)
             /\ UNCHANGED <<option, reload>>
    <3>1. PICK c \in (IF state = "loaded" THEN {running} ELSE NewClient) : Begins(o, "probe", c, id)
      BY <2>3
    <3>2. c \in Clients BY DEF EntryInv, Running, NewClient, Unused
    <3>3. TaskInv' BY <1>o, <2>1, <3>1, <3>2, TaskBegins
    <3>4. job'[Poller] = job[Poller] /\ client'[Poller] = client[Poller]
      BY <1>o, <3>1, OthersTask
    <3>5. EntryInv'
      BY <2>1, <2>3, <3>4, EntryKept DEF entryVars, EntryInv, EntryTypeOK, Busy
    <3> QED BY <3>3, <3>5
  <2> QED BY <1>1, <2>2, <2>3 DEF Submits
<1>2. CASE ProbeAnswered(o) \/ ProbeFailed(o)
  <2>1. Ends(o) /\ UNCHANGED <<unitId, used, state, running, runningId>>
    BY <1>2 DEF ProbeAnswered, ProbeFailed, entryVars
  <2>2. Begins(o, "none", None, None) BY <2>1 DEF Ends
  <2>3. TaskInv' BY <1>o, <2>1, TaskEnds
  <2>4. job'[Poller] = job[Poller] /\ client'[Poller] = client[Poller]
    BY <1>o, <2>2, OthersTask
  <2>5. faults' \in Nat /\ unitId' \in Ids /\ used' \in Nat
    BY <1>2, <1>o, <2>1, TransferFaults DEF ProbeAnswered, ProbeFailed, EntryInv, EntryTypeOK
  <2>6. CASE ProbeAnswered(o)
    <3>1. asks[o] \in Ids /\ Saves(asks[o]) BY <2>6 DEF ProbeAnswered, Answered, EntryInv, EntryTypeOK
    <3>2. EntryInv' BY <2>1, <2>4, <2>5, <3>1, SavesEntry DEF Busy
    <3> QED BY <2>3, <3>2
  <2>7. CASE ProbeFailed(o)
    <3>1. UNCHANGED entryVars BY <2>7 DEF ProbeFailed
    <3>2. EntryInv' BY <2>4, <2>5, <3>1, EntryKept DEF Busy
    <3> QED BY <2>3, <3>2
  <2> QED BY <1>2, <2>6, <2>7
<1> QED BY <1>1, <1>2

\* Every step preserves the invariant.
LEMMA InvStep == ASSUME IInv, [Next]_vars PROVE IInv'
<1> USE DEF IInv
<1>1. CASE ServerSteps \/ \E t \in Tasks : Connects(t)
  <2>1. TaskInv' /\ UNCHANGED <<unitId, faults, used, entryVars, taskVars>>
    BY <1>1, TaskServer, TaskConnects DEF Connects
  <2>2. faults' \in Nat /\ used' \in Nat /\ unitId' \in Ids BY <2>1 DEF EntryInv, EntryTypeOK
  <2>3. Busy(Poller)' => Busy(Poller) /\ client'[Poller] = client[Poller]
    BY <2>1 DEF taskVars, Busy
  <2> QED BY <2>1, <2>2, <2>3, EntryKept
<1>2. CASE \E id \in Ids : UnitIdChanges(id)
  <2>1. /\ UNCHANGED <<serverVars, used, entryVars, taskVars>>
        /\ faults' \in Nat /\ used' \in Nat /\ unitId' \in Ids
    BY <1>2 DEF UnitIdChanges, EntryInv, EntryTypeOK
  <2>2. TaskInv'
    BY <2>1 DEF serverVars, taskVars, TaskInv, TaskTypeOK, ServerTypeOK, WorkNeeded, ClientLock,
                Busy, Connected, SlotMatches
  <2>3. Busy(Poller)' => Busy(Poller) /\ client'[Poller] = client[Poller]
    BY <2>1 DEF taskVars, Busy
  <2> QED BY <2>1, <2>2, <2>3, EntryKept
<1>3. CASE UNCHANGED vars
  <2>1. /\ UNCHANGED <<serverVars, entryVars, taskVars>>
        /\ faults' \in Nat /\ used' \in Nat /\ unitId' \in Ids
    BY <1>3 DEF vars, EntryInv, EntryTypeOK
  <2>2. TaskInv'
    BY <2>1 DEF serverVars, taskVars, TaskInv, TaskTypeOK, ServerTypeOK, WorkNeeded, ClientLock,
                Busy, Connected, SlotMatches
  <2>3. Busy(Poller)' => Busy(Poller) /\ client'[Poller] = client[Poller]
    BY <2>1 DEF taskVars, Busy
  <2> QED BY <2>1, <2>2, <2>3, EntryKept
<1>4. \/ ServerSteps \/ (\E t \in Tasks : Connects(t)) \/ (\E id \in Ids : UnitIdChanges(id))
      \/ SetsUp \/ PollBegins \/ RefreshStep \/ ReloadBegins \/ Unloads \/ ReloadScheduled
      \/ \E c \in Callers :
           RequestBegins(c) \/ RequestEnds(c) \/ WriteBegins(c) \/ WriteStep(c) \/ CallCancelled(c)
      \/ \E o \in Probers : (\E id \in Ids : Submits(o, id)) \/ ProbeAnswered(o) \/ ProbeFailed(o)
      \/ UNCHANGED vars
  BY DEF Next, ServerSteps
<1> QED
  BY <1>1, <1>2, <1>3, <1>4, InvSetsUp, InvPollBegins, InvRefresh, InvReload, InvCall, InvProbe

-----------------------------------------------------------------------------
(* Theorems.                                                               *)

\* The inductive invariant holds of every behaviour.
THEOREM Invariant == Spec => []IInv
<1>1. IInv /\ [Next]_vars => IInv' BY InvStep
<1> QED BY InvInit, <1>1, PTL DEF Spec

\* Every variable of the server, the entry and the tasks keeps its type.
THEOREM TypeCorrect == Spec => []TypeOK
<1>1. IInv => TypeOK BY DEF IInv, TaskInv, TaskTypeOK, EntryInv, EntryTypeOK, TypeOK
<1> QED BY Invariant, <1>1, PTL

\* One TCP client at a time (tools/simulator.py): the unit never serves two.
THEOREM SlotMatchesHolds == Spec => []SlotMatches
<1>1. IInv => SlotMatches BY DEF IInv, TaskInv
<1> QED BY Invariant, <1>1, PTL

\* Connections meet only through a service call's write or requested refresh, or
\* an options flow's probe, on a client that is not, or no longer, the
\* coordinator's: there are two clients, and the poller is on the coordinator's.
THEOREM OnlyOutlivedMeetHolds == Spec => []OnlyOutlivedMeet
<1>1. ASSUME IInv PROVE OnlyOutlivedMeet
  <2> SUFFICES ASSUME NEW t \in Tasks, NEW u \in Tasks, Connected(t), Connected(u), t # u
               PROVE  \E x \in {t, u} : x \in Callers \cup Probers /\ client[x] # running
    BY DEF OnlyOutlivedMeet
  <2>1. client[t] # client[u] BY <1>1 DEF IInv, TaskInv, ClientLock
  <2>2. PICK x \in {t, u} : client[x] # running BY <2>1
  <2>3. Busy(x) BY <1>1 DEF IInv, TaskInv, WorkNeeded, Connected
  <2>4. x # Poller BY <1>1, <2>2, <2>3 DEF IInv, EntryInv, PollOnCurrent
  <2> QED BY <2>2, <2>4, TaskKinds
<1> QED BY Invariant, <1>1, PTL

\* A coordinator with another id than the entry's is about to be replaced.
THEOREM StaleIdReloadsHolds == Spec => []StaleIdReloads
<1>1. IInv => StaleIdReloads BY DEF IInv, EntryInv
<1> QED BY Invariant, <1>1, PTL

\* The options flow saves only an id the unit has just answered to
\* (config_flow.py: probe before saving).
THEOREM SavedIdAnsweredHolds == Spec => SavedIdAnswered
<1>1. ASSUME IInv, [Next]_vars, DeviceId' # DeviceId PROVE DeviceId' = unitId
  <2>0. CurrentId = DeviceId BY DEF CurrentId, DeviceId
  <2>1. option' # option BY <1>1 DEF DeviceId
  <2>2. ASSUME NEW o \in Probers, ProbeAnswered(o) PROVE DeviceId' = unitId
    <3>1. option' = unitId BY <2>2 DEF ProbeAnswered, Answered, Saves
    <3>2. unitId \in Ids BY <1>1 DEF IInv, EntryInv, EntryTypeOK
    <3> QED BY <3>1, <3>2, IntegrationAssumption DEF DeviceId
  <2>3. ASSUME NEW o \in Probers, NEW id \in Ids, Submits(o, id) PROVE FALSE
    <3>1. option' = id /\ id = CurrentId BY <2>1, <2>3 DEF Submits, Saves
    <3>2. DeviceId' = DeviceId BY <2>0, <3>1, IntegrationAssumption DEF DeviceId
    <3> QED BY <1>1, <3>2
  <2>4. \E o \in Probers : ProbeAnswered(o) \/ \E id \in Ids : Submits(o, id)
    BY <1>1, <2>1
    DEF Next, vars, entryVars, Unit, Connects, SetsUp, PollBegins, RefreshStep, SetupReads, SetupExtends,
        SetupFails, PollEnds, ReloadBegins, Unloads, ReloadScheduled, RequestBegins, RequestEnds,
        WriteBegins, WriteStep, CallCancelled, ProbeFailed, UnitIdChanges
  <2> QED BY <2>2, <2>3, <2>4
<1>2. IInv /\ [Next]_vars => (DeviceId' # DeviceId => DeviceId' = unitId) \/ UNCHANGED vars
  BY <1>1
<1> QED BY Invariant, <1>2, PTL DEF Spec, SavedIdAnswered
=============================================================================
