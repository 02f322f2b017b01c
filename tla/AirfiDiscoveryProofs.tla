------------------------ MODULE AirfiDiscoveryProofs ------------------------
(***************************************************************************)
(* Theorems about the shared announcement listener, for any set of config  *)
(* entries and any number of retry tasks.  The first part holds however    *)
(* the operations of different entries interleave.  The second says which  *)
(* steps alone can orphan a listener, strand a loaded entry, or leave a    *)
(* listener running for nobody.                                            *)
(***************************************************************************)
EXTENDS AirfiDiscovery, TLAPS

-----------------------------------------------------------------------------
(* What an action on the slot does, whichever task performs it.            *)

\* The end of a start leaves every variable but entry well-typed.
LEMMA StartEndsTyped ==
  ASSUME TypeOK, NEW s, StartEnds(s)
  PROVE  /\ slot' \in {"absent", "reserved", "listening"}
         /\ retry' \in BOOLEAN
         /\ starting' \in SUBSET (Entries \cup RetryTasks)
         /\ orphans' \in 0..MaxOrphans
<1>1. MaxOrphans \in Nat \ {0} BY DiscoveryAssumption
<1>2. CASE slot = "absent" BY <1>2 DEF StartEnds, TypeOK
<1>3. CASE slot # "absent"
  <2>1. slot' = "listening" /\ retry' = FALSE /\ starting' = starting \ {s}
    BY <1>3 DEF StartEnds
  <2>2. orphans' \in 0..MaxOrphans BY <1>1, <1>3 DEF StartEnds, TypeOK
  <2> QED BY <2>1, <2>2 DEF TypeOK
<1> QED BY <1>2, <1>3

\* Initially every variable has its type.
LEMMA TypeInit == Init => TypeOK
<1> SUFFICES ASSUME Init PROVE TypeOK OBVIOUS
<1>1. entry \in [Entries -> EntryStates] BY DEF Init, EntryStates
<1>2. orphans \in 0..MaxOrphans BY DiscoveryAssumption DEF Init
<1> QED BY <1>1, <1>2 DEF Init, TypeOK

\* Type correctness of the listener's lifecycle, whatever interleaves.
THEOREM TypeCorrect == Spec => []TypeOK
<1>1. Init => TypeOK BY TypeInit
<1>2. TypeOK /\ [Next]_vars => TypeOK'
  <2> SUFFICES ASSUME TypeOK, [Next]_vars PROVE TypeOK' OBVIOUS
  <2> USE DEF TypeOK
  <2>1. ASSUME NEW e \in Entries, NEW state \in EntryStates, Moves(e, state)
        PROVE  entry' \in [Entries -> EntryStates]
    BY <2>1 DEF Moves
  <2> popped' \in BOOLEAN /\ deserted' \in BOOLEAN
    BY DEF Next, vars, history, Add, Setup, Started, Refreshed, UnloadBegins, UnloadEnds, RetryCancelled,
           Remove, StopUnless, Stop, RetryFires, Retries, Spent, RetryStarted
  <2>2. ASSUME NEW R, StopUnless(R)
        PROVE  /\ slot' \in {"absent", "reserved", "listening"}
               /\ retry' \in BOOLEAN
               /\ starting' \in SUBSET (Entries \cup RetryTasks)
               /\ orphans' \in 0..MaxOrphans
    BY <2>2 DEF StopUnless, Stop
  <2>3. ASSUME NEW e \in Entries, Add(e) PROVE TypeOK'
    BY <2>3, <2>1 DEF Add, EntryStates
  <2>4. ASSUME NEW e \in Entries, Setup(e) PROVE TypeOK'
    <3>1. entry' \in [Entries -> EntryStates] BY <2>4, <2>1 DEF Setup, EntryStates
    <3> QED BY <3>1, <2>4 DEF Setup, Skips, Refused, StartFails, Begins
  <2>5. ASSUME NEW e \in Entries, Started(e) PROVE TypeOK'
    <3>1. entry' \in [Entries -> EntryStates] BY <2>5, <2>1 DEF Started, EntryStates
    <3> QED BY <3>1, <2>5, StartEndsTyped DEF Started
  <2>6. ASSUME NEW e \in Entries, Refreshed(e) PROVE TypeOK'
    BY <2>6, <2>1 DEF Refreshed, EntryStates
  <2>7. ASSUME NEW e \in Entries, UnloadBegins(e) PROVE TypeOK'
    BY <2>7, <2>1 DEF UnloadBegins, EntryStates
  <2>8. ASSUME NEW e \in Entries, UnloadEnds(e) PROVE TypeOK'
    <3>1. entry' \in [Entries -> EntryStates] BY <2>8, <2>1 DEF UnloadEnds, EntryStates
    <3> QED BY <3>1, <2>8, <2>2 DEF UnloadEnds
  <2>9. ASSUME NEW e \in Entries, RetryCancelled(e) PROVE TypeOK'
    BY <2>9, <2>1 DEF RetryCancelled, EntryStates
  <2>10. ASSUME NEW e \in Entries, Remove(e) PROVE TypeOK'
    <3>1. entry' \in [Entries -> EntryStates] BY <2>10, <2>1 DEF Remove, EntryStates
    <3> QED BY <3>1, <2>10, <2>2 DEF Remove
  <2>11. ASSUME NEW t \in RetryTasks, RetryFires(t) PROVE TypeOK'
    BY <2>11 DEF RetryFires, Retries, Spent, Skips, Refused, StartFails, Begins
  <2>12. ASSUME NEW t \in RetryTasks, RetryStarted(t) PROVE TypeOK'
    BY <2>12, StartEndsTyped DEF RetryStarted
  <2>13. CASE UNCHANGED vars BY <2>13 DEF vars
  <2> QED BY <2>3, <2>4, <2>5, <2>6, <2>7, <2>8, <2>9, <2>10, <2>11, <2>12, <2>13 DEF Next
<1> QED BY <1>1, <1>2, PTL DEF Spec

-----------------------------------------------------------------------------
(* However the operations interleave.                                      *)

\* A reserved slot has a start under way that will fill it: inductive as it is,
\* because the end of any start turns a reserved slot into a listening one.
THEOREM ReservationHasStarterHolds == Spec => []ReservationHasStarter
<1>1. Init => ReservationHasStarter BY DEF Init, ReservationHasStarter
<1>2. ReservationHasStarter /\ [Next]_vars => ReservationHasStarter'
  BY DEF ReservationHasStarter, Next, vars, Add, Setup, Started, Refreshed, UnloadBegins,
         UnloadEnds, RetryCancelled, Remove, RetryFires, Retries, Spent, RetryStarted, Skips, Refused,
         StartFails, Begins, StartEnds, StopUnless, Stop
<1> QED BY <1>1, <1>2, PTL DEF Spec

\* No retry is pending beside a running listener: whoever stores a listener
\* cancels the timer, and only a start that finds the slot empty sets one.
THEOREM NoRetryWhileListeningHolds == Spec => []NoRetryWhileListening
<1>1. Init => NoRetryWhileListening BY DEF Init, NoRetryWhileListening
<1>2. NoRetryWhileListening /\ [Next]_vars => NoRetryWhileListening'
  BY DEF NoRetryWhileListening, Next, vars, Add, Setup, Started, Refreshed, UnloadBegins,
         UnloadEnds, RetryCancelled, Remove, RetryFires, Retries, Spent, RetryStarted, Skips, Refused,
         StartFails, Begins, StartEnds, StopUnless, Stop
<1> QED BY <1>1, <1>2, PTL DEF Spec

\* Once the last entry is removed the slot is empty and no retry runs, and the
\* starts and timers still in flight bring neither back.
THEOREM NoEntriesNoDiscoveryHolds == Spec => []NoEntriesNoDiscovery
<1> DEFINE Gone == \A e \in Entries : entry[e] = "absent"
<1>1. Init => NoEntriesNoDiscovery BY DEF Init, NoEntriesNoDiscovery
<1>2. TypeOK /\ NoEntriesNoDiscovery /\ [Next]_vars => NoEntriesNoDiscovery'
  <2> SUFFICES ASSUME TypeOK, NoEntriesNoDiscovery, [Next]_vars, Gone'
               PROVE  slot' = "absent" /\ ~ retry'
    BY DEF NoEntriesNoDiscovery
  <2>1. ASSUME NEW e \in Entries, NEW state \in EntryStates, state # "absent", Moves(e, state)
        PROVE  FALSE
    BY <2>1 DEF Moves, TypeOK
  <2>2. ASSUME NEW e \in Entries,
               Add(e) \/ Setup(e) \/ Started(e) \/ Refreshed(e) \/ UnloadBegins(e)
                 \/ UnloadEnds(e) \/ RetryCancelled(e)
        PROVE  FALSE
    BY <2>1, <2>2 DEF Add, Setup, Started, Refreshed, UnloadBegins, UnloadEnds,
                      RetryCancelled, EntryStates
  <2>3. ASSUME NEW e \in Entries, Remove(e) PROVE slot' = "absent" /\ ~ retry'
    <3>1. \A f \in Entries \ {e} : entry[f] = "absent" BY <2>3 DEF Remove, Moves, TypeOK
    <3>2. {f \in Entries \ {e} : entry[f] # "absent"} = {} BY <3>1
    <3> QED BY <2>3, <3>2 DEF Remove, StopUnless, Stop
  <2>4. ASSUME entry' = entry PROVE slot = "absent" /\ ~ retry
    BY <2>4 DEF NoEntriesNoDiscovery
  <2>5. ASSUME NEW t \in RetryTasks, RetryFires(t) PROVE slot' = "absent" /\ ~ retry'
    BY <2>5, <2>4 DEF RetryFires, Retries, Spent, Loaded, Skips, Refused, StartFails, Begins, NoEntriesNoDiscovery
  <2>6. ASSUME NEW t \in RetryTasks, RetryStarted(t) PROVE slot' = "absent" /\ ~ retry'
    BY <2>6, <2>4 DEF RetryStarted, StartEnds
  <2>7. CASE UNCHANGED vars BY <2>7, <2>4 DEF vars
  <2> QED BY <2>2, <2>3, <2>5, <2>6, <2>7 DEF Next
<1> QED BY <1>1, <1>2, TypeCorrect, PTL DEF Spec

\* No step takes the listener away from an entry that is loaded: only a stop
\* does, and whoever stops has seen that no entry remains.
THEOREM ListenerKeptHolds == Spec => ListenerKept
<1>1. TypeOK /\ [Next]_vars => [slot = "listening" /\ slot' # "listening" => Loaded' = {}]_vars
  <2> SUFFICES ASSUME TypeOK, Next, slot = "listening", slot' # "listening" PROVE Loaded' = {}
    OBVIOUS
  <2>1. ASSUME NEW s, StartEnds(s) PROVE FALSE BY <2>1 DEF StartEnds
  <2>2. ASSUME NEW e \in Entries, UnloadEnds(e) PROVE Loaded' = {}
    <3>1. Loaded \ {e} = {} BY <2>2 DEF UnloadEnds, StopUnless
    <3> QED BY <2>2, <3>1 DEF UnloadEnds, Moves, Loaded, TypeOK
  <2>3. ASSUME NEW e \in Entries, Remove(e) PROVE Loaded' = {}
    <3>1. {f \in Entries \ {e} : entry[f] # "absent"} = {} BY <2>3 DEF Remove, StopUnless
    <3> QED BY <2>3, <3>1 DEF Remove, Moves, Loaded, TypeOK
  <2> QED BY <2>1, <2>2, <2>3 DEF Next, Add, Setup, Started, Refreshed, UnloadBegins,
             RetryCancelled, RetryFires, Retries, Spent, RetryStarted, Skips, Refused, StartFails, Begins
<1> QED BY <1>1, TypeCorrect, PTL DEF Spec, ListenerKept

-----------------------------------------------------------------------------
(* What alone can go wrong.                                                *)

\* No start under way has lost its reservation: there is one at most, the slot
\* is reserved for it, and no listener has been overwritten.
StartHoldsSlot ==
  /\ \A s, t \in starting : s = t
  /\ starting # {} => slot = "reserved"
  /\ NoOrphan

\* Steps that run no start and no stop.
LEMMA StartHoldsSlotKept ==
  ASSUME StartHoldsSlot, UNCHANGED <<slot, starting, orphans>>
  PROVE  StartHoldsSlot'
BY DEF StartHoldsSlot, NoOrphan

LEMMA StartHoldsSlotBegins ==
  ASSUME StartHoldsSlot, NEW s, Skips \/ Refused \/ Begins(s), orphans' = orphans
  PROVE  StartHoldsSlot'
BY DEF StartHoldsSlot, NoOrphan, Skips, Refused, StartFails, Begins

\* The end of a start that holds the slot stores the listener, and over none.
LEMMA StartHoldsSlotEnds ==
  ASSUME StartHoldsSlot, NEW s, StartEnds(s)
  PROVE  StartHoldsSlot'
<1>1. s \in starting /\ slot = "reserved" /\ starting \ {s} = {}
  BY DEF StartEnds, StartHoldsSlot
<1> QED BY <1>1 DEF StartEnds, StartHoldsSlot, NoOrphan

\* A stop takes the slot only while no start is under way.
LEMMA StartHoldsSlotStops ==
  ASSUME StartHoldsSlot, NEW R, StopUnless(R), ~ popped'
  PROVE  StartHoldsSlot'
BY DEF StartHoldsSlot, NoOrphan, StopUnless, Stop

\* Until discovery is stopped under a start, every start stores its listener in
\* the slot that it has reserved itself.
THEOREM StartHoldsSlotHolds == Spec => [](popped \/ StartHoldsSlot)
<1>1. Init => StartHoldsSlot BY DEF Init, StartHoldsSlot, NoOrphan
<1>2. StartHoldsSlot /\ ~ popped' /\ [Next]_vars => StartHoldsSlot'
  <2> SUFFICES ASSUME StartHoldsSlot, ~ popped', [Next]_vars PROVE StartHoldsSlot' OBVIOUS
  <2>1. ASSUME NEW e \in Entries, Add(e) \/ Refreshed(e) \/ UnloadBegins(e) \/ RetryCancelled(e)
        PROVE  StartHoldsSlot'
    BY <2>1, StartHoldsSlotKept DEF Add, Refreshed, UnloadBegins, RetryCancelled
  <2>2. ASSUME NEW e \in Entries, Setup(e) PROVE StartHoldsSlot'
    BY <2>2, StartHoldsSlotBegins DEF Setup
  <2>3. ASSUME NEW s \in Entries \cup RetryTasks, Started(s) \/ RetryStarted(s) PROVE StartHoldsSlot'
    BY <2>3, StartHoldsSlotEnds DEF Started, RetryStarted
  <2>4. ASSUME NEW e \in Entries, UnloadEnds(e) \/ Remove(e) PROVE StartHoldsSlot'
    BY <2>4, StartHoldsSlotStops DEF UnloadEnds, Remove
  <2>5. ASSUME NEW t \in RetryTasks, RetryFires(t) PROVE StartHoldsSlot'
    <3>1. CASE Spent BY <2>5, <3>1, StartHoldsSlotKept DEF RetryFires, Spent
    <3>2. CASE Retries(t) BY <2>5, <3>2, StartHoldsSlotBegins DEF RetryFires, Retries
    <3> QED BY <2>5, <3>1, <3>2 DEF RetryFires
  <2>6. CASE UNCHANGED vars BY <2>6, StartHoldsSlotKept DEF vars
  <2> QED BY <2>1, <2>2, <2>3, <2>4, <2>5, <2>6 DEF Next
<1>3. popped /\ [Next]_vars => popped'
  BY DEF Next, vars, history, Add, Setup, Started, Refreshed, UnloadBegins, UnloadEnds, RetryCancelled,
         Remove, StopUnless, Stop, RetryFires, RetryStarted
<1>4. (popped \/ StartHoldsSlot) /\ [Next]_vars => (popped \/ StartHoldsSlot)'
  BY <1>2, <1>3
<1> QED BY <1>1, <1>4, PTL DEF Spec

\* No listener runs that nothing can stop, until discovery is stopped while a
\* start is under way.
THEOREM OrphanNeedsPoppedStartHolds == Spec => []OrphanNeedsPoppedStart
<1>1. popped \/ StartHoldsSlot => OrphanNeedsPoppedStart
  BY DEF StartHoldsSlot, NoOrphan, OrphanNeedsPoppedStart
<1> QED BY <1>1, StartHoldsSlotHolds, PTL

\* Whoever relies on the listener, or will when it is set up, has one coming.
Served ==
  \A e \in Entries :
    /\ entry[e] = "starting" => slot # "absent"
    /\ entry[e] \in {"refreshing", "loaded"} => slot # "absent" \/ retry

\* Steps after which nobody new relies on it and nothing is given up.
LEMMA ServedKept ==
  ASSUME TypeOK, Served, NEW e \in Entries, NEW state, Moves(e, state),
         state = "loaded" => entry[e] = "refreshing",
         state \notin {"starting", "refreshing"}, UNCHANGED <<slot, retry>>
  PROVE  Served'
BY DEF Served, Moves, TypeOK

\* Until the listener or the last retry is given up while an entry is being set
\* up, everybody who relies on it is served, whatever else interleaves.
THEOREM ServedHolds == Spec => [](deserted \/ Served)
<1>1. Init => Served BY DEF Init, Served
<1>2. TypeOK /\ Served /\ ~ deserted' /\ [Next]_vars => Served'
  <2> SUFFICES ASSUME TypeOK, Served, ~ deserted', [Next]_vars PROVE Served' OBVIOUS
  <2>1. ASSUME NEW e \in Entries, NEW state, Moves(e, state)
        PROVE  entry'[e] = state /\ \A f \in Entries \ {e} : entry'[f] = entry[f]
    BY <2>1 DEF Moves, TypeOK
  <2>2. ASSUME NEW e \in Entries, Add(e) \/ Refreshed(e) \/ UnloadBegins(e) \/ RetryCancelled(e)
        PROVE  Served'
    BY <2>2, ServedKept DEF Add, Refreshed, UnloadBegins, RetryCancelled
  <2>3. ASSUME NEW e \in Entries, Setup(e) PROVE Served'
    <3>1. CASE Begins(e) /\ Moves(e, "starting")
      <4>1. slot' = "reserved" BY <3>1 DEF Begins
      <4> QED BY <4>1 DEF Served
    <3>2. CASE Skips /\ Moves(e, "refreshing") /\ UNCHANGED retry
      <4>1. slot' = slot /\ slot # "absent" BY <3>2 DEF Skips
      <4> QED BY <4>1 DEF Served
    <3>3. CASE Refused /\ Moves(e, "refreshing")
      <4>1. slot = "absent" /\ retry' = TRUE BY <3>3 DEF Refused, StartFails
      <4>2. entry'[e] = "refreshing" /\ \A f \in Entries \ {e} : entry'[f] = entry[f] BY <2>1, <3>3
      <4> QED BY <4>1, <4>2 DEF Served
    <3> QED BY <2>3, <3>1, <3>2, <3>3 DEF Setup
  <2>4. ASSUME NEW e \in Entries, Started(e) PROVE Served'
    <3>1. slot # "absent" BY <2>4 DEF Started, Served
    <3>2. slot' = "listening" BY <2>4, <3>1 DEF Started, StartEnds
    <3> QED BY <3>2 DEF Served
  <2>5. ASSUME NEW e \in Entries, UnloadEnds(e) PROVE Served'
    <3>1. entry'[e] \in {"idle", "failed"} /\ \A f \in Entries \ {e} : entry'[f] = entry[f]
      BY <2>1, <2>5 DEF UnloadEnds
    <3>2. CASE Loaded \ {e} # {}
      <4>1. UNCHANGED <<slot, retry>> BY <2>5, <3>2 DEF UnloadEnds, StopUnless
      <4> QED BY <3>1, <4>1 DEF Served
    <3>3. CASE Loaded \ {e} = {}
      <4>1. SettingUp = {} BY <2>5, <3>3 DEF UnloadEnds, StopUnless, Stop
      <4>2. \A f \in Entries \ {e} : entry[f] \notin {"starting", "refreshing", "loaded"}
        BY <3>3, <4>1 DEF SettingUp, Loaded
      <4> QED BY <3>1, <4>2 DEF Served
    <3> QED BY <3>2, <3>3
  <2>6. ASSUME NEW e \in Entries, Remove(e) PROVE Served'
    <3> DEFINE others == {f \in Entries \ {e} : entry[f] # "absent"}
    <3>1. entry'[e] = "absent" /\ \A f \in Entries \ {e} : entry'[f] = entry[f]
      BY <2>1, <2>6 DEF Remove
    <3>2. CASE others # {}
      <4>1. UNCHANGED <<slot, retry>> BY <2>6, <3>2 DEF Remove, StopUnless
      <4> QED BY <3>1, <4>1 DEF Served
    <3>3. CASE others = {}
      <4>1. \A f \in Entries \ {e} : entry[f] = "absent" BY <3>3
      <4> QED BY <3>1, <4>1 DEF Served
    <3> QED BY <3>2, <3>3
  <2>7. ASSUME NEW t \in RetryTasks, RetryFires(t) PROVE Served'
    <3>1. entry' = entry BY <2>7 DEF RetryFires
    <3>2. CASE Spent
      <4>1. slot' = slot /\ (slot # "absent" \/ SettingUp = {}) /\ Loaded = {} BY <3>2 DEF Spent
      <4> QED BY <3>1, <4>1 DEF Served, SettingUp, Loaded
    <3>3. CASE Retries(t)
      <4>1. slot' # "absent" \/ (slot' = slot /\ slot = "absent" /\ retry')
        BY <3>3 DEF Retries, Skips, Refused, StartFails, Begins
      <4> QED BY <3>1, <4>1 DEF Served
    <3> QED BY <2>7, <3>2, <3>3 DEF RetryFires
  <2>8. ASSUME NEW t \in RetryTasks, RetryStarted(t) PROVE Served'
    <3>1. entry' = entry /\ (slot' = "listening" \/ UNCHANGED <<slot, retry>>)
      BY <2>8 DEF RetryStarted, StartEnds
    <3> QED BY <3>1 DEF Served
  <2>9. CASE UNCHANGED vars BY <2>9 DEF vars, Served
  <2> QED BY <2>2, <2>3, <2>4, <2>5, <2>6, <2>7, <2>8, <2>9 DEF Next
<1>3. deserted /\ [Next]_vars => deserted'
  BY DEF Next, vars, history, Add, Setup, Started, Refreshed, UnloadBegins, UnloadEnds, RetryCancelled,
         Remove, StopUnless, Stop, RetryFires, Spent, RetryStarted
<1>4. TypeOK /\ (deserted \/ Served) /\ [Next]_vars => (deserted \/ Served)'
  BY <1>2, <1>3
<1> QED BY <1>1, <1>4, TypeCorrect, PTL DEF Spec

\* No loaded entry is stranded without a listener, a start or a retry, until the
\* listener or the last retry is given up while an entry is being set up.
THEOREM LoadedServedHolds == Spec => []LoadedServed
<1>1. deserted \/ Served => LoadedServed BY DEF Served, LoadedServed, Loaded
<1> QED BY <1>1, ServedHolds, PTL

-----------------------------------------------------------------------------
(* For whom the listener runs.                                             *)

InUse(state) == state \notin {"absent", "idle", "failed"}
Wanted == slot # "absent" \/ retry => \E e \in Entries : InUse(entry[e])

\* An entry that is being retried is disabled, reloaded or removed: Home
\* Assistant calls no hook that would stop the listener, but after a removal
\* that leaves no entry at all.
LeavesRetry == \E e \in Entries : entry[e] = "retry" /\ entry'[e] \in {"idle", "absent"}

LEMMA WantedStep == TypeOK /\ Wanted /\ [Next]_vars /\ [~ LeavesRetry]_vars => Wanted'
<1> SUFFICES ASSUME TypeOK, Wanted, [Next]_vars, [~ LeavesRetry]_vars PROVE Wanted' OBVIOUS
<1>1. ASSUME NEW e \in Entries, NEW state, Moves(e, state)
      PROVE  entry'[e] = state /\ \A f \in Entries \ {e} : entry'[f] = entry[f]
  BY <1>1 DEF Moves, TypeOK
<1>2. ASSUME NEW e \in Entries, NEW state, Moves(e, state), InUse(state)
      PROVE  Wanted'
  BY <1>1, <1>2 DEF Wanted
<1>3. ASSUME NEW e \in Entries, Setup(e) \/ Started(e) \/ Refreshed(e) \/ UnloadBegins(e)
      PROVE  Wanted'
  BY <1>2, <1>3 DEF InUse, Setup, Started, Refreshed, UnloadBegins
<1>4. ASSUME NEW e \in Entries, Add(e) PROVE Wanted'
  BY <1>1, <1>4 DEF Add, Wanted, InUse
<1>5. ASSUME NEW e \in Entries, RetryCancelled(e) PROVE Wanted'
  BY <1>1, <1>5 DEF RetryCancelled, LeavesRetry, vars
<1>6. ASSUME NEW e \in Entries, UnloadEnds(e) PROVE Wanted'
  <2>1. CASE Loaded \ {e} = {} BY <1>6, <2>1 DEF UnloadEnds, StopUnless, Stop, Wanted
  <2>2. CASE Loaded \ {e} # {}
    <3>1. PICK f \in Entries \ {e} : entry[f] = "loaded" BY <2>2 DEF Loaded
    <3>2. entry'[f] = "loaded" BY <1>1, <1>6, <3>1 DEF UnloadEnds
    <3> QED BY <3>2 DEF Wanted, InUse
  <2> QED BY <2>1, <2>2
<1>7. ASSUME NEW e \in Entries, Remove(e) PROVE Wanted'
  <2> DEFINE others == {f \in Entries \ {e} : entry[f] # "absent"}
  <2>1. entry'[e] = "absent" /\ \A f \in Entries \ {e} : entry'[f] = entry[f]
    BY <1>1, <1>7 DEF Remove
  <2>2. CASE others = {} BY <1>7, <2>2 DEF Remove, StopUnless, Stop, Wanted
  <2>3. CASE others # {}
    <3>1. UNCHANGED <<slot, retry>> BY <1>7, <2>3 DEF Remove, StopUnless
    <3>2. entry[e] # "retry" BY <2>1 DEF LeavesRetry, vars
    <3>3. ~ InUse(entry[e]) BY <1>7, <3>2 DEF Remove, InUse
    <3> QED BY <2>1, <3>1, <3>3 DEF Wanted
  <2> QED BY <2>2, <2>3
<1>8. ASSUME NEW t \in RetryTasks, RetryFires(t) PROVE Wanted'
  <2>1. entry' = entry /\ retry BY <1>8 DEF RetryFires
  <2> QED BY <2>1 DEF Wanted
<1>9. ASSUME NEW t \in RetryTasks, RetryStarted(t) PROVE Wanted'
  BY <1>9 DEF RetryStarted, StartEnds, Wanted
<1>10. CASE UNCHANGED vars BY <1>10 DEF vars, Wanted
<1> QED BY <1>3, <1>4, <1>5, <1>6, <1>7, <1>8, <1>9, <1>10 DEF Next

\* "Stop discovery when the last one unloads" is kept, and by every path through
\* unloads, failures and removals, unless an entry leaves SETUP_RETRY without
\* being set up again.
THEOREM WantedUnlessRetryLeft == Spec /\ [][~ LeavesRetry]_vars => []ListenerWanted
<1>1. Init => Wanted BY DEF Init, Wanted
<1>2. Wanted => ListenerWanted BY DEF Wanted, InUse, ListenerWanted
<1> QED BY <1>1, <1>2, WantedStep, TypeCorrect, PTL DEF Spec
=============================================================================
