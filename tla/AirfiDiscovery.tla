--------------------------- MODULE AirfiDiscovery ---------------------------
(***************************************************************************)
(* The announcement listener all config entries share (__init__.py): its   *)
(* slot and retry timer in hass.data, the tasks that start it, and the     *)
(* setups, unloads and removals of entries that start and stop it.  Home   *)
(* Assistant runs the operations of one entry one after the other, those   *)
(* of different entries, and the retry task, concurrently.  A step is what *)
(* one task does between two awaits.                                       *)
(*                                                                         *)
(* A start fails, if it does, before its first await: the socket calls of  *)
(* AirfiDiscoveryListener.async_start are synchronous, and creating the    *)
(* endpoint on the bound socket is the one await.                          *)
(***************************************************************************)
EXTENDS Naturals, FiniteSets

CONSTANTS
  Entries,     \* config entries of the domain
  RetryTasks,  \* retry tasks that may be in flight at once (a bound for TLC)
  MaxOrphans   \* bound: orphaned listeners that are told apart

ASSUME DiscoveryAssumption ==
  /\ Entries \cap RetryTasks = {}
  /\ MaxOrphans \in Nat \ {0}

VARIABLES
  entry,     \* state of each config entry
  slot,      \* data["discovery_listener"]: "absent", "reserved" (None) or "listening"
  retry,     \* data["discovery_retry"] holds a timer that runs
  starting,  \* the tasks that await async_start
  orphans,   \* running listeners that neither the slot nor a start refers to
  popped,    \* history: discovery was stopped while a start was under way
  deserted   \* history: a stop, or a retry that was spent, left entries being set up to nothing

history == <<popped, deserted>>
vars == <<entry, slot, retry, starting, orphans, history>>

\* "absent": not configured.  "idle": configured, not set up (new, disabled, or
\* between the halves of a reload).  "starting" and "refreshing": setting up,
\* awaiting the listener's start, then the first refresh and the platforms.
\* "retry": SETUP_RETRY.  "failed": FAILED_UNLOAD.
EntryStates == {"absent", "idle", "starting", "refreshing", "loaded", "retry", "unloading", "failed"}

\* Every variable keeps its type.
TypeOK ==
  /\ entry \in [Entries -> EntryStates]
  /\ slot \in {"absent", "reserved", "listening"}
  /\ retry \in BOOLEAN
  /\ starting \in SUBSET (Entries \cup RetryTasks)
  /\ orphans \in 0..MaxOrphans
  /\ popped \in BOOLEAN /\ deserted \in BOOLEAN

Init ==
  /\ entry \in [Entries -> {"absent", "idle"}]
  /\ slot = "absent"
  /\ retry = FALSE
  /\ starting = {}
  /\ orphans = 0
  /\ popped = FALSE /\ deserted = FALSE

Moves(e, state) == entry' = [entry EXCEPT ![e] = state]

Loaded == {e \in Entries : entry[e] = "loaded"}

SettingUp == {e \in Entries : entry[e] \in {"starting", "refreshing"}}

-----------------------------------------------------------------------------
(* Starting and stopping the listener.                                     *)

\* Mutant: the slot is not popped when the start fails.
MutStartFails == slot' = "reserved" /\ retry' = TRUE

\* Mutant: no retry is scheduled.
MutStartFailsForGood == UNCHANGED <<slot, retry>>

\* The reserved slot is popped again and the retry (re)scheduled.
StartFails == UNCHANGED slot /\ retry' = TRUE

\* Mutant: the slot is reserved without a look at it.
MutBegins(s) == slot' = (IF slot = "absent" THEN "reserved" ELSE slot) /\ starting' = starting \cup {s}

\* _async_ensure_discovery_listener up to its await, run by task s: the start
\* is skipped, fails at once, or is under way.
Skips == slot # "absent" /\ UNCHANGED <<slot, starting>>
Refused == slot = "absent" /\ StartFails /\ UNCHANGED starting
Begins(s) == slot = "absent" /\ slot' = "reserved" /\ starting' = starting \cup {s}

\* Mutant: a pending retry is left to run.
MutStartEndsRetry(s) ==
  /\ s \in starting
  /\ starting' = starting \ {s}
  /\ slot' = IF slot = "absent" THEN slot ELSE "listening"
  /\ UNCHANGED <<retry, orphans>>

\* Mutant: the slot gets the starter in place of the listener.
MutStartEndsStarter(s) ==
  /\ s \in starting
  /\ starting' = starting \ {s}
  /\ slot' = IF slot = "absent" THEN slot ELSE s
  /\ retry' = FALSE
  /\ UNCHANGED orphans

\* The rest of it.  The listener is stopped if the slot is gone, and stored in
\* it otherwise, whatever it holds.
StartEnds(s) ==
  /\ s \in starting
  /\ starting' = starting \ {s}
  /\ IF slot = "absent"
       THEN UNCHANGED <<slot, retry, orphans>>
       ELSE /\ slot' = "listening"
            /\ retry' = FALSE
            /\ orphans' = IF slot = "listening" /\ orphans < MaxOrphans THEN orphans + 1 ELSE orphans

\* Mutant: the timer is forgotten.
MutStop == slot' = "absent" /\ UNCHANGED <<retry, starting, orphans, history>>

\* _async_stop_discovery
Stop ==
  /\ slot' = "absent" /\ retry' = FALSE
  /\ popped' = (popped \/ starting # {})
  /\ deserted' = (deserted \/ SettingUp # {})
  /\ UNCHANGED <<starting, orphans>>

-----------------------------------------------------------------------------
(* The retry timer.                                                        *)

\* Mutant: a retry that fails is the last one.
MutRetries(t) == Loaded # {} /\ retry' = FALSE /\ (Skips \/ Begins(t) \/ UNCHANGED <<slot, starting>>)

\* The timer has run out and entries are loaded.
Retries(t) ==
  /\ Loaded # {}
  /\ Refused \/ (retry' = FALSE /\ (Skips \/ Begins(t)))

\* Or none is, and the retry is spent.
Spent ==
  /\ Loaded = {}
  /\ retry' = FALSE
  /\ deserted' = (deserted \/ (slot = "absent" /\ SettingUp # {}))
  /\ UNCHANGED <<slot, starting>>

RetryFires(t) ==
  /\ retry
  /\ t \notin starting
  /\ Spent \/ (Retries(t) /\ UNCHANGED deserted)
  /\ UNCHANGED <<entry, orphans, popped>>

RetryStarted(t) == StartEnds(t) /\ UNCHANGED <<entry, history>>

-----------------------------------------------------------------------------
(* The entries' lifecycle.                                                 *)

Add(e) ==
  /\ entry[e] = "absent"
  /\ Moves(e, "idle")
  /\ UNCHANGED <<slot, retry, starting, orphans, history>>

\* async_setup_entry, of a new, enabled or reloaded entry or by HA's retry.
Setup(e) ==
  /\ entry[e] \in {"idle", "retry"}
  /\ \/ Skips /\ Moves(e, "refreshing") /\ UNCHANGED retry
     \/ Refused /\ Moves(e, "refreshing")
     \/ Begins(e) /\ Moves(e, "starting") /\ UNCHANGED retry
  /\ UNCHANGED <<orphans, history>>

Started(e) ==
  /\ entry[e] = "starting"
  /\ StartEnds(e)
  /\ Moves(e, "refreshing")
  /\ UNCHANGED history

\* The first refresh succeeds and the platforms are set up, or HA will retry.
Refreshed(e) ==
  /\ entry[e] = "refreshing"
  /\ Moves(e, "loaded") \/ Moves(e, "retry")
  /\ UNCHANGED <<slot, retry, starting, orphans, history>>

UnloadBegins(e) ==
  /\ entry[e] = "loaded"
  /\ Moves(e, "unloading")
  /\ UNCHANGED <<slot, retry, starting, orphans, history>>

\* Mutant: discovery stops with any entry.
MutStopUnless(remaining) == Stop

StopUnless(remaining) ==
  IF remaining = {} THEN Stop ELSE UNCHANGED <<slot, retry, starting, orphans, history>>

\* async_unload_entry once the platforms are unloaded, or could not be.
UnloadEnds(e) ==
  /\ entry[e] = "unloading"
  /\ Moves(e, "idle") \/ Moves(e, "failed")
  /\ StopUnless(Loaded \ {e})

\* HA drops an entry in SETUP_RETRY back without calling async_unload_entry: it
\* is disabled, or about to be set up again.
RetryCancelled(e) ==
  /\ entry[e] = "retry"
  /\ Moves(e, "idle")
  /\ UNCHANGED <<slot, retry, starting, orphans, history>>

\* The entry leaves the registry and async_remove_entry runs.
Remove(e) ==
  /\ entry[e] \in {"idle", "retry", "failed"}
  /\ Moves(e, "absent")
  /\ StopUnless({f \in Entries \ {e} : entry[f] # "absent"})

-----------------------------------------------------------------------------

Next ==
  \/ \E e \in Entries : \/ Add(e) \/ Setup(e) \/ Started(e) \/ Refreshed(e)
                        \/ UnloadBegins(e) \/ UnloadEnds(e) \/ RetryCancelled(e) \/ Remove(e)
  \/ \E t \in RetryTasks : RetryFires(t) \/ RetryStarted(t)

\* A start that is tried again and again succeeds in the end.
BeginsSomewhere ==
  \/ \E e \in Entries : Setup(e) /\ e \in starting'
  \/ \E t \in RetryTasks : RetryFires(t) /\ t \in starting'

\* Awaits return, and timers run out.
Fairness ==
  /\ \A e \in Entries : WF_vars(Started(e)) /\ WF_vars(Refreshed(e)) /\ WF_vars(UnloadEnds(e))
  /\ \A t \in RetryTasks : WF_vars(RetryStarted(t)) /\ WF_vars(RetryFires(t))
  /\ SF_vars(BeginsSomewhere)

Spec == Init /\ [][Next]_vars
FairSpec == Spec /\ Fairness

-----------------------------------------------------------------------------
(* Properties that hold however the operations interleave.                 *)

\* A reserved slot has a start under way that will fill it.  One that nobody
\* fills would turn every later start away: rediscovery would be dead until
\* the last entry unloads.
ReservationHasStarter == slot = "reserved" => starting # {}

\* No retry is pending beside a running listener: it would outlive the stop
\* that pops only what it finds.
NoRetryWhileListening == slot = "listening" => ~ retry

\* "Always calls this hook - without it the discovery listener started before
\* the failing first refresh would leak": with the last entry removed the slot
\* is empty and no retry runs, and no start under way brings either back.
NoEntriesNoDiscovery == (\A e \in Entries : entry[e] = "absent") => slot = "absent" /\ ~ retry

\* No step takes the listener away from an entry that is loaded.
ListenerKept == [][slot = "listening" /\ slot' # "listening" => Loaded' = {}]_vars

\* A loaded entry for which a listener runs, is being started or will be tried
\* again ends up with the listener running, or does not stay loaded.
LoadedHeard ==
  \A e \in Entries :
    entry[e] = "loaded" /\ (slot # "absent" \/ retry) ~> (slot = "listening" \/ entry[e] # "loaded")

(* What can go wrong, and what alone makes it.                             *)

\* A loaded entry is stranded, without listener, start or retry, only if the
\* listener or the last retry was given up while an entry was being set up.
LoadedServed == Loaded # {} => slot # "absent" \/ retry \/ deserted

\* A listener runs that nothing can stop only if discovery was stopped while a
\* start was under way, which the start cannot tell once the slot is taken again.
OrphanNeedsPoppedStart == orphans = 0 \/ popped

(* What the comments say more than the code does.                          *)

\* "The popped slot is the only reliable signal" of a listener that "would never
\* be stopped": every listener that runs is in the slot, or about to be.
NoOrphan == orphans = 0

\* "Stop discovery when the last one unloads": no listener runs for nobody.
ListenerWanted ==
  slot = "listening" => \E e \in Entries : entry[e] \notin {"absent", "idle", "failed"}
=============================================================================
