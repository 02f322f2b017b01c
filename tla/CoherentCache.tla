--------------------------- MODULE CoherentCache ---------------------------
(***************************************************************************)
(* What the entities may assume of the register values the integration     *)
(* shows: a cache of a device that changes on its own.  The cache only     *)
(* moves forward, shows nothing the device has not had, and is never       *)
(* behind a write that was acknowledged to the caller.  How the values get *)
(* there - polls, optimistic updates, confirmation reads - is left open.   *)
(***************************************************************************)
EXTENDS Naturals

CONSTANT Regs

VARIABLES
  device,   \* stamp of each register's content
  acked,    \* stamp of the latest acknowledged write of each register
  cache     \* stamp of the value shown, 0 while none is

cacheVars == <<device, acked, cache>>

Init ==
  /\ device = [r \in Regs |-> 1]
  /\ acked = [r \in Regs |-> 0]
  /\ cache = [r \in Regs |-> 0]

\* The device changes a register; nobody is told.
Drift(r) ==
  /\ device'[r] > device[r]
  /\ device' = [device EXCEPT ![r] = device'[r]]
  /\ UNCHANGED <<acked, cache>>

\* A write of r is acknowledged: the value is in the device and in the cache.
Write(r) ==
  /\ device'[r] > device[r]
  /\ device' = [device EXCEPT ![r] = device'[r]]
  /\ acked' = [acked EXCEPT ![r] = device'[r]]
  /\ cache' = [cache EXCEPT ![r] = device'[r]]

\* Some of the cache catches up with the device.
CatchUp ==
  /\ DOMAIN cache' = Regs
  /\ \A r \in Regs : cache[r] <= cache'[r] /\ cache'[r] <= device[r]
  /\ UNCHANGED <<device, acked>>

Next == CatchUp \/ \E r \in Regs : Drift(r) \/ Write(r)

Spec == Init /\ [][Next]_cacheVars
=============================================================================
