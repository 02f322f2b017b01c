---------------------------- MODULE AirfiServer ----------------------------
(***************************************************************************)
(* The Modbus server of one unit and the connections to it: one client at  *)
(* a time, and a connection that arrives while the slot is taken is closed *)
(* at once (tools/simulator.py, which behaves "like real hardware").       *)
(*                                                                         *)
(* A task of the integration has at most one connection, and leaves it     *)
(* with close(), which does not wait for the unit: the slot stays taken by *)
(* somebody who is gone until the server reads the end of the stream.      *)
(***************************************************************************)
EXTENDS Naturals

CONSTANTS
  Tasks,    \* whoever connects
  None,     \* the slot is free
  Gone,     \* the slot is held by a connection its client has closed
  MaxStray  \* bound: closed connections the server has not accepted yet

ASSUME ServerAssumption ==
  /\ None \notin Tasks /\ Gone \notin Tasks /\ None # Gone
  /\ MaxStray \in Nat

VARIABLES
  link,    \* each task's connection: "none", "syn" (not accepted yet), "served", "refused"
  active,  \* _active_client
  stray    \* connections closed by their clients before the server accepted them

serverVars == <<link, active, stray>>

ServerTypeOK ==
  /\ link \in [Tasks -> {"none", "syn", "served", "refused"}]
  /\ active \in Tasks \cup {None, Gone}
  /\ stray \in Nat

ServerInit ==
  /\ link = [t \in Tasks |-> "none"]
  /\ active = None
  /\ stray = 0

-----------------------------------------------------------------------------
(* The client's side of a connection.                                      *)

Opens(t) ==
  /\ link[t] = "none"
  /\ link' = [link EXCEPT ![t] = "syn"]
  /\ UNCHANGED <<active, stray>>

\* close(): a connection the server has not accepted may still reach it.
Closes(t) ==
  /\ link' = [link EXCEPT ![t] = "none"]
  /\ active' = IF active = t THEN Gone ELSE active
  /\ stray' = stray \/ (link[t] = "syn" /\ stray < MaxStray /\ stray' = stray + 1)

-----------------------------------------------------------------------------
(* ModbusServer.handle                                                     *)

\* Mutant: the slot is taken without a look at who has it.
MutAccepts(t) ==
  /\ link[t] = "syn"
  /\ active' = t
  /\ link' = [link EXCEPT ![t] = "served"]
  /\ UNCHANGED stray

Accepts(t) ==
  /\ link[t] = "syn"
  /\ active = None
  /\ active' = t
  /\ link' = [link EXCEPT ![t] = "served"]
  /\ UNCHANGED stray

Refuses(t) ==
  /\ link[t] = "syn"
  /\ active # None
  /\ link' = [link EXCEPT ![t] = "refused"]
  /\ UNCHANGED <<active, stray>>

\* Mutant: the server accepts what nobody opened.
MutMeetsStray ==
  /\ stray' = stray - 1
  /\ active' = IF active = None THEN Gone ELSE active
  /\ UNCHANGED link

\* A connection that is closed already is accepted, or refused, all the same.
MeetsStray ==
  /\ stray > 0
  /\ stray' = stray - 1
  /\ active' = IF active = None THEN Gone ELSE active
  /\ UNCHANGED link

\* Mutant: the slot is not given back.
MutLeaves == active = Gone /\ UNCHANGED serverVars

\* The end of the stream ends the loop, and "finally" frees the slot.
Leaves ==
  /\ active = Gone
  /\ active' = None
  /\ UNCHANGED <<link, stray>>

-----------------------------------------------------------------------------

\* "One TCP client at a time": whoever is served has the slot, so that two are
\* never served at once, and a slot held by somebody present is in use.
SlotMatches == \A t \in Tasks : (link[t] = "served") <=> (active = t)
=============================================================================
