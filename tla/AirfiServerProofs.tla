------------------------- MODULE AirfiServerProofs -------------------------
(***************************************************************************)
(* What every step of the server and of its clients preserves, for any     *)
(* number of clients; AirfiIntegration and AirfiSimulator build on it.     *)
(***************************************************************************)
EXTENDS AirfiServer, TLAPS

ServerInv == ServerTypeOK /\ SlotMatches

LEMMA ServerInvInit == ServerInit => ServerInv
BY ServerAssumption DEF ServerInit, ServerInv, ServerTypeOK, SlotMatches

\* Somebody connects, and is not served yet.
LEMMA OpensKeeps ==
  ASSUME ServerInv, NEW t \in Tasks, Opens(t)
  PROVE  ServerInv' /\ link' = [link EXCEPT ![t] = "syn"]
<1> USE DEF ServerInv, ServerTypeOK
<1>1. link' = [link EXCEPT ![t] = "syn"] /\ active' = active /\ stray' = stray /\ active # t
  BY DEF Opens, SlotMatches
<1>2. ServerTypeOK' BY <1>1
<1>3. SlotMatches' BY <1>1 DEF SlotMatches
<1> QED BY <1>1, <1>2, <1>3

\* What close() leaves: no connection, and a slot nobody present holds.
LEMMA ClosesKeeps ==
  ASSUME ServerInv, NEW t \in Tasks, Closes(t)
  PROVE  ServerInv' /\ link'[t] = "none" /\ \A u \in Tasks \ {t} : link'[u] = link[u]
<1> USE DEF ServerInv, ServerTypeOK
<1>1. link' = [link EXCEPT ![t] = "none"] /\ active' = IF active = t THEN Gone ELSE active
  BY DEF Closes
<1>2. stray' \in Nat BY DEF Closes
<1>3. Gone \notin Tasks BY ServerAssumption
<1>4. ServerTypeOK' BY <1>1, <1>2
<1>5. SlotMatches' BY <1>1, <1>3 DEF SlotMatches
<1> QED BY <1>1, <1>4, <1>5

\* The server's own steps.
ServerActs == Leaves \/ MeetsStray \/ \E t \in Tasks : Accepts(t) \/ Refuses(t)

\* They change no connection but one that waits, and serve it only if nobody is.
LEMMA ServerActsKeeps ==
  ASSUME ServerInv, ServerActs
  PROVE  /\ ServerInv'
         /\ \A t \in Tasks : \/ link'[t] = link[t]
                             \/ link[t] = "syn" /\ link'[t] = "refused"
                             \/ /\ link[t] = "syn" /\ link'[t] = "served"
                                /\ \A u \in Tasks : link[u] # "served"
<1> USE DEF ServerInv, ServerTypeOK
<1>1. None \notin Tasks /\ Gone \notin Tasks BY ServerAssumption
<1>2. CASE Leaves BY <1>1, <1>2 DEF Leaves, SlotMatches
<1>3. CASE MeetsStray
  <2>1. stray' \in Nat /\ link' = link BY <1>3 DEF MeetsStray
  <2>2. active' = IF active = None THEN Gone ELSE active BY <1>3 DEF MeetsStray
  <2> QED BY <1>1, <2>1, <2>2 DEF SlotMatches
<1>4. ASSUME NEW t \in Tasks, Accepts(t)
      PROVE  /\ ServerInv' /\ \A u \in Tasks : u # t => link'[u] = link[u]
             /\ link[t] = "syn" /\ link'[t] = "served" /\ \A u \in Tasks : link[u] # "served"
  BY <1>1, <1>4 DEF Accepts, SlotMatches
<1>5. ASSUME NEW t \in Tasks, Refuses(t)
      PROVE  /\ ServerInv' /\ \A u \in Tasks : u # t => link'[u] = link[u]
             /\ link[t] = "syn" /\ link'[t] = "refused"
  BY <1>5 DEF Refuses, SlotMatches
<1> QED BY <1>2, <1>3, <1>4, <1>5 DEF ServerActs
=============================================================================
