------------------------- MODULE AirfiEntriesProofs -------------------------
(***************************************************************************)
(* Theorems about the config entries, for any number of units, addresses,  *)
(* entries and flows.  Unique ids stay unique because a manual flow that   *)
(* waits for its validation holds an id that no entry has and no other     *)
(* flow that waits has: Reserved is what makes UniqueIds inductive.        *)
(***************************************************************************)
EXTENDS AirfiEntries, TLAPS

\* A flow that waits for its validation has an id nobody else has.
Reserved ==
  \A f \in Flows : flow[f].step = "validating" =>
    /\ flow[f].uid \in Endpoints
    /\ \A e \in Configured : entries[e].uid # flow[f].uid
    /\ \A g \in Flows \ {f} : flow[g].uid # flow[f].uid

\* An entry without a serial number has an endpoint for its id.
ManualIds == \A e \in Configured : entries[e].serial = None => entries[e].uid \in Endpoints

\* Only a configured entry has a client.
Clients == \A e \in Entries \ Configured : running[e] = None

IInv ==
  /\ TypeOK
  /\ UniqueIds /\ IdentityOnDefaultPort /\ ManualIds /\ Reserved
  /\ Clients /\ StaleClientReloads

-----------------------------------------------------------------------------
(* What the parts of the actions do.                                       *)

\* A flow's record is replaced by a well-formed one.
LEMMA ToType ==
  ASSUME TypeOK, NEW f \in Flows, NEW step \in FlowSteps,
         NEW found \in [Devices -> Hosts \cup {None}], NEW uid \in Endpoints \cup {None},
         To(f, step, found, uid)
  PROVE  /\ flow' \in [Flows -> Flow]
         /\ flow'[f] = [step |-> step, found |-> found, uid |-> uid]
         /\ \A g \in Flows \ {f} : flow'[g] = flow[g]
  BY DEF To, TypeOK, Flow

\* What a step of a flow finds.
LEMMA ToFinds ==
  ASSUME TypeOK, NEW f \in Flows, NEW step, NEW found, NEW uid, To(f, step, found, uid)
  PROVE  flow'[f].found = found /\ \A g \in Flows \ {f} : flow'[g] = flow[g]
  BY DEF To, TypeOK

\* A flow that ends keeps nothing.
LEMMA EndsType ==
  ASSUME TypeOK, NEW f \in Flows, Ends(f)
  PROVE  /\ flow' \in [Flows -> Flow]
         /\ flow'[f].step = "none" /\ flow'[f].uid = None
         /\ \A g \in Flows \ {f} : flow'[g] = flow[g]
<1>1. NoFlow \in Flow BY DEF NoFlow, Flow, Nobody, FlowSteps
<1> QED BY <1>1 DEF Ends, TypeOK, NoFlow

\* A new entry beside the old ones.
LEMMA CreateType ==
  ASSUME TypeOK, NEW e \in Entries, NEW uid \in UniqueIdsOf, NEW host \in Hosts,
         NEW port \in Ports, NEW serial \in Devices \cup {None}, Create(e, uid, host, port, serial)
  PROVE  /\ Configured' = Configured \cup {e} /\ e \notin Configured
         /\ Configured' \subseteq Entries
         /\ entries' \in [Configured' -> Entry]
         /\ entries'[e] = [uid |-> uid, host |-> host, port |-> port, serial |-> serial]
         /\ \A x \in Configured : entries'[x] = entries[x]
<1> DEFINE new == [uid |-> uid, host |-> host, port |-> port, serial |-> serial]
<1>1. e \notin Configured /\ entries' = [x \in Configured \cup {e} |-> IF x = e THEN new ELSE entries[x]]
  BY DEF Create
<1>2. Configured' = Configured \cup {e} BY <1>1 DEF Configured
<1>3. new \in Entry BY DEF Entry
<1>4. \A x \in Configured : entries[x] \in Entry BY DEF TypeOK
<1>5. entries' \in [Configured' -> Entry] BY <1>1, <1>2, <1>3, <1>4
<1> QED BY <1>1, <1>2, <1>5 DEF TypeOK

\* What an announcement does to the one entry it changes.
LEMMA HearChanges ==
  ASSUME TypeOK, NEW p \in air, Hear(p)
  PROVE  \E e \in Configured :
           /\ Configured' = Configured
           /\ \A x \in Configured \ {e} : entries'[x] = entries[x]
           /\ \/ /\ entries[e].uid = p.serial
                 /\ entries'[e] = [entries[e] EXCEPT !.host = p.ip]
              \/ /\ \A x \in Configured : entries[x].uid # p.serial
                 /\ entries[e].serial = None /\ entries[e].port = DefaultPort
                 /\ entries'[e] = [entries[e] EXCEPT !.uid = p.serial, !.serial = p.serial]
           /\ entries' \in [Configured' -> Entry]
           /\ reload' = reload \cup {e}
<1>1. p.serial \in Devices /\ p.ip \in Hosts BY DEF TypeOK, Packet
<1>2. ASSUME NEW e \in Identified(p), entries' = [entries EXCEPT ![e].host = p.ip], reload' = reload \cup {e}
      PROVE  /\ e \in Configured /\ entries[e].uid = p.serial
             /\ Configured' = Configured
             /\ \A x \in Configured \ {e} : entries'[x] = entries[x]
             /\ entries'[e] = [entries[e] EXCEPT !.host = p.ip]
             /\ entries' \in [Configured' -> Entry]
  <2>1. e \in Configured /\ entries[e].uid = p.serial BY <1>2 DEF Identified
  <2>2. Configured' = Configured BY <1>2 DEF Configured, TypeOK
  <2>3. entries[e] \in Entry BY <2>1 DEF TypeOK
  <2>4. [entries[e] EXCEPT !.host = p.ip] \in Entry BY <1>1, <2>3 DEF Entry
  <2> QED BY <1>2, <2>1, <2>2, <2>4 DEF TypeOK
<1>3. ASSUME NEW e \in Manual(p), reload' = reload \cup {e},
             entries' = [entries EXCEPT ![e].uid = p.serial, ![e].serial = p.serial]
      PROVE  /\ e \in Configured /\ entries[e].serial = None /\ entries[e].port = DefaultPort
             /\ Configured' = Configured
             /\ \A x \in Configured \ {e} : entries'[x] = entries[x]
             /\ entries'[e] = [entries[e] EXCEPT !.uid = p.serial, !.serial = p.serial]
             /\ entries' \in [Configured' -> Entry]
  <2>1. e \in Configured /\ entries[e].serial = None /\ entries[e].port = DefaultPort
    BY <1>3 DEF Manual
  <2>2. Configured' = Configured BY <1>3 DEF Configured, TypeOK
  <2>3. entries[e] \in Entry BY <2>1 DEF TypeOK
  <2>4. [entries[e] EXCEPT !.uid = p.serial, !.serial = p.serial] \in Entry
    BY <1>1, <2>3 DEF Entry, UniqueIdsOf
  <2> QED BY <1>3, <2>1, <2>2, <2>4 DEF TypeOK
<1>4. CASE Heal(p) BY <1>2, <1>4 DEF Heal
<1>5. CASE Upgrade(p)
  <2>1. \A x \in Configured : entries[x].uid # p.serial BY <1>5 DEF Upgrade, Identified
  <2> QED BY <1>3, <1>5, <2>1 DEF Upgrade
<1> QED BY <1>4, <1>5 DEF Hear

-----------------------------------------------------------------------------
(* Type correctness.                                                       *)

\* Initially every variable has its type.
LEMMA TypeInit == Init => TypeOK
<1> SUFFICES ASSUME Init PROVE TypeOK OBVIOUS
<1>1. entries \in [Configured -> Entry] /\ Configured = {} BY DEF Init, Configured
<1>2. NoFlow \in Flow BY DEF NoFlow, Flow, Nobody, FlowSteps
<1> QED BY <1>1, <1>2 DEF Init, TypeOK

\* Every step keeps the types; one case per action.
LEMMA TypeStep == TypeOK /\ Reserved /\ [Next]_vars => TypeOK'
<1> SUFFICES ASSUME TypeOK, Reserved, [Next]_vars PROVE TypeOK' OBVIOUS
<1>1. \A e \in Configured : Endpoint(e) \in Endpoints BY DEF TypeOK, Endpoint, Endpoints, Entry
<1>2. Nobody \in [Devices -> Hosts \cup {None}] BY DEF Nobody
<1>3. ASSUME NEW f \in Flows
      PROVE  flow[f].found \in [Devices -> Hosts \cup {None}] /\ flow[f].uid \in Endpoints \cup {None}
  BY DEF TypeOK, Flow
<1>4. ASSUME NEW d \in Devices, NEW h \in Hosts \cup {None}, Moves(d, h) PROVE TypeOK'
  BY <1>4 DEF Moves, TypeOK, Configured
<1>5. ASSUME NEW d \in Devices, Announces(d) PROVE TypeOK'
  <2>1. [serial |-> d, ip |-> at[d]] \in Packet BY <1>5 DEF Announces, TypeOK, Packet
  <2> QED BY <1>5, <2>1 DEF Announces, TypeOK, Configured
<1>6. ASSUME NEW p \in air, Lost(p) PROVE TypeOK'
  BY <1>6 DEF Lost, TypeOK, Configured
<1>7. ASSUME NEW p \in air, Hear(p) PROVE TypeOK'
  <2>1. PICK e \in Configured : Configured' = Configured /\ entries' \in [Configured' -> Entry]
                                /\ reload' = reload \cup {e}
    BY <1>7, HearChanges
  <2> QED BY <1>7, <2>1 DEF Hear, TypeOK
<1>8. ASSUME NEW f \in Flows,
             DiscoverBegins(f) \/ Refused(f) \/ DiscoverEnds(f)
               \/ (\E p \in air : FlowHears(f, p)) \/ (\E endpoint \in Endpoints : Submits(f, endpoint))
               \/ Abandons(f)
      PROVE  TypeOK'
  <2>1. flow' \in [Flows -> Flow]
    <3>1. CASE DiscoverBegins(f) BY <1>2, <3>1, ToType DEF DiscoverBegins, FlowSteps
    <3>2. CASE Refused(f) BY <1>2, <1>3, <3>2, ToType DEF Refused, FlowSteps
    <3>3. CASE DiscoverEnds(f)
      <4>1. Offered(f) \in [Devices -> Hosts \cup {None}] BY <1>3 DEF Offered
      <4> QED BY <3>3, <4>1, ToType DEF DiscoverEnds, FlowSteps
    <3>4. ASSUME NEW p \in air, FlowHears(f, p) PROVE flow' \in [Flows -> Flow]
      <4>1. p.ip \in Hosts BY DEF TypeOK, Packet
      <4>2. [flow[f].found EXCEPT ![p.serial] = p.ip] \in [Devices -> Hosts \cup {None}]
        BY <1>3, <4>1
      <4> QED BY <3>4, <4>2, ToType DEF FlowHears, FlowSteps
    <3>5. ASSUME NEW endpoint \in Endpoints, Submits(f, endpoint) PROVE flow' \in [Flows -> Flow]
      BY <1>2, <3>5, ToType, EndsType DEF Submits, FlowSteps
    <3>6. CASE Abandons(f) BY <3>6, EndsType DEF Abandons
    <3> QED BY <1>8, <3>1, <3>2, <3>3, <3>4, <3>5, <3>6
  <2>2. UNCHANGED <<at, moves, air, entries, running, reload>>
    BY <1>8 DEF DiscoverBegins, Refused, DiscoverEnds, FlowHears, Submits, Abandons
  <2> QED BY <2>1, <2>2 DEF TypeOK, Configured
<1>9. ASSUME NEW f \in Flows, NEW e \in Entries, NEW d \in Devices, Selects(f, d, e) PROVE TypeOK'
  <2>1. flow' \in [Flows -> Flow] BY <1>9, EndsType DEF Selects
  <2>2. Configured' \subseteq Entries /\ entries' \in [Configured' -> Entry]
    <3>1. CASE UNCHANGED entries BY <3>1 DEF TypeOK, Configured
    <3>2. CASE Create(e, d, flow[f].found[d], DefaultPort, d)
      <4>1. flow[f].found[d] \in Hosts BY <1>3, <1>9 DEF Selects
      <4> QED BY <3>2, <4>1, CreateType, EntriesAssumption DEF UniqueIdsOf
    <3> QED BY <1>9, <3>1, <3>2 DEF Selects
  <2> QED BY <1>9, <2>1, <2>2 DEF Selects, TypeOK
<1>10. ASSUME NEW f \in Flows, NEW e \in Entries, Validated(f, e) PROVE TypeOK'
  <2>0. flow[f].uid \in Endpoints BY <1>10 DEF Validated, Reserved
  <2>1. flow' \in [Flows -> Flow] BY <1>10, EndsType DEF Validated
  <2>2. flow[f].uid.host \in Hosts /\ flow[f].uid.port \in Ports BY <2>0 DEF Endpoints
  <2>3. Create(e, flow[f].uid, flow[f].uid.host, flow[f].uid.port, None) BY <1>10 DEF Validated
  <2>4. Configured' \subseteq Entries /\ entries' \in [Configured' -> Entry]
    BY <2>0, <2>2, <2>3, CreateType DEF UniqueIdsOf
  <2> QED BY <1>10, <2>1, <2>4 DEF Validated, TypeOK
<1>11. ASSUME NEW e \in Entries, SetsUp(e) \/ Stops(e) \/ Reloads(e) PROVE TypeOK'
  BY <1>1, <1>11 DEF SetsUp, Stops, Reloads, TypeOK, Configured
<1>12. ASSUME NEW e \in Entries, Removes(e) PROVE TypeOK'
  <2>1. Configured' = Configured \ {e} BY <1>12 DEF Removes, Configured
  <2>2. entries' \in [Configured' -> Entry] BY <1>12, <2>1 DEF Removes, TypeOK
  <2> QED BY <1>12, <2>1, <2>2 DEF Removes, TypeOK
<1>13. CASE UNCHANGED vars BY <1>13 DEF vars, TypeOK, Configured
<1> QED BY <1>4, <1>5, <1>6, <1>7, <1>8, <1>9, <1>10, <1>11, <1>12, <1>13 DEF Next

-----------------------------------------------------------------------------
(* The other parts of the invariant, step by step.                         *)

\* The parts that speak of the entries alone, while the entries stay.
LEMMA EntriesKept ==
  ASSUME IInv, UNCHANGED entries
  PROVE  (UniqueIds /\ IdentityOnDefaultPort /\ ManualIds)'
  BY DEF IInv, UniqueIds, IdentityOnDefaultPort, ManualIds, Configured

\* A serial number is no endpoint, and None is neither.
LEMMA Distinct ==
  /\ \A d \in Devices : d \notin Endpoints /\ d # None
  /\ None \notin Endpoints /\ None \notin Hosts
  BY EntriesAssumption

\* Flows come and go; entries stay.
LEMMA FlowStep ==
  ASSUME IInv, NEW f \in Flows,
         DiscoverBegins(f) \/ Refused(f) \/ DiscoverEnds(f)
           \/ (\E p \in air : FlowHears(f, p)) \/ (\E endpoint \in Endpoints : Submits(f, endpoint))
           \/ Abandons(f)
  PROVE  (UniqueIds /\ IdentityOnDefaultPort /\ ManualIds /\ Reserved /\ Clients /\ StaleClientReloads)'
<1>1. UNCHANGED <<entries, running, reload>>
  BY DEF DiscoverBegins, Refused, DiscoverEnds, FlowHears, Submits, Abandons
<1>2. (Clients /\ StaleClientReloads)'
  BY <1>1 DEF IInv, Clients, StaleClientReloads, Configured, Endpoint
<1>3. \A g \in Flows \ {f} : flow'[g] = flow[g]
  BY DEF DiscoverBegins, Refused, DiscoverEnds, FlowHears, Submits, Abandons, To, Ends, IInv, TypeOK
<1>4. \/ flow'[f].step # "validating" /\ flow'[f].uid \in {None, flow[f].uid}
      \/ \E endpoint \in Endpoints : ~ Taken(f, endpoint) /\ flow'[f].uid = endpoint
  BY DEF DiscoverBegins, Refused, DiscoverEnds, FlowHears, Submits, Abandons, To, Ends, NoFlow,
         IInv, TypeOK
<1>5. Reserved'
  <2> SUFFICES ASSUME NEW g \in Flows, flow'[g].step = "validating"
               PROVE  /\ flow'[g].uid \in Endpoints
                      /\ \A e \in Configured : entries[e].uid # flow'[g].uid
                      /\ \A h \in Flows \ {g} : flow'[h].uid # flow'[g].uid
    BY <1>1 DEF Reserved, Configured
  <2>1. CASE g = f
    <3>1. PICK endpoint \in Endpoints : ~ Taken(f, endpoint) /\ flow'[f].uid = endpoint BY <1>4, <2>1
    <3> QED BY <1>3, <2>1, <3>1 DEF Taken, InProgress, Uids
  <2>2. CASE g # f
    <3>1. flow'[g] = flow[g] BY <1>3, <2>2
    <3>2. /\ flow[g].uid \in Endpoints
          /\ \A e \in Configured : entries[e].uid # flow[g].uid
          /\ \A h \in Flows \ {g} : flow[h].uid # flow[g].uid
      BY <3>1 DEF IInv, Reserved
    <3>3. flow'[f].uid # flow[g].uid BY <1>4, <2>2, <3>2, Distinct DEF Taken, InProgress
    <3> QED BY <1>3, <3>1, <3>2, <3>3
  <2> QED BY <2>1, <2>2
<1> QED BY <1>1, <1>2, <1>5, EntriesKept

\* A flow that creates an entry, whose unique id nobody has, and ends.
LEMMA CreateStep ==
  ASSUME IInv, NEW f \in Flows, NEW e \in Entries, NEW uid \in UniqueIdsOf,
         NEW host \in Hosts, NEW port \in Ports, NEW serial \in Devices \cup {None},
         Create(e, uid, host, port, serial), Ends(f), UNCHANGED <<running, reload>>,
         \A x \in Configured : entries[x].uid # uid,
         \A g \in Flows \ {f} : flow[g].step = "validating" => flow[g].uid # uid,
         serial # None => port = DefaultPort /\ uid = serial,
         serial = None => uid \in Endpoints
  PROVE  (UniqueIds /\ IdentityOnDefaultPort /\ ManualIds /\ Reserved)'
<1>1. /\ Configured' = Configured \cup {e} /\ e \notin Configured
      /\ entries'[e] = [uid |-> uid, host |-> host, port |-> port, serial |-> serial]
      /\ \A x \in Configured : entries'[x] = entries[x]
  BY CreateType DEF IInv
<1>2. /\ flow'[f].step = "none" /\ flow'[f].uid = None
      /\ \A g \in Flows \ {f} : flow'[g] = flow[g]
  BY EndsType DEF IInv
<1>3. UniqueIds' BY <1>1 DEF IInv, UniqueIds
<1>4. IdentityOnDefaultPort' BY <1>1 DEF IInv, IdentityOnDefaultPort
<1>5. ManualIds' BY <1>1 DEF IInv, ManualIds
<1>6. Reserved'
  <2> SUFFICES ASSUME NEW g \in Flows, flow'[g].step = "validating"
               PROVE  /\ flow'[g].uid \in Endpoints
                      /\ \A x \in Configured' : entries'[x].uid # flow'[g].uid
                      /\ \A h \in Flows \ {g} : flow'[h].uid # flow'[g].uid
    BY DEF Reserved
  <2>1. g # f /\ flow'[g] = flow[g] BY <1>2
  <2>2. /\ flow[g].uid \in Endpoints
        /\ \A x \in Configured : entries[x].uid # flow[g].uid
        /\ \A h \in Flows \ {g} : flow[h].uid # flow[g].uid
    BY <2>1 DEF IInv, Reserved
  <2> QED BY <1>1, <1>2, <2>1, <2>2, Distinct
<1> QED BY <1>3, <1>4, <1>5, <1>6

\* A new entry has no client yet.
LEMMA NoClientYet ==
  ASSUME IInv, NEW e \in Entries, NEW uid, NEW host, NEW port, NEW serial,
         Create(e, uid, host, port, serial), UNCHANGED <<running, reload>>
  PROVE  (Clients /\ StaleClientReloads)'
<1>1. /\ Configured' = Configured \cup {e} /\ e \notin Configured
      /\ \A x \in Configured : entries'[x] = entries[x]
  BY DEF Create, Configured
<1> QED BY <1>1 DEF IInv, Clients, StaleClientReloads, Endpoint

\* An announcement moves an entry, or gives it its serial number.
LEMMA HearStep ==
  ASSUME IInv, NEW p \in air, Hear(p)
  PROVE  (UniqueIds /\ IdentityOnDefaultPort /\ ManualIds /\ Reserved /\ Clients /\ StaleClientReloads)'
<1> DEFINE Healed(e) == /\ entries[e].uid = p.serial
                        /\ entries'[e] = [entries[e] EXCEPT !.host = p.ip]
           Upgraded(e) == /\ \A x \in Configured : entries[x].uid # p.serial
                          /\ entries[e].serial = None /\ entries[e].port = DefaultPort
                          /\ entries'[e] = [entries[e] EXCEPT !.uid = p.serial, !.serial = p.serial]
<1>1. p.serial \in Devices BY DEF IInv, TypeOK, Packet
<1>2. PICK e \in Configured :
        /\ Configured' = Configured
        /\ \A x \in Configured \ {e} : entries'[x] = entries[x]
        /\ Healed(e) \/ Upgraded(e)
        /\ reload' = reload \cup {e}
  BY HearChanges DEF IInv
<1>3. UNCHANGED <<running, flow>> BY DEF Hear
<1>4. entries[e] \in Entry BY DEF IInv, TypeOK
<1>5. \/ /\ entries'[e].uid = entries[e].uid /\ entries'[e].serial = entries[e].serial
         /\ entries'[e].port = entries[e].port
      \/ /\ entries'[e].uid = p.serial /\ entries'[e].serial = p.serial
         /\ entries'[e].port = DefaultPort
         /\ \A x \in Configured : entries[x].uid # p.serial
  BY <1>2, <1>4 DEF Entry
<1>6. UniqueIds' BY <1>2, <1>5 DEF IInv, UniqueIds
<1>7. IdentityOnDefaultPort' BY <1>2, <1>5 DEF IInv, IdentityOnDefaultPort
<1>8. ManualIds' BY <1>1, <1>2, <1>5, Distinct DEF IInv, ManualIds
<1>9. Reserved'
  <2> SUFFICES ASSUME NEW g \in Flows, flow[g].step = "validating"
               PROVE  /\ flow[g].uid \in Endpoints
                      /\ \A x \in Configured : entries'[x].uid # flow[g].uid
                      /\ \A h \in Flows \ {g} : flow[h].uid # flow[g].uid
    BY <1>2, <1>3 DEF Reserved
  <2>1. /\ flow[g].uid \in Endpoints
        /\ \A x \in Configured : entries[x].uid # flow[g].uid
        /\ \A h \in Flows \ {g} : flow[h].uid # flow[g].uid
    BY DEF IInv, Reserved
  <2> QED BY <1>1, <1>2, <1>5, <2>1, Distinct
<1>10. Clients' BY <1>2, <1>3 DEF IInv, Clients
<1>11. StaleClientReloads' BY <1>2, <1>3 DEF IInv, StaleClientReloads, Endpoint
<1> QED BY <1>6, <1>7, <1>8, <1>9, <1>10, <1>11

\* The inductive invariant holds initially.
LEMMA InvInit == Init => IInv
<1> SUFFICES ASSUME Init PROVE IInv OBVIOUS
<1>1. Configured = {} BY DEF Init, Configured
<1>2. \A f \in Flows : flow[f].step # "validating" BY DEF Init, NoFlow
<1>3. Clients BY DEF Init, Clients
<1> QED BY <1>1, <1>2, <1>3, TypeInit
        DEF IInv, UniqueIds, IdentityOnDefaultPort, ManualIds, Reserved, StaleClientReloads

\* Every step keeps the invariant.
LEMMA InvStep == IInv /\ [Next]_vars => IInv'
<1> SUFFICES ASSUME IInv, [Next]_vars PROVE IInv' OBVIOUS
<1> DEFINE Parts == UniqueIds /\ IdentityOnDefaultPort /\ ManualIds /\ Reserved
                      /\ Clients /\ StaleClientReloads
<1>1. TypeOK' BY TypeStep DEF IInv
<1>2. ASSUME UNCHANGED <<entries, flow, running, reload>> PROVE Parts'
  <2>1. (Reserved /\ Clients /\ StaleClientReloads)'
    BY <1>2 DEF IInv, Reserved, Clients, StaleClientReloads, Configured, Endpoint
  <2> QED BY <1>2, <2>1, EntriesKept
<1>3. ASSUME NEW p \in air, Hear(p) PROVE Parts'
  BY <1>3, HearStep
<1>4. ASSUME NEW f \in Flows, NEW e \in Entries, NEW d \in Devices, Selects(f, d, e) PROVE Parts'
  <2>1. Ends(f) /\ UNCHANGED <<running, reload>> BY <1>4 DEF Selects
  <2>2. CASE UNCHANGED entries
    <3>1. (Clients /\ StaleClientReloads)'
      BY <2>1, <2>2 DEF IInv, Clients, StaleClientReloads, Configured, Endpoint
    <3>2. /\ flow'[f].step = "none" /\ flow'[f].uid = None
          /\ \A g \in Flows \ {f} : flow'[g] = flow[g]
      BY <2>1, EndsType DEF IInv
    <3>3. Configured' = Configured BY <2>2 DEF Configured
    <3>4. Reserved' BY <2>2, <3>2, <3>3, Distinct DEF IInv, Reserved
    <3> QED BY <2>2, <3>1, <3>4, EntriesKept
  <2>3. CASE ~ (d \in Uids \/ InProgress(f, d)) /\ Create(e, d, flow[f].found[d], DefaultPort, d)
    <3>1. flow[f].found[d] \in Hosts BY <1>4 DEF Selects, IInv, TypeOK, Flow
    <3>2. \A x \in Configured : entries[x].uid # d BY <2>3 DEF Uids
    <3>3. \A g \in Flows \ {f} : flow[g].uid # d BY <2>3 DEF InProgress
    <3>4. d \in UniqueIdsOf /\ DefaultPort \in Ports /\ d # None
      BY EntriesAssumption, Distinct DEF UniqueIdsOf
    <3>5. Create(e, d, flow[f].found[d], DefaultPort, d) BY <2>3
    <3>6. (UniqueIds /\ IdentityOnDefaultPort /\ ManualIds /\ Reserved)'
      BY <2>1, <3>1, <3>2, <3>3, <3>4, <3>5, CreateStep
    <3>7. (Clients /\ StaleClientReloads)' BY <2>1, <3>5, NoClientYet
    <3> QED BY <3>6, <3>7
  <2> QED BY <1>4, <2>2, <2>3 DEF Selects
<1>5. ASSUME NEW f \in Flows, NEW e \in Entries, Validated(f, e) PROVE Parts'
  <2> DEFINE uid == flow[f].uid
  <2>1. /\ uid \in Endpoints
        /\ \A x \in Configured : entries[x].uid # uid
        /\ \A g \in Flows \ {f} : flow[g].uid # uid
    BY <1>5 DEF Validated, IInv, Reserved
  <2>2. Ends(f) /\ UNCHANGED <<running, reload>> BY <1>5 DEF Validated
  <2>3. Create(e, uid, uid.host, uid.port, None) BY <1>5 DEF Validated
  <2>4. uid \in UniqueIdsOf /\ uid.host \in Hosts /\ uid.port \in Ports
    BY <2>1 DEF UniqueIdsOf, Endpoints
  <2> HIDE DEF uid
  <2>5. (UniqueIds /\ IdentityOnDefaultPort /\ ManualIds /\ Reserved)'
    BY <2>1, <2>2, <2>3, <2>4, CreateStep DEF uid
  <2>6. (Clients /\ StaleClientReloads)' BY <2>2, <2>3, NoClientYet
  <2> QED BY <2>5, <2>6
<1>6. ASSUME NEW e \in Entries, SetsUp(e) \/ Stops(e) \/ Reloads(e) PROVE Parts'
  <2>1. UNCHANGED <<entries, flow>> BY <1>6 DEF SetsUp, Stops, Reloads
  <2>2. Reserved' BY <2>1 DEF IInv, Reserved, Configured
  <2>3. (Clients /\ StaleClientReloads)'
    BY <1>6 DEF IInv, SetsUp, Stops, Reloads, Clients, StaleClientReloads, Configured, Endpoint, TypeOK
  <2> QED BY <2>1, <2>2, <2>3, EntriesKept
<1>7. ASSUME NEW e \in Entries, Removes(e) PROVE Parts'
  <2>1. Configured' = Configured \ {e} /\ \A x \in Configured \ {e} : entries'[x] = entries[x]
    BY <1>7 DEF Removes, Configured
  <2>2. flow' = flow BY <1>7 DEF Removes
  <2>3. (UniqueIds /\ IdentityOnDefaultPort /\ ManualIds)'
    BY <2>1 DEF IInv, UniqueIds, IdentityOnDefaultPort, ManualIds
  <2>4. Reserved' BY <2>1, <2>2 DEF IInv, Reserved
  <2>5. (Clients /\ StaleClientReloads)'
    BY <1>7, <2>1 DEF IInv, Removes, Clients, StaleClientReloads, Endpoint, TypeOK
  <2> QED BY <2>3, <2>4, <2>5
<1>8. ASSUME NEW f \in Flows,
             DiscoverBegins(f) \/ Refused(f) \/ DiscoverEnds(f)
               \/ (\E p \in air : FlowHears(f, p)) \/ (\E endpoint \in Endpoints : Submits(f, endpoint))
               \/ Abandons(f)
      PROVE  Parts'
  BY <1>8, FlowStep
<1>9. Parts'
  <2>1. CASE UNCHANGED <<entries, flow, running, reload>> BY <2>1, <1>2
  <2>2. CASE ~ UNCHANGED <<entries, flow, running, reload>>
    BY <2>2, <1>3, <1>4, <1>5, <1>6, <1>7, <1>8 DEF Next, vars, Moves, Announces, Lost
  <2> QED BY <2>1, <2>2
<1> QED BY <1>1, <1>9 DEF IInv

-----------------------------------------------------------------------------
(* The theorems.                                                           *)

\* The inductive invariant holds in every reachable state.
THEOREM Invariant == Spec => []IInv
  BY InvInit, InvStep, PTL DEF Spec

\* Every variable has its type in every reachable state.
THEOREM TypeCorrect == Spec => []TypeOK
<1>1. IInv => TypeOK BY DEF IInv
<1> QED BY <1>1, Invariant, PTL

\* No two entries ever have the same unique id.
THEOREM UniqueIdsHolds == Spec => []UniqueIds
<1>1. IInv => UniqueIds BY DEF IInv
<1> QED BY <1>1, Invariant, PTL

\* Only entries on the default port have a serial number, as their unique id.
THEOREM IdentityOnDefaultPortHolds == Spec => []IdentityOnDefaultPort
<1>1. IInv => IdentityOnDefaultPort BY DEF IInv
<1> QED BY <1>1, Invariant, PTL

\* A client of another endpoint than its entry's is about to be replaced.
THEOREM StaleClientReloadsHolds == Spec => []StaleClientReloads
<1>1. IInv => StaleClientReloads BY DEF IInv
<1> QED BY <1>1, Invariant, PTL

\* An entry with a serial number belongs to its unit for good, and moves only
\* to an address its unit announced.
THEOREM IdentityKeptHolds == Spec => IdentityKept
<1> DEFINE Kept(e) ==
      /\ entries'[e].serial = entries[e].serial
      /\ entries'[e].uid = entries[e].uid
      /\ entries'[e].host # entries[e].host =>
           [serial |-> entries[e].serial, ip |-> entries'[e].host] \in air
<1>1. IInv /\ [Next]_vars =>
        [\A e \in Configured \cap Configured' : entries[e].serial # None => Kept(e)]_vars
  <2> SUFFICES ASSUME IInv, Next, NEW e \in Configured, e \in Configured', entries[e].serial # None
               PROVE  Kept(e)
    OBVIOUS
  <2>1. CASE entries'[e] = entries[e] BY <2>1
  <2>2. ASSUME NEW p \in air, Hear(p) PROVE Kept(e)
    <3>1. PICK x \in Configured :
            /\ \A y \in Configured \ {x} : entries'[y] = entries[y]
            /\ \/ /\ entries[x].uid = p.serial
                  /\ entries'[x] = [entries[x] EXCEPT !.host = p.ip]
               \/ entries[x].serial = None
      BY <2>2, HearChanges DEF IInv
    <3>2. CASE x # e BY <3>1, <3>2, <2>1
    <3>3. CASE x = e
      <4>1. entries[e] \in Entry /\ p \in Packet BY DEF IInv, TypeOK
      <4>2. entries[e].uid = entries[e].serial BY DEF IInv, IdentityOnDefaultPort
      <4>3. entries[e].uid = p.serial /\ entries'[e] = [entries[e] EXCEPT !.host = p.ip]
        BY <3>1, <3>3
      <4>4. entries'[e].host = p.ip /\ entries'[e].uid = entries[e].uid
              /\ entries'[e].serial = entries[e].serial
        BY <4>1, <4>3 DEF Entry
      <4>5. p = [serial |-> p.serial, ip |-> p.ip] BY <4>1 DEF Packet
      <4> QED BY <4>2, <4>3, <4>4, <4>5
    <3> QED BY <3>2, <3>3
  <2>3. ASSUME NEW x \in Entries, NEW uid, NEW host, NEW port, NEW serial,
               Create(x, uid, host, port, serial)
        PROVE  entries'[e] = entries[e]
    BY <2>3 DEF Create, Configured
  <2>4. ASSUME NEW f \in Flows, NEW x \in Entries, Validated(f, x) PROVE Kept(e)
    BY <2>1, <2>3, <2>4 DEF Validated
  <2>5. ASSUME NEW f \in Flows, NEW x \in Entries, NEW d \in Devices, Selects(f, d, x) PROVE Kept(e)
    BY <2>1, <2>3, <2>5 DEF Selects
  <2>6. ASSUME NEW x \in Entries, Removes(x) PROVE Kept(e)
    <3>1. e # x BY <2>6 DEF Removes, Configured
    <3> QED BY <2>1, <2>6, <3>1 DEF Removes, Configured
  <2> QED BY <2>1, <2>2, <2>4, <2>5, <2>6
          DEF Next, Moves, Announces, Lost, DiscoverBegins, DiscoverEnds, FlowHears, Submits, Refused,
              Abandons, SetsUp, Stops, Reloads
<1> QED BY <1>1, Invariant, PTL DEF Spec, IdentityKept

-----------------------------------------------------------------------------
(* What the check of an endpoint before the await is good for.             *)

\* The unique id of a manual entry is its own endpoint.
ManualOwnId == \A e \in Configured : entries[e].serial = None => entries[e].uid = Endpoint(e)

\* Two manual entries never share an endpoint.
ManualApart ==
  \A c, e \in Configured :
    Endpoint(c) = Endpoint(e) /\ entries[c].serial = None /\ entries[e].serial = None => c = e

\* A manual entry keeps its address until it is removed or adopted.
LEMMA ManualOwnIdStep == IInv /\ ManualOwnId /\ [Next]_vars => ManualOwnId'
<1> SUFFICES ASSUME IInv, ManualOwnId, [Next]_vars,
                    NEW e \in Configured', entries'[e].serial = None
             PROVE  entries'[e].uid = Endpoint(e)'
  BY DEF ManualOwnId
<1>1. CASE e \in Configured /\ entries'[e] = entries[e]
  BY <1>1 DEF ManualOwnId, Endpoint
<1>2. CASE UNCHANGED entries
  BY <1>1, <1>2 DEF Configured
<1>3. ASSUME NEW p \in air, Hear(p) PROVE entries'[e].uid = Endpoint(e)'
  <2>1. PICK x \in Configured :
          /\ Configured' = Configured
          /\ \A y \in Configured \ {x} : entries'[y] = entries[y]
          /\ \/ /\ entries[x].uid = p.serial
                /\ entries'[x] = [entries[x] EXCEPT !.host = p.ip]
             \/ entries'[x] = [entries[x] EXCEPT !.uid = p.serial, !.serial = p.serial]
    BY <1>3, HearChanges DEF IInv
  <2>2. entries[x] \in Entry /\ p.serial \in Devices BY DEF IInv, TypeOK, Packet
  <2>3. entries'[x].serial # None
    BY <2>1, <2>2, Distinct DEF Entry, IInv, ManualIds
  <2> QED BY <1>1, <2>1, <2>3
<1>4. ASSUME NEW x \in Entries, NEW uid \in UniqueIdsOf, NEW host \in Hosts, NEW port \in Ports,
             NEW serial \in Devices \cup {None}, Create(x, uid, host, port, serial),
             serial = None => uid = [host |-> host, port |-> port]
      PROVE  entries'[e].uid = Endpoint(e)'
  <2>1. /\ Configured' = Configured \cup {x} /\ x \notin Configured
        /\ entries'[x] = [uid |-> uid, host |-> host, port |-> port, serial |-> serial]
        /\ \A y \in Configured : entries'[y] = entries[y]
    BY <1>4, CreateType DEF IInv
  <2>2. CASE e = x BY <1>4, <2>1, <2>2 DEF Endpoint
  <2>3. CASE e # x BY <1>1, <2>1, <2>3
  <2> QED BY <2>2, <2>3
<1>5. ASSUME NEW f \in Flows, NEW x \in Entries, Validated(f, x) PROVE entries'[e].uid = Endpoint(e)'
  <2> DEFINE uid == flow[f].uid
  <2>1. uid \in Endpoints /\ Create(x, uid, uid.host, uid.port, None)
    BY <1>5 DEF Validated, IInv, Reserved
  <2> HIDE DEF uid
  <2>2. uid \in UniqueIdsOf /\ uid.host \in Hosts /\ uid.port \in Ports
          /\ uid = [host |-> uid.host, port |-> uid.port]
    BY <2>1 DEF UniqueIdsOf, Endpoints
  <2> QED BY <1>4, <2>1, <2>2
<1>6. ASSUME NEW f \in Flows, NEW x \in Entries, NEW d \in Devices, Selects(f, d, x)
      PROVE  entries'[e].uid = Endpoint(e)'
  <2>1. flow[f].found[d] \in Hosts BY <1>6 DEF Selects, IInv, TypeOK, Flow
  <2>2. d \in UniqueIdsOf /\ d # None /\ DefaultPort \in Ports
    BY EntriesAssumption, Distinct DEF UniqueIdsOf
  <2>3. UNCHANGED entries \/ Create(x, d, flow[f].found[d], DefaultPort, d) BY <1>6 DEF Selects
  <2> QED BY <1>2, <1>4, <2>1, <2>2, <2>3
<1>7. ASSUME NEW x \in Entries, Removes(x) PROVE entries'[e].uid = Endpoint(e)'
  BY <1>1, <1>7 DEF Removes, Configured
<1> QED
  BY <1>2, <1>3, <1>5, <1>6, <1>7
  DEF Next, vars, Moves, Announces, Lost, DiscoverBegins, DiscoverEnds, FlowHears, Submits, Refused,
      Abandons, SetsUp, Stops, Reloads

\* Two manual entries never share an endpoint, whatever the manual flow misses
\* during its await: the unique id it reserved is the endpoint itself.  Of two
\* entries that do (NoDuplicateEndpoint fails), one has a serial number.
THEOREM ManualApartHolds == Spec => []ManualApart
<1>1. Init => ManualOwnId BY DEF Init, ManualOwnId, Configured
<1>2. IInv /\ ManualOwnId => ManualApart
  BY DEF IInv, UniqueIds, ManualOwnId, ManualApart
<1> QED BY <1>1, <1>2, ManualOwnIdStep, Invariant, PTL DEF Spec

-----------------------------------------------------------------------------
(* The entries implement EntryIdentity.                                    *)

\* The record the abstract specification has of an entry.
LEMMA OwnerValue ==
  ASSUME NEW e \in Entries
  PROVE  /\ e \in Configured =>
              OwnerOf[e] = [unit |-> entries[e].serial, host |-> entries[e].host, port |-> entries[e].port]
         /\ e \notin Configured => OwnerOf[e] = Identity!NoEntry
BY DEF OwnerOf, Identity!NoEntry

\* A unit that owns an entry has it under its serial number, as a unique id.
LEMMA OwnedHasUid ==
  ASSUME IInv, NEW d \in Devices, Identity!Owned(d)
  PROVE  \E e \in Configured : entries[e].uid = d
<1>1. PICK e \in Entries : OwnerOf[e].unit = d BY DEF Identity!Owned
<1>2. Identity!NoEntry.unit = None BY DEF Identity!NoEntry
<1>3. e \in Configured
  <2>1. d # None BY Distinct
  <2>2. e \notin Configured => OwnerOf[e] = Identity!NoEntry BY OwnerValue
  <2> QED BY <1>1, <1>2, <2>1, <2>2
<1>4. entries[e].serial = d
  <2>1. OwnerOf[e] = [unit |-> entries[e].serial, host |-> entries[e].host, port |-> entries[e].port]
    BY <1>3, OwnerValue
  <2>2. OwnerOf[e].unit = entries[e].serial BY <2>1
  <2> QED BY <1>1, <2>2
<1> QED BY <1>3, <1>4, Distinct DEF IInv, IdentityOnDefaultPort

\* Creating, changing and removing an entry change its record and no other.
LEMMA OwnerChanges ==
  ASSUME NEW e \in Entries,
         \A x \in Entries \ {e} : /\ x \in Configured' <=> x \in Configured
                                  /\ x \in Configured => entries'[x] = entries[x]
  PROVE  /\ e \in Configured' =>
              OwnerOf' = [OwnerOf EXCEPT ![e] =
                [unit |-> entries'[e].serial, host |-> entries'[e].host, port |-> entries'[e].port]]
         /\ e \notin Configured' => OwnerOf' = [OwnerOf EXCEPT ![e] = Identity!NoEntry]
  BY DEF OwnerOf, Identity!NoEntry

\* A flow that finds nothing more offers no more than before.
LEMMA FewerFound ==
  ASSUME \A f \in Flows : \A d \in Devices : flow'[f].found[d] \in {None, flow[f].found[d]}
  PROVE  Found' \subseteq Found
BY Distinct DEF Found, Packet

\* A flow that ends has found nothing.
LEMMA EndsFewer ==
  ASSUME IInv, NEW f \in Flows, Ends(f)
  PROVE  Found' \subseteq Found
<1>1. flow'[f] = NoFlow /\ \A g \in Flows \ {f} : flow'[g] = flow[g]
  BY DEF Ends, IInv, TypeOK
<1>2. \A d \in Devices : NoFlow.found[d] = None
  BY DEF NoFlow, Nobody
<1> QED BY <1>1, <1>2, FewerFound

\* A flow that listens is offered one more unit; every other step of a flow
\* that leaves the entries alone offers no more than before.
LEMMA FlowOffers ==
  ASSUME IInv, NEW f \in Flows,
         DiscoverBegins(f) \/ Refused(f) \/ DiscoverEnds(f)
           \/ (\E p \in air : FlowHears(f, p)) \/ (\E endpoint \in Endpoints : Submits(f, endpoint))
           \/ Abandons(f)
  PROVE  Identity!Next
<1>1. OwnerOf' = OwnerOf /\ at' = at /\ air' = air
  BY DEF DiscoverBegins, Refused, DiscoverEnds, FlowHears, Submits, Abandons, OwnerOf, Configured
<1>2. flow[f].found \in [Devices -> Hosts \cup {None}] /\ flow[f].uid \in Endpoints \cup {None}
        /\ Nobody \in [Devices -> Hosts \cup {None}] /\ \A d \in Devices : Nobody[d] = None
  BY DEF IInv, TypeOK, Flow, Nobody
<1>3. ASSUME NEW p \in air, FlowHears(f, p) PROVE Identity!Next
  <2>1. p \in Packet BY DEF IInv, TypeOK
  <2> DEFINE found == [flow[f].found EXCEPT ![p.serial] = p.ip]
  <2>2. flow[f].found[p.serial] = None /\ To(f, "listening", found, None) BY <1>3 DEF FlowHears
  <2>3. \A d \in Devices : found[d] = IF d = p.serial THEN p.ip ELSE flow[f].found[d] BY <1>2
  <2> HIDE DEF found
  <2>4. flow'[f].found = found /\ \A g \in Flows \ {f} : flow'[g] = flow[g]
    BY <2>2, ToFinds DEF IInv
  <2>5. ASSUME NEW q \in Packet
        PROVE  (\E g \in Flows : flow'[g].found[q.serial] = q.ip)
                 <=> q = p \/ \E g \in Flows : flow[g].found[q.serial] = q.ip
    <3>1. q.serial \in Devices /\ q.ip \in Hosts /\ p.serial \in Devices /\ p.ip \in Hosts
            /\ (q = p <=> q.serial = p.serial /\ q.ip = p.ip)
      BY <2>1 DEF Packet
    <3>2. flow'[f].found[q.serial] = q.ip <=> q = p \/ flow[f].found[q.serial] = q.ip
      BY <2>2, <2>3, <2>4, <3>1, Distinct
    <3> QED BY <2>4, <3>2
  <2>6. Found' = Found \cup {p} BY <2>1, <2>5 DEF Found
  <2>7. Identity!Offers(p) BY <1>1, <2>6 DEF Identity!Offers
  <2> QED BY <2>7 DEF Identity!Next
<1>4. ASSUME ~ \E p \in air : FlowHears(f, p) PROVE Found' \subseteq Found
  <2>1. CASE Ends(f) BY <2>1, EndsFewer
  <2>2. ASSUME NEW step \in FlowSteps, NEW found \in [Devices -> Hosts \cup {None}],
               NEW uid \in Endpoints \cup {None}, To(f, step, found, uid),
               \A d \in Devices : found[d] \in {None, flow[f].found[d]}
        PROVE  Found' \subseteq Found
    <3>1. flow'[f].found = found /\ \A g \in Flows \ {f} : flow'[g] = flow[g]
      BY <2>2, ToFinds DEF IInv
    <3> QED BY <2>2, <3>1, FewerFound
  <2>3. CASE DiscoverBegins(f) BY <1>2, <2>2, <2>3 DEF DiscoverBegins, FlowSteps
  <2>4. CASE Refused(f) BY <1>2, <2>2, <2>4 DEF Refused, FlowSteps
  <2>5. CASE DiscoverEnds(f)
    <3>1. Offered(f) \in [Devices -> Hosts \cup {None}]
            /\ \A d \in Devices : Offered(f)[d] \in {None, flow[f].found[d]}
      BY <1>2 DEF Offered
    <3> QED BY <2>2, <2>5, <3>1 DEF DiscoverEnds, FlowSteps
  <2>6. ASSUME NEW endpoint \in Endpoints, Submits(f, endpoint) PROVE Found' \subseteq Found
    BY <1>2, <2>1, <2>2, <2>6 DEF Submits, FlowSteps
  <2>7. CASE Abandons(f) BY <2>1, <2>7 DEF Abandons
  <2> QED BY <1>4, <2>3, <2>4, <2>5, <2>6, <2>7
<1>5. ASSUME Found' \subseteq Found PROVE Identity!Next
  BY <1>1, <1>5 DEF Identity!Next, Identity!Withdraws, Identity!Fewer
<1> QED BY <1>3, <1>4, <1>5

\* What a flow creates is an entry of a unit without one, at an address it
\* announced, or a manual one where a unit answers.
LEMMA CreateAdds ==
  ASSUME IInv, NEW e \in Entries, NEW uid \in UniqueIdsOf, NEW host \in Hosts, NEW port \in Ports,
         NEW serial \in Devices \cup {None}, Create(e, uid, host, port, serial),
         at' = at, air' = air, Found' \subseteq Found,
         serial # None => /\ port = DefaultPort /\ uid = serial
                          /\ [serial |-> serial, ip |-> host] \in Found,
         serial = None => \E d \in Devices : at[d] = host,
         \A x \in Configured : entries[x].uid # uid
  PROVE  Identity!Next
<1>1. /\ Configured' = Configured \cup {e} /\ e \notin Configured
      /\ entries'[e] = [uid |-> uid, host |-> host, port |-> port, serial |-> serial]
      /\ \A x \in Configured : entries'[x] = entries[x]
  BY CreateType DEF IInv
<1>2. OwnerOf' = [OwnerOf EXCEPT ![e] = [unit |-> serial, host |-> host, port |-> port]]
  BY <1>1, OwnerChanges
<1>3. OwnerOf[e] = Identity!NoEntry BY <1>1, OwnerValue
<1>4. CASE serial = None
  <2>1. Identity!AddsManual(e, host, port)
    BY <1>2, <1>3, <1>4 DEF Identity!AddsManual, Identity!Fewer
  <2> QED BY <2>1 DEF Identity!Next
<1>5. CASE serial # None
  <2>1. ~ Identity!Owned(serial) BY <1>5, OwnedHasUid
  <2>2. Identity!AddsUnit(e, serial, host)
    BY <1>2, <1>3, <1>5, <2>1 DEF Identity!AddsUnit, Identity!Fewer
  <2> QED BY <1>5, <2>2 DEF Identity!Next
<1> QED BY <1>4, <1>5

\* What an announcement changes is the address of its unit's entry, or the
\* owner of a manual one.
LEMMA HearFollowsOrAdopts ==
  ASSUME IInv, NEW p \in air, Hear(p)
  PROVE  Identity!Next
<1>1. p.serial \in Devices /\ p.ip \in Hosts /\ p = [serial |-> p.serial, ip |-> p.ip]
  BY DEF IInv, TypeOK, Packet
<1>2. at' = at /\ air' = air /\ Found' = Found BY DEF Hear, Found
<1>3. PICK e \in Identified(p) \cup Manual(p) :
        \/ e \in Identified(p) /\ entries' = [entries EXCEPT ![e].host = p.ip]
        \/ /\ e \in Manual(p) /\ Identified(p) = {}
           /\ entries' = [entries EXCEPT ![e].uid = p.serial, ![e].serial = p.serial]
  BY DEF Hear, Heal, Upgrade
<1>4. /\ e \in Configured /\ e \in Entries /\ entries[e] \in Entry
      /\ entries \in [Configured -> Entry]
  BY DEF Identified, Manual, IInv, TypeOK
<1>5. Configured' = Configured /\ \A x \in Configured \ {e} : entries'[x] = entries[x]
  BY <1>3, <1>4 DEF Configured
<1>6. OwnerOf' = [OwnerOf EXCEPT ![e] =
        [unit |-> entries'[e].serial, host |-> entries'[e].host, port |-> entries'[e].port]]
  BY <1>4, <1>5, OwnerChanges
<1>7. OwnerOf[e] = [unit |-> entries[e].serial, host |-> entries[e].host, port |-> entries[e].port]
  BY <1>4, OwnerValue
<1>8. CASE e \in Identified(p) /\ entries' = [entries EXCEPT ![e].host = p.ip]
  <2>1. /\ entries'[e].serial = entries[e].serial /\ entries'[e].host = p.ip
        /\ entries'[e].port = entries[e].port
    BY <1>4, <1>8 DEF Entry
  <2>2. entries[e].serial = p.serial
    BY <1>1, <1>4, <1>8, Distinct DEF Identified, IInv, IdentityOnDefaultPort, ManualIds
  <2>3. Identity!Follows(e, p.ip)
    BY <1>1, <1>2, <1>6, <1>7, <2>1, <2>2, Distinct DEF Identity!Follows
  <2> QED BY <1>1, <1>4, <2>3 DEF Identity!Next
<1>9. CASE /\ e \in Manual(p) /\ Identified(p) = {}
           /\ entries' = [entries EXCEPT ![e].uid = p.serial, ![e].serial = p.serial]
  <2>1. /\ entries'[e].serial = p.serial /\ entries'[e].host = entries[e].host
        /\ entries'[e].port = entries[e].port
    BY <1>4, <1>9 DEF Entry
  <2>2. /\ entries[e].serial = None /\ entries[e].port = DefaultPort
        /\ entries[e].host = p.ip /\ p.ip # None
    BY <1>1, <1>9, Distinct DEF Manual
  <2>3. ~ Identity!Owned(p.serial)
    BY <1>1, <1>9, OwnedHasUid DEF Identified
  <2>4. Identity!Adopts(e, p.serial)
    BY <1>1, <1>2, <1>6, <1>7, <2>1, <2>2, <2>3 DEF Identity!Adopts
  <2> QED BY <1>1, <1>4, <2>4 DEF Identity!Next
<1> QED BY <1>3, <1>8, <1>9

\* Whatever flows, announcements and removals interleave, every entry belongs
\* to one unit or to nobody, changes hands only from nobody to a unit heard
\* from its address, and has of its unit an address that unit announced.
THEOREM IdentityRefined == Spec => IdentitySpec
<1>1. Init => Identity!Init
  <2> SUFFICES ASSUME Init PROVE Identity!Init OBVIOUS
  <2>1. Configured = {} BY DEF Init, Configured
  <2>2. OwnerOf = [e \in Entries |-> Identity!NoEntry] BY <2>1 DEF OwnerOf, Identity!NoEntry
  <2>3. Found = {}
    <3>1. \A f \in Flows : \A d \in Devices : flow[f].found[d] = None BY DEF Init, NoFlow, Nobody
    <3> QED BY <3>1, Distinct DEF Found, Packet
  <2> QED BY <2>2, <2>3 DEF Init, Identity!Init
<1>2. IInv /\ [Next]_vars => [Identity!Next]_(Identity!identityVars)
  <2> SUFFICES ASSUME IInv, [Next]_vars PROVE Identity!Next OBVIOUS
  <2>1. ASSUME UNCHANGED <<at, air, entries, flow>> PROVE Identity!Next
    BY <2>1 DEF OwnerOf, Configured, Found, Identity!Next, Identity!Withdraws, Identity!Fewer
  <2>2. ASSUME UNCHANGED <<entries, flow>> PROVE OwnerOf' = OwnerOf /\ Found' = Found
    BY <2>2 DEF OwnerOf, Configured, Found
  <2>3. ASSUME NEW d \in Devices, NEW h \in Hosts \cup {None}, Moves(d, h) PROVE Identity!Next
    <3>1. Identity!Moves(d, h) BY <2>2, <2>3 DEF Moves, Identity!Moves
    <3> QED BY <3>1 DEF Identity!Next
  <2>4. ASSUME NEW d \in Devices, Announces(d) PROVE Identity!Next
    <3>1. Identity!Announces(d) BY <2>2, <2>4 DEF Announces, Identity!Announces
    <3> QED BY <3>1 DEF Identity!Next
  <2>5. ASSUME NEW p \in air, Lost(p) PROVE Identity!Next
    <3>1. Identity!Lost BY <2>2, <2>5 DEF Lost, Identity!Lost
    <3> QED BY <3>1 DEF Identity!Next
  <2>6. ASSUME NEW p \in air, Hear(p) PROVE Identity!Next
    BY <2>6, HearFollowsOrAdopts
  <2>7. ASSUME NEW f \in Flows,
               DiscoverBegins(f) \/ Refused(f) \/ DiscoverEnds(f)
                 \/ (\E p \in air : FlowHears(f, p)) \/ (\E endpoint \in Endpoints : Submits(f, endpoint))
                 \/ Abandons(f)
        PROVE  Identity!Next
    BY <2>7, FlowOffers
  <2>8. ASSUME NEW f \in Flows, NEW e \in Entries, Validated(f, e) PROVE Identity!Next
    <3> DEFINE uid == flow[f].uid
    <3>1. uid \in Endpoints /\ \A x \in Configured : entries[x].uid # uid
      BY <2>8 DEF Validated, IInv, Reserved
    <3>2. /\ Create(e, uid, uid.host, uid.port, None) /\ UNCHANGED <<at, air>>
          /\ \E d \in Devices : at[d] = uid.host
      BY <2>8 DEF Validated
    <3>3. uid \in UniqueIdsOf /\ uid.host \in Hosts /\ uid.port \in Ports
      BY <3>1 DEF UniqueIdsOf, Endpoints
    <3>4. Found' \subseteq Found BY <2>8, EndsFewer DEF Validated
    <3> HIDE DEF uid
    <3> QED BY <3>1, <3>2, <3>3, <3>4, CreateAdds
  <2>9. ASSUME NEW f \in Flows, NEW e \in Entries, NEW d \in Devices, Selects(f, d, e)
        PROVE  Identity!Next
    <3> DEFINE host == flow[f].found[d]
    <3>1. host \in Hosts BY <2>9 DEF Selects, IInv, TypeOK, Flow
    <3>2. UNCHANGED <<at, air>> /\ Found' \subseteq Found BY <2>9, EndsFewer DEF Selects
    <3>3. [serial |-> d, ip |-> host] \in Found BY <3>1 DEF Found, Packet
    <3>4. CASE UNCHANGED entries
      <4>1. OwnerOf' = OwnerOf BY <3>4 DEF OwnerOf, Configured
      <4> QED BY <3>2, <4>1 DEF Identity!Next, Identity!Withdraws, Identity!Fewer
    <3>5. CASE ~ (d \in Uids \/ InProgress(f, d)) /\ Create(e, d, host, DefaultPort, d)
      <4>1. \A x \in Configured : entries[x].uid # d BY <3>5 DEF Uids
      <4>2. d \in UniqueIdsOf /\ DefaultPort \in Ports /\ d # None
        BY EntriesAssumption, Distinct DEF UniqueIdsOf
      <4> HIDE DEF host
      <4> QED BY <3>1, <3>2, <3>3, <3>5, <4>1, <4>2, CreateAdds
    <3> QED BY <2>9, <3>4, <3>5 DEF Selects
  <2>10. ASSUME NEW e \in Entries, Removes(e) PROVE Identity!Next
    <3>1. Configured' = Configured \ {e} /\ \A x \in Configured \ {e} : entries'[x] = entries[x]
      BY <2>10 DEF Removes, Configured
    <3>2. OwnerOf' = [OwnerOf EXCEPT ![e] = Identity!NoEntry] BY <3>1, OwnerChanges
    <3>3. Identity!Removed(e) BY <2>10, <3>2 DEF Removes, Identity!Removed, Found
    <3> QED BY <3>3 DEF Identity!Next
  <2>11. ASSUME NEW e \in Entries, SetsUp(e) \/ Stops(e) \/ Reloads(e) PROVE Identity!Next
    BY <2>1, <2>11 DEF SetsUp, Stops, Reloads
  <2> QED
    BY <2>1, <2>3, <2>4, <2>5, <2>6, <2>7, <2>8, <2>9, <2>10, <2>11 DEF Next, vars
<1> QED BY <1>1, <1>2, Invariant, PTL DEF Spec, IdentitySpec, Identity!Spec
=============================================================================
