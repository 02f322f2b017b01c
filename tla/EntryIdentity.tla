--------------------------- MODULE EntryIdentity ---------------------------
(***************************************************************************)
(* Whom the config entries belong to, seen from outside: an entry belongs  *)
(* to one unit for good, to nobody else's, and follows that unit; an entry *)
(* nobody owns may be adopted once, by a unit that announced itself from   *)
(* the entry's address.  Every address an entry has of its unit is one     *)
(* from which that unit announced itself.  How the integration tells units *)
(* and entries apart - unique ids, flows in progress, validations - is     *)
(* left open.                                                              *)
(***************************************************************************)

CONSTANTS Devices, Hosts, Ports, DefaultPort, Entries, None

VARIABLES
  owner,    \* each entry's [unit, host, port]; unit None for a manual entry, host None for no entry
  at,       \* the address of each unit, None while it is off
  heard,    \* the announcements [serial, ip] on their way
  offered   \* the announcements somebody is being asked about

identityVars == <<owner, at, heard, offered>>

NoEntry == [unit |-> None, host |-> None, port |-> None]

Owned(d) == \E e \in Entries : owner[e].unit = d

Init ==
  /\ owner = [e \in Entries |-> NoEntry]
  /\ at \in [Devices -> Hosts \cup {None}]
  /\ \A c, d \in Devices : c # d /\ at[c] # None => at[c] # at[d]
  /\ heard = {}
  /\ offered = {}

\* A unit goes to a free address, or is switched off.
Moves(d, h) ==
  /\ h = None \/ \A c \in Devices : at[c] # h
  /\ at' = [at EXCEPT ![d] = h]
  /\ UNCHANGED <<owner, heard, offered>>

\* A unit announces where it is.
Announces(d) ==
  /\ at[d] # None
  /\ heard' = heard \cup {[serial |-> d, ip |-> at[d]]}
  /\ UNCHANGED <<owner, at, offered>>

Lost ==
  /\ heard' \subseteq heard
  /\ UNCHANGED <<owner, at, offered>>

\* A unit that is heard may be offered for as long as somebody asks.
Offers(p) ==
  /\ p \in heard
  /\ offered' = offered \cup {p}
  /\ UNCHANGED <<owner, at, heard>>

\* Offers end, by an addition or without one.
Fewer == offered' \subseteq offered /\ UNCHANGED <<at, heard>>
Withdraws == UNCHANGED owner /\ Fewer

\* The user adds a unit that was discovered, at an address it announced.
AddsUnit(e, d, h) ==
  /\ owner[e] = NoEntry
  /\ ~ Owned(d)
  /\ [serial |-> d, ip |-> h] \in offered
  /\ owner' = [owner EXCEPT ![e] = [unit |-> d, host |-> h, port |-> DefaultPort]]
  /\ Fewer

\* The user adds an endpoint where some unit answers.
AddsManual(e, h, p) ==
  /\ owner[e] = NoEntry
  /\ \E d \in Devices : at[d] = h
  /\ owner' = [owner EXCEPT ![e] = [unit |-> None, host |-> h, port |-> p]]
  /\ Fewer

\* A unit is heard from the address of an entry nobody owns.
Adopts(e, d) ==
  /\ owner[e].unit = None /\ owner[e].host # None /\ owner[e].port = DefaultPort
  /\ [serial |-> d, ip |-> owner[e].host] \in heard
  /\ ~ Owned(d)
  /\ owner' = [owner EXCEPT ![e] = [unit |-> d, host |-> owner[e].host, port |-> DefaultPort]]
  /\ UNCHANGED <<at, heard, offered>>

\* A unit that has an entry is heard from another address.
Follows(e, h) ==
  /\ owner[e].unit # None
  /\ [serial |-> owner[e].unit, ip |-> h] \in heard
  /\ owner' = [owner EXCEPT ![e] = [unit |-> owner[e].unit, host |-> h, port |-> owner[e].port]]
  /\ UNCHANGED <<at, heard, offered>>

Removed(e) ==
  /\ owner' = [owner EXCEPT ![e] = NoEntry]
  /\ UNCHANGED <<at, heard, offered>>

Next ==
  \/ Lost \/ Withdraws
  \/ \E d \in Devices : Announces(d) \/ \E h \in Hosts \cup {None} : Moves(d, h)
  \/ \E p \in heard : Offers(p)
  \/ \E e \in Entries :
       \/ \E d \in Devices : Adopts(e, d) \/ \E h \in Hosts : AddsUnit(e, d, h)
       \/ \E h \in Hosts : Follows(e, h) \/ \E p \in Ports : AddsManual(e, h, p)
       \/ Removed(e)

Spec == Init /\ [][Next]_identityVars
=============================================================================
