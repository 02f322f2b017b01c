SPECIFICATION FairSpec
CONSTANTS
  Poller = poll
  Callers = {s1}
  Probers = {o1, o2}
  Tasks <- MCTasks
  None = None
  Gone = Gone
  Clients = {c1, c2, c3, c4}
  Ids = {1, 2}
  DataId = 1
  MaxStray = 1
  MaxFaults = 2
  MaxUser = 2
INVARIANTS
  TypeOK
  SlotMatches
  OnlyOutlivedMeet
  StaleIdReloads
PROPERTIES
  SavedIdAnswered
  Recovers
