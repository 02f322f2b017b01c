SPECIFICATION FairSpec
CONSTANTS
  Entries = {e1, e2, e3}
  RetryTasks = {r1, r2}
  MaxOrphans = 2
INVARIANTS
  TypeOK
  ReservationHasStarter
  NoRetryWhileListening
  NoEntriesNoDiscovery
  LoadedServed
  OrphanNeedsPoppedStart
PROPERTIES
  ListenerKept
  LoadedHeard
