SPECIFICATION Spec
CONSTANTS
  Entries = {e1}
  RetryTasks = {r1}
  MaxOrphans = 1
INVARIANTS
  NoOrphan
