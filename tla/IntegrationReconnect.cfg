SPECIFICATION Spec
CONSTANTS
  Poller = poll
  Callers = {s1}
  Probers = {}
  Tasks <- MCTasks
  None = None
  Gone = Gone
  Clients = {c1}
  Ids = {1, 2}
  DataId = 1
  MaxStray = 0
  MaxFaults = 0
  MaxUser = 0
PROPERTIES
  RefusedOnlyByAnother
