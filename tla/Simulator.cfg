SPECIFICATION Spec
CONSTANTS
  Home = home
  Strangers = {s1}
  Tasks <- MCTasks
  Foreign <- MCForeign
  Values <- MCValues
  None = None
  Gone = Gone
  MaxStray = 1
INVARIANTS
  TypeOK
  NeverRejected
PROPERTIES
  ShownIsCurrent
  EntitiesKnown
