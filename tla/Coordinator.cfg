SPECIFICATION FairSpec
CONSTANTS
  Pollers = {poll}
  Timer = poll
  Writers = {w1}
  Probers = {probe}
  NoTask = NoTask
  i3 = i3
  i50 = i50
  i51 = i51
  h1 = h1
  h2 = h2
  h3 = h3
  Regs <- MCRegs
  Tasks <- MCTasks
  Versions <- MCVersions
  Present <- MCPresent
  InputBatches <- MCInputBatches
  HoldingBatches <- MCHoldingBatches
  ExtensionBatches <- MCExtensionBatches
  ProbeBatch <- MCProbeBatch
  MaxStamp = 3
  MaxFaults = 1
  MaxUpdates = 1
  Downgrades = FALSE
INVARIANTS
  TypeOK
  LockConsistent
  OneConnection
  AckedIsShown
  OnlyPresentAreRead
PROPERTIES
  CoherentSpec
  OperationsEnd
  Reconciles
