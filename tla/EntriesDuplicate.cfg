SPECIFICATION Spec
CONSTANTS
  Devices = {d1}
  Hosts = {h1}
  Ports = {p502}
  DefaultPort = p502
  Entries = {e1, e2}
  Flows = {f1, f2}
  None = None
  MaxMoves = 0
  MaxAir = 1
SYMMETRY Symmetry
INVARIANTS
  NoDuplicateEndpoint
