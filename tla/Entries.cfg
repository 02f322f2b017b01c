SPECIFICATION FairSpec
CONSTANTS
  Devices = {d1, d2}
  Hosts = {h1, h2}
  Ports = {p502, p5021}
  DefaultPort = p502
  Entries = {e1, e2}
  Flows = {f1}
  None = None
  MaxMoves = 2
  MaxAir = 1
INVARIANTS
  TypeOK
  UniqueIds
  IdentityOnDefaultPort
  StaleClientReloads
PROPERTIES
  IdentitySpec
  HostFollows
