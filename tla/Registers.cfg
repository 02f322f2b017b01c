SPECIFICATION Spec
CONSTANTS
  Versions <- MCVersions
  Reported <- MCReported
  Offsets <- MCOffsets
INVARIANTS
  TypeOK
  WrittenInLimits
  ShownIsNearest
  ShownIsStable
  TemperatureIsSigned
  ErrorsAreShown
  KnownIffPresent
