CONSTANTS
  Requests = {r1, r2}
  FailureThreshold = 1
  RecoveryTimeout = 1
  HalfOpenProbes = 1
SPECIFICATION BusySpec
PROPERTIES WindowEnds
