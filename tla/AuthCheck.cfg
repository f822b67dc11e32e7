CONSTANTS
  Requests = {r1, r2, r3}
  FailureThreshold = 3
  RecoveryTimeout = 3
  HalfOpenProbes = 2
  Checks = {c1}
  MaxTries = 2
SPECIFICATION CheckFairSpec
INVARIANTS
  BreakerInv
  AttemptsInProxy
  TripNeedsCauses
  AcceptedTokenWasLive
PROPERTIES
  ImplementsContract
  WindowDecided
  DeadlineReached
  CheckEnds
