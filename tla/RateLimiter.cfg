CONSTANTS
  Callers = {a1, a2, a3, a4}
  Limit = 2
  MaxLag = 2
SPECIFICATION Spec
INVARIANTS
  LimiterInv
  SecondHeld
  LateBurstBounded
