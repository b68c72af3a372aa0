SPECIFICATION Spec
CONSTANTS
  Requests = {r1, r2, r3, r4, r5}
  Burst = 2
  PerToken = 3
  Second = 2
  MaxTime = 7
SYMMETRY Symmetry
INVARIANTS
  RateHeld
  HintEnough
