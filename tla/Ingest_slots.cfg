SPECIFICATION Spec
CONSTANTS
  r1 = r1
  r2 = r2
  r3 = r3
  r4 = r4
  Requests = {r1, r2, r3, r4}
  Caps = {0, 1}
  Fault <- MCFault
  Stuck = {r1}
INVARIANTS
  SlotsAccounted
  OneTrueAnswer
PROPERTIES
  RequestsFinish
