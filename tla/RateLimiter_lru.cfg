SPECIFICATION Spec
CONSTANTS
  r1 = r1
  r2 = r2
  r3 = r3
  r4 = r4
  Requests = {r1, r2, r3, r4}
  Address <- MCAddress
  Proxy <- MCProxy
  PrefixBits = {64, 129}
  Forged <- MCForged
  MaxForged = 2
  MaxVisitors = 2
  StaleAfter = 2
  MaxTime = 4
INVARIANTS
  MapMatchesList
  OneBucketPerSender
PROPERTIES
  IdleGoFirst
  SweepComplete
