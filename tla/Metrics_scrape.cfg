SPECIFICATION Spec
CONSTANTS
  a1 = a1
  a2 = a2
  a3 = a3
  s1 = s1
  s2 = s2
  Free = Free
  Counters <- MCCounters
  Unlabelled = {"limited"}
  Adds = {a1, a2, a3}
  To <- MCTo
  Amount <- MCAmount
  Scrapes = {s1, s2}
INVARIANTS
  NothingLost
  ScrapeComplete
  NeverBackwards
PROPERTIES
  NobodyWaitsForReaders
