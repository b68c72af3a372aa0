SPECIFICATION RetrySpec
CONSTANTS
  MaxDuration = 127
  SecondTicks = 4
  InitialInterval = 3
  MaxInterval = 6
  MaxElapsed = 20
  RequestTimeout = 3
  MaxLag = 1
  Headers <- MCSaneHeaders
INVARIANTS
  WithinBudget
PROPERTIES
  RetriesEnd
