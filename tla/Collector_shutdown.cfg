SPECIFICATION Spec
CONSTANTS
  p1 = p1
  p2 = p2
  A = A
  s1 = s1
  none = none
  Payloads = {p1, p2}
  Instances = {A}
  Shards = {s1}
  Owner <- MCOwner
  ShardIndex <- MCShardIndex
  Size <- MCSize
  Unencodable = {}
  QueueSize = 1
  QueueBytes = 4
  MaxRetries = 0
  LiveShards = {s1}
  NoItem = none
  Caps = {1}
  Fault <- MCFault
  Stuck = {}
INVARIANTS
  AnswersKept
  CleanExitCutsNobody
PROPERTIES
  ClosedSinkOnlyPastDeadline
  SignalEnds
