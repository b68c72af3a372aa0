SPECIFICATION Spec
CONSTANTS
  a1 = a1
  a2 = a2
  a3 = a3
  b1 = b1
  A = A
  B = B
  s1 = s1
  s2 = s2
  none = none
  Payloads <- MCPayloads3
  Instances <- MCInstances
  Shards = {s1, s2}
  Owner <- MCOwner
  ShardIndex <- MCTwoShards
  Size <- MCSizesLarge
  Unencodable = {}
  QueueSize = 2
  QueueBytes = 3
  MaxRetries = 0
  LiveShards = {s1}
  NoItem = none
INVARIANTS
  Conserved
PROPERTIES
  IdleShardAccepts
  ImplementsShardRelay
  AcceptedEnds
