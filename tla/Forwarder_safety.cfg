SPECIFICATION Spec
CONSTANTS
  a1 = a1
  a2 = a2
  a3 = a3
  b1 = b1
  A = A
  B = B
  s1 = s1
  s2 = s2
  none = none
  Payloads <- MCPayloads4
  Instances <- MCInstances
  Shards = {s1}
  Owner <- MCOwner
  ShardIndex <- MCOneShard
  Size <- MCSizesShared
  Unencodable = {a3}
  QueueSize = 1
  QueueBytes = 3
  MaxRetries = 1
  LiveShards = {s1}
  NoItem = none
INVARIANTS
  CountedOnce
  NothingLeftBehind
  BytesAccounted
  BytesBounded
  AttemptsAfterShutdown
PROPERTIES
  ImplementsInstanceRelay
  ShutdownReturns
