SPECIFICATION Spec
CONSTANTS
  p1 = p1
  Partitions = {p1}
  LogLength = 3
  Kinds = {"row", "poison"}
  AutoOffsetReset = "earliest"
  Keyed = FALSE
  FlushSize = 2
  MinBatch = 1
  MaxBatch = 4
  WriteAttempts = 2
  CommitAttempts = 2
  MaxFaults = 0
  MaxStops = 0
  MaxExpired = 0
INVARIANT NoLoss
