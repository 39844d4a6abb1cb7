SPECIFICATION FairSpec
CONSTANTS
  p1 = p1
  Partitions = {p1}
  LogLength = 3
  Kinds = {"row", "drop", "tombstone"}
  AutoOffsetReset = "earliest"
  Keyed = FALSE
  FlushSize = 2
  MinBatch = 1
  MaxBatch = 2
  WriteAttempts = 2
  CommitAttempts = 2
  MaxFaults = 3
  MaxStops = 1
  MaxExpired = 1
INVARIANT TypeOK NoLoss NothingSkipped DuplicatesNeedFaults BufferBounded
PROPERTY EventuallyPublished
