SPECIFICATION Spec
CONSTANTS
  p1 = p1
  p2 = p2
  Partitions = {p1, p2}
  LogLength = 2
  Kinds = {"row", "drop"}
  AutoOffsetReset = "latest"
  Keyed = TRUE
  FlushSize = 2
  MinBatch = 1
  MaxBatch = 2
  WriteAttempts = 2
  CommitAttempts = 2
  MaxFaults = 2
  MaxStops = 1
  MaxExpired = 1
SYMMETRY Symmetry
INVARIANT CommitOnlyWritten
PROPERTY CommitNeverRewinds PublishedOncePerProcess
