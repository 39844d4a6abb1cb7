SPECIFICATION FairSpec
CHECK_DEADLOCK FALSE
CONSTANTS
  Sessions = {"s", "t"}
  SnapshotTime <- Times
  InitialFiles <- Objects
  InitialTables <- Inlined
  Badly = {1, 2}
  Missing = {5}
  Unflushed = {3}
  Cutoffs = {3, 5}
  BatchSize = 2
  BatchLimits = {1, 3}
  MaxIterations = 2
  Requested = 4
  Capacity = 60
  ShareOf = 4
  EntriesPerDrop = 5
  MinBatch = 2
  MaxBatch = 3
  MaxAttempts = 3
  RegrowAfter = 1
  MaxCommits = 1
  MaxRuns = 2
  MaxUpsets = 2
INVARIANT TypeOK SnapshotsStayReadable ObjectsAreKnown QueueTroubleNeedsUpsets NeededTablesStay LockTableShare
PROPERTY RunsEnd
