SPECIFICATION Spec
CHECK_DEADLOCK FALSE
CONSTANTS
  Labels = {"a", "b", "z"}
  LabelTime <- TwoSpecs
  Bare = "bare"
  Rot = "rot"
  Cutoff = 3
  Ancient = 3
  Expirable = 2
  Consumers = {"v"}
  InitialFiles <- History
  InitialHead = 4
  Arrivals = {"z"}
  FileLimits = {1, 2}
  MaxRot = 0
  MaxAttempts = 2
  MaxWaits = 1
  MaxCommits = 1
  MaxRuns = 1
  MaxFaults = 0
  MaxMoves = 0
  MaxCrons = 0
  RewindTo = {2}
  MaxDeletes = 1
  MaxAlters = 0
PROPERTY CommitNeverOrphansVector
