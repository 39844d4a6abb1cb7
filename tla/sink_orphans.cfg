SPECIFICATION Spec
CONSTANTS
  LogLength = 1
  Layouts = {"none", "team", "bucket"}
  Want = "team"
  Retention = 4
  MaxAttempts = 2
  MaxFaults = 2
  MaxDrops = 0
  MaxAlters = 0
  MaxColumns = 0
  MaxRewinds = 0
INVARIANT OrphansAreUnreferenced
