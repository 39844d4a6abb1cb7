SPECIFICATION FairSpec
CONSTANTS
  LogLength = 1
  Layouts = {"none", "team"}
  Want = "team"
  Retention = 4
  MaxAttempts = 2
  MaxFaults = 1
  MaxDrops = 1
  MaxAlters = 1
  MaxColumns = 1
  MaxRewinds = 1
INVARIANT TypeOK FilesMatchTheirSpec OnlyDeclaredLayout
PROPERTY EventuallyCommitted
