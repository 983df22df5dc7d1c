SPECIFICATION Spec
CONSTANTS
  TaskCounts = {0, 2}
  ChainCounts = {0, 1}
  RetryCounts = {0, 2}
  SizeLists <- MCSizeLists
  FailCount = 2
  MaxRetries = 5
  Leftovers = 1
  MaxRedeliveries = 1
INVARIANTS
  TypeOK
  ResultsBacked
  ReportWhole
PROPERTIES
  MainEnds
CHECK_DEADLOCK FALSE
