SPECIFICATION Spec
CONSTANTS
  Expected = 2
  Counts = {1, 3}
  Hashes = {0, 1}
  SmokeHash = 0
  FileNames = {"repo", "results", "raw"}
  Repo <- MCRepo
  Outs <- MCOuts
  Mounts <- MCMounts
  Injected <- MCInjected
  MaxRuns = 2
  LastSecond = 1
INVARIANTS
  TypeOK
  JobGateExact
  FigureComplete
CHECK_DEADLOCK FALSE
