SPECIFICATION Spec
CONSTANTS
  Unit = 15
  DefaultRate = 3
  Prefetches = {0, 5}
  Durations = {0, 4, 13}
  DefaultDuration <- MCDefaultDuration
  GetTimeout = 2
  Expires = 10
  PublishTimes = {0, 4}
  Lateness = {0, 1}
  ServiceTimes = {0, 3, 7}
  Limits <- MCLimits
INVARIANTS
  TypeOK
  OfferedLoad
  RateHeld
  LatencyIncludesWait
  
  SlaBoundsTail
  PassedNeedsSuccess
  SlaPassesShortRuns
CHECK_DEADLOCK FALSE
