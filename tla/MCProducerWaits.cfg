SPECIFICATION Spec
CONSTANTS
  MaxTasks = 2
  MaxDeliveries = 2
  ModeNames <- MCModeNames
  TaskNames <- MCTaskNames
PROPERTY
  ClosedLoopWaits
CHECK_DEADLOCK FALSE
