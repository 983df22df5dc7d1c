SPECIFICATION Spec
CONSTANTS
  MaxTasks = 2
  MaxDeliveries = 2
  ModeNames <- MCModeNames
  TaskNames <- MCTaskNames
INVARIANTS
  TypeOK
  Accounting
  EventsAlternate
  EventsMatchTally
  NoDoubleRecord
  SuccessWitnessed
  SamplesMeasured
  CleanExit
  SmokeGate
PROPERTIES
  ClosedLoopSerial
  LedgerSpec
  RunStops
CHECK_DEADLOCK FALSE
