SPECIFICATION Spec
CONSTANTS
  MaxAttempts = 3
  Tasks = {x, y}
  Children = {child1, child2}
  x = x
  y = y
  child1 = child1
  child2 = child2
SYMMETRY MCSymmetry
INVARIANTS
  TypeOK
  SpanExact
  SoloExact
  SameTask
  NoLeak
  SpanOrBroken
CHECK_DEADLOCK FALSE
