SPECIFICATION Spec
CONSTANTS
  MaxAttempts = 3
  Tasks = {x, y}
  Children = {child1, child2}
  x = x
  y = y
  child1 = child1
  child2 = child2
SYMMETRY MCSymmetry
INVARIANT
  QueueWaitMeasured
CHECK_DEADLOCK FALSE
