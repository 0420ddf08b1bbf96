SPECIFICATION Spec
CONSTANTS
  Course = 4
  Rolls = {1, 2}
  MaxSteps = 6
  MaxEdges = 6
  MaxReplays = 1
CHECK_DEADLOCK FALSE
INVARIANT BackAtOrigin
