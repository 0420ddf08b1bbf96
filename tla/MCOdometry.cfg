SPECIFICATION Spec
CONSTANTS
  Half = 3
  Gap = 2
  MaxEdges = 9
CHECK_DEADLOCK FALSE
INVARIANTS
  OdometerLosesHalfRange
  FullMeansTurning
PROPERTY LegWithinOneReading
