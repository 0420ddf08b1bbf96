SPECIFICATION Spec
CONSTANTS
  Half = 6
  Gap = 1
  Goal = 2
  Start <- MCStart
  MaxTurned = 6
  Floor <- MCFloor
CHECK_DEADLOCK FALSE
INVARIANTS
  Wheel0NotOverCounted
  StopsInTime
  ShortOnlyBehind
