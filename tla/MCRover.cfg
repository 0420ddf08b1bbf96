SPECIFICATION Spec
CONSTANTS
  QUEUE_SIZE = 2
  Volt <- MCVolt
  ClearVolt = 2
  Sight <- MCSight
  RouteMoves = {"forward", "turnLeft", "turnRight"}
  CourseEnds = FALSE
INVARIANTS
  TypeOK
  OneCommand
  NavScanOnlyUpdates
  NoCrossDrive
  ParkedServoHasOwner
  TurnTowardClearSide
  TurnsOnlyWhenBlocked
  RecordedMotion
  ParkedSweepIsAimed
PROPERTY BatonSpec
