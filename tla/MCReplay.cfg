SPECIFICATION Spec
CONSTANTS
  QUEUE_SIZE = 2
  Volt = {1}
  ClearVolt = 2
  Sight <- MCSightAhead
  RouteMoves = {"forward"}
  CourseEnds = TRUE
INVARIANTS
  QuietAfterRetirement
