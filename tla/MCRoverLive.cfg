SPECIFICATION FairSpec
CONSTANTS
  QUEUE_SIZE = 1
  Volt = {1}
  ClearVolt = 2
  Sight <- MCSightAhead
  RouteMoves = {"forward", "turnRight"}
  CourseEnds = FALSE
PROPERTIES
  HandlerReturns
  ClaimIsPosted
