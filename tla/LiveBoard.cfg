CONSTANTS
  moved = moved
  completed = completed
  Events <- MCEvents
  Completed <- MCCompleted
  Pages = {p1}
  MaxFaults = 2
SPECIFICATION Spec
CHECK_DEADLOCK FALSE
INVARIANTS
  TypeOK
  StreamsAreServed
  QuietPageIsCurrent
PROPERTIES
  MoveReachesPage
  ShutdownEnds
