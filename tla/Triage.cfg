CONSTANTS
  c1 = c1
  c2 = c2
  Cards <- MCCards
  Seed <- MCSeed
  Events <- MCEvents
  MaxMoves = 3
  MaxFaults = 2
SPECIFICATION Spec
CHECK_DEADLOCK FALSE
INVARIANTS
  TypeOK
  PersonsLaneStands
  NoRunaway
  LastMoveIsTriaged
