\* Binary digits and two letters per case: the whole key space is 12 integers,
\* so both of its ends and every carry are reached.
CONSTANTS
  Base = 2
  Heads = 2
  MaxCards = 3
  MaxFraction = 2
  MaxBulk = 4
SPECIFICATION Spec
INVARIANTS
  TypeOK
  KeysFollowLane
  EveryGapOpens
  OrderIsNumeric
  BulkKeysFit
