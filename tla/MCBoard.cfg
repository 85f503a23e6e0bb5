CONSTANTS
  c1 = c1
  c2 = c2
  c3 = c3
  ghost = ghost
  r1 = r1
  r2 = r2
  r3 = r3
  Base = 2
  Heads = 2
  MaxFraction = 2
  MaxVersion = 2
  Absent = Absent
  Null = Null
  Cards <- MCCards
  Ids <- MCIds
  Rank <- MCRank
  NoRank <- NoKey
  Before <- Less
  KeyBetween <- GenerateKeyBetween
  Requests <- MCRequests
  Commands <- MCCommands
  Seed <- MCSeed
SPECIFICATION Spec
SYMMETRY Symmetry
CHECK_DEADLOCK FALSE
INVARIANTS
  TypeOK
  RanksUnique
  LedgerCountsVersions
  LedgerIsTrail
  OutboxTellsLedger
  NoOpIsInPlace
PROPERTY
  MoveReachesPlace
