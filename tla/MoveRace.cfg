\* Two requests, every kind of command, one lost connection, one retry.
CONSTANTS
  c1 = c1
  c2 = c2
  c3 = c3
  ghost = ghost
  r1 = r1
  r2 = r2
  r3 = r3
  NoOne = NoOne
  Base = 2
  Heads = 2
  MaxFraction = 2
  Cards <- MCCards
  Ids <- MCIds
  Rank <- MCRank
  NoRank <- NoKey
  Before <- Less
  KeyBetween <- GenerateKeyBetween
  Requests <- TwoRequests
  Commands <- RaceCommands
  Seed <- MCSeed
  MaxRetries = 1
  PoolMax = 2
  MaxFaults = 1
SPECIFICATION Spec
SYMMETRY Symmetry
CHECK_DEADLOCK FALSE
INVARIANTS
  TypeOK
  AnswersAreTrue
  BackstopsNeverFire
  NeighboursPinned
  LocksEndWithTransaction
  ConflictsCounted
PROPERTY
  RefinesBoard
