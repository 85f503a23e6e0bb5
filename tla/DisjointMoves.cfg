\* Two requests at the ends of one lane, retried once.
CONSTANTS
  c1 = c1
  c2 = c2
  c3 = c3
  c4 = c4
  c5 = c5
  c6 = c6
  c7 = c7
  c8 = c8
  ghost = ghost
  r1 = r1
  r2 = r2
  r3 = r3
  NoOne = NoOne
  Base = 3
  Heads = 2
  MaxFraction = 2
  Cards <- LaneCards
  Ids <- LaneIds
  Rank <- MCRank
  NoRank <- NoKey
  Before <- Less
  KeyBetween <- GenerateKeyBetween
  Requests <- TwoRequests
  Commands <- EndsOfLane
  Seed <- LaneSeed
  MaxRetries = 1
  PoolMax = 2
  MaxFaults = 0
SPECIFICATION Spec
CHECK_DEADLOCK FALSE
INVARIANT
  NonAdjacentMovesDoNotContend
