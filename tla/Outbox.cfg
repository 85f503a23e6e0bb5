\* Two relays, three events, one failure of a running relay.
CONSTANTS
  c1 = c1
  c2 = c2
  Relays = {q1, q2}
  Events <- OneCard
  BatchSize = 2
  MaxFaults = 1
SPECIFICATION FairSpec
CHECK_DEADLOCK FALSE
INVARIANTS
  TypeOK
  MarkedWasSent
  ExtraSendsHadFailures
  OvertakenByAnotherRelay
PROPERTIES
  EveryEventPublished
  RefinesFeed
