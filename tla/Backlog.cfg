\* One relay that publishes one event at a time.
CONSTANTS
  c1 = c1
  c2 = c2
  Relays = {q1}
  Events <- TwoCards
  BatchSize = 1
  MaxFaults = 0
SPECIFICATION FairSpec
CHECK_DEADLOCK FALSE
PROPERTY
  GaugeShowsBacklog
