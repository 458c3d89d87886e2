SPECIFICATION FairSpec
CONSTANTS
  d1 = d1
  d2 = d2
  w1 = w1
  w2 = w2
  None = None
  Domains = {d1}
  Calls = {w1, w2}
  MaxGeneration = 2
  MaxPublishes = 3
  MaxFaults = 3
CHECK_DEADLOCK FALSE
INVARIANTS ReadsAreCommitted
PROPERTIES ReadersCatchUp
