SPECIFICATION FairSpec
CONSTANTS
  Devices <- TwoDevices
  Entities = {e1}
  Values <- OneValue
  Times <- OneTime
  MaxAhead = 9
  MaxCounter = 1
  MaxEdits = 3
  MaxFaults = 1
  MaxEmpty = 0
INVARIANTS ShowsNewestSeen
PROPERTIES EditsYieldToLaterOnly Converges
CHECK_DEADLOCK FALSE
