SPECIFICATION Spec
CONSTANTS
  Devices <- TwoDevices
  Entities = {e1, e2}
  Values <- OneValue
  Times <- TwoTimes
  MaxAhead = 1
  MaxCounter = 1
  MaxEdits = 2
  MaxFaults = 1
  MaxEmpty = 0
INVARIANTS TypeOK PendingIsLocal ClocksNameOneVersion
PROPERTIES StampsFollowWhatWasSeen
CHECK_DEADLOCK FALSE
