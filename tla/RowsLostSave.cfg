SPECIFICATION Spec
CONSTANTS
  Devices <- TwoDevices
  Entities = {e1}
  Values <- TwoValues
  Times <- OneTime
  MaxAhead = 1
  MaxCounter = 1
  MaxEdits = 3
  MaxFaults = 1
  MaxEmpty = 0
PROPERTIES LastSaveIsNotLost
CHECK_DEADLOCK FALSE
