SPECIFICATION Spec
CONSTANTS
  d1 = d1
  d2 = d2
  w1 = w1
  w2 = w2
  None = None
  Domains = {d1, d2}
  Calls = {w1, w2}
  MaxGeneration = 3
  MaxPublishes = 3
  MaxFaults = 2
SYMMETRY FolderSymmetry
CHECK_DEADLOCK FALSE
INVARIANTS CommittedOnDisk PreviousOnDisk NamesNeverReused IInv
PROPERTIES EntriesAdvance ReadsAdvance
