SPECIFICATION FairSpec
CONSTANTS
  t1 = t1
  t2 = t2
  Tasks = {t1}
  Texts = {0, 1}
  MaxActions = 1
  DeleteLimit = 1
  StaleDays = 0
  Dates = {2, 3}
  LastDay = 3
  MaxEdits = 3
  MaxFaults = 1
CHECK_DEADLOCK FALSE
INVARIANTS OneEvent LinksTellTheTruth
PROPERTIES LinksSettle
