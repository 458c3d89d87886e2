SPECIFICATION RebuildSpec
CONSTANTS
  d1 = d1
  d2 = d2
  t1 = t1
  e1 = e1
  e2 = e2
  None = None
  Domains = {d1}
  Transports = {t1}
  Engines = {e1, e2}
  Carrier <- OneDomain
  MaxEdits = 2
  MaxFaults = 2
PROPERTY CommitsInCallOrder
