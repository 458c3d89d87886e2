SPECIFICATION Spec
CONSTANTS
  d1 = d1
  d2 = d2
  t1 = t1
  e1 = e1
  e2 = e2
  None = None
  Domains = {d1, d2}
  Transports = {t1}
  Engines = {e1}
  Carrier <- OneFolder
  MaxEdits = 2
  MaxFaults = 2
SYMMETRY DomainSymmetry
INVARIANTS ClaimedIsPublished NothingStranded IInv
PROPERTY ImplementsLedger
