SPECIFICATION Spec
CONSTANTS
  MaxBuilds = 2
  MaxEdits = 1
  MaxFaults = 1
  MaxTriggers = 2
CHECK_DEADLOCK FALSE
INVARIANT HandshakeMatches
PROPERTIES OffStaysQuiet QuitLeavesNothing
