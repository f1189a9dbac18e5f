SPECIFICATION Spec
CONSTANTS
  Row = {r1}
  Faults = {}
  CloseModes = {"manual"}
  MaxPasses = 4
  MaxObserved = 1
  MaxTampers = 0
  MaxCrashes = 0
  MaxFaults = 0
CHECK_DEADLOCK FALSE
INVARIANT ClosingIsOwed
