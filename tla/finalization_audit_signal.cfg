SPECIFICATION Spec
CONSTANTS
  Row = {r1}
  Faults = {}
  CloseModes = {"idle"}
  MaxPasses = 4
  MaxObserved = 1
  MaxTampers = 0
  MaxCrashes = 1
  MaxFaults = 0
CHECK_DEADLOCK FALSE
INVARIANT ClosingIsOwed
