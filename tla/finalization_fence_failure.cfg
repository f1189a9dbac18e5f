SPECIFICATION Spec
CONSTANTS
  Row = {r1}
  Faults = {"archive"}
  CloseModes = {"idle"}
  MaxPasses = 4
  MaxObserved = 1
  MaxTampers = 0
  MaxCrashes = 0
  MaxFaults = 1
CHECK_DEADLOCK FALSE
INVARIANT ClosingIsOwed
