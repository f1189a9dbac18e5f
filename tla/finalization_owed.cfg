SPECIFICATION FairSpec
CONSTANTS
  Row = {r1, r2}
  Faults = {"provider", "key"}
  CloseModes = {"idle"}
  MaxPasses = 3
  MaxObserved = 2
  MaxTampers = 0
  MaxCrashes = 0
  MaxFaults = 0
CHECK_DEADLOCK FALSE
PROPERTY ClosingSettles
INVARIANT ClosingIsOwed
