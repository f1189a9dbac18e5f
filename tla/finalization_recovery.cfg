SPECIFICATION FairSpec
CONSTANTS
  Row = {r1, r2}
  Faults = {"provider"}
  CloseModes = {"idle", "manual"}
  MaxPasses = 4
  MaxObserved = 0
  MaxTampers = 1
  MaxCrashes = 2
  MaxFaults = 0
CHECK_DEADLOCK FALSE
INVARIANT BrokenOutputsAreOwed
PROPERTY ArchiveCatchesUp
