SPECIFICATION Spec
CONSTANTS
  Row = {r1, r2}
  Faults = {"receipt", "archive", "memory", "provider", "key"}
  CloseModes = {"idle", "manual"}
  MaxPasses = 4
  MaxObserved = 1
  MaxTampers = 0
  MaxCrashes = 1
  MaxFaults = 2
SYMMETRY RowSymmetry
CHECK_DEADLOCK FALSE
INVARIANTS TypeOK SyncedMatchesArchive FinalizedCoversSource ArchiveNeverOverclaims
PROPERTIES DeletionReachesArchive ImplementsReadiness
