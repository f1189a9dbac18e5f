SPECIFICATION Spec
CONSTANTS
  Faults = {"write", "sync", "refuse", "lost", "late", "blind", "restore", "verify", "kill", "power", "backup"}
  MaxWrites = 5
  MaxFaults = 4
INVARIANTS TypeOK AckedSurvives RefusedStaysOut EnvelopesCover Reopens
PROPERTIES ImplementsHighWaterLog
CHECK_DEADLOCK FALSE
