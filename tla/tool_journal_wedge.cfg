SPECIFICATION Spec
CONSTANTS
  Faults = {"lost", "blind"}
  MaxWrites = 2
  MaxFaults = 2
INVARIANTS AdvancedHighWaterPoisons
CHECK_DEADLOCK FALSE
