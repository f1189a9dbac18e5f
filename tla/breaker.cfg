SPECIFICATION FairSpec
CONSTANTS
  Call = {c1, c2, c3, c4}
  c1 = c1  c2 = c2  c3 = c3  c4 = c4
  Threshold = 3
  MaxFails = 5
INVARIANTS TypeOK OneProbe SlotHeld
PROPERTIES StaleSuccessIgnored QuotaFailsFast ProbeReturned
CHECK_DEADLOCK FALSE
