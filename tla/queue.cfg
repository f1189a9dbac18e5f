SPECIFICATION FairSpec
CONSTANTS
  Meeting = {h1, l1}
  Historic = {h1}
  h1 = h1  l1 = l1
  Worker = {w1, w2, w3}
  w1 = w1  w2 = w2  w3 = w3
  Timer = {t1, t2}
  t1 = t1  t2 = t2
  MaxLate = 1
  MaxFails = 1
  MayStop = TRUE
INVARIANTS TypeOK TrackedOnce BoundedFanOut FreshLaneOpen LiveCloseDefersReconcile MarksFollowJobs ArmedIsListed ClosingIsQueued
PROPERTIES FreshServed JobsEnd JobsAsPromised
CHECK_DEADLOCK FALSE
