SPECIFICATION Spec
CONSTANTS
  Meeting = {l1}
  Historic = {}
  l1 = l1
  Worker = {w1, w2, w3}
  w1 = w1  w2 = w2  w3 = w3
  Timer = {t1, t2}
  t1 = t1  t2 = t2
  MaxLate = 1
  MaxFails = 2
  MayStop = FALSE
SYMMETRY Symmetry
INVARIANT RetryIsOwed
CHECK_DEADLOCK FALSE
