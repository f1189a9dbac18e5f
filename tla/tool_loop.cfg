SPECIFICATION Spec
CONSTANTS
  Carrier = {c1, c2}
  Request = {q1, q2}
  Effect = {e1, e2}
  Text = {t1, t2}
  c1 = c1  c2 = c2  q1 = q1  q2 = q2  e1 = e1  e2 = e2  t1 = t1  t2 = t2
  None = None
  TurnLimit = 3
  MaxRuns = 2
  MaxStarts = 4
  MaxFaults = 1
  Faults = {"ambiguous", "absent", "collision", "crash"}
SYMMETRY Symmetry
INVARIANTS TypeOK EffectsOnce RunsInSequence AnswersAreFinal OneRunPerRequest TurnsBounded
PROPERTIES SettledRunsStay
CHECK_DEADLOCK FALSE
