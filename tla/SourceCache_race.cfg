CONSTANTS
  t1 = t1
  t2 = t2
  p1 = p1
  r1 = r1
  Nobody = Nobody
  Turns = {t1, t2}
  Statuses = {}
  Refreshes = {}
  Sources = {1}
  Published <- TwoTexts
  Removable = {}
  WholeDb = FALSE
  Breaks = FALSE
  MaxBatches = 1
SPECIFICATION Spec
INVARIANT LoadNeverRaises

CHECK_DEADLOCK FALSE
