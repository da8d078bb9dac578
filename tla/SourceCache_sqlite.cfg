CONSTANTS
  t1 = t1
  t2 = t2
  p1 = p1
  r1 = r1
  Nobody = Nobody
  Turns = {t1, t2}
  Statuses = {}
  Refreshes = {}
  Sources = {1, 2}
  Published <- TwoTexts
  Removable = {}
  WholeDb = TRUE
  Breaks = FALSE
  MaxBatches = 2
SPECIFICATION Spec
INVARIANTS LoadNeverRaises
PROPERTIES NeverGoesBack
CHECK_DEADLOCK FALSE
