CONSTANTS
  t1 = t1
  t2 = t2
  p1 = p1
  r1 = r1
  Nobody = Nobody
  Turns = {t1}
  Statuses = {p1}
  Refreshes = {r1}
  Sources = {1, 2}
  Published <- TwoTexts
  Removable = {1, 2}
  WholeDb = FALSE
  Breaks = TRUE
  MaxBatches = 2
SPECIFICATION FairSpec
ACTION_CONSTRAINT TwoCases
INVARIANTS Coherent CatalogueNeverDeadlocks
PROPERTIES EveryRequestEnds
CHECK_DEADLOCK FALSE
