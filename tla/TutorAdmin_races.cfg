CONSTANTS
  r1 = r1
  r2 = r2
  u1 = u1
  u2 = u2
  s1 = s1
  s2 = s2
  s3 = s3
  k1 = k1
  NoRow = NoRow
  Requests = {r1, r2}
  Tutors = {u1, u2}
  Sources = {s1, s2, s3}
  Keys = {k1}
  MaxSources = 1
  MaxSlug = 2
  Titles = {1}
SPECIFICATION Spec
SYMMETRY Symmetric
INVARIANTS NoOrphans SlugsDistinct LimitOverrun
PROPERTIES OnlySentColumnsChange
