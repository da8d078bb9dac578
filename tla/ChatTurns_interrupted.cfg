CONSTANTS
  u1 = u1
  k1 = k1
  s1 = s1
  t1 = t1
  t2 = t2
  t3 = t3
  Tutors = {u1}
  Keys = {k1}
  Sessions = {s1}
  Turns = {t1}
  TutorOf <- OneTutor
  KeyOf <- OneKey
  SessionOf <- OneSession
  Streamed = {t1}
  HistoryMax = 2
  WholeDatabase = FALSE
SPECIFICATION Spec
PROPERTIES InterruptedTurnKeepsQuestion
CHECK_DEADLOCK FALSE
