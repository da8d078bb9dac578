CONSTANTS
  u1 = u1
  k1 = k1
  s1 = s1
  t1 = t1
  t2 = t2
  t3 = t3
  Tutors = {u1}
  Keys = {k1}
  Sessions = {s1}
  Turns = {t1, t2, t3}
  TutorOf <- OneTutor
  KeyOf <- OneKey
  SessionOf <- OneSession
  Streamed = {t1, t2}
  HistoryMax = 4
  WholeDatabase = FALSE
SPECIFICATION FairSpec
INVARIANTS ExchangesAdjacent OnlyWholeExchanges HistoryIsLatestPast LateRequestNeverRuns GoneSessionHoldsNothing
PROPERTIES TranscriptAppendOnly ImplementsConversation EveryRequestEnds
CHECK_DEADLOCK FALSE
