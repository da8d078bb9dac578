CONSTANTS
  MaxAttempts = 2
  MaxToolCalls = 1
  LangGraph = TRUE
  Suspends = TRUE
  MaxTurns = 3
  MaxCalls = 2
  MaxSlices = 2
  Sources = {1, 2}
  Inline = {2}
  Unknown = 9
  Texts <- TwoTexts
  Queries <- Asked
  Amounts = {0}
  MinRead = 5
  MaxRead = 5
  MaxSnippets = 1
  Lines <- AllLines
  StopWords = {"the"}
  MinChunk = 2
  MaxChunk = 4
  MaxSections = 2
  MaxLines = 5
SPECIFICATION ToolsFairSpec
ACTION_CONSTRAINT TwoCases
INVARIANTS AnswerIsWhatModelSaid RoundsWithinLimit
INVARIANTS ToolsTypeOK EveryCallReported CitationsAreFirstQuotes ReadingOnCoversText
INVARIANTS ChunksAreOfText OnlyCompanyClashes UnavailableOnlyWithoutText
INVARIANTS EveryLineInItsChunk ChunksHaveTheirSize SearchFindsEveryWord
PROPERTIES EveryRunEnds ImplementsReplyStream
CHECK_DEADLOCK FALSE
