SPECIFICATION FairSpec
CONSTANTS
  r1 = r1 r2 = r2
  Req = {r1, r2}
  LogBody = TRUE
  QueueCap = 1
INVARIANT TypeOK
INVARIANT AnswersAreLogged
INVARIANT CountedIsLogged
INVARIANT LinesInOrder
INVARIANT CleanStopsKeepLines
PROPERTY TakenLinesAreWritten
