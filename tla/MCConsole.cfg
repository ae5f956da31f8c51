SPECIFICATION ConsoleSpec
CONSTANTS
  Calls = {c1, c2}
  CatalogSources = {"bahamut"}
  MaxOpenings = 3
  MaxVersion = 3
  Values = {1, 2}
  MaxPages = 2
  MaxAttempts = 3
  Bodies = {b1, b2}
  Videos = {v1, v2}
  MaxVisits = 2
SYMMETRY Symmetry
INVARIANTS
  ReportedIsShown
  CreatedIsShown
  RowsAreAskedFor
  PageIsOffered
  CreatesOnce
  SucceedsAsAsked
PROPERTIES
  AnswerEndsOwn
  SubmitsOwn
  SavesOnOwn
CHECK_DEADLOCK FALSE
