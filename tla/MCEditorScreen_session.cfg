\* The session ends with quit, or when its client goes away.
CHECK_DEADLOCK FALSE
\* Reads of one key and of several bytes; lines grow until they overrun cmd_buf,
\* and the history until it is full.
CONSTANTS
  MaxCmdLen = 6
  PromptLen = 1
  MaxHistory = 2
  MaxTyped = 3
  MaxRemembered = 3
  QuitLines <- QuitWith
  Chunks <- Reads
SPECIFICATION ScreenSpec
CONSTRAINTS ShortSession ShortRow
VIEW SessionView
INVARIANTS
  TypeOK
  CursorInLine
  DefinedUnlessStrained
PROPERTIES
  ImplementsLine
  RowKeptByTurns
