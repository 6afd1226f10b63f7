\* The session ends with quit, or when its client goes away.
\* Short lines and an empty history: only the keys can go wrong.
CONSTANTS
  MaxCmdLen = 8
  PromptLen = 2
  MaxHistory = 3
  MaxTyped = 3
  QuitLines <- Quit
  Chunks <- FewKeys
SPECIFICATION Spec
CONSTRAINT ShortLine
INVARIANT EditingIsDefined
CHECK_DEADLOCK FALSE
