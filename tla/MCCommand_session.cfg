\* A wild call or write ends the session; on descriptor -1 nothing is read.
CHECK_DEADLOCK FALSE
CONSTANTS
  exe = exe
  liba = liba
  libb = libb
  Path = {exe, liba, libb}
  Other = {"", "[heap]", "data", "[stack]"}
  AtStart = {exe, liba}
  Layout <- Places
  Elsewhere <- Others
  Systems <- SmallSystems
  Versions <- Upgrades
  MaxChanges = 2
  Digit = {"1"}
  MaxArg = 2
  Word = 8
  MaxInterrupts = 2
  PromptBytes = 3
  Options = 2
  Commands <- AllCommands
SPECIFICATION FairSpec
INVARIANTS
  TypeOK
  AnswerIsDefinition
  DefinitionIsFound
  CalledAsTyped
  WellFormedIsCalled
  NothingLost
PROPERTY PromptComesBack
