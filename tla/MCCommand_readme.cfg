\* One call of a function that the executable uses and a library defines.
CHECK_DEADLOCK FALSE
CONSTANTS
  exe = exe
  liba = liba
  libb = libb
  Path = {exe, liba, libb}
  Other = {"", "[heap]", "data", "[stack]"}
  AtStart = {exe, liba}
  Layout <- Places
  Elsewhere <- Others
  Systems <- OrdinarySystem
  Versions <- Upgrades
  MaxChanges = 0
  Digit = {"1"}
  MaxArg = 2
  Word = 8
  MaxInterrupts = 0
  PromptBytes = 3
  Options = 2
  Commands <- OneCall
SPECIFICATION Spec
INVARIANT FunctionIsCalled
