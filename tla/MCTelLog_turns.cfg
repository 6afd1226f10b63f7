\* Two writers that take turns, on the files of two levels.
CONSTANTS
  v = v
  w = w
  Writer = {v, w}
  Level = {1, 2, 3}
  RegLevel = 2
  MultiFile = TRUE
  MaxLogSize = 5
  StampSizes = {1, 2}
  TextSizes = {0, 3}
SPECIFICATION Spec
SYMMETRY WriterSymmetry
CONSTRAINT InTurn
INVARIANTS
  TypeOK
  LimitedInTurn
  NoHoleInTurn
