\* Two writers of one file, each in its own time.
CONSTANTS
  v = v
  w = w
  Writer = {v, w}
  Level = {2, 3}
  RegLevel = 2
  MultiFile = FALSE
  MaxLogSize = 4
  StampSizes = {2}
  TextSizes = {1}
SPECIFICATION Spec
SYMMETRY WriterSymmetry
CONSTRAINT Followed
INVARIANT LimitedAlways
