\* Four nodes: a list has a middle, and places beyond its end.
\* The program may end (destory), abort or crash, so it may stop.
CONSTANTS
  n1 = n1
  n2 = n2
  n3 = n3
  n4 = n4
  Node = {n1, n2, n3, n4}
  NULL = NULL
  Junk = Junk
SPECIFICATION Spec
SYMMETRY NodeSymmetry
CHECK_DEADLOCK FALSE
INVARIANTS
  TypeOK
  WalkIsSafe
PROPERTY
  ImplementsSeq
