\* Up to four registrations, beside a thread that logs (a second one would
\* only read, too).  The program may abort (assert), so it may stop.
CONSTANTS
  n1 = n1
  n2 = n2
  n3 = n3
  n4 = n4
  Node = {n1, n2, n3, n4}
  NULL = NULL
  Junk = Junk
  m1 = m1
  m2 = m2
  m3 = m3
  Module = {m1, m2, m3}
  NoModule = NoModule
  Registrar = main
  main = main
  l1 = l1
  Logger = {l1}
  MaxBatch = 2
SPECIFICATION Spec
SYMMETRY RegistrySymmetry
CHECK_DEADLOCK FALSE
INVARIANTS
  TypeOK
  NeverWalksOff
  CountedIsLinked
  FirstIsFound
  TwoAreServed
