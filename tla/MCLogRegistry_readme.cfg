\* Three modules in one batch, and a search for the second.
CONSTANTS
  n1 = n1
  n2 = n2
  n3 = n3
  n4 = n4
  Node = {n1, n2, n3, n4}
  NULL = NULL
  Junk = Junk
  m1 = m1
  m2 = m2
  m3 = m3
  Module = {m1, m2, m3}
  NoModule = NoModule
  Registrar = main
  main = main
  l1 = l1
  Logger = {l1}
  MaxBatch = 3
SPECIFICATION Spec
SYMMETRY RegistrySymmetry
CHECK_DEADLOCK FALSE
INVARIANT RegisteredIsFound
