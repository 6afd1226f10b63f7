\* Two sessions, nothing said about when their commands run.
CONSTANTS
  a = a
  b = b
  Session = {a, b}
  FdLimit = 13
SPECIFICATION Spec
INVARIANT OwnerSeesOutput
