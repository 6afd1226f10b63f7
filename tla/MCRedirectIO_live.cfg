\* Two sessions running commands under the fairness of the scheduler.  A behaviour
\* that leaves Undisturbed leaves it for good, and so satisfies the property: the
\* constraint cuts off none that could violate it.  No symmetry, for liveness.
CONSTANTS
  a = a
  b = b
  Session = {a, b}
  FdLimit = 13
SPECIFICATION FairSpec
CONSTRAINT Undisturbed
PROPERTY ConsoleComesBack
