\* Two sessions whose commands overlap freely; the table has room for both
\* connections and the duplicates of two commands, and then fills up.
CONSTANTS
  a = a
  b = b
  Session = {a, b}
  FdLimit = 13
SPECIFICATION Spec
SYMMETRY SessionSymmetry
VIEW RunView
INVARIANTS
  TypeOK
  ConnOwned
  OutputToOwner
  ConsoleRestored
  QuitReleases
PROPERTY OnlyOwnerCloses
