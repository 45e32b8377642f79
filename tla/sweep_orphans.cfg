SPECIFICATION Spec
CONSTANTS
  Procs = {p1, p2, p3}
  Ids = {i1, i2}
  None = None
  Commands = {"rules", "unregister"}
  FreshOptions = {FALSE}
  Tries = 2
  MayPersist = FALSE
  Faults = FALSE
  Crashes = FALSE
SYMMETRY Symmetry
INVARIANTS NoOrphansLeft
