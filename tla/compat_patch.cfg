CONSTANTS
  s1 = s1
  s2 = s2
  s3 = s3
  Sites <- MCSites
  Contexts <- MCContexts
  MaxSessions = 3
SYMMETRY Symmetry
SPECIFICATION Spec
INVARIANTS
  RefusalLeavesNoPatch
  OneSitePatched
CHECK_DEADLOCK FALSE
