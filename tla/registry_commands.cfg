SPECIFICATION FairSpec
CONSTANTS
  Procs = {p1, p2}
  Ids = {i1, i2}
  None = None
  Commands = {"rules", "persist"}
  FreshOptions = {FALSE}
  Tries = 2
  MayPersist = TRUE
  Faults = TRUE
  Crashes = TRUE
INVARIANTS TypeOK PersistClientsPreserved
PROPERTIES CommandsEnd
