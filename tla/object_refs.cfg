SPECIFICATION Spec
CONSTANTS
  Addresses = {a1, a2, a3}
  Null = Null
  Commands <- AllLines
  MaxNotified = 2
  MaxClients = 2
INVARIANTS RefsOwned NothingKept ExitTellsCreated
