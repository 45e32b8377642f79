SPECIFICATION Spec
CONSTANTS
  h1 = h1
  h2 = h2
  h3 = h3
  h4 = h4
  Null = Null
  Handles = {h1, h2, h3, h4}
  Documents <- MCDocuments
  Commands <- MCCommands
  MaxInstalls = 2
INVARIANTS
  FilterGetsItsCollection
  ClosedOnceByTheEnd
  ExtendedHonest
CHECK_DEADLOCK FALSE
