SPECIFICATION Spec
CONSTANTS
  U32 = 10000
  Handles = {h1, h2, h3}
  Null = Null
  Documents <- MCDocuments
  Roles = {"rules", "persist", "service"}
  MaxInstalls = 2
SYMMETRY Symmetry
INVARIANTS TypeOK SubrulesAnchored HandlesBalanced DenyEnforces QueueBackedHasQueue
PROPERTIES ArmedRulesStay RefinesContract
