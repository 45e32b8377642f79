SPECIFICATION Spec
CONSTANTS
  Lines <- AllLines
  Exports = 2
  MaxProcesses = 4
INVARIANTS TokenAsPlanned WorkerIsLast SuccessWasEarned
PROPERTY CommandEnds
CHECK_DEADLOCK FALSE
