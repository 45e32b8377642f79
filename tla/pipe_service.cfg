SPECIFICATION Spec
CONSTANTS
  Clients = {c1, c2}
  None = None
  Kinds = {"Rules"}
  Modes = {"service", "foreground"}
  kConnectAttempts = 3
INVARIANTS OwnAnswerOnce WrittenReplyArrives TeardownAlone OneAfterStop
PROPERTIES StopCompletes ClientsEnd
CHECK_DEADLOCK FALSE
