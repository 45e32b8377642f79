SPECIFICATION FairSpec
CONSTANTS
  Buffers = {b1, b2}
  None = None
  MaxEvents = 2
  Commands <- AllCommands
INVARIANT PumpOwnsBuffer
INVARIANT NoLostWakeup
INVARIANT CountedOnce
INVARIANT QuietUnlessGivenUp
PROPERTY CommandEnds
