SPECIFICATION ParserSpec
CONSTANTS
  MaxDepth = 2
  Bits = 3
  Elements <- AllElements
  MaxStarts = 5
  MaxTexts = 2
INVARIANTS
  ReaderAgrees
  DocumentKept
PROPERTY
  RefusedOutOfRange
CHECK_DEADLOCK FALSE
