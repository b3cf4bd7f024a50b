\* A message with calls three levels deep, or two transactions of one message.
SPECIFICATION Spec
CONSTANTS
  MaxId = 2
  FirstFree = 2
  Called = {1, 2}
  Tokens = {0, 1}
  Amounts = {0, 1}
  Stored = {1}
  Supply <- OneOfEach
  MaxDepth = 8
  Width = 2
  Starts = 4
CHECK_DEADLOCK FALSE
INVARIANTS
  TypeOK
  DepthMatches
  Conserved
  UnbornClean
PROPERTIES
  SlotOwned
  ImplementsNested
