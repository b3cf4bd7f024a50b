\* Two reorgs; one repeated flush, or one crash before the flush.
SPECIFICATION Spec
CONSTANTS
  None = None
  g = g  a1 = a1  a2 = a2  a3 = a3  a4 = a4  b2 = b2  b3 = b3  k1 = k1  k2 = k2
  Keys = {k1, k2}
  Effects <- ForkEffects
  Blocks <- FlipBlocks
  Parent <- FlipParent
  Chains <- FlipChains
  StartBlock = 1
  MaxScanKeys = 10
  MaxHeight = 4
  MaxLength = 5
  CrashAt = {"idle", "flush"}
  MaxFaults = 1
INVARIANTS
  TypeOK
  EntriesOrdered
  ListsDense
  ManifestsComplete
PROPERTIES
  FlushInvisible
  ImplementsPromise
\* The engine waits when the node has no new block.
CHECK_DEADLOCK FALSE
