\* No reorg; two crashes at any point or repeated flushes.
SPECIFICATION Spec
CONSTANTS
  None = None
  g = g  a1 = a1  a2 = a2  a3 = a3  a4 = a4  b2 = b2  b3 = b3  k1 = k1  k2 = k2
  Keys = {k1, k2}
  Effects <- AllEffects
  Blocks <- LineBlocks
  Parent <- LineParent
  Chains <- LineChains
  StartBlock = 1
  MaxScanKeys = 10
  MaxHeight = 4
  MaxLength = 6
  CrashAt = {"idle", "flush", "height", "hash", "fast", "trim", "full", "erase", "rewrite", "lower"}
  MaxFaults = 2
INVARIANTS
  ReadsMatchNode
\* The engine waits when the node has no new block.
CHECK_DEADLOCK FALSE
