\* One branch; two RPC errors, runtime errors or crashes.
SPECIFICATION LiveSpec
CONSTANTS
  None = None
  g = g  a1 = a1  a2 = a2  a3 = a3  a4 = a4  b2 = b2  b3 = b3  b4 = b4
  b5 = b5  c1 = c1  c2 = c2  c3 = c3  c4 = c4  c5 = c5  c6 = c6
  Blocks <- LineBlocks
  Parent <- LineParent
  Chains <- LineChains
  StartBlock = 1
  ReorgThreshold = 6
  MaxReorgDepth = 100
  MaxHeight = 3
  FaultKinds = {"rpc", "runtime", "crash"}
  MaxFaults = 2
INVARIANTS
  StrictlySerial
  StoreMatchesNode
PROPERTIES
  CatchesUp
