\* The node is further ahead than the threshold when it reorganises.
SPECIFICATION LiveSpec
CONSTANTS
  None = None
  g = g  a1 = a1  a2 = a2  a3 = a3  a4 = a4  b2 = b2  b3 = b3  b4 = b4
  b5 = b5  c1 = c1  c2 = c2  c3 = c3  c4 = c4  c5 = c5  c6 = c6
  Blocks <- FarBlocks
  Parent <- FarParent
  Chains <- FarChains
  StartBlock = 1
  ReorgThreshold = 0
  MaxReorgDepth = 100
  MaxHeight = 4
  FaultKinds = {}
  MaxFaults = 0
PROPERTIES
  FollowsReorg
