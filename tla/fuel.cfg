SPECIFICATION Spec
CONSTANTS
  N = 4
  SizeFrom <- MCSizeFrom
  TotalFuel = 23
  MinimumFuel = 5
  ByShare = TRUE
  Costs = {0, 1, 3, 5}
  Gasless = TRUE
INVARIANTS TypeOK SizeCovers
PROPERTIES FairShare NoFuelCreated
CHECK_DEADLOCK FALSE
