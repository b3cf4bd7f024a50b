\* Three blocks, the second without balance changes, two failed steps, logged errors
\* or restarts at any point, and one lost race.
SPECIFICATION LiveSpec
CONSTANTS
  Poller = poller
  Coordinator = coordinator
  t1 = t1
  t2 = t2
  Tokens = {t1, t2}
  Trades = trades
  Content <- Blocks
  StartHeight = 1
  MaxHeight = 3
  MaxFaults = 1
  MaxLost = 1
INVARIANTS
  TypeOK
  NoGap
  
PROPERTIES
  ReachesTip
