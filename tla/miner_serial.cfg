\* One request at a time, two rounds and two miners.
SPECIFICATION LiveSpec
CONSTANTS
  None = None
  m1 = m1  m2 = m2  m3 = m3  c1 = c1  c2 = c2
  Miners = {m1, m2}
  Calls = {c1}
  MaxRounds = 2
  MaxClaims = 2
  MaxNamed = 2
  MaxAnswers = 4
INVARIANTS
  PendingIsCurrent
PROPERTIES
  ImplementsLedger
  QueueDecided
