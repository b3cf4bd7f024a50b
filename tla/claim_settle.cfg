\* Two claims, two claim hashes, two overlapping requests, retries, a lost
\* transaction, a restart. The cap leaves room for both claims only after a burn.
SPECIFICATION LiveSpec
CONSTANTS
  None = None
  one = one  two = two  h1 = h1  h2 = h2  q1 = q1  q2 = q2
  Claims = {one, two}
  Hashes = {h1, h2}
  Units <- OneAndTwo
  Cap = 4
  Premine = 2
  AuthUnits = 2
  Calls = {q1, q2}
  MaxBroadcasts = 3
  MaxLost = 1
  MaxCrashes = 1
  MaxBurned = 1
INVARIANTS
  PaidOnce
  SupplyCapped
  AuthBacked
PROPERTIES
  SubmittedIsSettled
\* Everything may be settled, lost or forgotten.
CHECK_DEADLOCK FALSE
