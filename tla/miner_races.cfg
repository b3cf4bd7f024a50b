\* Two requests that overlap in their provider calls, with two reservations: three
\* miners in one round, so that two can wait in its queue, or two answers in two
\* rounds, so that a request may hold on to the first while the second is open.
SPECIFICATION Spec
CONSTANTS
  None = None
  m1 = m1  m2 = m2  m3 = m3  c1 = c1  c2 = c2
  Miners = {m1, m2, m3}
  Calls = {c1, c2}
  MaxRounds = 2
  MaxClaims = 2
  MaxNamed = 1
  MaxAnswers = 3
SYMMETRY Interchangeable
CONSTRAINT FewAnswers
INVARIANTS
  TypeOK
  OnlyNewestRound
  OneAttempt
  RewardsEarned
PROPERTIES
  FirstComeFirstServed
