\* Fairness, for a user who stays signed in: the connection comes up, listens stay, and
\* the puts implement the queue the screens use.
SPECIFICATION FairSpec
CONSTANTS
  q1 = q1
  Queries = {q1}
  MaxPuts = 2
  MaxGets = 1
  StartTokens = {1}
  Events <- MCEvents
  Budget <- LiveBudget
INVARIANT
  PutsAreUnderWay
PROPERTIES
  ListensStay
  ComesUp
  UnsentGetsEnd
  ImplementsPutQueue
CHECK_DEADLOCK FALSE
