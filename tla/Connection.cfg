\* Attempts and listens with everything that can overtake them, once each.
SPECIFICATION Spec
CONSTANTS
  q1 = q1
  Queries = {q1}
  MaxPuts = 0
  MaxGets = 0
  StartTokens = {1}
  Events <- MCEvents
  Budget <- SafetyBudget
INVARIANTS
  TypeOK
  CountIsExact
  OneAttempt
  InterruptedIsDown
  SessionIsUsers
CHECK_DEADLOCK FALSE
