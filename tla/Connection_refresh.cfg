\* A revoked token, and the app coming to the foreground: is the token refreshed?
SPECIFICATION Spec
CONSTANTS
  q1 = q1
  Queries = {}
  MaxPuts = 0
  MaxGets = 0
  StartTokens = {1}
  Events <- MCEvents
  Budget <- RevokedBudget
INVARIANT
  RefreshedOnReconnect
CHECK_DEADLOCK FALSE
