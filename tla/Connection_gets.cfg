\* One lost connection: is a get that was sent before it ever answered?
SPECIFICATION FairSpec
CONSTANTS
  q1 = q1
  Queries = {}
  MaxPuts = 0
  MaxGets = 1
  StartTokens = {1}
  Events <- MCEvents
  Budget <- DropBudget
PROPERTY
  GetsAreAnswered
CHECK_DEADLOCK FALSE
