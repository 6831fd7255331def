\* One spelling of each UUID: no crash, and joins and the list come to an end.
SPECIFICATION FairSpec
CONSTANTS
  upper = upper
  lower = lower
  free = free
  NoId = NoId
  Keys <- CleanKeys
  IdOf <- CleanIdOf
  MaxJoins = 2
  MaxDrops = 1
  MaxKills = 0
  MaxRejects = 1
  MaxObservers = 3
INVARIANT
  CrashOnlyOnAliases
PROPERTIES
  JoinIsAnswered
  ListConverges
CHECK_DEADLOCK FALSE
