\* Safety: joins, refused writes, lost connections and killed apps.
SPECIFICATION Spec
CONSTANTS
  upper = upper
  lower = lower
  free = free
  NoId = NoId
  Keys <- MCKeys
  IdOf <- MCIdOf
  MaxJoins = 2
  MaxDrops = 1
  MaxKills = 1
  MaxRejects = 1
  MaxObservers = 3
INVARIANTS
  TypeOK
  ClosedMeansStored
  QuietListIsCurrent
PROPERTY
  NoChannelLost
CHECK_DEADLOCK FALSE
