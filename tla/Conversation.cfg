\* Safety: sends in any order, lost connections and answers, killed apps.
SPECIFICATION Spec
CONSTANTS
  ann = ann
  bob = bob
  Devices <- MCDevices
  Skew <- MCSkew
  MaxSends = 2
  MaxDrops = 1
  MaxKills = 1
  MaxAppears = 3
  MaxObservers = 2
INVARIANTS
  TypeOK
  AckedIsStored
  QuietScreenIsCurrent
  NeverEmptyList
  NothingShownTwice
PROPERTIES
  ScreensNeverForget
  ImplementsBoard
CHECK_DEADLOCK FALSE
