\* Liveness: after a lost connection, delivery and convergence all the same.
SPECIFICATION FairSpec
CONSTANTS
  ann = ann
  bob = bob
  Devices <- MCDevices
  Skew <- MCSkew
  MaxSends = 2
  MaxDrops = 1
  MaxKills = 0
  MaxAppears = 2
  MaxObservers = 1
PROPERTIES
  OutboxDrains
  ScreensConverge
CHECK_DEADLOCK FALSE
