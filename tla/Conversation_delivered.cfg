\* Message.delivered, as Message.swift describes it.
SPECIFICATION Spec
CONSTANTS
  ann = ann
  bob = bob
  Devices <- MCDevices
  Skew <- MCSkew
  MaxSends = 1
  MaxDrops = 0
  MaxKills = 0
  MaxAppears = 1
  MaxObservers = 1
INVARIANT
  DeliveredMeansStored
CHECK_DEADLOCK FALSE
