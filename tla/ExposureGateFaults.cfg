SPECIFICATION FairSpec
CONSTANTS
  o1 = o1
  o2 = o2
  Orders <- TwoOrders
  Volume <- TwoVolumes
  MaxLots = 2
  Faults = {"redis", "slow", "send", "cancel", "ungated", "irregular", "crash"}
  TrackerExists = FALSE
INVARIANTS CounterExact GatedExposure EventsTruthful
PROPERTIES EveryOrderAnswered CounterDrains
