SPECIFICATION Spec
CONSTANTS
  o1 = o1
  o2 = o2
  Orders <- TwoOrders
  Volume <- TwoVolumes
  MaxLots = 2
  Faults = {}
  TrackerExists = TRUE
INVARIANTS CombinedExposureCapped
