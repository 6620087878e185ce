SPECIFICATION LiveSpec
CONSTANTS
  a1 = a1
  NoAccount = NoAccount
  Accounts <- OneAccount
  NoSymbols = {}
  MaxGen = 2
  MaxPublish = 1
  MaxOpen = 1
  MaxStops = 1
PROPERTIES PausedStaysFlat
CHECK_DEADLOCK FALSE
