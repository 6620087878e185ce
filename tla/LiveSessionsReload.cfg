SPECIFICATION FairSpec
CONSTANTS
  a1 = a1
  Accounts <- OneAccount
  NoSymbols = {}
  MaxGen = 3
  MaxPublish = 2
INVARIANTS NodesOwned
PROPERTIES SessionsSettle
CHECK_DEADLOCK FALSE
