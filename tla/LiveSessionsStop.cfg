SPECIFICATION FairSpec
CONSTANTS
  a1 = a1
  Accounts <- OneAccount
  NoSymbols = {}
  MaxGen = 2
  MaxPublish = 1
PROPERTIES StopCompletes
CHECK_DEADLOCK FALSE
