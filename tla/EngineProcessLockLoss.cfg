SPECIFICATION FairSpec
CONSTANTS
  e1 = e1
  e2 = e2
  Engines <- OneEngine
  NoEngine = NoEngine
  Graceful <- OneEngine
  Sharing = {}
  Crashing = {}
  Stalling <- OneEngine
PROPERTIES LockLossStops
