SPECIFICATION Spec
CONSTANTS
  e1 = e1
  e2 = e2
  Engines <- MCEngines
  NoEngine = NoEngine
  Graceful <- OneEngine
  Sharing = {}
  Crashing <- MCEngines
  Stalling = {}
INVARIANTS LockInv CrashNoticed
