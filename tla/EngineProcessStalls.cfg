SPECIFICATION FairSpec
CONSTANTS
  e1 = e1
  e2 = e2
  Engines <- MCEngines
  NoEngine = NoEngine
  Graceful <- MCEngines
  Sharing <- OtherEngine
  Crashing = {}
  Stalling <- OtherEngine
PROPERTIES ShutdownCompletes GracefulSetsFlag
