SPECIFICATION MCSpec
CONSTANTS
  Clients <- TwoClients
  Ops = {"start", "stop", "pause", "resume", "acknowledge"}
  Failures = {"handler", "crash"}
  Accounts = {"a1", "a2"}
  Books <- MCBooks
  MaxCrashes = 1
INVARIANTS OneLateSignal ResumedTogether
PROPERTIES HaltedLoopEnds RecoveryEnds SavedMatchesMt5
