--------------------------- MODULE MCLiveSessions ---------------------------
(* Instance of LiveSessions for TLC.  One account, because accounts meet only  *)
(* in the order in which one coroutine visits them; three sessions of it, so   *)
(* that a session untracked by its predecessor is reloaded once more.          *)
EXTENDS LiveSessions

CONSTANT a1
OneAccount == {a1}
=============================================================================
