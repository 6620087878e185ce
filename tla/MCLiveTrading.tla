---------------------------- MODULE MCLiveTrading ---------------------------
(* Instance of LiveTrading for TLC: one account with one position at a time.   *)
EXTENDS LiveTrading

CONSTANT a1
OneAccount == {a1}
=============================================================================
