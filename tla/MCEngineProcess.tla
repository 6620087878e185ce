-------------------------- MODULE MCEngineProcess ---------------------------
(* Instances of EngineProcess for TLC: two processes, each relaunched any     *)
(* number of times, so that one starts while the other runs, stops or dies.   *)
EXTENDS EngineProcess

CONSTANTS e1, e2

MCEngines == {e1, e2}
OneEngine == {e1}
OtherEngine == {e2}
=============================================================================
