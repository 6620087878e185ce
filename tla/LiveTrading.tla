---------------------------- MODULE LiveTrading -----------------------------
(***************************************************************************)
(* The running engine: live sessions (LiveSessions) and the emergency stop *)
(* (EmergencyStop) on the same accounts.  They share the account status in *)
(* Redis and the positions at MT5; nodes open and close positions.         *)
(* EngineLifecycle.run starts the handler after the sessions and stops it  *)
(* before them.                                                            *)
(***************************************************************************)
EXTENDS LiveSessions

CONSTANTS NoAccount, MaxOpen, MaxStops

VARIABLES open, stopActive, pendingResume, stops, queue, handler, current, left,
          found, failures, paused

E == INSTANCE EmergencyStop

handlerVars == <<queue, handler, current, left, found, failures, paused>>
emergencyVars == <<open, stopActive, pendingResume, stops, handlerVars>>
ownVars == <<gen, registered, state, run, callbacks, tracked, isolation, pc, on,
             task, todo, inbox, published, lost>>
liveVars == <<status, ownVars, emergencyVars>>

LiveInit == Init /\ E!EmInit

(* A node of the account has a filled order; what it does does not depend on  *)
(* the account status, which the order path never reads.                      *)
Trade(s) ==
    LET a == Account(s)
    IN  /\ run[s] = "running"
        /\ E!TradeOf(a)
        /\ UNCHANGED ownVars

(* An operator resumes the account with the CLI. *)
ResumeAccount(a) ==
    /\ status[a] = "paused"
    /\ status' = [status EXCEPT ![a] = "active"]
    /\ UNCHANGED <<ownVars, emergencyVars>>

OnlySessions(A) == A /\ UNCHANGED emergencyVars

OnlyHandler(A) ==
    /\ A
    /\ UNCHANGED ownVars

HandlerStarts == pc["main"] = "live" /\ OnlyHandler(E!HandlerStarts)
HandlerStopped == pc["main"] = "live" /\ OnlyHandler(E!HandlerStopped)
Handle == OnlyHandler(E!Handle)
LiveStops == handler = "stopped" /\ OnlySessions(BeginStop)

LiveNext ==
    \/ OnlySessions(Steps) \/ LiveStops
    \/ HandlerStarts \/ HandlerStopped \/ Handle \/ OnlyHandler(E!Bot)
    \/ \E s \in Sessions : Trade(s)
    \/ \E a \in Accounts : ResumeAccount(a)

LiveSpec == LiveInit /\ [][LiveNext]_liveVars

-----------------------------------------------------------------------------
(* An account that the emergency stop has paused and that is flat stays flat  *)
(* while it is paused and the handler is at rest: pausing it means no new     *)
(* trades.                                                                    *)
PausedStaysFlat ==
    [][\A a \in paused :
        status[a] = "paused" /\ open[a] = 0 /\ handler = "idle" => open'[a] = 0]_liveVars
=============================================================================
