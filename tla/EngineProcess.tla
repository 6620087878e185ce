--------------------------- MODULE EngineProcess ----------------------------
(***************************************************************************)
(* The life of trading-engine processes that share one Redis: crash        *)
(* detection and the process lock (CrashRecoveryManager), the run loop     *)
(* (EngineLifecycle), the recovery flow as far as it decides about the     *)
(* crash indicators (RecoveryOrchestrator), and the shutdown sequence      *)
(* (GracefulShutdown).                                                     *)
(*                                                                         *)
(* A process is identified by e \in Engines; when it has ended it may be   *)
(* launched again, as a supervisor does.  Each Redis command is one step.  *)
(***************************************************************************)
EXTENDS Integers, FiniteSets

CONSTANTS
    Engines,      \* processes that may be launched against the same Redis
    NoEngine,     \* the lock key does not exist
    Graceful,     \* processes configured with GracefulShutdown
    Sharing,      \* processes whose AccountManager uses the engine's own
                  \* RedisStateManager
    Crashing,     \* processes that may crash
    Stalling      \* processes that may be paused, cut off from Redis or see
                  \* a Redis command raise

ASSUME NoEngineOutside == NoEngine \notin Engines
ASSUME ConfiguredEngines == Graceful \subseteq Engines /\ Sharing \subseteq Engines
ASSUME DisturbedEngines == Crashing \subseteq Engines /\ Stalling \subseteq Engines

VARIABLES
    lock,       \* Redis engine:lock:process, by the process that set it
    clean,      \* Redis engine:shutdown:clean exists
    snapshots,  \* Redis has snapshot:*:latest keys
    pc,         \* pc[e]: where EngineLifecycle.run is
    missing,    \* missing[e]: missing_shutdown_flag read at startup
    stale,      \* stale[e]: stale_heartbeat read at startup
    recovery,   \* recovery[e]: _recovery_mode was entered at startup
    beating,    \* beating[e]: the heartbeat task runs
    lost,       \* lost[e]: _on_lock_lost was called
    stop,       \* stop[e]: EngineLifecycle._shutdown_event is set
    signal,     \* signal[e]: GracefulShutdown._shutdown_event is set
    seq,        \* seq[e]: progress of CrashRecoveryManager.shutdown_sequence
    sessions,   \* sessions[e]: the live nodes of the process run
    redisOpen,  \* redisOpen[e]: the RedisStateManager is connected
    stalled,    \* stalled[e]: the process is cut off or paused
    early,      \* startups under way when the lock was set or last kept alive
    dirty       \* history: the last process to trade ended without the flag

local == <<missing, stale, recovery, beating, lost, stop, signal, seq,
           sessions, redisOpen, stalled, early>>
vars == <<lock, clean, snapshots, pc, local, dirty>>

Startup == {"flag", "lock", "flag2", "scan", "acquire", "clear"}
Places == {"off"} \cup Startup \cup
          {"recover", "start", "arm", "live", "signals", "orders", "persist",
           "sequence", "close", "teardown", "ended"}

TypeOK ==
    /\ lock \in Engines \cup {NoEngine}
    /\ clean \in BOOLEAN /\ snapshots \in BOOLEAN /\ dirty \in BOOLEAN
    /\ pc \in [Engines -> Places]
    /\ missing \in [Engines -> BOOLEAN] /\ stale \in [Engines -> BOOLEAN]
    /\ recovery \in [Engines -> BOOLEAN] /\ beating \in [Engines -> BOOLEAN]
    /\ lost \in [Engines -> BOOLEAN] /\ stop \in [Engines -> BOOLEAN]
    /\ signal \in [Engines -> BOOLEAN] /\ sessions \in [Engines -> BOOLEAN]
    /\ redisOpen \in [Engines -> BOOLEAN]
    /\ seq \in [Engines -> {"none", "beat", "flag", "unlock", "done", "failed"}]
    /\ stalled \in [Engines -> {"no", "yes", "was"}]
    /\ early \in SUBSET Engines

Off(v) == [e \in Engines |-> v]

Init ==
    /\ lock = NoEngine
    /\ clean = FALSE /\ snapshots = FALSE /\ dirty = FALSE
    /\ pc = Off("off")
    /\ missing = Off(FALSE) /\ stale = Off(FALSE) /\ recovery = Off(FALSE)
    /\ beating = Off(FALSE) /\ lost = Off(FALSE)
    /\ stop = Off(FALSE) /\ signal = Off(FALSE) /\ seq = Off("none")
    /\ sessions = Off(FALSE) /\ redisOpen = Off(FALSE) /\ stalled = Off("no")
    /\ early = {}

Set(f, e, v) == [f EXCEPT ![e] = v]
Goto(e, place) == pc' = Set(pc, e, place)
Runs(e, place) == pc[e] = place /\ stalled[e] # "yes"

(* The heartbeat of e has kept the lock alive up to now.  The lock lives 60 s *)
(* and is refreshed every 15 s, so it outlives every startup under way now.   *)
Starting == {x \in Engines : pc[x] \in Startup}
LastBeat(e) == IF beating[e] /\ redisOpen[e] THEN Starting ELSE early

(* The process ends: everything it kept in memory is gone. *)
Gone(e) ==
    /\ Goto(e, "off")
    /\ missing' = Set(missing, e, FALSE) /\ stale' = Set(stale, e, FALSE)
    /\ recovery' = Set(recovery, e, FALSE) /\ beating' = Set(beating, e, FALSE)
    /\ lost' = Set(lost, e, FALSE) /\ stop' = Set(stop, e, FALSE)
    /\ signal' = Set(signal, e, FALSE) /\ seq' = Set(seq, e, "none")
    /\ sessions' = Set(sessions, e, FALSE)
    /\ redisOpen' = Set(redisOpen, e, FALSE)
    /\ stalled' = Set(stalled, e, "no")
    /\ early' = LastBeat(e) \ {e}
-----------------------------------------------------------------------------
(* CrashRecoveryManager.startup_sequence                                   *)

Launch(e) ==
    /\ pc[e] = "off"
    /\ Goto(e, "flag")
    /\ redisOpen' = Set(redisOpen, e, TRUE)
    /\ UNCHANGED <<lock, clean, snapshots, missing, stale, recovery, beating,
                   lost, stop, signal, seq, sessions, stalled, early, dirty>>

ReadFlag(e) ==
    /\ Runs(e, "flag")
    /\ missing' = Set(missing, e, ~clean)
    /\ Goto(e, "lock")
    /\ UNCHANGED <<lock, clean, snapshots, stale, recovery, beating, lost,
                   stop, signal, seq, sessions, redisOpen, stalled, early, dirty>>

(* _check_stale_heartbeat reads the lock, then the flag once more. *)
ReadLock(e) ==
    /\ Runs(e, "lock")
    /\ stale' = Set(stale, e, lock = NoEngine)
    /\ Goto(e, "flag2")
    /\ UNCHANGED <<lock, clean, snapshots, missing, recovery, beating, lost,
                   stop, signal, seq, sessions, redisOpen, stalled, early, dirty>>

RereadFlag(e) ==
    /\ Runs(e, "flag2")
    /\ stale' = Set(stale, e, stale[e] /\ ~clean)
    /\ Goto(e, "scan")
    /\ UNCHANGED <<lock, clean, snapshots, missing, recovery, beating, lost,
                   stop, signal, seq, sessions, redisOpen, stalled, early, dirty>>

(* check_crash_indicators ends with the scan; initiate_recovery follows. *)
ScanSnapshots(e) ==
    /\ Runs(e, "scan")
    /\ recovery' = Set(recovery, e, missing[e] /\ (stale[e] \/ snapshots))
    /\ Goto(e, "acquire")
    /\ UNCHANGED <<lock, clean, snapshots, missing, stale, beating, lost,
                   stop, signal, seq, sessions, redisOpen, stalled, early, dirty>>

(* Mutant of AcquireLock: SET without NX. *)
AcquireLockNoNx(e) ==
    /\ Runs(e, "acquire")
    /\ lock' = e
    /\ early' = Starting
    /\ Goto(e, "clear")
    /\ UNCHANGED <<clean, snapshots, missing, stale, recovery, beating, lost,
                   stop, signal, seq, sessions, redisOpen, stalled, dirty>>

(* SET NX EX *)
AcquireLock(e) ==
    /\ Runs(e, "acquire")
    /\ lock = NoEngine
    /\ lock' = e
    /\ early' = Starting
    /\ Goto(e, "clear")
    /\ UNCHANGED <<clean, snapshots, missing, stale, recovery, beating, lost,
                   stop, signal, seq, sessions, redisOpen, stalled, dirty>>

(* Another instance holds the lock: SystemExit(1). *)
AcquireFails(e) ==
    /\ Runs(e, "acquire")
    /\ lock # NoEngine
    /\ Gone(e)
    /\ UNCHANGED <<lock, clean, snapshots, dirty>>

(* Mutant of ClearFlag: the flag of the last shutdown is left in place. *)
ClearFlagForgotten(e) ==
    /\ Runs(e, "clear")
    /\ beating' = Set(beating, e, TRUE)
    /\ early' = early \ {e}
    /\ Goto(e, "recover")
    /\ UNCHANGED <<lock, clean, snapshots, missing, stale, recovery, lost, stop,
                   signal, seq, sessions, redisOpen, stalled, dirty>>

ClearFlag(e) ==
    /\ Runs(e, "clear")
    /\ clean' = FALSE
    /\ beating' = Set(beating, e, TRUE)
    /\ early' = early \ {e}
    /\ Goto(e, "recover")
    /\ UNCHANGED <<lock, snapshots, missing, stale, recovery, lost, stop,
                   signal, seq, sessions, redisOpen, stalled, dirty>>
-----------------------------------------------------------------------------
(* The heartbeat task.                                                     *)

(* EXPIRE succeeds on any lock key, whoever set it. *)
RefreshLock(e) ==
    /\ beating[e] /\ stalled[e] # "yes" /\ redisOpen[e]
    /\ lock # NoEngine
    /\ UNCHANGED vars

(* The key is gone: on_lock_lost sets the lifecycle's event, the loop ends. *)
LockLost(e) ==
    /\ beating[e] /\ stalled[e] # "yes" /\ redisOpen[e]
    /\ lock = NoEngine
    /\ beating' = Set(beating, e, FALSE)
    /\ lost' = Set(lost, e, TRUE)
    /\ stop' = Set(stop, e, TRUE)
    /\ UNCHANGED <<lock, clean, snapshots, pc, missing, stale, recovery,
                   signal, seq, sessions, redisOpen, stalled, early, dirty>>

(* A startup or a shutdown sequence that is not stalled takes less than the   *)
(* 45 s the lock still has at a heartbeat's end.  So the lock expires only    *)
(* when every heartbeat, every shutdown sequence and every startup older than *)
(* the last refresh is stalled or has ended.                                  *)
KeepsLock(e) ==
    \/ beating[e] /\ redisOpen[e]
    \/ e \in early
    \/ seq[e] \in {"flag", "unlock"}

Expire ==
    /\ lock # NoEngine
    /\ \A e \in Engines : KeepsLock(e) => stalled[e] = "yes"
    /\ lock' = NoEngine
    /\ UNCHANGED <<clean, snapshots, pc, local, dirty>>
-----------------------------------------------------------------------------
(* EngineLifecycle.run                                                     *)

(* Nothing catches what a Redis command raises before run() gets to its wait: *)
(* the process ends.  (Startup's RuntimeError, SystemExit(1), is AcquireFails.) *)
StartRaises(e) ==
    /\ e \in Stalling
    /\ pc[e] \in Startup \cup {"recover", "start", "arm"}
    /\ Gone(e)
    /\ UNCHANGED <<lock, clean, snapshots, dirty>>

(* The recovery flow, then bind_recovery_artifacts and the signal handlers.  *)
Recover(e) ==
    /\ Runs(e, "recover")
    /\ Goto(e, "start")
    /\ UNCHANGED <<lock, clean, snapshots, local, dirty>>

(* LiveOrchestrator.start launches the nodes: the process trades. *)
StartLive(e) ==
    /\ Runs(e, "start")
    /\ sessions' = Set(sessions, e, TRUE)
    /\ dirty' = TRUE
    /\ Goto(e, "arm")
    /\ UNCHANGED <<lock, clean, snapshots, missing, stale, recovery, beating, lost,
                   stop, signal, seq, redisOpen, stalled, early>>

(* SnapshotService writes snapshot:{id}:latest every 5 s, *)
TakeSnapshot(e) ==
    /\ sessions[e] /\ redisOpen[e] /\ stalled[e] # "yes"
    /\ ~snapshots
    /\ snapshots' = TRUE
    /\ UNCHANGED <<lock, clean, pc, local, dirty>>

(* with a time to live of one hour. *)
ExpireSnapshots ==
    /\ snapshots
    /\ \A e \in Engines : ~sessions[e]
    /\ snapshots' = FALSE
    /\ UNCHANGED <<lock, clean, pc, local, dirty>>

(* Audit writer, exposure scripts and emergency-stop subscriber start. *)
Arm(e) ==
    /\ Runs(e, "arm")
    /\ Goto(e, "live")
    /\ UNCHANGED <<lock, clean, snapshots, local, dirty>>

(* SIGTERM, SIGINT or Engine.shutdown() with GracefulShutdown.  A signal     *)
(* before the handlers are registered kills the process (Crash).             *)
Signal(e) ==
    /\ e \in Graceful
    /\ pc[e] \in {"start", "arm", "live"}
    /\ ~signal[e]
    /\ signal' = Set(signal, e, TRUE)
    /\ UNCHANGED <<lock, clean, snapshots, pc, missing, stale, recovery,
                   beating, lost, stop, seq, sessions, redisOpen, stalled, early,
                   dirty>>

(* Engine.shutdown() without GracefulShutdown: ends the wait of run() and    *)
(* runs the shutdown sequence beside it.  No-op once _running is false.      *)
Shutdown(e) ==
    /\ e \notin Graceful
    /\ Runs(e, "live")
    /\ ~stop[e]
    /\ stop' = Set(stop, e, TRUE)
    /\ seq' = Set(seq, e, "beat")
    /\ UNCHANGED <<lock, clean, snapshots, pc, missing, stale, recovery,
                   beating, lost, signal, sessions, redisOpen, stalled, early, dirty>>

(* Mutant of EndWait: run() waits for the lifecycle's event in both cases. *)
EndWaitOwnEvent(e) ==
    /\ Runs(e, "live")
    /\ stop[e]
    /\ IF e \in Graceful THEN Goto(e, "signals") ELSE Goto(e, "teardown")
    /\ UNCHANGED <<lock, clean, snapshots, local, dirty>>

(* run() waits for GracefulShutdown's event when it is configured, and for   *)
(* the lifecycle's own event otherwise.                                      *)
EndWait(e) ==
    /\ Runs(e, "live")
    /\ IF e \in Graceful THEN signal[e] /\ Goto(e, "signals")
                      ELSE stop[e] /\ Goto(e, "teardown")
    /\ UNCHANGED <<lock, clean, snapshots, local, dirty>>

(* The emergency-stop subscriber stops, then LiveOrchestrator.stop: it is     *)
(* over when the listener, the nodes and the isolation tasks have ended, for  *)
(* which it may wait for ever (StopCompletes of LiveSessions).                *)
StopNodes(e) ==
    /\ Runs(e, "teardown")
    /\ sessions' = Set(sessions, e, FALSE)
    /\ Goto(e, "ended")
    /\ UNCHANGED <<lock, clean, snapshots, missing, stale, recovery, beating,
                   lost, stop, signal, seq, redisOpen, stalled, early, dirty>>

(* The audit writer stops and run() returns. *)
Teardown(e) ==
    /\ Runs(e, "ended")
    /\ Gone(e)
    /\ UNCHANGED <<lock, clean, snapshots, dirty>>
-----------------------------------------------------------------------------
(* GracefulShutdown.initiate                                               *)

(* AccountManager.shutdown cancels the account tasks and closes its Redis.   *)
StopSignals(e) ==
    /\ Runs(e, "signals")
    /\ redisOpen' = IF e \in Sharing THEN Set(redisOpen, e, FALSE) ELSE redisOpen
    /\ early' = IF e \in Sharing THEN LastBeat(e) ELSE early
    /\ Goto(e, "orders")
    /\ UNCHANGED <<lock, clean, snapshots, missing, stale, recovery, beating,
                   lost, stop, signal, seq, sessions, stalled, dirty>>

(* No order pending, or 30 s have passed. *)
WaitOrders(e) ==
    /\ Runs(e, "orders")
    /\ Goto(e, "persist")
    /\ UNCHANGED <<lock, clean, snapshots, local, dirty>>

(* Mutant of PersistState: the recovery artifacts are not bound, so there is  *)
(* no shutdown sequence to run.                                               *)
PersistStateUnbound(e) ==
    /\ Runs(e, "persist")
    /\ Goto(e, "close")
    /\ UNCHANGED <<lock, clean, snapshots, local, dirty>>

(* Final snapshots; failures are logged.  Then shutdown_sequence starts. *)
PersistState(e) ==
    /\ Runs(e, "persist")
    /\ seq' = Set(seq, e, "beat")
    /\ Goto(e, "sequence")
    /\ UNCHANGED <<lock, clean, snapshots, missing, stale, recovery, beating,
                   lost, stop, signal, sessions, redisOpen, stalled, early, dirty>>

(* The sequence is through: close connections.  It raised: give up. *)
EndSequence(e) ==
    /\ Runs(e, "sequence")
    /\ \/ seq[e] = "done" /\ Goto(e, "close")
       \/ seq[e] = "failed" /\ Goto(e, "teardown")
    /\ UNCHANGED <<lock, clean, snapshots, local, dirty>>

CloseConnections(e) ==
    /\ Runs(e, "close")
    /\ redisOpen' = Set(redisOpen, e, FALSE)
    /\ Goto(e, "teardown")
    /\ UNCHANGED <<lock, clean, snapshots, missing, stale, recovery, beating,
                   lost, stop, signal, seq, sessions, stalled, early, dirty>>

(* CrashRecoveryManager.shutdown_sequence: stop_heartbeat, *)
StopHeartbeat(e) ==
    /\ seq[e] = "beat" /\ stalled[e] # "yes"
    /\ beating' = Set(beating, e, FALSE)
    /\ seq' = Set(seq, e, "flag")
    /\ early' = LastBeat(e)
    /\ UNCHANGED <<lock, clean, snapshots, pc, missing, stale, recovery, lost,
                   stop, signal, sessions, redisOpen, stalled, dirty>>

(* A Redis command raises when the client was closed before, or when the      *)
(* connection fails.  Then initiate() gives up, without the rest of the       *)
(* sequence (graceful_shutdown.py:467-477).                                   *)
MayRaise(e) == ~redisOpen[e] \/ e \in Stalling

(* set_clean_shutdown_flag.  If only the reply is lost, the flag is set. *)
SetFlag(e) ==
    /\ seq[e] = "flag" /\ stalled[e] # "yes"
    /\ \/ redisOpen[e] /\ seq' = Set(seq, e, "unlock")
       \/ MayRaise(e) /\ seq' = Set(seq, e, "failed")
    /\ \/ redisOpen[e] /\ clean' = TRUE /\ dirty' = FALSE
       \/ seq'[e] = "failed" /\ UNCHANGED <<clean, dirty>>
    /\ UNCHANGED <<lock, snapshots, pc, missing, stale, recovery, beating,
                   lost, stop, signal, sessions, redisOpen, stalled, early>>

(* release_process_lock: DEL, whoever set the lock. *)
ReleaseLock(e) ==
    /\ seq[e] = "unlock" /\ stalled[e] # "yes"
    /\ \/ lock' = NoEngine /\ seq' = Set(seq, e, "done")
       \/ /\ MayRaise(e)
          /\ lock' \in {lock, NoEngine}
          /\ seq' = Set(seq, e, "failed")
    /\ UNCHANGED <<clean, snapshots, pc, missing, stale, recovery, beating,
                   lost, stop, signal, sessions, redisOpen, stalled, early, dirty>>
-----------------------------------------------------------------------------
(* Disturbances.                                                           *)

Crash(e) ==
    /\ e \in Crashing
    /\ pc[e] # "off"
    /\ Gone(e)
    /\ UNCHANGED <<lock, clean, snapshots, dirty>>

(* A process is paused or cut off from Redis for more than the lock's TTL;   *)
(* once per launch.                                                          *)
Stall(e) ==
    /\ e \in Stalling
    /\ pc[e] # "off" /\ stalled[e] = "no"
    /\ stalled' = Set(stalled, e, "yes")
    /\ early' = LastBeat(e)
    /\ UNCHANGED <<lock, clean, snapshots, pc, missing, stale, recovery,
                   beating, lost, stop, signal, seq, sessions, redisOpen, dirty>>

Wake(e) ==
    /\ stalled[e] = "yes"
    /\ stalled' = Set(stalled, e, "was")
    /\ UNCHANGED <<lock, clean, snapshots, pc, missing, stale, recovery,
                   beating, lost, stop, signal, seq, sessions, redisOpen, early, dirty>>

RunLoop(e) ==
    \/ ReadFlag(e) \/ ReadLock(e) \/ RereadFlag(e) \/ ScanSnapshots(e)
    \/ AcquireLock(e) \/ AcquireFails(e) \/ ClearFlag(e)
    \/ Recover(e) \/ StartLive(e) \/ Arm(e) \/ EndWait(e)
    \/ StopSignals(e) \/ WaitOrders(e) \/ PersistState(e) \/ EndSequence(e)
    \/ CloseConnections(e) \/ Teardown(e)

Heartbeat(e) == RefreshLock(e) \/ LockLost(e)

Sequence(e) == StopHeartbeat(e) \/ SetFlag(e) \/ ReleaseLock(e)

Next ==
    \/ \E e \in Engines :
          \/ Launch(e) \/ RunLoop(e) \/ Heartbeat(e) \/ Sequence(e)
          \/ StartRaises(e) \/ StopNodes(e)
          \/ Signal(e) \/ Shutdown(e) \/ TakeSnapshot(e)
          \/ Crash(e) \/ Stall(e) \/ Wake(e)
    \/ Expire \/ ExpireSnapshots

Spec == Init /\ [][Next]_vars

(* The event loop of a process that is not stalled runs each of its tasks; a  *)
(* Redis command is answered or raises; stalls end.  Launches, signals,       *)
(* crashes and expiry are not assumed, nor that StopNodes ends.               *)
Fairness ==
    \A e \in Engines : /\ WF_vars(RunLoop(e)) /\ WF_vars(Heartbeat(e))
                       /\ WF_vars(Sequence(e)) /\ WF_vars(Wake(e))

FairSpec == Spec /\ Fairness

-----------------------------------------------------------------------------
(* From the SET NX to the DEL a process counts on the lock being its own. *)
Holds(e) == /\ pc[e] \notin {"off"} \cup (Startup \ {"clear"})
            /\ seq[e] \notin {"done", "failed"}

(* Without stalls the lock is exclusive: whoever is between acquiring and    *)
(* releasing it, through crashes and restarts of itself and of others, is    *)
(* the one that set the key.                                                 *)
LockExcludes == \A e \in Engines : Holds(e) => lock = e

(* Why the lock does not expire under a process that holds it: its heartbeat  *)
(* runs, or its startup or its shutdown sequence is still young.              *)
LockKept ==
    \A e \in Engines :
        /\ stalled[e] # "yes"
        /\ pc[e] \in Startup \/ pc[e] = "off" => seq[e] = "none"
        /\ pc[e] \in {"recover", "start", "arm", "signals", "orders", "persist"}
             => seq[e] = "none"
        /\ pc[e] = "live" /\ (e \in Graceful \/ ~stop[e]) => seq[e] = "none"
        /\ pc[e] = "close" => seq[e] = "done"
        /\ pc[e] = "clear" => e \in early
        /\ Holds(e) /\ pc[e] # "clear" /\ seq[e] \in {"none", "beat"}
             => beating[e] /\ redisOpen[e]
        /\ seq[e] \in {"flag", "unlock"} => Holds(e)
        /\ e \notin Sharing /\ pc[e] \notin {"off", "teardown", "ended"} /\ seq[e] # "done"
             => redisOpen[e]

(* The inductive invariant behind LockExcludes. *)
LockInv == TypeOK /\ LockKept /\ LockExcludes

(* The flag read before the lock is taken is not out of date once it is: a   *)
(* process that has the lock and is about to trade has seen the flag missing *)
(* if the last process that traded did not set it.                           *)
CrashNoticed ==
    \A e \in Engines : pc[e] \in {"recover", "start"} /\ dirty => missing[e]

(* Why the flag cannot go out of date: a startup that saw the flag is younger *)
(* than the end of the last heartbeat, so before the lock can expire for it   *)
(* the startup is over; and the lock is released only after the flag is set.  *)
Trading(x) == Holds(x) /\ pc[x] # "clear" /\ seq[x] \in {"none", "beat"}
FlagRead == {"lock", "flag2", "scan", "acquire"}

NoticeInv ==
    /\ clean => ~dirty
    /\ \A e \in Engines :
        /\ pc[e] \in {"recover", "start"} => ~clean
        /\ pc[e] \in {"clear", "recover", "start"} /\ dirty => missing[e]
        /\ seq[e] = "unlock" => ~dirty
        /\ pc[e] \in FlagRead /\ dirty /\ ~missing[e] =>
              (\E x \in Engines : Trading(x)) \/ (lock # NoEngine /\ e \in early)

(* A shutdown that was asked for gets to the stop of the live nodes, through  *)
(* stalls of the process and whatever Redis commands raise.                   *)
ShutdownCompletes == \A e \in Engines : signal[e] ~> pc[e] \in {"off", "teardown"}

(* A graceful shutdown leaves the clean flag, whatever the other processes    *)
(* do.  It gives up without it, and then says so (ShutdownResult.success is   *)
(* false), only if AccountManager has closed the connection under it or a     *)
(* Redis command raised.                                                      *)
GracefulSetsFlag ==
    \A e \in Engines :
        (signal[e] /\ pc[e] = "live")
          ~> (clean \/ (e \in Sharing \cup Stalling /\ seq[e] = "failed"))

(* Losing the process lock shuts the engine down.                            *)
LockLossStops == \A e \in Engines : lost[e] ~> pc[e] \in {"off", "teardown"}
=============================================================================
