-------------------------- MODULE AccountLifecycle --------------------------
(***************************************************************************)
(* The lifecycle of one trading account: its status in Redis, the commands *)
(* that change it (AccountManager.start/stop/pause/resume_account,         *)
(* acknowledge_error), the account loop of the engine that obeys it, and   *)
(* TradingResumer, which spawns the loop after a crash.  Accounts share no *)
(* state here, so one account is modelled.                                 *)
(*                                                                         *)
(* A command runs in a process of its own (the CLI) or in the engine (rule *)
(* violation, emergency stop, node failure).  Every command reads the      *)
(* status and writes it by two Redis commands, with no lock between them.  *)
(***************************************************************************)
EXTENDS Naturals

CONSTANTS
    Clients,        \* commands that may be under way at the same time
    Ops,            \* the commands they may issue
    Failures        \* subset of {"handler", "crash"}

States == {"active", "paused", "stopped", "error"}
AllOps == {"start", "stop", "pause", "resume", "acknowledge"}

ASSUME OpsKnown == Ops \subseteq AllOps
ASSUME FailuresKnown == Failures \subseteq {"handler", "crash"}

VARIABLES
    status,     \* Redis account:{id}:status, or "none"
    cmd,        \* cmd[c]: the command whose status check has passed, or "idle"
    engine,     \* what the engine is doing about the account
    task,       \* where the account loop is, or "none"
    late        \* history: handler calls since the account was last halted,
                \* counted up to LateCap

vars == <<status, cmd, engine, task, late>>

(* One more than OneLateSignal allows. *)
LateCap == 2

(* "down": the engine is not running; "resuming": TradingResumer has seen     *)
(* that the account was active; "spawning": the task is created, the status   *)
(* not yet written; "up": the recovery of the account is done.                *)
EngineStates == {"down", "recovering", "resuming", "spawning", "up"}
TaskStates == {"none", "health", "check", "handler", "failed", "clear"}

TypeOK ==
    /\ status \in States \cup {"none"}
    /\ cmd \in [Clients -> AllOps \cup {"idle"}]
    /\ engine \in EngineStates
    /\ task \in TaskStates
    /\ late \in 0..LateCap

Init ==
    /\ status = "none"
    /\ cmd = [c \in Clients |-> "idle"]
    /\ engine = "down"
    /\ task = "none"
    /\ late = 0

(* AccountState.valid_transitions *)
ValidTransitions ==
    [s \in States \cup {"none"} |->
        CASE s = "none"    -> {}
          [] s = "active"  -> {"paused", "stopped", "error"}
          [] s = "paused"  -> {"active", "stopped", "error"}
          [] s = "stopped" -> {"active"}
          [] s = "error"   -> {"stopped"}]

CanTransition(s, target) == target \in ValidTransitions[s]

Halted(s) == s \in {"stopped", "paused"}

(* Does the command go on, given the status it reads?  Otherwise it raises   *)
(* ValueError, or, for stop, returns because there is nothing to do.         *)
Accepted(op) ==
    CASE op = "start"       -> status = "none" \/ CanTransition(status, "active")
      [] op = "stop"        -> status # "stopped"
      [] op = "pause"       -> CanTransition(status, "paused")
      [] op = "resume"      -> status = "paused"
      [] op = "acknowledge" -> status = "error"

Target(op) ==
    CASE op \in {"start", "resume"}      -> "active"
      [] op \in {"stop", "acknowledge"}  -> "stopped"
      [] op = "pause"                    -> "paused"

(* save_account_status *)
SaveStatus(s) ==
    /\ status' = s
    /\ late' = IF Halted(status) /\ Halted(s) THEN late ELSE 0

-----------------------------------------------------------------------------
(* Commands.                                                               *)

(* get_account_status and the check of its answer. *)
Read(c, op) ==
    /\ cmd[c] = "idle"
    /\ Accepted(op)
    /\ cmd' = [cmd EXCEPT ![c] = op]
    /\ UNCHANGED <<status, engine, task, late>>

Write(c) ==
    /\ cmd[c] # "idle"
    /\ SaveStatus(Target(cmd[c]))
    /\ cmd' = [cmd EXCEPT ![c] = "idle"]
    /\ UNCHANGED <<engine, task>>

-----------------------------------------------------------------------------
(* The engine: launch, TradingResumer for the account, crash.              *)

(* Only recovery after a crash spawns account loops; a start after a clean    *)
(* shutdown, or without snapshots of the account, does not.                   *)
Launch ==
    /\ engine = "down"
    /\ engine' \in {"recovering", "up"}
    /\ UNCHANGED <<status, cmd, task, late>>

(* _should_resume_account: only an account that was active is resumed. *)
ReadActive ==
    /\ engine = "recovering"
    /\ status = "active"
    /\ engine' = "resuming"
    /\ UNCHANGED <<status, cmd, task, late>>

Skip ==
    /\ engine = "recovering"
    /\ status # "active"
    /\ engine' = "up"
    /\ UNCHANGED <<status, cmd, task, late>>

(* The reconciliation of some account failed or needs a human: no account is  *)
(* resumed.  Nothing is written, the status stays "active" without a loop.    *)
Blocked ==
    /\ engine = "recovering"
    /\ engine' = "up"
    /\ UNCHANGED <<status, cmd, task, late>>

(* _spawn_account_task creates the loop, then writes "active" whatever the    *)
(* status has become since it was read.                                       *)
Spawn ==
    /\ engine = "resuming"
    /\ task = "none"
    /\ task' = "health"
    /\ engine' = "spawning"
    /\ UNCHANGED <<status, cmd, late>>

SpawnWrites ==
    /\ engine = "spawning"
    /\ engine' = "up"
    /\ SaveStatus("active")
    /\ UNCHANGED <<cmd, task>>

Crash ==
    /\ "crash" \in Failures
    /\ engine # "down"
    /\ engine' = "down"
    /\ task' = "none"
    /\ UNCHANGED <<status, cmd, late>>

-----------------------------------------------------------------------------
(* _run_account_loop                                                       *)

UpdateHealth ==
    /\ task = "health"
    /\ task' = "check"
    /\ UNCHANGED <<status, cmd, engine, late>>

(* Mutant of CheckStatus: a pause does not end the loop. *)
CheckStatusStoppedOnly ==
    /\ task = "check"
    /\ task' = IF status = "stopped" THEN "clear" ELSE "handler"
    /\ UNCHANGED <<status, cmd, engine, late>>

(* The loop ends on "stopped" and "paused", and on nothing else. *)
CheckStatus ==
    /\ task = "check"
    /\ task' = IF Halted(status) THEN "clear" ELSE "handler"
    /\ UNCHANGED <<status, cmd, engine, late>>

(* The signal handler runs, then the loop sleeps and starts over. *)
HandleSignal ==
    /\ task = "handler"
    /\ task' = "health"
    /\ late' = IF Halted(status) /\ late < LateCap THEN late + 1 ELSE late
    /\ UNCHANGED <<status, cmd, engine>>

(* The handler, or a Redis command of the loop, raises. *)
HandlerRaises ==
    /\ "handler" \in Failures
    /\ task \in {"health", "check", "handler"}
    /\ task' = "failed"
    /\ UNCHANGED <<status, cmd, engine, late>>

(* set_error asks no transition table: it is taken from any state. *)
SetError == SaveStatus("error")

(* _handle_account_error: set_error, alert. *)
HandleError ==
    /\ task = "failed"
    /\ SetError
    /\ task' = "clear"
    /\ UNCHANGED <<cmd, engine>>

(* finally: the health key is deleted and the task forgotten. *)
ClearHealth ==
    /\ task = "clear"
    /\ task' = "none"
    /\ UNCHANGED <<status, cmd, engine, late>>

Loop == UpdateHealth \/ CheckStatus \/ HandleSignal \/ HandleError \/ ClearHealth

Resumption == ReadActive \/ Skip \/ Blocked \/ Spawn \/ SpawnWrites

Next ==
    \/ \E c \in Clients, op \in Ops : Read(c, op)
    \/ \E c \in Clients : Write(c)
    \/ Launch \/ Resumption \/ Crash
    \/ Loop \/ HandlerRaises

Spec == Init /\ [][Next]_vars

(* The event loop of the engine runs its tasks; a command that has passed     *)
(* its check writes.  Nobody is obliged to issue commands or to launch.       *)
Fairness ==
    /\ WF_vars(Loop) /\ WF_vars(Resumption)
    /\ \A c \in Clients : WF_vars(Write(c))

FairSpec == Spec /\ Fairness

-----------------------------------------------------------------------------
(* After a pause or a stop is in Redis the account loop starts at most one    *)
(* more handler call, whatever commands, crashes and recoveries come between. *)
OneLateSignal == late <= 1

(* An account that stays halted has its loop ended. *)
HaltedLoopEnds == Halted(status) ~> (task = "none" \/ ~Halted(status))
=============================================================================
