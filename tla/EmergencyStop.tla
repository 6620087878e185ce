--------------------------- MODULE EmergencyStop ----------------------------
(***************************************************************************)
(* The emergency stop from end to end: the commands of the Telegram bot    *)
(* (notification service), the Redis channel between the two services, and *)
(* EmergencyStopHandler in the engine, which closes the open positions of  *)
(* every active account and pauses it.                                     *)
(*                                                                         *)
(* Redis delivers a message to the subscribers of the moment and forgets   *)
(* it.  The handler takes one command at a time; an action is one await of *)
(* it.                                                                     *)
(***************************************************************************)
EXTENDS Naturals

CONSTANTS
    Accounts,       \* accounts with config status "active"
    NoAccount,
    MaxOpen,        \* bound: open positions per account
    MaxStops        \* bound: emergency stops published

ASSUME EmergencyBounds == MaxOpen \in Nat \ {0} /\ MaxStops \in Nat

VARIABLES
    status,         \* Redis account:{id}:status, as in LiveSessions
    open,           \* open[a]: positions open at MT5
    stopActive,     \* Bot.stopActive
    pendingResume,  \* Bot.pendingResume.active and younger than 60 s
    stops,          \* number of stop commands published
    queue,          \* stop commands delivered to the handler's subscription
    handler,        \* where the handler is
    current,        \* the account it works on
    left,           \* accounts it has not reached yet
    found,          \* positions of the query's answer still to be closed
    failures,       \* accounts named in failures
    paused          \* accounts counted in accounts_paused

botVars == <<stopActive, pendingResume, stops>>
workVars == <<current, left, found, failures, paused>>
handlerVars == <<queue, handler, workVars>>
emergencyVars == <<open, botVars, handlerVars>>
emVars == <<status, emergencyVars>>

HandlerStates == {"off", "idle", "audit", "query", "close", "pause", "complete",
                  "confirm", "stopped"}

EmTypeOK ==
    /\ open \in [Accounts -> 0..MaxOpen]
    /\ stopActive \in BOOLEAN /\ pendingResume \in BOOLEAN
    /\ stops \in 0..MaxStops /\ queue \in 0..MaxStops
    /\ handler \in HandlerStates
    /\ current \in Accounts \cup {NoAccount}
    /\ left \subseteq Accounts
    /\ found \in 0..MaxOpen
    /\ failures \subseteq Accounts /\ paused \subseteq Accounts

EmInit ==
    /\ open \in [Accounts -> 0..MaxOpen]
    /\ stopActive = FALSE /\ pendingResume = FALSE /\ stops = 0
    /\ queue = 0 /\ handler = "off"
    /\ current = NoAccount /\ left = {} /\ found = 0
    /\ failures = {} /\ paused = {}

-----------------------------------------------------------------------------
(* Bot commands (CommandHandler).                                          *)

Subscribed == handler \notin {"off", "stopped"}

(* PUBLISH succeeds whether or not anybody is subscribed.  When its answer    *)
(* does not come within 500 ms the command is reported as failed, although    *)
(* Redis may have delivered it, and can be sent again.                        *)
StopAll ==
    /\ ~stopActive
    /\ stops < MaxStops
    /\ stopActive' \in BOOLEAN
    /\ stops' = stops + 1
    /\ queue' = IF Subscribed THEN queue + 1 ELSE queue
    /\ UNCHANGED <<status, open, pendingResume, handler, workVars>>

ResumeAll ==
    /\ stopActive
    /\ pendingResume' = TRUE
    /\ UNCHANGED <<status, open, stopActive, stops, handlerVars>>

(* Sixty seconds pass: the confirmation is no longer valid. *)
ConfirmationExpires ==
    /\ pendingResume
    /\ pendingResume' = FALSE
    /\ UNCHANGED <<status, open, stopActive, stops, handlerVars>>

(* No service subscribes to emergency:resume: nothing happens in the engine.  *)
ConfirmResume ==
    /\ pendingResume
    /\ pendingResume' = FALSE
    /\ stopActive' = FALSE
    /\ UNCHANGED <<status, open, stops, handlerVars>>

(* The bot keeps its state in memory only. *)
BotRestarts ==
    /\ stopActive' = FALSE
    /\ pendingResume' = FALSE
    /\ UNCHANGED <<status, open, stops, handlerVars>>

Bot == StopAll \/ ResumeAll \/ ConfirmationExpires \/ ConfirmResume \/ BotRestarts

-----------------------------------------------------------------------------
(* EmergencyStopHandler                                                    *)

HandlerStarts ==
    /\ handler = "off"
    /\ handler' = "idle"
    /\ UNCHANGED <<status, open, botVars, queue, workVars>>

(* stop() cancels the listener at whatever await it is in. *)
HandlerStopped ==
    /\ Subscribed
    /\ handler' = "stopped"
    /\ queue' = 0
    /\ UNCHANGED <<status, open, botVars, workVars>>

TakeCommand ==
    /\ handler = "idle"
    /\ queue > 0
    /\ queue' = queue - 1
    /\ handler' = "audit"
    /\ UNCHANGED <<status, open, botVars, workVars>>

(* Go to the next account of the list, or to the completion. *)
NextAccount ==
    \/ /\ left # {}
       /\ \E a \in left :
            /\ current' = a
            /\ left' = left \ {a}
       /\ handler' = "query"
    \/ /\ left = {}
       /\ current' = NoAccount
       /\ handler' = "complete"
       /\ UNCHANGED left

(* emergency_stop_triggered is in the audit log, or could not be written; the *)
(* active accounts are listed.                                                *)
AuditTriggered ==
    /\ handler = "audit"
    /\ failures' = {} /\ paused' = {}
    /\ \E a \in Accounts : current' = a /\ left' = Accounts \ {a}
    /\ handler' = "query"
    /\ UNCHANGED <<status, open, botVars, queue, found>>

QueryAnswered ==
    /\ handler = "query"
    /\ found' = open[current]
    /\ handler' = IF open[current] = 0 THEN "pause" ELSE "close"
    /\ UNCHANGED <<status, open, botVars, queue, current, left, failures, paused>>

QueryFails ==
    /\ handler = "query"
    /\ failures' = failures \cup {current}
    /\ handler' = "pause"
    /\ UNCHANGED <<status, open, botVars, queue, current, left, found, paused>>

(* The close order is an opposite market order: it closes a position, or,     *)
(* when the strategy has closed it in the meantime, opens one the other way.  *)
Executed ==
    open' = [open EXCEPT ![current] = IF @ > 0 THEN @ - 1 ELSE 1]

(* Mutant of ClosePosition: the positions are queried again until there are   *)
(* none.                                                                      *)
ClosePositionUntilFlat ==
    /\ handler = "close"
    /\ Executed \/ UNCHANGED open
    /\ found' = found - 1
    /\ handler' = IF found = 1 THEN "query" ELSE "close"
    /\ UNCHANGED <<status, botVars, queue, current, left, failures, paused>>

(* A close that is filled, is rejected, times out or raises: whichever it is, *)
(* the handler goes on, and the failure is not reported.                      *)
ClosePosition ==
    /\ handler = "close"
    /\ Executed \/ UNCHANGED open
    /\ found' = found - 1
    /\ handler' = IF found = 1 THEN "pause" ELSE "close"
    /\ UNCHANGED <<status, botVars, queue, current, left, failures, paused>>

(* Mutant of PauseAccount: the exception of pause_account ends the loop. *)
PauseAccountAborts ==
    /\ handler = "pause"
    /\ IF status[current] = "active"
       THEN /\ status' = [status EXCEPT ![current] = "paused"]
            /\ paused' = paused \cup {current}
            /\ NextAccount
       ELSE /\ handler' = "complete"
            /\ current' = NoAccount
            /\ UNCHANGED <<status, paused, left>>
    /\ UNCHANGED <<open, botVars, queue, found, failures>>

(* pause_account raises unless the account is active in Redis. *)
PauseAccount ==
    /\ handler = "pause"
    /\ IF status[current] = "active"
       THEN /\ status' = [status EXCEPT ![current] = "paused"]
            /\ paused' = paused \cup {current}
            /\ UNCHANGED failures
       ELSE /\ failures' = failures \cup {current}
            /\ UNCHANGED <<status, paused>>
    /\ NextAccount
    /\ UNCHANGED <<open, botVars, queue, found>>

AuditComplete ==
    /\ handler = "complete"
    /\ handler' = "confirm"
    /\ UNCHANGED <<status, open, botVars, queue, workVars>>

(* The confirmation is published on emergency:stop_confirmation. *)
Confirm ==
    /\ handler = "confirm"
    /\ handler' = "idle"
    /\ UNCHANGED <<status, open, botVars, queue, workVars>>

Handle ==
    \/ TakeCommand \/ AuditTriggered \/ QueryAnswered \/ QueryFails
    \/ ClosePosition \/ PauseAccount \/ AuditComplete \/ Confirm

-----------------------------------------------------------------------------
(* The rest of the engine: a node opens or closes a position, an account is   *)
(* paused by crash isolation or a rule, resumed or stopped by an operator.    *)
(* None of them looks at the handler, and nodes do not look at the status.    *)

TradeOf(a) ==
    /\ \/ open[a] < MaxOpen /\ open' = [open EXCEPT ![a] = @ + 1]
       \/ open[a] > 0 /\ open' = [open EXCEPT ![a] = @ - 1]
    /\ UNCHANGED <<status, botVars, handlerVars>>

StatusChange(a) ==
    /\ \E s \in {"active", "paused", "other"} \ {status[a]} :
           status' = [status EXCEPT ![a] = s]
    /\ UNCHANGED emergencyVars

EmNext ==
    \/ Bot \/ HandlerStarts \/ HandlerStopped \/ Handle
    \/ \E a \in Accounts : TradeOf(a) \/ StatusChange(a)

AnyStatus == status \in [Accounts -> {"active", "paused", "other"}] /\ EmInit

(* The loop runs the handler; queries and closes end by their timeouts.       *)
EmSpec ==
    /\ AnyStatus
    /\ [][EmNext]_emVars
    /\ WF_emVars(Handle)

-----------------------------------------------------------------------------
(* What the handler reports covers every active account: when it confirms,    *)
(* each one was paused by this run or is named among the failures, although   *)
(* queries, closes and pauses of single accounts fail on the way.             *)
EveryAccountHandled ==
    handler \in {"complete", "confirm"} => left = {} /\ paused \cup failures = Accounts

(* A stop command that the handler has taken is worked off, however many      *)
(* queries and closes time out, unless the engine shuts down.                 *)
StopAnswered == handler = "audit" ~> handler \in {"idle", "stopped"}
=============================================================================
