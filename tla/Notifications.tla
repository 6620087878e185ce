---------------------------- MODULE Notifications ---------------------------
(***************************************************************************)
(* The notification service's way from Redis to Telegram: the subscriber   *)
(* with its connection and reconnection attempts, the router, which starts *)
(* a goroutine per alert, and what the goroutine hands the alert to: the   *)
(* bot, as main wires it, or the retrying MessageQueue of internal/queue.  *)
(*                                                                         *)
(* The queue's lock is held through a whole pass of processMessages, sends *)
(* to Telegram included, and Enqueue waits for it.                         *)
(***************************************************************************)
EXTENDS Naturals, Sequences, FiniteSets, SequencesExt

CONSTANTS
    Alerts,         \* alerts published for the channels subscribed to
    MaxRetries,     \* of the subscriber and of the queue
    MaxCuts         \* bound: times the subscription is cut

VARIABLES
    notifier,       \* "bot" or "queue"
    noteDone,       \* main has cancelled the context, and the queue is told to stop
    subscriber,     \* "connect", "subscribe", "listen", "reconnect", "ended"
    attempt,        \* failed attempts of Connect or reconnect
    connected,      \* Subscriber.connected
    alertAt,        \* alertAt[m]: "unpublished", "missed", "received" (a goroutine has it), "queued",
                    \* "delivered", "failed", "abandoned", "silent" (nothing to send)
    alertQueue,     \* [alert, attempts, due]
    pass,           \* processMessages: "no" or "running"; "ended" with processLoop
    rest, remaining,
    cuts

noteVars == <<notifier, noteDone, subscriber, attempt, connected, alertAt, alertQueue, pass, rest,
              remaining, cuts>>

NoteInit ==
    /\ notifier \in {"bot", "queue"} /\ noteDone = FALSE
    /\ subscriber = "connect" /\ attempt = 0 /\ connected = FALSE
    /\ alertAt = [m \in Alerts |-> "unpublished"]
    /\ alertQueue = <<>> /\ pass = "no" /\ rest = <<>> /\ remaining = <<>>
    /\ cuts = 0

queueVars == <<alertQueue, pass, rest, remaining>>

-----------------------------------------------------------------------------
(* Subscriber.                                                             *)

(* Connect: the ping is answered. *)
Connected ==
    /\ subscriber = "connect"
    /\ subscriber' = "subscribe"
    /\ connected' = TRUE
    /\ UNCHANGED <<notifier, noteDone, attempt, alertAt, queueVars, cuts>>

(* One attempt of Connect or reconnect fails; after the last one the loop     *)
(* ends and main goes on without Redis.                                       *)
AttemptFails ==
    /\ subscriber \in {"connect", "reconnect"}
    /\ attempt' = attempt + 1
    /\ subscriber' = IF attempt' = MaxRetries THEN "ended" ELSE subscriber
    /\ connected' = FALSE
    /\ UNCHANGED <<notifier, noteDone, alertAt, queueVars, cuts>>

(* Start subscribes; an error there ends it. *)
Subscribe ==
    /\ subscriber = "subscribe"
    /\ \/ subscriber' = "listen" /\ UNCHANGED connected
       \/ subscriber' = "ended" /\ connected' = FALSE
    /\ UNCHANGED <<notifier, noteDone, attempt, alertAt, queueVars, cuts>>

(* The channel of messages is closed. *)
SubscriptionCut ==
    /\ subscriber = "listen" /\ cuts < MaxCuts
    /\ cuts' = cuts + 1
    /\ subscriber' = "reconnect"
    /\ attempt' = 0
    /\ connected' = FALSE
    /\ UNCHANGED <<notifier, noteDone, alertAt, queueVars>>

Reconnected ==
    /\ subscriber = "reconnect"
    /\ subscriber' = "listen"
    /\ connected' = TRUE
    /\ UNCHANGED <<notifier, noteDone, attempt, alertAt, queueVars, cuts>>

(* The service is told to stop: what waits for the context or for the queue's *)
(* stopCh may see it, or go on with what is ready as well.                    *)
StopService ==
    /\ ~noteDone
    /\ noteDone' = TRUE
    /\ UNCHANGED <<notifier, subscriber, attempt, connected, alertAt, queueVars, cuts>>

(* Connect, Start and reconnect return; Start leaves the subscriber connected *)
(* until main closes it.                                                      *)
SubscriberStops ==
    /\ noteDone
    /\ subscriber \in {"connect", "listen", "reconnect"}
    /\ subscriber' = "ended"
    /\ UNCHANGED <<notifier, noteDone, attempt, connected, alertAt, queueVars, cuts>>

CloseSubscriber ==
    /\ noteDone
    /\ connected' = FALSE
    /\ UNCHANGED <<notifier, noteDone, subscriber, attempt, alertAt, queueVars, cuts>>

(* What a handler makes of a payload: a text to send, or nothing, because the *)
(* payload is malformed, of unknown type, or an echo of the bot's own command.*)
HandleTrade == {"received", "silent"}
HandleRisk == {"received", "silent"}
HandleSystem == {"silent"}
HandleEmergency == {"received", "silent"}

(* Route finds the handler by the channel. *)
Route(channel) ==
    CASE channel = "alerts:trade" -> HandleTrade
      [] channel = "alerts:risk" -> HandleRisk
      [] channel = "alerts:system" -> HandleSystem
      [] channel \in {"emergency:stop", "emergency:resume"} -> HandleEmergency

Channels == {"alerts:trade", "alerts:risk", "alerts:system", "emergency:stop", "emergency:resume"}

(* The engine publishes an alert; Redis keeps nothing for the absent. *)
PublishAlert(m) ==
    /\ alertAt[m] = "unpublished"
    /\ \E channel \in Channels :
       \E where \in (IF subscriber = "listen" THEN Route(channel) ELSE {"missed"}) :
           alertAt' = [alertAt EXCEPT ![m] = where]
    /\ UNCHANGED <<notifier, noteDone, subscriber, attempt, connected, queueVars, cuts>>

(* Bot.SendMessage: one attempt. *)
BotSends(m) ==
    /\ notifier = "bot"
    /\ alertAt[m] = "received"
    /\ alertAt' \in {[alertAt EXCEPT ![m] = "delivered"], [alertAt EXCEPT ![m] = "failed"]}
    /\ UNCHANGED <<notifier, noteDone, subscriber, attempt, connected, queueVars, cuts>>

-----------------------------------------------------------------------------
(* MessageQueue.                                                           *)

Entry(m) == [alert |-> m, attempts |-> 0, due |-> TRUE]

(* Mutant: the queue is appended to without its lock. *)
EnqueueAlertUnlocked(m) ==
    /\ notifier = "queue"
    /\ alertAt[m] = "received"
    /\ alertAt' = [alertAt EXCEPT ![m] = "queued"]
    /\ alertQueue' = Append(alertQueue, Entry(m))
    /\ UNCHANGED <<notifier, noteDone, subscriber, attempt, connected, pass, rest, remaining, cuts>>

EnqueueAlert(m) ==
    /\ notifier = "queue"
    /\ pass # "running"
    /\ alertAt[m] = "received"
    /\ alertAt' = [alertAt EXCEPT ![m] = "queued"]
    /\ alertQueue' = Append(alertQueue, Entry(m))
    /\ UNCHANGED <<notifier, noteDone, subscriber, attempt, connected, pass, rest, remaining, cuts>>

(* processLoop's tick. *)
BeginPass ==
    /\ pass = "no"
    /\ \E i \in DOMAIN alertQueue : alertQueue[i].due
    /\ pass' = "running"
    /\ rest' = alertQueue
    /\ remaining' = <<>>
    /\ UNCHANGED <<notifier, noteDone, subscriber, attempt, connected, alertAt, alertQueue, cuts>>

NotDue ==
    /\ pass = "running" /\ rest # <<>>
    /\ ~Head(rest).due
    /\ rest' = Tail(rest)
    /\ remaining' = Append(remaining, Head(rest))
    /\ UNCHANGED <<notifier, noteDone, subscriber, attempt, connected, alertAt, alertQueue, pass, cuts>>

SendQueued ==
    LET message == [Head(rest) EXCEPT !.attempts = @ + 1, !.due = FALSE]
    IN  /\ pass = "running" /\ rest # <<>>
        /\ Head(rest).due
        /\ rest' = Tail(rest)
        /\ \/ /\ alertAt' = [alertAt EXCEPT ![message.alert] = "delivered"]
              /\ UNCHANGED remaining
           \/ /\ message.attempts >= MaxRetries
              /\ alertAt' = [alertAt EXCEPT ![message.alert] = "abandoned"]
              /\ UNCHANGED remaining
           \/ /\ message.attempts < MaxRetries
              /\ remaining' = Append(remaining, message)
              /\ UNCHANGED alertAt
        /\ UNCHANGED <<notifier, noteDone, subscriber, attempt, connected, alertQueue, pass, cuts>>

EndPass ==
    /\ pass = "running" /\ rest = <<>>
    /\ alertQueue' = remaining
    /\ pass' = "no"
    /\ UNCHANGED <<notifier, noteDone, subscriber, attempt, connected, alertAt, rest, remaining, cuts>>

(* The delay of a message in the queue is over: baseDelay, doubled at every   *)
(* attempt.                                                                   *)
DelayPasses ==
    /\ pass = "no"
    /\ \E i \in DOMAIN alertQueue :
        /\ ~alertQueue[i].due
        /\ alertQueue' = [alertQueue EXCEPT ![i].due = TRUE]
    /\ UNCHANGED <<notifier, noteDone, subscriber, attempt, connected, alertAt, pass, rest, remaining, cuts>>

(* processLoop returns: what is in the queue, or is still put into it, stays   *)
(* there and is gone with the process.                                        *)
QueueStops ==
    /\ noteDone
    /\ pass = "no"
    /\ pass' = "ended"
    /\ UNCHANGED <<notifier, noteDone, subscriber, attempt, connected, alertAt, alertQueue, rest,
                   remaining, cuts>>

NoteNext ==
    \/ Connected \/ AttemptFails \/ Subscribe \/ SubscriptionCut \/ Reconnected
    \/ \E m \in Alerts : PublishAlert(m) \/ BotSends(m) \/ EnqueueAlert(m)
    \/ BeginPass \/ NotDue \/ SendQueued \/ EndPass \/ DelayPasses
    \/ StopService \/ SubscriberStops \/ CloseSubscriber \/ QueueStops

NoteSpec == NoteInit /\ [][NoteNext]_noteVars

-----------------------------------------------------------------------------
Held == {rest[i].alert : i \in DOMAIN rest} \cup {remaining[i].alert : i \in DOMAIN remaining}
InQueue == {alertQueue[i].alert : i \in DOMAIN alertQueue}

(* An alert that reached the queue is in it, or in the pass that works on it, *)
(* until Telegram has it or it failed MaxRetries times; alerts that arrive    *)
(* during a pass are not overwritten by its end.  And unless the service is   *)
(* stopping, a subscriber that says it is connected has not given up.         *)
AlertsAccounted ==
    /\ \A m \in Alerts : alertAt[m] = "queued" <=>
           m \in IF pass = "running" THEN Held ELSE InQueue
    /\ connected /\ ~noteDone => subscriber # "ended"
=============================================================================
