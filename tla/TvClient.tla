------------------------------ MODULE TvClient ------------------------------
(***************************************************************************)
(* The TradingView client (pkg/tradingview/client.go) with its WebSocket   *)
(* connection and session manager: Connect, the receive loop that          *)
(* reconnects, the send loop that works off the queue, rate limits, the    *)
(* registration of sessions, and Close.                                    *)
(*                                                                         *)
(* A queued message is [kind, session, n]; n makes it unique.  What the    *)
(* server does is external: it accepts or refuses connections, answers the *)
(* authentication, sends pings and rate limits, and goes away.             *)
(***************************************************************************)
EXTENDS Numbered, FiniteSets, SequencesExt

CONSTANTS
    TvSessions,     \* chart, quote and replay sessions
    MaxMessages,    \* bound: messages the sessions queue
    MaxReconnects,  \* maxReconnects
    BackoffSteps,   \* doublings of the rate limit's 1 s before its 30 s cap
    MaxOutages      \* bound: connections the server loses

VARIABLES
    conn,       \* the socket: "closed", "open" or "dead" (the peer is gone)
    authed,     \* has the server the auth token of this connection?
    isLogged,
    reconnectCount,
    rateLimitBackoff,
    connecting, \* Connect: "idle", "auth", "failed", "done"
    receiver,   \* receiveLoop: "none", "receive", "delay", "dial", "auth", "ended"
    sender,     \* sendLoop: "none", "tick", "drain" (holds the queue's lock), "ended"
    closing,    \* Close: "no", "receiver", "sender", "sessions", "conn", "done"
    registered, \* the sessions of the manager
    sendQueue,
    sentLog,    \* history: messages the server received, oldest first
    vanished,   \* history: messages written to a dead connection
    queuedLog,  \* history: messages queued, oldest first
    early,      \* history: messages received on a connection without token
    outages

tvVars == <<conn, authed, isLogged, reconnectCount, rateLimitBackoff, connecting, receiver,
            sender, closing, registered, sendQueue, sentLog, vanished, queuedLog, early, outages>>

TvInit ==
    /\ conn = "closed" /\ authed = FALSE /\ isLogged = FALSE
    /\ reconnectCount = 0 /\ rateLimitBackoff = 0
    /\ connecting = "idle" /\ receiver = "none" /\ sender = "none" /\ closing = "no"
    /\ registered = {}
    /\ sendQueue = <<>> /\ sentLog = <<>> /\ queuedLog = <<>>
    /\ vanished = {} /\ early = {}
    /\ outages = 0

Cancelled == closing # "no"

-----------------------------------------------------------------------------
(* Sessions: register, create and delete.                                  *)

Message(kind, s) == [kind |-> kind, session |-> s, n |-> Len(queuedLog) + 1]

(* Send and SendRaw: whatever the state of the connection, once the lock of   *)
(* the queue is free.                                                         *)
Enqueue(messages) ==
    /\ sender # "drain"
    /\ sendQueue' = sendQueue \o messages
    /\ queuedLog' = queuedLog \o messages

(* NewChartSession, NewQuoteSession: the create packet, then Register. *)
NewSession(s) ==
    /\ s \notin registered
    /\ Len(queuedLog) < MaxMessages
    /\ registered' = registered \cup {s}
    /\ Enqueue(<<Message("create", s)>>)
    /\ UNCHANGED <<conn, authed, isLogged, reconnectCount, rateLimitBackoff, connecting, receiver,
                   sender, closing, sentLog, vanished, early, outages>>

(* Delete, then Unregister. *)
DeleteSession(s) ==
    /\ s \in registered
    /\ Len(queuedLog) < MaxMessages
    /\ registered' = registered \ {s}
    /\ Enqueue(<<Message("delete", s)>>)
    /\ UNCHANGED <<conn, authed, isLogged, reconnectCount, rateLimitBackoff, connecting, receiver,
                   sender, closing, sentLog, vanished, early, outages>>

-----------------------------------------------------------------------------
(* Connect.                                                                *)

(* GorillaWebSocket.Connect *)
Dialed == conn' = "open" /\ authed' = FALSE

Dial ==
    /\ connecting = "idle"
    /\ closing = "no"
    /\ Dialed
    /\ connecting' = "auth"
    /\ UNCHANGED <<isLogged, reconnectCount, rateLimitBackoff, receiver, sender, closing, registered,
                   sendQueue, sentLog, vanished, queuedLog, early, outages>>

(* authenticate: the token is fetched over HTTP and sent past the queue. *)
Authenticated ==
    /\ conn = "open"
    /\ authed' = TRUE
    /\ isLogged' = TRUE

ConnectDone ==
    /\ connecting = "auth"
    /\ Authenticated
    /\ connecting' = "done"
    /\ receiver' = "receive"
    /\ sender' = "tick"
    /\ UNCHANGED <<conn, reconnectCount, rateLimitBackoff, closing, registered, sendQueue, sentLog,
                   vanished, queuedLog, early, outages>>

(* The token is refused, or the connection lost: Connect calls Close, which   *)
(* waits for loops that were never started.                                   *)
ConnectFails ==
    /\ connecting = "auth"
    /\ connecting' = "failed"
    /\ closing' = "receiver"
    /\ UNCHANGED <<conn, authed, isLogged, reconnectCount, rateLimitBackoff, receiver, sender,
                   registered, sendQueue, sentLog, vanished, queuedLog, early, outages>>

-----------------------------------------------------------------------------
(* receiveLoop and attemptReconnect.                                       *)

Receives(next) ==
    /\ receiver = "receive"
    /\ conn = "open"
    /\ receiver' = IF Cancelled THEN "ended" ELSE next
    /\ reconnectCount' = 0

(* handleMessage: pings, answered past the queue, and packets for sessions,   *)
(* which the manager hands to a registered session and otherwise drops.       *)
HandleMessage ==
    /\ Receives("receive")
    /\ UNCHANGED <<conn, authed, isLogged, rateLimitBackoff, connecting, sender, closing, registered,
                   sendQueue, sentLog, vanished, queuedLog, early, outages>>

(* handleRateLimit: one second, doubled at every further limit, up to a cap. *)
HandleRateLimit ==
    /\ Receives("receive")
    /\ rateLimitBackoff' = IF rateLimitBackoff = BackoffSteps
                           THEN BackoffSteps ELSE rateLimitBackoff + 1
    /\ UNCHANGED <<conn, authed, isLogged, connecting, sender, closing, registered,
                   sendQueue, sentLog, vanished, queuedLog, early, outages>>

(* Mutant: the error is reported and the loop goes on reading. *)
ReceiveErrorContinues ==
    /\ receiver = "receive"
    /\ conn # "open"
    /\ receiver' = IF Cancelled THEN "ended" ELSE "receive"
    /\ UNCHANGED <<conn, authed, isLogged, reconnectCount, rateLimitBackoff, connecting, sender,
                   closing, registered, sendQueue, sentLog, vanished, queuedLog, early, outages>>

(* Receive returns an error: the first attempt to reconnect begins. *)
ReceiveError ==
    /\ receiver = "receive"
    /\ conn # "open"
    /\ reconnectCount' = IF Cancelled THEN reconnectCount ELSE reconnectCount + 1
    /\ receiver' = IF Cancelled \/ reconnectCount' > MaxReconnects THEN "ended" ELSE "delay"
    /\ UNCHANGED <<conn, authed, isLogged, rateLimitBackoff, connecting, sender, closing, registered,
                   sendQueue, sentLog, vanished, queuedLog, early, outages>>

(* After the delay the old socket is closed and a new one takes its place;    *)
(* isLogged is not reset.                                                     *)
DelayOver ==
    /\ receiver = "delay"
    /\ receiver' = IF Cancelled THEN "ended" ELSE "dial"
    /\ conn' = IF Cancelled THEN conn ELSE "closed"
    /\ UNCHANGED <<authed, isLogged, reconnectCount, rateLimitBackoff, connecting, sender, closing,
                   registered, sendQueue, sentLog, vanished, queuedLog, early, outages>>

Redial ==
    /\ receiver = "dial"
    /\ Dialed
    /\ receiver' = "auth"
    /\ UNCHANGED <<isLogged, reconnectCount, rateLimitBackoff, connecting, sender, closing, registered,
                   sendQueue, sentLog, vanished, queuedLog, early, outages>>

Reauthenticate ==
    /\ receiver = "auth"
    /\ Authenticated
    /\ receiver' = "receive"
    /\ UNCHANGED <<conn, reconnectCount, rateLimitBackoff, connecting, sender, closing, registered,
                   sendQueue, sentLog, vanished, queuedLog, early, outages>>

(* One attempt that fails ends the loop: there is no second one. *)
ReconnectFails ==
    /\ receiver \in {"dial", "auth"}
    /\ receiver' = "ended"
    /\ UNCHANGED <<conn, authed, isLogged, reconnectCount, rateLimitBackoff, connecting, sender,
                   closing, registered, sendQueue, sentLog, vanished, queuedLog, early, outages>>

-----------------------------------------------------------------------------
(* processSendQueue.                                                       *)

(* A tick does nothing while a limit is in force; one that is over is         *)
(* forgotten.  The queue is then drained without another look at the limit.   *)
BeginDrain ==
    /\ sender = "tick" /\ ~Cancelled
    /\ isLogged
    /\ sendQueue # <<>> \/ rateLimitBackoff > 0
    /\ rateLimitBackoff' = 0
    /\ sender' = "drain"
    /\ UNCHANGED <<conn, authed, isLogged, reconnectCount, connecting, receiver, closing, registered,
                   sendQueue, sentLog, vanished, queuedLog, early, outages>>

(* Mutant: a message that could not be sent goes to the end of the queue. *)
RequeuedLast == Append(Tail(sendQueue), Head(sendQueue))

(* A message that could not be sent goes back to the front. *)
Requeued == <<Head(sendQueue)>> \o Tail(sendQueue)

(* A write to an open connection arrives, one to a dead connection may be     *)
(* taken by the socket's buffer and is lost with it.                          *)
SendNext ==
    /\ sender = "drain"
    /\ sendQueue # <<>>
    /\ conn # "closed"
    /\ sendQueue' = Tail(sendQueue)
    /\ IF conn = "open"
       THEN /\ sentLog' = Append(sentLog, Head(sendQueue))
            /\ early' = IF authed THEN early ELSE early \cup {Head(sendQueue)}
            /\ UNCHANGED vanished
       ELSE /\ vanished' = vanished \cup {Head(sendQueue)}
            /\ UNCHANGED <<sentLog, early>>
    /\ UNCHANGED <<conn, authed, isLogged, reconnectCount, rateLimitBackoff, connecting, receiver,
                   sender, closing, registered, queuedLog, outages>>

SendFails ==
    /\ sender = "drain"
    /\ sendQueue # <<>>
    /\ conn # "open"
    /\ sendQueue' = Requeued
    /\ sender' = "tick"
    /\ UNCHANGED <<conn, authed, isLogged, reconnectCount, rateLimitBackoff, connecting, receiver,
                   closing, registered, sentLog, vanished, queuedLog, early, outages>>

EndDrain ==
    /\ sender = "drain"
    /\ sendQueue = <<>>
    /\ sender' = "tick"
    /\ UNCHANGED <<conn, authed, isLogged, reconnectCount, rateLimitBackoff, connecting, receiver,
                   closing, registered, sendQueue, sentLog, vanished, queuedLog, early, outages>>

SendLoopEnds ==
    /\ sender = "tick" /\ Cancelled
    /\ sender' = "ended"
    /\ UNCHANGED <<conn, authed, isLogged, reconnectCount, rateLimitBackoff, connecting, receiver,
                   closing, registered, sendQueue, sentLog, vanished, queuedLog, early, outages>>

-----------------------------------------------------------------------------
(* Close.                                                                  *)

BeginClose ==
    /\ connecting = "done"
    /\ closing = "no"
    /\ closing' = "receiver"
    /\ UNCHANGED <<conn, authed, isLogged, reconnectCount, rateLimitBackoff, connecting, receiver,
                   sender, registered, sendQueue, sentLog, vanished, queuedLog, early, outages>>

LoopsEnded ==
    /\ \/ closing = "receiver" /\ receiver = "ended" /\ closing' = "sender"
       \/ closing = "sender" /\ sender = "ended" /\ closing' = "sessions"
    /\ UNCHANGED <<conn, authed, isLogged, reconnectCount, rateLimitBackoff, connecting, receiver,
                   sender, registered, sendQueue, sentLog, vanished, queuedLog, early, outages>>

(* CloseAll: the delete packets are queued after the send loop has ended. *)
CloseSessions ==
    /\ closing = "sessions"
    /\ closing' = "conn"
    /\ registered' = {}
    /\ LET ids == SetToSeq(registered)
       IN  Enqueue([i \in 1..Len(ids) |->
               [Message("delete", ids[i]) EXCEPT !.n = Len(queuedLog) + i]])
    /\ UNCHANGED <<conn, authed, isLogged, reconnectCount, rateLimitBackoff, connecting, receiver,
                   sender, sentLog, vanished, early, outages>>

CloseConnection ==
    /\ closing = "conn"
    /\ closing' = "done"
    /\ conn' = "closed"
    /\ UNCHANGED <<authed, isLogged, reconnectCount, rateLimitBackoff, connecting, receiver, sender,
                   registered, sendQueue, sentLog, vanished, queuedLog, early, outages>>

(* The server, or the network, is gone. *)
ServerGone ==
    /\ conn = "open"
    /\ outages < MaxOutages
    /\ outages' = outages + 1
    /\ conn' = "dead"
    /\ UNCHANGED <<authed, isLogged, reconnectCount, rateLimitBackoff, connecting, receiver, sender,
                   closing, registered, sendQueue, sentLog, vanished, queuedLog, early>>

-----------------------------------------------------------------------------
ReceiverStep ==
    HandleMessage \/ ReceiveError \/ DelayOver \/ Redial \/ Reauthenticate \/ ReconnectFails

SenderStep == BeginDrain \/ SendNext \/ SendFails \/ EndDrain \/ SendLoopEnds

TvNext ==
    \/ \E s \in TvSessions : NewSession(s) \/ DeleteSession(s)
    \/ Dial \/ ConnectDone \/ ConnectFails
    \/ ReceiverStep \/ HandleRateLimit
    \/ SenderStep
    \/ BeginClose \/ LoopsEnded \/ CloseSessions \/ CloseConnection
    \/ ServerGone

(* The goroutines run.  HandleMessage among them is an assumption about the   *)
(* server: it pings every few seconds, and a read from a lost connection      *)
(* fails in the end.                                                          *)
TvFairness ==
    /\ WF_tvVars(ReceiverStep)
    /\ WF_tvVars(SenderStep)
    /\ WF_tvVars(LoopsEnded \/ CloseSessions \/ CloseConnection)

-----------------------------------------------------------------------------
(* The server receives the packets in the order they were queued, through     *)
(* lost connections, failed sends and rate limits; none is sent twice, the    *)
(* only ones missing were written to a connection that was already gone, and  *)
(* one goes out before the auth token only on a connection that replaces a    *)
(* lost one, isLogged being still set from it.                                *)
SentInOrder ==
    /\ \A i \in 1..Len(queuedLog) : queuedLog[i].n = i
    /\ Ascending(sentLog \o sendQueue)
    /\ ToSet(queuedLog) \ vanished = ToSet(sentLog) \cup ToSet(sendQueue)
    /\ early # {} => outages > 0

(* A packet queued by a connected client is written out, unless a reconnection*)
(* fails or the client is closed; and Close returns.                          *)
QueueDrains ==
    /\ (connecting = "done" /\ sendQueue # <<>>)
           ~> (sendQueue = <<>> \/ receiver = "ended" \/ Cancelled)
    /\ (connecting = "done" /\ Cancelled) ~> closing = "done"

TvSpec == TvInit /\ [][TvNext]_tvVars
=============================================================================
