------------------------------- MODULE BarFeed -------------------------------
(***************************************************************************)
(* Bars from Redis pub/sub, the two ways the engine reads them: the node's *)
(* RedisDataClient (engine/clients/redis_data_client.py), which subscribes *)
(* once, and RedisAdapter (adapters/redis_adapter.py), whose subscriptions *)
(* change and which reconnects.  Nothing in the repository publishes       *)
(* bars:*; the publisher is the environment.                               *)
(*                                                                         *)
(* A pub/sub object is a number: 0 the node's, 1, 2, ... the adapter's.    *)
(* redis-py may reconnect an object by itself, and then subscribes its     *)
(* channels again, or raise the connection error to the reader.            *)
(***************************************************************************)
EXTENDS Numbered, FiniteSets, SequencesExt

CONSTANTS
    BarChannels,
    MaxAttempts,    \* max_reconnect_attempts
    MaxBars,        \* bound: bars published
    MaxFeedLosses,  \* bound: connections lost
    MaxFeedCalls    \* bound: calls of subscribe and unsubscribe

ASSUME FeedAttempts == MaxAttempts \in Nat \ {0}

VARIABLES
    redisUp,       \* Redis accepts connections
    online,        \* pub/sub objects with a connection
    channelsOf,    \* pub/sub object -> the channels it has subscribed
    inFlight,      \* pub/sub object -> messages sent to it and not read
    published,     \* bars published
    drops,         \* outages so far
    nodeTask,      \* _listener_task: "off", "reading", "dead", "stopped"
    heard,         \* bars given to the node
    sentToNode,    \* history: the good bars Redis sent to the node
    feedPubsub,    \* _pubsub of the adapter; 0 for None
    subscriptions, \* _subscriptions
    feedAttempt,   \* _reconnect_attempt
    listener,      \* listen_bars and its reconnect(): "off", "reading", "sleeping",
                   \* "closing", "connecting", "resubscribing", "ended", "gave_up"
    feedCall,      \* the pending subscribe or unsubscribe, or NoFeedCall
    calls,         \* calls so far
    renewals,      \* history: subscriptions renewed by reconnect
    crossed        \* history: channels of calls that a renewal crossed

adapterVars ==
    <<feedPubsub, subscriptions, feedAttempt, listener, feedCall, calls, renewals, crossed>>
nodeVars == <<nodeTask, heard>>
serverVars == <<redisUp, online, channelsOf, inFlight, published, drops, sentToNode>>
feedVars == <<serverVars, nodeVars, adapterVars>>

NoFeedCall == [do |-> "none"]
Objects == DOMAIN channelsOf

FeedInit ==
    /\ redisUp = TRUE /\ online = {}
    /\ channelsOf = [o \in {0} |-> {}] /\ inFlight = [o \in {0} |-> <<>>]
    /\ published = 0 /\ drops = 0 /\ sentToNode = {}
    /\ nodeTask = "off" /\ heard = <<>>
    /\ feedPubsub = 0 /\ subscriptions = {} /\ feedAttempt = 0 /\ listener = "off"
    /\ feedCall = NoFeedCall /\ calls = 0 /\ renewals = 0 /\ crossed = {}

-----------------------------------------------------------------------------
(* Redis *)

(* A message: good, one that does not parse, or one whose handler raises. *)
PublishBar(c, kind) ==
    /\ redisUp /\ published < MaxBars
    /\ published' = published + 1
    /\ LET bar == [n |-> published', kind |-> kind]
           reaches(o) == o \in online /\ c \in channelsOf[o]
       IN  /\ inFlight' = [o \in Objects |-> IF reaches(o) THEN Append(inFlight[o], bar)
                                             ELSE inFlight[o]]
           /\ sentToNode' = IF reaches(0) /\ kind = "good" THEN sentToNode \cup {bar}
                            ELSE sentToNode
    /\ UNCHANGED <<redisUp, online, channelsOf, drops, nodeVars, adapterVars>>

(* Every connection breaks. *)
Outage ==
    /\ redisUp /\ drops < MaxFeedLosses
    /\ redisUp' = FALSE /\ online' = {} /\ drops' = drops + 1
    /\ UNCHANGED <<channelsOf, inFlight, published, sentToNode, nodeVars, adapterVars>>

Restored ==
    /\ ~redisUp /\ redisUp' = TRUE
    /\ UNCHANGED <<online, channelsOf, inFlight, published, drops, sentToNode, nodeVars,
                   adapterVars>>

(* The reader of o meets the broken connection, all before it being read. *)
Lost(o) == o \notin online /\ inFlight[o] = <<>>

LibraryReconnects(o) ==
    /\ redisUp /\ Lost(o)
    /\ online' = online \cup {o}
    /\ UNCHANGED <<redisUp, channelsOf, inFlight, published, drops, sentToNode, nodeVars,
                   adapterVars>>

-----------------------------------------------------------------------------
(* RedisDataClient *)

NodeConnect ==
    /\ nodeTask = "off" /\ redisUp
    /\ nodeTask' = "reading"
    /\ online' = online \cup {0}
    /\ channelsOf' = [channelsOf EXCEPT ![0] = BarChannels]
    /\ UNCHANGED <<redisUp, inFlight, published, drops, sentToNode, heard, adapterVars>>

(* Mutant: the exception of a handler ends the listener. *)
NodeHandlesUncaught(bar) ==
    /\ heard' = IF bar.kind = "good" THEN Append(heard, bar) ELSE heard
    /\ nodeTask' = IF bar.kind = "raising" THEN "dead" ELSE nodeTask

(* What cannot be parsed, translated or handled is logged and skipped. *)
NodeHandles(bar) ==
    /\ heard' = IF bar.kind = "good" THEN Append(heard, bar) ELSE heard
    /\ UNCHANGED nodeTask

NodeReads ==
    /\ nodeTask = "reading" /\ inFlight[0] # <<>>
    /\ NodeHandles(Head(inFlight[0]))
    /\ inFlight' = [inFlight EXCEPT ![0] = Tail(@)]
    /\ UNCHANGED <<redisUp, online, channelsOf, published, drops, sentToNode, adapterVars>>

(* A connection error ends the task; nobody awaits it before _disconnect. *)
NodeListenerDies ==
    /\ nodeTask = "reading" /\ Lost(0)
    /\ nodeTask' = "dead"
    /\ UNCHANGED <<serverVars, heard, adapterVars>>

(* _disconnect: the task is cancelled and awaited, the pub/sub closed. *)
NodeDisconnect ==
    /\ nodeTask \in {"reading", "dead"}
    /\ nodeTask' = "stopped"
    /\ online' = online \ {0}
    /\ channelsOf' = [channelsOf EXCEPT ![0] = {}]
    /\ inFlight' = [inFlight EXCEPT ![0] = <<>>]
    /\ UNCHANGED <<redisUp, published, drops, sentToNode, heard, adapterVars>>

-----------------------------------------------------------------------------
(* RedisAdapter *)

(* connect creates the next pub/sub object and resets the counter. *)
NewPubsub(channels) ==
    LET o == Cardinality(Objects)
    IN  /\ feedPubsub' = o /\ feedAttempt' = 0
        /\ channelsOf' = [x \in Objects \cup {o} |-> IF x = o THEN channels ELSE channelsOf[x]]
        /\ inFlight' = [x \in Objects \cup {o} |-> IF x = o THEN <<>> ELSE inFlight[x]]
        /\ online' = online \cup {o}

(* connect, a first subscribe and listen_bars. *)
AdapterStart ==
    /\ listener = "off" /\ redisUp
    /\ \E c \in BarChannels : NewPubsub({c}) /\ subscriptions' = {c}
    /\ listener' = "reading"
    /\ UNCHANGED <<redisUp, published, drops, sentToNode, nodeVars, feedCall, calls, renewals,
                   crossed>>

(* A callback's exception leaves the generator. *)
AdapterReads ==
    /\ listener = "reading" /\ inFlight[feedPubsub] # <<>>
    /\ listener' = IF Head(inFlight[feedPubsub]).kind = "raising" THEN "ended" ELSE "reading"
    /\ inFlight' = [inFlight EXCEPT ![feedPubsub] = Tail(@)]
    /\ UNCHANGED <<redisUp, online, channelsOf, published, drops, sentToNode, nodeVars,
                   feedPubsub, subscriptions, feedAttempt, feedCall, calls, renewals, crossed>>

(* reconnect, called by listen_bars at a connection error, or by the consumer *)
(* once the generator has ended.                                              *)
FeedReconnect ==
    /\ \/ listener = "reading" /\ Lost(feedPubsub)
       \/ listener = "ended"
    /\ listener' = IF feedAttempt >= MaxAttempts THEN "gave_up" ELSE "sleeping"
    /\ UNCHANGED <<serverVars, nodeVars, feedPubsub, subscriptions, feedAttempt, feedCall, calls,
                   renewals, crossed>>

(* The delay is over: disconnect, which keeps _pubsub while it closes it. *)
FeedDelayOver ==
    /\ listener = "sleeping"
    /\ listener' = "closing" /\ feedAttempt' = feedAttempt + 1
    /\ UNCHANGED <<serverVars, nodeVars, feedPubsub, subscriptions, feedCall, calls, renewals,
                   crossed>>

FeedDisconnected ==
    /\ listener = "closing"
    /\ listener' = "connecting" /\ feedPubsub' = 0
    /\ LET own == {feedPubsub} \ {0}
       IN  /\ online' = online \ own
           /\ channelsOf' = [o \in Objects |-> IF o \in own THEN {} ELSE channelsOf[o]]
           /\ inFlight' = [o \in Objects |-> IF o \in own THEN <<>> ELSE inFlight[o]]
    /\ UNCHANGED <<redisUp, published, drops, sentToNode, nodeVars, subscriptions,
                   feedAttempt, feedCall, calls, renewals, crossed>>

FeedConnected ==
    /\ listener = "connecting" /\ redisUp
    /\ NewPubsub({})
    /\ listener' = "resubscribing"
    /\ UNCHANGED <<redisUp, published, drops, sentToNode, nodeVars, subscriptions, feedCall, calls,
                   renewals, crossed>>

(* The error of connect, or of the renewal, leaves listen_bars. *)
FeedReconnectFails ==
    /\ \/ listener = "connecting" /\ ~redisUp
       \/ listener = "resubscribing" /\ feedPubsub \notin online
    /\ listener' = "ended"
    /\ UNCHANGED <<serverVars, nodeVars, feedPubsub, subscriptions, feedAttempt, feedCall, calls,
                   renewals, crossed>>

Resubscribe ==
    /\ listener = "resubscribing" /\ feedPubsub \in online
    /\ listener' = "reading"
    /\ channelsOf' = [channelsOf EXCEPT ![feedPubsub] = @ \cup subscriptions]
    /\ renewals' = renewals + 1 /\ crossed' = {}
    /\ UNCHANGED <<redisUp, online, inFlight, published, drops, sentToNode, nodeVars,
                   feedPubsub, subscriptions, feedAttempt, feedCall, calls>>

(* subscribe and unsubscribe of a channel (not of the last one): the command, *)
(* then, when it has returned, the set.                                       *)
CallFeed(do, c) ==
    /\ feedCall = NoFeedCall /\ calls < MaxFeedCalls
    /\ feedPubsub # 0 /\ feedPubsub \in online
    /\ do = "unsubscribe" => subscriptions \ {c} # {}
    /\ calls' = calls + 1
    /\ feedCall' = [do |-> do, channel |-> c, at |-> renewals]
    /\ channelsOf' = [channelsOf EXCEPT ![feedPubsub] =
                        IF do = "subscribe" THEN @ \cup {c} ELSE @ \ {c}]
    /\ UNCHANGED <<redisUp, online, inFlight, published, drops, sentToNode, nodeVars,
                   feedPubsub, subscriptions, feedAttempt, listener, renewals, crossed>>

FeedCallReturns ==
    /\ feedCall # NoFeedCall
    /\ feedCall' = NoFeedCall
    /\ subscriptions' = IF feedCall.do = "subscribe" THEN subscriptions \cup {feedCall.channel}
                        ELSE subscriptions \ {feedCall.channel}
    /\ crossed' = IF feedCall.at # renewals THEN crossed \cup {feedCall.channel} ELSE crossed
    /\ UNCHANGED <<serverVars, nodeVars, feedPubsub, feedAttempt, listener, calls, renewals>>

FeedNext ==
    \/ \E c \in BarChannels :
        \/ \E kind \in {"good", "malformed", "raising"} : PublishBar(c, kind)
        \/ \E do \in {"subscribe", "unsubscribe"} : CallFeed(do, c)
    \/ Outage \/ Restored
    \/ nodeTask = "reading" /\ LibraryReconnects(0)
    \/ listener = "reading" /\ LibraryReconnects(feedPubsub)
    \/ NodeConnect \/ NodeReads \/ NodeListenerDies \/ NodeDisconnect
    \/ AdapterStart \/ AdapterReads
    \/ FeedReconnect \/ FeedDelayOver \/ FeedDisconnected \/ FeedConnected
    \/ FeedReconnectFails \/ Resubscribe \/ FeedCallReturns

FeedSpec == FeedInit /\ [][FeedNext]_feedVars

-----------------------------------------------------------------------------
(* The feed of a node stops only at a lost connection: no message ends the    *)
(* listener, and until then every good bar Redis sent it is given to the node *)
(* once and in order.  While the adapter listens it receives the channels it  *)
(* wants, the ones of calls that crossed a reconnection excepted, which stay  *)
(* wrong until the next; and it tries to reconnect MaxAttempts times at most. *)
FeedServed ==
    /\ nodeTask = "dead" => 0 \notin online /\ drops > 0
    /\ nodeTask \in {"reading", "dead"} =>
        /\ Ascending(heard \o inFlight[0])
        /\ ToSet(heard) \cup {b \in ToSet(inFlight[0]) : b.kind = "good"} = sentToNode
    /\ (listener = "reading" /\ feedCall = NoFeedCall) =>
        /\ channelsOf[feedPubsub] \subseteq subscriptions \cup crossed
        /\ subscriptions \subseteq channelsOf[feedPubsub] \cup crossed
    /\ feedAttempt <= MaxAttempts
    /\ listener = "gave_up" => feedAttempt = MaxAttempts /\ drops > 0
=============================================================================
