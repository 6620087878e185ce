------------------------------ MODULE Mt5Bridge ------------------------------
(***************************************************************************)
(* mt5-bridge: one event loop (ZmqServer::run) that takes order commands   *)
(* from the trading engine on a SUB socket into a bounded queue, and hands *)
(* the head of the queue to the EA whose heartbeat it answers on the REP   *)
(* socket.  The EA of an account executes an order and reports the result  *)
(* by another request, which the bridge publishes to the engine.           *)
(*                                                                         *)
(* The loop handles one message at a time: an arm of tokio::select! that   *)
(* awaits keeps the loop from receiving anything else.                     *)
(***************************************************************************)
EXTENDS Naturals, Sequences, SequencesExt, FiniteSets

CONSTANTS
    EAs,        \* the expert advisors, named by their accounts
    Orders,     \* order commands the engine publishes
    Account,    \* Account[o]: order.account_id
    Capacity,   \* ORDER_QUEUE_CAPACITY
    Nothing,    \* the loop has no order in its hands
    Lossy       \* published messages and replies may be lost

ASSUME AccountOfOrder == Account \in [Orders -> EAs]
ASSUME NothingOutside == Nothing \notin Orders
ASSUME CapacityPositive == Capacity \in Nat \ {0}
ASSUME LossyFlag == Lossy \in BOOLEAN

VARIABLES
    sub,        \* orders published by the engine, on their way to the bridge
    orderQueue,      \* the mpsc channel order_tx -> order_rx
    loop,       \* what the event loop is doing
    hand,       \* the order the loop has in its hands, or Nothing
    ea,         \* ea[a]: orders the EA of a has received, oldest first
    results,    \* orders whose result an EA has reported
    lost,       \* orders lost on the way to an EA
    sent        \* history: the orders the engine has published, in order

vars == <<sub, orderQueue, loop, hand, ea, results, lost, sent>>

(* "select": waiting for a message; "push": order_tx.send on a full queue;   *)
(* "reply": the answer to a request of an account is ready to be sent.       *)
Loops == {<<"select">>, <<"push">>} \cup ({"reply"} \X EAs)

TypeOK ==
    /\ sub \in Seq(Orders) /\ orderQueue \in Seq(Orders) /\ sent \in Seq(Orders)
    /\ loop \in Loops
    /\ hand \in Orders \cup {Nothing}
    /\ ea \in [EAs -> Seq(Orders)]
    /\ results \in SUBSET Orders /\ lost \in SUBSET Orders

Init ==
    /\ sub = <<>> /\ orderQueue = <<>> /\ sent = <<>>
    /\ loop = <<"select">> /\ hand = Nothing
    /\ ea = [a \in EAs |-> <<>>]
    /\ results = {} /\ lost = {}

Waiting == loop = <<"select">>

-----------------------------------------------------------------------------
(* The engine's PUB socket (external).                                     *)

Publish(o) ==
    /\ o \notin Range(sent)
    /\ sent' = Append(sent, o)
    /\ sub' = Append(sub, o)
    /\ UNCHANGED <<orderQueue, loop, hand, ea, results, lost>>

(* PUB drops what it cannot deliver. *)
DropCommand ==
    /\ Lossy
    /\ sub # <<>>
    /\ sub' = Tail(sub)
    /\ lost' = lost \cup {Head(sub)}
    /\ UNCHANGED <<orderQueue, loop, hand, ea, results, sent>>

-----------------------------------------------------------------------------
(* handle_order_command: order_tx.send waits while the queue is full.  Only  *)
(* handle_heartbeat_message, which the same loop would have to call, takes   *)
(* orders out of it, so the wait has no action that ends it.                 *)

Full == Len(orderQueue) = Capacity

ReceiveCommand ==
    /\ Waiting
    /\ sub # <<>>
    /\ sub' = Tail(sub)
    /\ IF Full THEN /\ loop' = <<"push">>
                    /\ hand' = Head(sub)
                    /\ UNCHANGED orderQueue
               ELSE /\ orderQueue' = Append(orderQueue, Head(sub))
                    /\ UNCHANGED <<loop, hand>>
    /\ UNCHANGED <<ea, results, lost, sent>>

-----------------------------------------------------------------------------
(* handle_rep_message and the reply.                                       *)

(* Mutants of Heartbeat: an order for another account is dropped, is handed   *)
(* to whoever asks, or every order is put back.                               *)
HeartbeatDrops(a) ==
    /\ Waiting
    /\ loop' = <<"reply", a>>
    /\ orderQueue' = IF orderQueue = <<>> THEN orderQueue ELSE Tail(orderQueue)
    /\ hand' = IF orderQueue # <<>> /\ Account[Head(orderQueue)] = a THEN Head(orderQueue) ELSE hand
    /\ UNCHANGED <<sub, ea, results, lost, sent>>

HeartbeatPutsBack(a) ==
    /\ Waiting
    /\ loop' = <<"reply", a>>
    /\ orderQueue' = IF orderQueue = <<>> THEN orderQueue ELSE Append(Tail(orderQueue), Head(orderQueue))
    /\ UNCHANGED <<sub, hand, ea, results, lost, sent>>

(* handle_heartbeat_message: the head of the queue goes to its own account,  *)
(* or back to the end of the queue, where a place has just become free.      *)
Heartbeat(a) ==
    /\ Waiting
    /\ loop' = <<"reply", a>>
    /\ IF orderQueue # <<>> /\ Account[Head(orderQueue)] = a
         THEN /\ hand' = Head(orderQueue)
              /\ orderQueue' = Tail(orderQueue)
         ELSE /\ orderQueue' = IF orderQueue = <<>> THEN orderQueue
                          ELSE Append(Tail(orderQueue), Head(orderQueue))
              /\ UNCHANGED hand
    /\ UNCHANGED <<sub, ea, results, lost, sent>>

(* handle_order_result_message publishes the result; a failed publish is     *)
(* logged and acknowledged like a good one.                                  *)
OrderResult(a, o) ==
    /\ Waiting
    /\ o \in Range(ea[a]) \ results
    /\ results' = results \cup {o}
    /\ loop' = <<"reply", a>>
    /\ UNCHANGED <<sub, orderQueue, hand, ea, lost, sent>>

(* A tick, or a message that does not parse: acknowledged or refused.        *)
Tick(a) ==
    /\ Waiting
    /\ loop' = <<"reply", a>>
    /\ UNCHANGED <<sub, orderQueue, hand, ea, results, lost, sent>>

(* rep_socket.send: an order in the reply reaches the EA *)
Reply(a) ==
    /\ loop = <<"reply", a>>
    /\ loop' = <<"select">>
    /\ ea' = IF hand = Nothing THEN ea
             ELSE [ea EXCEPT ![a] = Append(@, hand)]
    /\ hand' = Nothing
    /\ UNCHANGED <<sub, orderQueue, results, lost, sent>>

(* or is lost with it: the EA has timed out or gone; the error is logged.    *)
ReplyFails(a) ==
    /\ Lossy
    /\ loop = <<"reply", a>>
    /\ loop' = <<"select">>
    /\ lost' = lost \cup ({hand} \ {Nothing})
    /\ hand' = Nothing
    /\ UNCHANGED <<sub, orderQueue, ea, results, sent>>

Next ==
    \/ \E o \in Orders : Publish(o)
    \/ DropCommand
    \/ ReceiveCommand
    \/ \E a \in EAs : Heartbeat(a) \/ Tick(a) \/ Reply(a) \/ ReplyFails(a)
    \/ \E a \in EAs, o \in Orders : OrderResult(a, o)

Spec == Init /\ [][Next]_vars

(* Every EA keeps sending heartbeats and is served between other requests;   *)
(* the loop polls both sockets.                                              *)
Fairness ==
    /\ SF_vars(ReceiveCommand)
    /\ \A a \in EAs : SF_vars(Heartbeat(a)) /\ WF_vars(Reply(a))

FairSpec == Spec /\ Fairness

-----------------------------------------------------------------------------
InHand == {hand} \ {Nothing}
Received == UNION {Range(ea[a]) : a \in EAs}

(* However heartbeats, re-queueing and lost replies interleave, each published *)
(* order is in exactly one place, once; an EA receives orders of its own       *)
(* account only, and the queue never outgrows the channel.                     *)
EachInOnePlace ==
    /\ IsInjective(sub) /\ IsInjective(orderQueue)
    /\ \A a \in EAs : IsInjective(ea[a])
    /\ LET places == <<Range(sub), Range(orderQueue), InHand, Received, lost>> IN
         /\ UNION Range(places) = Range(sent)
         /\ \A i, j \in DOMAIN places : i # j => places[i] \cap places[j] = {}
    /\ \A a \in EAs : \A o \in Range(ea[a]) : Account[o] = a
    /\ Len(orderQueue) <= Capacity

(* An order that waits in the queue is delivered to its EA, or lost in the    *)
(* reply, provided the queue holds no orders of other accounts from then on  *)
(* and the loop does not run into a full queue.  (With orders of two accounts *)
(* in the queue their heartbeats can rotate it for ever.)                     *)
Alone(o) ==
    /\ \A p \in Range(orderQueue) : Account[p] = Account[o]
    /\ loop # <<"push">>
QueuedDelivered ==
    \A o \in Orders :
        [](o \in Range(orderQueue) /\ []Alone(o) => <>(o \in Received \cup lost))
=============================================================================
