--------------------------- MODULE Mt5Connections ---------------------------
(***************************************************************************)
(* MT5ConnectionManager and the ZmqAdapters it makes: the connection of    *)
(* one account (accounts meet only in the check of their ports).           *)
(*                                                                         *)
(* One asyncio loop, an action is the code between two awaits.  connect    *)
(* and disconnect do not wait, so starting a connection is one step; what  *)
(* waits is the sleep of a reconnection task, the sleep of an adapter that *)
(* reconnects, and stop_connection, for the tasks it cancelled.  A         *)
(* cancelled task runs nothing more, so it counts as ended at once.        *)
(***************************************************************************)
EXTENDS Naturals, FiniteSets

CONSTANTS
    Tickets,        \* order ids
    MaxAdapters,    \* bound: adapters made
    MaxLinkFaults   \* bound: sockets that fail to connect, receive errors

Adapters == 1..MaxAdapters
PositionQuery == "positions"

ASSUME LinkBounds == MaxAdapters \in Nat /\ MaxLinkFaults \in Nat
ASSUME TicketsApart == PositionQuery \notin Tickets

VARIABLES
    running,      \* _running
    connection,   \* _connections: the adapter, 0 for none
    created,      \* adapters made so far
    sock,         \* sock[k]: the sockets of adapter k
    tickTask,     \* tickTask[k]: the task _tick_receiver_loop of adapter k
    tickReceiver, \* _tick_receivers: the adapter whose task it is, 0 for none
    reconnection, \* _reconnection_tasks: the task registered
    asleep,       \* reconnection tasks in their backoff, registered or not
    health,       \* _health.connected
    pending,      \* _pending_orders: the order ids of the current set
    epoch,        \* how often that set was replaced
    flights,      \* requests that wait for their answer
    stopPc,       \* what stop_connection waits for
    wanted,       \* history: the last command was to start the connection
    faults,       \* history: MaxLinkFaults used up
    loose         \* history: how a task or adapter came to be unregistered

linkVars == <<running, connection, created, sock, tickTask, tickReceiver, reconnection,
              asleep, health, pending, epoch, flights, stopPc, wanted, faults, loose>>
sendVars == <<pending, epoch, flights>>

LinkInit ==
    /\ running = FALSE /\ connection = 0 /\ created = 0
    /\ sock = [k \in Adapters |-> "none"]
    /\ tickTask = [k \in Adapters |-> "none"]
    /\ tickReceiver = 0 /\ reconnection = "none" /\ asleep = 0
    /\ health = FALSE /\ pending = {} /\ epoch = 0 /\ flights = {}
    /\ stopPc = "no" /\ wanted = FALSE /\ faults = 0 /\ loose = {}

LinkTypeOK ==
    /\ running \in BOOLEAN /\ health \in BOOLEAN /\ wanted \in BOOLEAN
    /\ connection \in 0..created /\ tickReceiver \in 0..created
    /\ created \in 0..MaxAdapters
    /\ sock \in [Adapters -> {"none", "open", "unbound", "closed"}]
    /\ tickTask \in [Adapters -> {"none", "created", "running", "backoff", "ended"}]
    /\ reconnection \in {"none", "asleep", "cancelled"}
    /\ asleep \in Nat /\ (reconnection = "asleep" => asleep > 0)
    /\ pending \subseteq Tickets /\ epoch \in Nat
    /\ flights \subseteq [order : Tickets \cup {PositionQuery}, epoch : Nat, adapter : Adapters]
    /\ stopPc \in {"no", "receiver", "reconnection"}
    /\ faults \in 0..MaxLinkFaults
    /\ loose \subseteq {"overlooked", "replaced", "raced", "idle"}

Live(k) == tickTask[k] \in {"created", "running", "backoff"}

-----------------------------------------------------------------------------
(* The sockets of an adapter                                               *)

(* _update_health *)
SetHealth(connected) == health' = connected

(* connect: the order port can be bound by one adapter at a time. *)
CanBind(s) == \A k \in Adapters : s[k] # "open"

Fault == faults < MaxLinkFaults /\ faults' = faults + 1

(* disconnect closes the sockets; zmq.asyncio cancels a recv under way, and   *)
(* the CancelledError ends the receiver.                                      *)
Closed(k) == IF k = 0 THEN sock ELSE [sock EXCEPT ![k] = "closed"]
Abandoned(k) ==
    IF k = 0 THEN tickTask
    ELSE [tickTask EXCEPT ![k] = IF @ = "running" THEN "ended" ELSE @]

-----------------------------------------------------------------------------
(* _schedule_reconnection: up is _running, reg the registered task, n the     *)
(* number of tasks asleep.                                                    *)
ScheduleReconnection(up, reg, n) ==
    IF up
    THEN /\ reconnection' = "asleep"
         /\ asleep' = IF reg = "asleep" THEN n ELSE n + 1
    ELSE reconnection' = reg /\ asleep' = n

(* start_connection when _connections has no adapter: s and r are the sockets *)
(* and receivers left so far, reg and n the reconnection tasks.               *)
StartConnection(up, s, r, reg, n) ==
    LET k == created + 1
    IN  /\ created < MaxAdapters
        /\ created' = k
        /\ pending' = {} /\ epoch' = epoch + 1
        /\ \/ /\ CanBind(s)
              /\ connection' = k /\ tickReceiver' = k
              /\ sock' = [s EXCEPT ![k] = "open"]
              /\ tickTask' = [r EXCEPT ![k] = "created"]
              /\ SetHealth(TRUE)
              /\ reconnection' = reg /\ asleep' = n
              /\ UNCHANGED faults
           \/ /\ IF CanBind(s) THEN Fault ELSE UNCHANGED faults
              /\ connection' = 0
              /\ sock' = [s EXCEPT ![k] = "closed"]
              /\ tickTask' = r
              /\ SetHealth(FALSE)
              /\ ScheduleReconnection(up, reg, n)
              /\ UNCHANGED tickReceiver

(* start_all_connections: an account that is connected is left alone. *)
StartAll ==
    /\ stopPc = "no"
    /\ running' = TRUE /\ wanted' = TRUE
    /\ IF connection = 0
       THEN StartConnection(TRUE, sock, tickTask, reconnection, asleep)
       ELSE UNCHANGED <<connection, created, sock, tickTask, tickReceiver, reconnection,
                        asleep, health, pending, epoch, faults>>
    /\ UNCHANGED <<flights, stopPc, loose>>

(* add_account, of an account not loaded before: _running is not touched. *)
AddAccountLink ==
    /\ created = 0
    /\ wanted' = TRUE
    /\ StartConnection(running, sock, tickTask, reconnection, asleep)
    /\ UNCHANGED <<running, flights, stopPc, loose>>

(* _reconnect_with_backoff after its sleep: the old connection is closed, the *)
(* registered task is forgotten, whichever it is, and the account connects.   *)
(* Nothing asks whether the manager still runs.  start_connection has just    *)
(* replaced the set of pending orders, so _recover_pending_orders finds none. *)
Reconnect ==
    /\ asleep > 0
    /\ StartConnection(running, Closed(connection), Abandoned(connection), "none", asleep - 1)
    /\ loose' = loose
        \cup (IF connection # 0 /\ tickTask[connection] \in {"created", "backoff"}
              THEN {"replaced"} ELSE {})
        \cup (IF stopPc # "no" \/ (reconnection = "asleep" /\ asleep > 1)
              THEN {"raced"} ELSE {})
    /\ UNCHANGED <<running, flights, stopPc, wanted>>

-----------------------------------------------------------------------------
(* _tick_receiver_loop and receive_ticks                                   *)

(* An exception other than CancelledError ends the receiver; nobody           *)
(* reconnects when the manager is not running.                                *)
ReceiverFails(k) ==
    /\ tickTask' = [tickTask EXCEPT ![k] = "ended"]
    /\ SetHealth(FALSE)
    /\ ScheduleReconnection(running, reconnection, asleep)
    /\ loose' = IF running THEN loose ELSE loose \cup {"idle"}

(* The first step of the task: the adapter may have been closed before it. *)
ReceiverStarts(k) ==
    /\ tickTask[k] = "created"
    /\ IF sock[k] = "open"
       THEN /\ tickTask' = [tickTask EXCEPT ![k] = "running"]
            /\ UNCHANGED <<health, reconnection, asleep, loose>>
       ELSE ReceiverFails(k)
    /\ UNCHANGED <<running, connection, created, sock, tickReceiver, sendVars, stopPc,
                   wanted, faults>>

(* A tick arrives. *)
TickArrives(k) ==
    /\ tickTask[k] = "running" /\ sock[k] = "open"
    /\ SetHealth(TRUE)
    /\ UNCHANGED <<running, connection, created, sock, tickTask, tickReceiver, reconnection,
                   asleep, sendVars, stopPc, wanted, faults, loose>>

(* The handling of a message raises: the receiver ends with its sockets open. *)
TickRaises(k) ==
    /\ tickTask[k] = "running"
    /\ Fault
    /\ ReceiverFails(k)
    /\ UNCHANGED <<running, connection, created, sock, tickReceiver, sendVars, stopPc,
                   wanted>>

(* A ZMQError: the adapter sleeps before it reconnects. *)
ReceiveFails(k) ==
    /\ tickTask[k] = "running"
    /\ Fault
    /\ tickTask' = [tickTask EXCEPT ![k] = "backoff"]
    /\ UNCHANGED <<running, connection, created, sock, tickReceiver, reconnection, asleep,
                   health, sendVars, stopPc, wanted, loose>>

(* ZmqAdapter.reconnect after its sleep: disconnect and connect.  A port that *)
(* cannot be bound raises out of receive_ticks.                               *)
AdapterReconnects(k) ==
    /\ tickTask[k] = "backoff"
    /\ \/ /\ CanBind(Closed(k))
          /\ sock' = [sock EXCEPT ![k] = "open"]
          /\ tickTask' = [tickTask EXCEPT ![k] = "running"]
          /\ UNCHANGED <<health, reconnection, asleep, faults, loose>>
       \/ /\ IF CanBind(Closed(k)) THEN Fault ELSE UNCHANGED faults
          /\ sock' = [sock EXCEPT ![k] = "unbound"]
          /\ ReceiverFails(k)
    /\ UNCHANGED <<running, connection, created, tickReceiver, sendVars, stopPc, wanted>>

-----------------------------------------------------------------------------
(* stop_connection; stop_all_connections visits the accounts in            *)
(* _connections.                                                           *)

(* The end of stop_connection: the adapter is disconnected. *)
StopDisconnect(r) ==
    /\ sock' = Closed(connection)
    /\ tickTask' = IF connection = 0 THEN r
                   ELSE [r EXCEPT ![connection] = IF @ = "running" THEN "ended" ELSE @]
    /\ connection' = 0
    /\ SetHealth(FALSE)
    /\ stopPc' = "no"

(* Mutant of StopReconnection: the reconnection task is left alone. *)
StopReconnectionKeeps(r) ==
    /\ tickReceiver' = 0
    /\ StopDisconnect(r)
    /\ UNCHANGED <<reconnection, asleep>>

(* The receiver is forgotten, the reconnection task cancelled and awaited. *)
StopReconnection(r) ==
    /\ tickReceiver' = 0
    /\ IF reconnection = "asleep"
       THEN /\ reconnection' = "cancelled"
            /\ asleep' = asleep - 1
            /\ stopPc' = "reconnection"
            /\ tickTask' = r
            /\ UNCHANGED <<connection, sock, health>>
       ELSE /\ StopDisconnect(r)
            /\ UNCHANGED <<reconnection, asleep>>

(* The receiver is cancelled; a live one is awaited. *)
StopReceiver ==
    IF tickReceiver # 0 /\ Live(tickReceiver)
    THEN /\ tickTask' = [tickTask EXCEPT ![tickReceiver] = "ended"]
         /\ stopPc' = "receiver"
         /\ UNCHANGED <<connection, sock, health, tickReceiver, reconnection, asleep>>
    ELSE StopReconnection(tickTask)

StopAccountLink ==
    /\ stopPc = "no" /\ created > 0
    /\ wanted' = FALSE
    /\ StopReceiver
    /\ UNCHANGED <<running, created, sendVars, faults, loose>>

(* An account without a connection is passed over, although it may be waiting *)
(* to reconnect.                                                              *)
StopAllLinks ==
    /\ stopPc = "no" /\ running
    /\ running' = FALSE /\ wanted' = FALSE
    /\ IF connection # 0
       THEN StopReceiver /\ UNCHANGED loose
       ELSE /\ loose' = loose \cup (IF asleep > 0 THEN {"overlooked"} ELSE {})
            /\ UNCHANGED <<connection, sock, tickTask, tickReceiver, reconnection, asleep,
                           health, stopPc>>
    /\ UNCHANGED <<created, sendVars, faults>>

(* The cancelled receiver has ended. *)
StopGoesOn ==
    /\ stopPc = "receiver"
    /\ StopReconnection(tickTask)
    /\ UNCHANGED <<running, created, sendVars, wanted, faults, loose>>

(* The cancelled reconnection task has ended.  Its entry is deleted, even if  *)
(* it is that of another task by now; the KeyError of an entry that is gone   *)
(* leaves the adapter connected.                                              *)
StopEnds ==
    /\ stopPc = "reconnection"
    /\ IF reconnection = "none"
       THEN /\ stopPc' = "no"
            /\ UNCHANGED <<connection, sock, tickTask, health, reconnection>>
       ELSE StopDisconnect(tickTask) /\ reconnection' = "none"
    /\ loose' = IF reconnection = "cancelled" THEN loose ELSE loose \cup {"raced"}
    /\ UNCHANGED <<running, created, tickReceiver, asleep, sendVars, wanted, faults>>

-----------------------------------------------------------------------------
(* Requests to MT5: orders and position queries                            *)

(* Without a connection, or with the order id in the pending set, it raises. *)
SendOrder(o) ==
    /\ connection # 0
    /\ o \notin pending
    /\ pending' = pending \cup {o}
    /\ flights' = flights \cup {[order |-> o, epoch |-> epoch, adapter |-> connection]}
    /\ UNCHANGED <<running, connection, created, sock, tickTask, tickReceiver, reconnection,
                   asleep, health, epoch, stopPc, wanted, faults, loose>>

(* query_positions, of the recovery that knows the account's adapter: the     *)
(* request id is a new one every time.                                        *)
QueryPositions ==
    /\ connection # 0
    /\ \A f \in flights : f.order # PositionQuery
    /\ flights' = flights \cup {[order |-> PositionQuery, epoch |-> epoch,
                                 adapter |-> connection]}
    /\ UNCHANGED <<running, connection, created, sock, tickTask, tickReceiver, reconnection,
                   asleep, health, pending, epoch, stopPc, wanted, faults, loose>>

(* A call is over.  The order id leaves the set it was put into, which may    *)
(* have been replaced since.                                                  *)
SendEnds(f) ==
    /\ flights' = flights \ {f}
    /\ pending' = IF f.epoch = epoch THEN pending \ {f.order} ELSE pending
    /\ UNCHANGED <<running, connection, created, sock, tickTask, tickReceiver, reconnection,
                   asleep, health, epoch, stopPc, wanted, faults, loose>>

(* The answer comes through the receiver of the adapter that sent the request *)
(* and through no other.                                                      *)
Answered(f) ==
    /\ tickTask[f.adapter] = "running" /\ sock[f.adapter] = "open"
    /\ SendEnds(f)

(* wait_for gives up. *)
TimedOut(f) == SendEnds(f)

-----------------------------------------------------------------------------
LinkNext ==
    \/ StartAll \/ AddAccountLink \/ Reconnect
    \/ StopAccountLink \/ StopAllLinks \/ StopGoesOn \/ StopEnds
    \/ \E k \in Adapters : \/ ReceiverStarts(k) \/ TickArrives(k) \/ TickRaises(k)
                           \/ ReceiveFails(k) \/ AdapterReconnects(k)
    \/ \E o \in Tickets : SendOrder(o)
    \/ QueryPositions
    \/ \E f \in flights : Answered(f) \/ TimedOut(f)

LinkSpec == LinkInit /\ [][LinkNext]_linkVars

-----------------------------------------------------------------------------
(* Somebody works on the connection: a receiver or a reconnection task. *)
Attended == asleep > 0 \/ \E k \in Adapters : Live(k)

(* What the registries of the connection manager promise:                     *)
(*  - a connection that was started, and not stopped since, is never given    *)
(*    up while the manager runs: someone receives or is about to reconnect,   *)
(*    unless its receiver failed before start_all_connections or the entry of *)
(*    a task was deleted inside stop_connection;                              *)
(*  - an adapter with open sockets is the registered one, and after a stop    *)
(*    there is neither an open socket nor a task that would open one, unless  *)
(*    stop_all_connections passed over an account waiting to reconnect, a     *)
(*    reconnection replaced an adapter in its own backoff, or a task woke up  *)
(*    inside stop_connection;                                                 *)
(*  - an order id is in flight twice only across a reconnection.              *)
LinksOwned ==
    /\ running /\ wanted /\ stopPc = "no" /\ loose \cap {"idle", "raced"} = {} => Attended
    /\ loose = {} =>
        /\ \A k \in Adapters : sock[k] = "open" => connection = k
        /\ ~wanted /\ stopPc = "no" => ~Attended /\ \A k \in Adapters : sock[k] # "open"
    /\ \A f, g \in flights : f.order = g.order /\ f.epoch = g.epoch => f = g
=============================================================================
