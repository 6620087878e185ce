----------------------------- MODULE LinksProofs -----------------------------
(***************************************************************************)
(* Proofs about the components at the edges of the system.                 *)
(***************************************************************************)
EXTENDS Mt5Bridge, Mt5Connections, EmergencyStop, Notifications, ChartSession, TvClient,
        BarFeed, HistoryFetch, SequenceFacts, FiniteSetTheorems

-----------------------------------------------------------------------------
(* Mt5Bridge: the orders the engine has published are divided among the    *)
(* places of EachInOnePlace.  For that to be inductive the loop must have  *)
(* empty hands while it waits, or an order it takes would overwrite the    *)
(* one it holds, and must hold only an order of the account it answers.    *)

(* The five places have no order in common and together hold all of U. *)
Divided(A, B, C, D, E, U) ==
    /\ A \cup B \cup C \cup D \cup E = U
    /\ A \cap B = {} /\ A \cap C = {} /\ A \cap D = {} /\ A \cap E = {}
    /\ B \cap C = {} /\ B \cap D = {} /\ B \cap E = {}
    /\ C \cap D = {} /\ C \cap E = {} /\ D \cap E = {}

Placed == Divided(Range(sub), Range(orderQueue), InHand, Received, lost, Range(sent))

NoDuplicates ==
    /\ IsInjective(sub) /\ IsInjective(orderQueue)
    /\ \A a \in EAs : IsInjective(ea[a])

OwnOrders == \A a \in EAs : \A o \in Range(ea[a]) : Account[o] = a

HandRight ==
    /\ loop = <<"select">> => hand = Nothing
    /\ \A a \in EAs : loop = <<"reply", a>> /\ hand # Nothing => Account[hand] = a

BridgeInv ==
    /\ TypeOK
    /\ Placed
    /\ NoDuplicates
    /\ OwnOrders
    /\ HandRight
    /\ Len(orderQueue) <= Capacity

LEMMA LoopsApart ==
    /\ <<"select">> # <<"push">>
    /\ \A a : <<"select">> # <<"reply", a>> /\ <<"push">> # <<"reply", a>>
    /\ \A a, b : <<"reply", a>> = <<"reply", b>> => a = b
OBVIOUS

LEMMA BridgeInitInv == Init => BridgeInv
<1> SUFFICES ASSUME Init PROVE BridgeInv
  OBVIOUS
<1>1. TypeOK
  BY EmptyFacts DEF Init, TypeOK, Loops
<1>2. Range(<<>>) = {} /\ IsInjective(<<>>) /\ Len(<<>>) = 0
  BY EmptyFacts
<1>3. \A a \in EAs : ea[a] = <<>>
  BY DEF Init
<1>4. Received = {} /\ InHand = {}
  BY <1>2, <1>3 DEF Received, InHand, Init
<1>5. Placed
  BY <1>2, <1>4 DEF Placed, Divided, Init
<1>6. NoDuplicates /\ OwnOrders
  BY <1>2, <1>3 DEF NoDuplicates, OwnOrders, Init
<1>7. HandRight /\ Len(orderQueue) <= Capacity
  BY <1>2, LoopsApart, CapacityPositive DEF HandRight, Init
<1> QED
  BY <1>1, <1>5, <1>6, <1>7 DEF BridgeInv

(* What an EA receives is added to its orders alone. *)
LEMMA ReceivedGrows ==
    ASSUME TypeOK, NEW a \in EAs, NEW o \in Orders,
           ea' = [ea EXCEPT ![a] = Append(@, o)]
    PROVE  /\ Received' = Received \cup {o}
           /\ Range(ea'[a]) = Range(ea[a]) \cup {o}
           /\ \A b \in EAs \ {a} : ea'[b] = ea[b]
<1>1. ea[a] \in Seq(Orders) /\ ea'[a] = Append(ea[a], o)
  BY DEF TypeOK
<1>2. Range(ea'[a]) = Range(ea[a]) \cup {o}
  BY <1>1, AppendFacts
<1>3. \A b \in EAs \ {a} : ea'[b] = ea[b]
  BY DEF TypeOK
<1> QED
  BY <1>2, <1>3 DEF Received

LEMMA BridgeNextInv == BridgeInv /\ [Next]_vars => BridgeInv'
<1> SUFFICES ASSUME BridgeInv, [Next]_vars PROVE BridgeInv'
  OBVIOUS
<1> USE DEF BridgeInv
<1>0. /\ sub \in Seq(Orders) /\ orderQueue \in Seq(Orders) /\ sent \in Seq(Orders)
      /\ hand \in Orders \cup {Nothing} /\ ea \in [EAs -> Seq(Orders)]
      /\ \A a \in EAs : <<"reply", a>> \in Loops
      /\ <<"select">> \in Loops /\ <<"push">> \in Loops
  BY DEF TypeOK, Loops
<1>1. ASSUME NEW o \in Orders, Publish(o) PROVE BridgeInv'
  <2>1. /\ sub' = Append(sub, o) /\ sent' = Append(sent, o) /\ o \notin Range(sent)
        /\ UNCHANGED <<orderQueue, loop, hand, ea, results, lost>>
    BY <1>1 DEF Publish
  <2>2. /\ sub' \in Seq(Orders) /\ Range(sub') = Range(sub) \cup {o}
        /\ sent' \in Seq(Orders) /\ Range(sent') = Range(sent) \cup {o}
    BY <1>0, <2>1, AppendFacts
  <2>3. o \notin Range(sub)
    BY <2>1 DEF Placed, Divided
  <2>4. IsInjective(sub')
    BY <1>0, <2>1, <2>3, AppendFacts DEF NoDuplicates
  <2>5. Placed'
    BY <2>1, <2>2 DEF Placed, Divided, InHand, Received
  <2>6. TypeOK'
    BY <2>1, <2>2 DEF TypeOK
  <2> QED
    BY <2>1, <2>4, <2>5, <2>6 DEF NoDuplicates, OwnOrders, HandRight
<1>2. ASSUME DropCommand PROVE BridgeInv'
  <2>1. /\ sub # <<>> /\ sub' = Tail(sub) /\ lost' = lost \cup {Head(sub)}
        /\ UNCHANGED <<orderQueue, loop, hand, ea, results, sent>>
    BY <1>2 DEF DropCommand
  <2>2. /\ Head(sub) \in Orders /\ sub' \in Seq(Orders) /\ IsInjective(sub')
        /\ Range(sub) = {Head(sub)} \cup Range(sub') /\ Head(sub) \notin Range(sub')
    BY <1>0, <2>1, HeadTailFacts DEF NoDuplicates
  <2>3. Placed'
    BY <2>1, <2>2 DEF Placed, Divided, InHand, Received
  <2>4. TypeOK'
    BY <2>1, <2>2 DEF TypeOK
  <2> QED
    BY <2>1, <2>2, <2>3, <2>4 DEF NoDuplicates, OwnOrders, HandRight
<1>3. ASSUME ReceiveCommand PROVE BridgeInv'
  <2>1. /\ sub # <<>> /\ sub' = Tail(sub) /\ hand = Nothing
        /\ UNCHANGED <<ea, results, lost, sent>>
    BY <1>3 DEF ReceiveCommand, Waiting, HandRight
  <2>2. /\ Head(sub) \in Orders /\ sub' \in Seq(Orders) /\ IsInjective(sub')
        /\ Head(sub) \in Range(sub)
        /\ Range(sub) = {Head(sub)} \cup Range(sub') /\ Head(sub) \notin Range(sub')
    BY <1>0, <2>1, HeadTailFacts DEF NoDuplicates
  <2>3. CASE Full
    <3>1. loop' = <<"push">> /\ hand' = Head(sub) /\ orderQueue' = orderQueue
      BY <1>3, <2>3 DEF ReceiveCommand
    <3>2. InHand = {} /\ InHand' = {Head(sub)}
      BY <2>1, <2>2, <3>1, NothingOutside DEF InHand
    <3>3. Placed'
      BY <2>1, <2>2, <3>1, <3>2 DEF Placed, Divided, Received
    <3>4. TypeOK'
      BY <1>0, <2>1, <2>2, <3>1 DEF TypeOK
    <3>5. HandRight'
      BY <3>1, LoopsApart DEF HandRight
    <3> QED
      BY <2>1, <2>2, <3>1, <3>3, <3>4, <3>5 DEF NoDuplicates, OwnOrders
  <2>4. CASE ~Full
    <3>1. orderQueue' = Append(orderQueue, Head(sub)) /\ UNCHANGED <<loop, hand>>
      BY <1>3, <2>4 DEF ReceiveCommand
    <3>2. Head(sub) \notin Range(orderQueue)
      BY <2>2 DEF Placed, Divided
    <3>3. /\ orderQueue' \in Seq(Orders) /\ IsInjective(orderQueue')
          /\ Range(orderQueue') = Range(orderQueue) \cup {Head(sub)}
          /\ Len(orderQueue') = Len(orderQueue) + 1
      BY <1>0, <2>2, <3>1, <3>2, AppendFacts DEF NoDuplicates
    <3>4. Placed'
      BY <2>1, <2>2, <3>1, <3>3 DEF Placed, Divided, InHand, Received
    <3>5. TypeOK'
      BY <2>1, <2>2, <3>1, <3>3 DEF TypeOK
    <3>6. Len(orderQueue') <= Capacity
      BY <1>0, <2>4, <3>3, LenProperties, CapacityPositive DEF Full
    <3> QED
      BY <2>1, <2>2, <3>1, <3>3, <3>4, <3>5, <3>6 DEF NoDuplicates, OwnOrders, HandRight
  <2> QED
    BY <2>3, <2>4
<1>4. ASSUME NEW a \in EAs, Heartbeat(a) PROVE BridgeInv'
  <2>1. /\ loop' = <<"reply", a>> /\ hand = Nothing
        /\ UNCHANGED <<sub, ea, results, lost, sent>>
    BY <1>4 DEF Heartbeat, Waiting, HandRight
  <2>2. CASE orderQueue = <<>>
    <3>1. UNCHANGED <<orderQueue, hand>>
      BY <1>4, <2>2 DEF Heartbeat
    <3>2. Placed'
      BY <2>1, <3>1 DEF Placed, Divided, InHand, Received
    <3>3. TypeOK'
      BY <1>0, <2>1, <3>1 DEF TypeOK
    <3> QED
      BY <2>1, <3>1, <3>2, <3>3, LoopsApart DEF NoDuplicates, OwnOrders, HandRight
  <2>3. CASE orderQueue # <<>>
    <3> DEFINE o == Head(orderQueue)
               t == Tail(orderQueue)
    <3>1. /\ o \in Orders /\ t \in Seq(Orders) /\ IsInjective(t)
          /\ Range(orderQueue) = {o} \cup Range(t) /\ o \notin Range(t)
          /\ Len(orderQueue) \in Nat /\ Len(t) = Len(orderQueue) - 1
      BY <1>0, <2>3, HeadTailFacts DEF NoDuplicates
    <3>2. CASE Account[o] = a
      <4>1. hand' = o /\ orderQueue' = t
        BY <1>4, <2>3, <3>2 DEF Heartbeat
      <4> HIDE DEF o, t
      <4>2. InHand = {} /\ InHand' = {o}
        BY <2>1, <3>1, <4>1, NothingOutside DEF InHand
      <4>3. Placed'
        BY <2>1, <3>1, <4>1, <4>2 DEF Placed, Divided, Received
      <4>4. TypeOK'
        BY <1>0, <2>1, <3>1, <4>1 DEF TypeOK
      <4>5. HandRight'
        BY <2>1, <3>2, <4>1, LoopsApart DEF HandRight
      <4>6. Len(orderQueue') <= Capacity
        BY <3>1, <4>1, CapacityPositive
      <4> QED
        BY <2>1, <3>1, <4>1, <4>3, <4>4, <4>5, <4>6 DEF NoDuplicates, OwnOrders
    <3>3. CASE Account[o] # a
      <4>1. UNCHANGED hand /\ orderQueue' = Append(t, o)
        BY <1>4, <2>3, <3>3 DEF Heartbeat
      <4> HIDE DEF o, t
      <4>2. /\ orderQueue' \in Seq(Orders) /\ IsInjective(orderQueue')
            /\ Range(orderQueue') = Range(orderQueue)
            /\ Len(orderQueue') = Len(orderQueue)
        BY <3>1, <4>1, AppendFacts
      <4>3. Placed'
        BY <2>1, <4>1, <4>2 DEF Placed, Divided, InHand, Received
      <4>4. TypeOK'
        BY <1>0, <2>1, <4>1, <4>2 DEF TypeOK
      <4>5. HandRight'
        BY <2>1, <4>1, LoopsApart DEF HandRight
      <4> QED
        BY <2>1, <4>1, <4>2, <4>3, <4>4, <4>5 DEF NoDuplicates, OwnOrders
    <3> QED
      BY <3>2, <3>3
  <2> QED
    BY <2>2, <2>3
<1>5. ASSUME NEW a \in EAs, Tick(a) \/ \E o \in Orders : OrderResult(a, o) PROVE BridgeInv'
  <2>1. /\ loop' = <<"reply", a>> /\ hand = Nothing
        /\ UNCHANGED <<sub, orderQueue, hand, ea, lost, sent>>
        /\ results' \in SUBSET Orders
    BY <1>5 DEF Tick, OrderResult, Waiting, HandRight, TypeOK
  <2>2. Placed'
    BY <2>1 DEF Placed, Divided, InHand, Received
  <2>3. TypeOK'
    BY <1>0, <2>1 DEF TypeOK
  <2> QED
    BY <2>1, <2>2, <2>3, LoopsApart DEF NoDuplicates, OwnOrders, HandRight
<1>6. ASSUME NEW a \in EAs, Reply(a) PROVE BridgeInv'
  <2>1. /\ loop = <<"reply", a>> /\ loop' = <<"select">> /\ hand' = Nothing
        /\ UNCHANGED <<sub, orderQueue, results, lost, sent>>
    BY <1>6 DEF Reply
  <2>2. InHand' = {}
    BY <2>1 DEF InHand
  <2>3. HandRight'
    BY <2>1, LoopsApart DEF HandRight
  <2>4. CASE hand = Nothing
    <3>1. ea' = ea /\ InHand = {}
      BY <1>6, <2>4 DEF Reply, InHand
    <3>2. Placed'
      BY <2>1, <2>2, <3>1 DEF Placed, Divided, Received
    <3>3. TypeOK'
      BY <1>0, <2>1, <3>1 DEF TypeOK
    <3> QED
      BY <2>1, <2>3, <3>1, <3>2, <3>3 DEF NoDuplicates, OwnOrders
  <2>5. CASE hand # Nothing
    <3>1. hand \in Orders /\ InHand = {hand} /\ Account[hand] = a
      BY <1>0, <2>1, <2>5 DEF InHand, HandRight
    <3>2. ea' = [ea EXCEPT ![a] = Append(@, hand)]
      BY <1>6, <2>5 DEF Reply
    <3>3. /\ Received' = Received \cup {hand}
          /\ Range(ea'[a]) = Range(ea[a]) \cup {hand}
          /\ \A b \in EAs \ {a} : ea'[b] = ea[b]
      BY <3>1, <3>2, ReceivedGrows
    <3>4. Placed'
      BY <2>1, <2>2, <3>1, <3>3 DEF Placed, Divided
    <3>5. hand \notin Range(ea[a])
      BY <3>1 DEF Placed, Divided, Received
    <3>6. ea[a] \in Seq(Orders) /\ ea'[a] = Append(ea[a], hand)
      BY <1>0, <3>2
    <3>7. ea'[a] \in Seq(Orders) /\ IsInjective(ea'[a])
      BY <3>1, <3>5, <3>6, AppendFacts DEF NoDuplicates
    <3>8. NoDuplicates'
      BY <2>1, <3>3, <3>7 DEF NoDuplicates
    <3>9. OwnOrders'
      BY <3>1, <3>3 DEF OwnOrders
    <3>10. TypeOK'
      BY <1>0, <2>1, <3>2, <3>6, <3>7 DEF TypeOK
    <3> QED
      BY <2>1, <2>3, <3>4, <3>8, <3>9, <3>10
  <2> QED
    BY <2>4, <2>5
<1>7. ASSUME NEW a \in EAs, ReplyFails(a) PROVE BridgeInv'
  <2>1. /\ loop' = <<"select">> /\ hand' = Nothing /\ lost' = lost \cup InHand
        /\ UNCHANGED <<sub, orderQueue, ea, results, sent>>
    BY <1>7 DEF ReplyFails, InHand
  <2>2. InHand \subseteq Orders /\ InHand' = {}
    BY <1>0, <2>1 DEF InHand
  <2>3. Placed'
    BY <2>1, <2>2 DEF Placed, Divided, Received
  <2>4. TypeOK'
    BY <1>0, <2>1, <2>2 DEF TypeOK
  <2> QED
    BY <2>1, <2>3, <2>4, LoopsApart DEF NoDuplicates, OwnOrders, HandRight
<1>8. CASE UNCHANGED vars
  BY <1>8 DEF vars, TypeOK, Placed, InHand, Received, NoDuplicates, OwnOrders, HandRight
<1> QED
  BY <1>1, <1>2, <1>3, <1>4, <1>5, <1>6, <1>7, <1>8 DEF Next

LEMMA BridgeInvImplies == BridgeInv => EachInOnePlace
<1> SUFFICES ASSUME BridgeInv PROVE EachInOnePlace
  OBVIOUS
<1> DEFINE places == <<Range(sub), Range(orderQueue), InHand, Received, lost>>
<1>1. DOMAIN places = 1..5 /\ Range(places) = {Range(sub), Range(orderQueue), InHand, Received, lost}
  <2>1. DOMAIN places = 1..5
    OBVIOUS
  <2>2. 1..5 = {1, 2, 3, 4, 5}
    OBVIOUS
  <2>3. /\ places[1] = Range(sub) /\ places[2] = Range(orderQueue) /\ places[3] = InHand
        /\ places[4] = Received /\ places[5] = lost
    OBVIOUS
  <2> HIDE DEF places
  <2> QED
    BY <2>1, <2>2, <2>3 DEF Range
<1>2. UNION Range(places) = Range(sent)
  <2> HIDE DEF places
  <2> QED
    BY <1>1 DEF BridgeInv, Placed, Divided
<1>3. \A i, j \in DOMAIN places : i # j => places[i] \cap places[j] = {}
  <2>1. /\ places[1] = Range(sub) /\ places[2] = Range(orderQueue) /\ places[3] = InHand
        /\ places[4] = Received /\ places[5] = lost
    OBVIOUS
  <2>2. DOMAIN places = {1, 2, 3, 4, 5}
    BY <1>1
  <2> HIDE DEF places
  <2> QED
    BY <2>1, <2>2 DEF BridgeInv, Placed, Divided
<1> QED
  BY <1>2, <1>3 DEF BridgeInv, NoDuplicates, OwnOrders, EachInOnePlace

(* Whatever the number of accounts and orders and the capacity of the queue,  *)
(* the bridge neither loses an order silently nor delivers it twice or to the *)
(* wrong EA: published orders are divided among the socket, the queue, the    *)
(* loop, the EAs and the admitted losses.                                     *)
THEOREM BridgeKeepsOrders == Spec => []EachInOnePlace
<1>1. Init => BridgeInv
  BY BridgeInitInv
<1>2. BridgeInv /\ [Next]_vars => BridgeInv'
  BY BridgeNextInv
<1>3. BridgeInv => EachInOnePlace
  BY BridgeInvImplies
<1> QED
  BY <1>1, <1>2, <1>3, PTL DEF Spec
-----------------------------------------------------------------------------
(* EmergencyStop: the report is complete because the handler accounts for  *)
(* one account after the other.  Between two accounts, all but the current *)
(* one and those still to come have been paused or reported.               *)

Working == handler \in {"query", "close", "pause"}

AccountsInTurn ==
    Working =>
        /\ current \in Accounts \ left
        /\ Accounts \ (left \cup {current}) \subseteq paused \cup failures

EmergencyInv ==
    /\ EmTypeOK
    /\ queue <= stops
    /\ handler = "close" => found > 0
    /\ AccountsInTurn
    /\ EveryAccountHandled

(* The account under work is accounted for, and the handler goes on. *)
LEMMA NextAccountInTurn ==
    ASSUME EmergencyInv, Working, NextAccount,
           paused' \cup failures' = paused \cup failures \cup {current},
           paused' \subseteq Accounts, failures' \subseteq Accounts
    PROVE  /\ handler' \in {"query", "complete"}
           /\ current' \in Accounts \cup {NoAccount}
           /\ left' \subseteq Accounts
           /\ AccountsInTurn' /\ EveryAccountHandled'
<1> USE DEF EmergencyInv, EmTypeOK, AccountsInTurn, Working
<1>1. CASE left # {}
  <2>1. PICK a \in left : current' = a /\ left' = left \ {a} /\ handler' = "query"
    BY <1>1 DEF NextAccount
  <2>2. Accounts \ (left' \cup {current'}) \subseteq paused' \cup failures'
    BY <2>1
  <2> QED
    BY <2>1, <2>2 DEF EveryAccountHandled
<1>2. CASE left = {}
  <2>1. current' = NoAccount /\ handler' = "complete" /\ left' = left
    BY <1>2 DEF NextAccount
  <2>2. paused' \cup failures' = Accounts
    BY <1>2
  <2> QED
    BY <1>2, <2>1, <2>2 DEF EveryAccountHandled
<1> QED
  BY <1>1, <1>2

LEMMA EmergencyInitInv == AnyStatus => EmergencyInv
<1> SUFFICES ASSUME EmInit PROVE EmergencyInv
  BY DEF AnyStatus
<1>1. stopActive \in BOOLEAN /\ pendingResume \in BOOLEAN
  BY DEF EmInit
<1>2. EmTypeOK
  BY <1>1, EmergencyBounds DEF EmInit, EmTypeOK, HandlerStates
<1> QED
  BY <1>2, EmergencyBounds
  DEF EmInit, EmergencyInv, AccountsInTurn, Working, EveryAccountHandled

LEMMA EmergencyNextInv == EmergencyInv /\ [EmNext]_emVars => EmergencyInv'
<1> SUFFICES ASSUME EmergencyInv, [EmNext]_emVars PROVE EmergencyInv'
  OBVIOUS
<1> USE EmergencyBounds DEF EmergencyInv, EmTypeOK, HandlerStates
<1> USE DEF AccountsInTurn, Working, EveryAccountHandled, botVars, workVars, handlerVars
<1>1. CASE Bot
  <2>1. stopActive' \in BOOLEAN /\ pendingResume' \in BOOLEAN
    BY <1>1 DEF Bot, StopAll, ResumeAll, ConfirmationExpires, ConfirmResume, BotRestarts
  <2>2. /\ UNCHANGED <<open, handler, workVars>>
        /\ stops' \in 0..MaxStops /\ queue' \in 0..MaxStops /\ queue' <= stops'
    BY <1>1 DEF Bot, StopAll, ResumeAll, ConfirmationExpires, ConfirmResume, BotRestarts
  <2> QED
    BY <2>1, <2>2
<1>2. CASE HandlerStarts \/ HandlerStopped \/ TakeCommand
  BY <1>2 DEF HandlerStarts, HandlerStopped, TakeCommand, Subscribed
<1>3. CASE AuditTriggered
  BY <1>3 DEF AuditTriggered
<1>4. CASE QueryAnswered
  <2>1. open[current] \in 0..MaxOpen
    BY <1>4 DEF QueryAnswered
  <2> QED
    BY <1>4, <2>1 DEF QueryAnswered
<1>5. CASE QueryFails
  BY <1>5 DEF QueryFails
<1>6. CASE ClosePosition
  <2>1. open' \in [Accounts -> 0..MaxOpen]
    <3>1. CASE Executed
      BY <1>6, <3>1 DEF Executed, ClosePosition
    <3> QED
      BY <1>6, <3>1 DEF ClosePosition
  <2>2. /\ handler = "close" /\ found' = found - 1
        /\ handler' = IF found = 1 THEN "pause" ELSE "close"
        /\ UNCHANGED <<status, botVars, queue, current, left, failures, paused>>
    BY <1>6 DEF ClosePosition
  <2> QED
    BY <2>1, <2>2
<1>7. CASE PauseAccount
  <2>1. /\ Working /\ NextAccount
        /\ UNCHANGED <<open, botVars, queue, found>>
    BY <1>7 DEF PauseAccount
  <2>2. /\ paused' \cup failures' = paused \cup failures \cup {current}
        /\ paused' \subseteq Accounts /\ failures' \subseteq Accounts
    BY <1>7 DEF PauseAccount
  <2>3. /\ handler' \in {"query", "complete"}
        /\ current' \in Accounts \cup {NoAccount}
        /\ left' \subseteq Accounts
        /\ AccountsInTurn' /\ EveryAccountHandled'
    BY <2>1, <2>2, NextAccountInTurn
  <2> QED
    BY <2>1, <2>2, <2>3
<1>8. CASE AuditComplete \/ Confirm
  BY <1>8 DEF AuditComplete, Confirm
<1>9. ASSUME NEW a \in Accounts, TradeOf(a) \/ StatusChange(a) PROVE EmergencyInv'
  BY <1>9 DEF TradeOf, StatusChange, emergencyVars
<1>10. CASE UNCHANGED emVars
  BY <1>10 DEF emVars, emergencyVars
<1> QED
  BY <1>1, <1>2, <1>3, <1>4, <1>5, <1>6, <1>7, <1>8, <1>9, <1>10 DEF EmNext, Handle

(* For any set of accounts: what the emergency stop confirms covers every     *)
(* active account, whichever queries, closes and pauses failed, and whatever  *)
(* operators and nodes did meanwhile.                                         *)
THEOREM EmergencyStopComplete == EmSpec => []EveryAccountHandled
<1>1. EmergencyInv => EveryAccountHandled
  BY DEF EmergencyInv
<1> QED
  BY <1>1, EmergencyInitInv, EmergencyNextInv, PTL DEF EmSpec
-----------------------------------------------------------------------------
(* Notifications: an alert is queued once, so that taking its entry out of *)
(* a pass takes the alert out; and what waits does so in one place, in the *)
(* queue between two passes, in the pass during one.                       *)

QueueEntries == [alert : Alerts, attempts : Nat, due : BOOLEAN]
AlertsOf(q) == {q[i].alert : i \in DOMAIN q}
OnceEach(q) == \A i, j \in DOMAIN q : q[i].alert = q[j].alert => i = j

Stages == {"unpublished", "missed", "received", "queued", "delivered", "failed",
           "abandoned", "silent"}

NoteTypeOK ==
    /\ alertAt \in [Alerts -> Stages]
    /\ pass \in {"no", "running", "ended"}
    /\ alertQueue \in Seq(QueueEntries)
    /\ rest \in Seq(QueueEntries) /\ remaining \in Seq(QueueEntries)

QueuedBetween ==
    pass # "running" =>
        /\ OnceEach(alertQueue)
        /\ \A m \in Alerts : alertAt[m] = "queued" <=> m \in AlertsOf(alertQueue)

QueuedDuring ==
    pass = "running" =>
        /\ OnceEach(rest) /\ OnceEach(remaining)
        /\ AlertsOf(rest) \cap AlertsOf(remaining) = {}
        /\ \A m \in Alerts :
              alertAt[m] = "queued" <=> m \in AlertsOf(rest) \cup AlertsOf(remaining)

NoteInv ==
    /\ NoteTypeOK
    /\ QueuedBetween /\ QueuedDuring
    /\ connected /\ ~noteDone => subscriber # "ended"

LEMMA NoAlerts == AlertsOf(<<>>) = {} /\ OnceEach(<<>>)
BY EmptySeq DEF AlertsOf, OnceEach

LEMMA AlertAppended ==
    ASSUME NEW q \in Seq(QueueEntries), NEW e \in QueueEntries
    PROVE  /\ Append(q, e) \in Seq(QueueEntries)
           /\ AlertsOf(Append(q, e)) = AlertsOf(q) \cup {e.alert}
           /\ OnceEach(q) /\ e.alert \notin AlertsOf(q) => OnceEach(Append(q, e))
<1> DEFINE t == Append(q, e)
<1>1. /\ t \in Seq(QueueEntries) /\ Len(q) \in Nat
      /\ DOMAIN q = 1..Len(q) /\ DOMAIN t = 1..Len(q) + 1
      /\ \A i \in 1..Len(q) : t[i] = q[i]
      /\ t[Len(q) + 1] = e
  BY AppendProperties, LenProperties
<1> HIDE DEF t
<1>2. \A i \in DOMAIN t : (i \in DOMAIN q /\ t[i] = q[i]) \/ (i = Len(q) + 1 /\ t[i] = e)
  BY <1>1
<1>3. \A i \in DOMAIN q : i \in DOMAIN t /\ t[i] = q[i]
  BY <1>1
<1>4. Len(q) + 1 \in DOMAIN t
  BY <1>1
<1>5. AlertsOf(t) = AlertsOf(q) \cup {e.alert}
  BY <1>1, <1>2, <1>3, <1>4 DEF AlertsOf
<1>6. OnceEach(q) /\ e.alert \notin AlertsOf(q) => OnceEach(t)
  BY <1>2 DEF AlertsOf, OnceEach
<1> QED
  BY <1>1, <1>5, <1>6 DEF t

LEMMA AlertTaken ==
    ASSUME NEW q \in Seq(QueueEntries), q # <<>>
    PROVE  /\ Head(q) \in QueueEntries /\ Tail(q) \in Seq(QueueEntries)
           /\ AlertsOf(q) = AlertsOf(Tail(q)) \cup {Head(q).alert}
           /\ OnceEach(q) => OnceEach(Tail(q)) /\ Head(q).alert \notin AlertsOf(Tail(q))
<1> DEFINE t == Tail(q)
<1>1. /\ t \in Seq(QueueEntries) /\ Len(q) \in Nat \ {0}
      /\ DOMAIN q = 1..Len(q) /\ DOMAIN t = 1..Len(q) - 1
      /\ \A i \in 1..Len(q) - 1 : t[i] = q[i + 1]
      /\ Head(q) = q[1] /\ Head(q) \in QueueEntries
  BY HeadTailProperties, LenProperties, EmptySeq
<1> HIDE DEF t
<1>2. \A i \in DOMAIN t : i + 1 \in DOMAIN q /\ t[i] = q[i + 1] /\ i + 1 # 1
  BY <1>1
<1>3. \A i \in DOMAIN q : i = 1 \/ (i - 1 \in DOMAIN t /\ t[i - 1] = q[i])
  BY <1>1
<1>4. 1 \in DOMAIN q
  BY <1>1
<1>5. AlertsOf(q) = AlertsOf(t) \cup {Head(q).alert}
  <2>1. AlertsOf(t) \subseteq AlertsOf(q)
    BY <1>2 DEF AlertsOf
  <2>2. Head(q).alert \in AlertsOf(q)
    BY <1>1, <1>4 DEF AlertsOf
  <2>3. ASSUME NEW i \in DOMAIN q PROVE q[i].alert \in AlertsOf(t) \cup {Head(q).alert}
    BY <1>1, <1>3 DEF AlertsOf
  <2> QED
    BY <2>1, <2>2, <2>3 DEF AlertsOf
<1>6. ASSUME OnceEach(q) PROVE OnceEach(t) /\ Head(q).alert \notin AlertsOf(t)
  <2>1. ASSUME NEW i \in DOMAIN t, NEW j \in DOMAIN t, t[i].alert = t[j].alert PROVE i = j
    <3>1. i + 1 = j + 1
      BY <1>2, <1>6, <2>1 DEF OnceEach
    <3> QED
      BY <1>1, <3>1
  <2>2. ASSUME NEW i \in DOMAIN t PROVE t[i].alert # Head(q).alert
    BY <1>1, <1>2, <1>4, <1>6 DEF OnceEach
  <2> QED
    BY <2>1, <2>2 DEF OnceEach, AlertsOf
<1> QED
  BY <1>1, <1>5, <1>6 DEF t

(* A failed attempt changes the entry, not the alert. *)
LEMMA FailedAttempt ==
    ASSUME NEW e \in QueueEntries
    PROVE  /\ [e EXCEPT !.attempts = @ + 1, !.due = FALSE] \in QueueEntries
           /\ [e EXCEPT !.attempts = @ + 1, !.due = FALSE].alert = e.alert
<1> DEFINE n == e.attempts + 1
           f == [e EXCEPT !.attempts = n]
<1>1. n \in Nat
  BY DEF QueueEntries
<1> HIDE DEF n
<1>2. f \in QueueEntries /\ f.alert = e.alert
  BY <1>1 DEF QueueEntries
<1>3. [f EXCEPT !.due = FALSE] \in QueueEntries /\ [f EXCEPT !.due = FALSE].alert = e.alert
  <2> HIDE DEF f
  <2> QED
    BY <1>2 DEF QueueEntries
<1>4. [e EXCEPT !.attempts = @ + 1, !.due = FALSE] = [f EXCEPT !.due = FALSE]
  BY DEF n
<1> QED
  BY <1>3, <1>4

LEMMA NoteInitInv == NoteInit => NoteInv
<1> SUFFICES ASSUME NoteInit PROVE NoteInv
  OBVIOUS
<1>1. NoteTypeOK
  BY EmptyFacts DEF NoteInit, NoteTypeOK, Stages
<1>2. QueuedBetween /\ QueuedDuring
  BY NoAlerts DEF NoteInit, QueuedBetween, QueuedDuring
<1> QED
  BY <1>1, <1>2 DEF NoteInv, NoteInit

LEMMA NoteNextInv == NoteInv /\ [NoteNext]_noteVars => NoteInv'
<1> SUFFICES ASSUME NoteInv, [NoteNext]_noteVars PROVE NoteInv'
  OBVIOUS
<1> USE DEF NoteInv
<1>0. /\ alertQueue \in Seq(QueueEntries) /\ rest \in Seq(QueueEntries)
      /\ remaining \in Seq(QueueEntries) /\ alertAt \in [Alerts -> Stages]
      /\ <<>> \in Seq(QueueEntries)
  BY EmptyFacts DEF NoteTypeOK
<1>1. CASE \/ Connected \/ AttemptFails \/ Subscribe \/ SubscriptionCut \/ Reconnected
           \/ StopService \/ SubscriberStops \/ CloseSubscriber
  <2>1. UNCHANGED <<alertAt, queueVars>> /\ (connected' /\ ~noteDone' => subscriber' # "ended")
    BY <1>1 DEF Connected, AttemptFails, Subscribe, SubscriptionCut, Reconnected, StopService,
                SubscriberStops, CloseSubscriber
  <2> QED
    BY <2>1 DEF queueVars, NoteTypeOK, QueuedBetween, QueuedDuring
<1>2. ASSUME NEW m \in Alerts, PublishAlert(m) \/ BotSends(m) PROVE NoteInv'
  <2>1. /\ UNCHANGED <<noteDone, subscriber, connected, alertQueue, pass, rest, remaining>>
        /\ alertAt[m] # "queued"
        /\ \E where \in Stages \ {"queued"} : alertAt' = [alertAt EXCEPT ![m] = where]
    <3>1. CASE BotSends(m)
      BY <3>1 DEF BotSends, queueVars, Stages
    <3>2. CASE PublishAlert(m)
      <4>1. PICK channel \in Channels :
               \E where \in (IF subscriber = "listen" THEN Route(channel) ELSE {"missed"}) :
                   alertAt' = [alertAt EXCEPT ![m] = where]
        BY <3>2 DEF PublishAlert
      <4>2. Route(channel) \subseteq {"received", "silent"}
        BY DEF Route, Channels, HandleTrade, HandleRisk, HandleSystem, HandleEmergency
      <4> QED
        BY <3>2, <4>1, <4>2 DEF PublishAlert, queueVars, Stages
    <3> QED
      BY <1>2, <3>1, <3>2
  <2>2. alertAt' \in [Alerts -> Stages] /\ \A x \in Alerts : alertAt'[x] = "queued" <=> alertAt[x] = "queued"
    BY <1>0, <2>1
  <2> QED
    BY <2>1, <2>2 DEF NoteTypeOK, QueuedBetween, QueuedDuring
<1>3. ASSUME NEW m \in Alerts, EnqueueAlert(m) PROVE NoteInv'
  <2>1. /\ pass # "running" /\ alertAt[m] = "received"
        /\ alertAt' = [alertAt EXCEPT ![m] = "queued"]
        /\ alertQueue' = Append(alertQueue, Entry(m))
        /\ UNCHANGED <<noteDone, subscriber, connected, pass, rest, remaining>>
    BY <1>3 DEF EnqueueAlert
  <2>2. Entry(m) \in QueueEntries /\ Entry(m).alert = m
    BY DEF Entry, QueueEntries
  <2>3. m \notin AlertsOf(alertQueue) /\ OnceEach(alertQueue)
    BY <2>1 DEF QueuedBetween
  <2>4. /\ alertQueue' \in Seq(QueueEntries) /\ OnceEach(alertQueue')
        /\ AlertsOf(alertQueue') = AlertsOf(alertQueue) \cup {m}
    BY <1>0, <2>1, <2>2, <2>3, AlertAppended
  <2>5. QueuedBetween'
    BY <1>0, <2>1, <2>4 DEF QueuedBetween
  <2>6. QueuedDuring' /\ NoteTypeOK'
    BY <1>0, <2>1, <2>4 DEF QueuedDuring, NoteTypeOK, Stages
  <2> QED
    BY <2>1, <2>5, <2>6
<1>4. CASE BeginPass
  <2>1. /\ pass = "no" /\ pass' = "running" /\ rest' = alertQueue /\ remaining' = <<>>
        /\ UNCHANGED <<noteDone, subscriber, connected, alertAt, alertQueue>>
    BY <1>4 DEF BeginPass
  <2>2. NoteTypeOK'
    BY <1>0, <2>1 DEF NoteTypeOK
  <2>3. QueuedDuring' /\ QueuedBetween'
    BY <2>1, NoAlerts DEF QueuedBetween, QueuedDuring
  <2> QED
    BY <2>1, <2>2, <2>3
<1>5. CASE NotDue
  <2>1. /\ pass = "running" /\ rest # <<>> /\ rest' = Tail(rest)
        /\ remaining' = Append(remaining, Head(rest))
        /\ UNCHANGED <<noteDone, subscriber, connected, alertAt, alertQueue, pass>>
    BY <1>5 DEF NotDue
  <2>2. /\ Head(rest) \in QueueEntries /\ rest' \in Seq(QueueEntries)
        /\ AlertsOf(rest) = AlertsOf(rest') \cup {Head(rest).alert}
        /\ OnceEach(rest') /\ Head(rest).alert \notin AlertsOf(rest')
    BY <1>0, <2>1, AlertTaken DEF QueuedDuring
  <2>3. Head(rest).alert \notin AlertsOf(remaining) /\ OnceEach(remaining)
    BY <2>1, <2>2 DEF QueuedDuring
  <2>4. /\ remaining' \in Seq(QueueEntries) /\ OnceEach(remaining')
        /\ AlertsOf(remaining') = AlertsOf(remaining) \cup {Head(rest).alert}
    BY <1>0, <2>1, <2>2, <2>3, AlertAppended
  <2>5. QueuedDuring' /\ QueuedBetween'
    BY <2>1, <2>2, <2>4 DEF QueuedBetween, QueuedDuring
  <2>6. NoteTypeOK'
    BY <1>0, <2>1, <2>2, <2>4 DEF NoteTypeOK
  <2> QED
    BY <2>1, <2>5, <2>6
<1>6. CASE SendQueued
  <2> DEFINE head == Head(rest)
             message == [Head(rest) EXCEPT !.attempts = @ + 1, !.due = FALSE]
  <2>1. /\ pass = "running" /\ rest # <<>> /\ rest' = Tail(rest)
        /\ UNCHANGED <<noteDone, subscriber, connected, alertQueue, pass>>
    BY <1>6 DEF SendQueued
  <2>2. /\ head \in QueueEntries /\ rest' \in Seq(QueueEntries)
        /\ AlertsOf(rest) = AlertsOf(rest') \cup {head.alert}
        /\ OnceEach(rest') /\ head.alert \notin AlertsOf(rest')
    BY <1>0, <2>1, AlertTaken DEF QueuedDuring
  <2>3. head.alert \notin AlertsOf(remaining) /\ OnceEach(remaining)
    BY <2>1, <2>2 DEF QueuedDuring
  <2>4. message \in QueueEntries /\ message.alert = head.alert /\ head.alert \in Alerts
    BY <2>2, FailedAttempt DEF QueueEntries
  <2>5. \/ /\ \E where \in {"delivered", "abandoned"} :
                  alertAt' = [alertAt EXCEPT ![message.alert] = where]
           /\ remaining' = remaining
        \/ remaining' = Append(remaining, message) /\ alertAt' = alertAt
    BY <1>6 DEF SendQueued
  <2> HIDE DEF head, message
  <2>6. CASE remaining' = remaining /\ \E where \in {"delivered", "abandoned"} :
                 alertAt' = [alertAt EXCEPT ![message.alert] = where]
    <3>1. /\ alertAt' \in [Alerts -> Stages]
          /\ alertAt'[head.alert] # "queued"
          /\ \A m \in Alerts \ {head.alert} : alertAt'[m] = alertAt[m]
      BY <1>0, <2>4, <2>6 DEF Stages
    <3>2. QueuedDuring'
      BY <2>1, <2>2, <2>3, <2>6, <3>1 DEF QueuedDuring
    <3> QED
      BY <1>0, <2>1, <2>2, <2>6, <3>1, <3>2 DEF NoteTypeOK, QueuedBetween
  <2>7. CASE remaining' = Append(remaining, message) /\ alertAt' = alertAt
    <3>1. /\ remaining' \in Seq(QueueEntries) /\ OnceEach(remaining')
          /\ AlertsOf(remaining') = AlertsOf(remaining) \cup {head.alert}
      BY <1>0, <2>3, <2>4, <2>7, AlertAppended
    <3>2. QueuedDuring'
      BY <2>1, <2>2, <2>7, <3>1 DEF QueuedDuring
    <3> QED
      BY <1>0, <2>1, <2>2, <2>7, <3>1, <3>2 DEF NoteTypeOK, QueuedBetween
  <2> QED
    BY <2>5, <2>6, <2>7
<1>7. CASE EndPass
  <2>1. /\ pass = "running" /\ rest = <<>> /\ alertQueue' = remaining /\ pass' = "no"
        /\ UNCHANGED <<noteDone, subscriber, connected, alertAt, rest, remaining>>
    BY <1>7 DEF EndPass
  <2>2. QueuedBetween' /\ QueuedDuring'
    BY <2>1, NoAlerts DEF QueuedBetween, QueuedDuring
  <2> QED
    BY <1>0, <2>1, <2>2 DEF NoteTypeOK
<1>8. CASE DelayPasses
  <2>1. PICK i \in DOMAIN alertQueue : alertQueue' = [alertQueue EXCEPT ![i].due = TRUE]
    BY <1>8 DEF DelayPasses
  <2>2. pass = "no" /\ UNCHANGED <<noteDone, subscriber, connected, alertAt, pass, rest, remaining>>
    BY <1>8 DEF DelayPasses
  <2>3. i \in 1..Len(alertQueue) /\ alertQueue[i] \in QueueEntries
    BY <1>0, <2>1, LenProperties, ElementOfSeq
  <2> DEFINE e == [alertQueue[i] EXCEPT !.due = TRUE]
  <2>4. e \in QueueEntries /\ e.alert = alertQueue[i].alert
    BY <2>3 DEF QueueEntries
  <2>5. alertQueue' = [alertQueue EXCEPT ![i] = e]
    BY <2>1
  <2> HIDE DEF e
  <2>6. alertQueue' \in Seq(QueueEntries)
    BY <1>0, <2>3, <2>4, <2>5, ExceptSeq
  <2>7. /\ DOMAIN alertQueue' = DOMAIN alertQueue
        /\ \A j \in DOMAIN alertQueue : alertQueue'[j].alert = alertQueue[j].alert
    BY <2>4, <2>5
  <2>8. AlertsOf(alertQueue') = AlertsOf(alertQueue)
    BY <2>7 DEF AlertsOf
  <2>9. OnceEach(alertQueue) => OnceEach(alertQueue')
    BY <2>7 DEF OnceEach
  <2>10. QueuedBetween' /\ QueuedDuring'
    BY <2>2, <2>8, <2>9 DEF QueuedBetween, QueuedDuring
  <2> QED
    BY <1>0, <2>2, <2>6, <2>10 DEF NoteTypeOK
<1>9. CASE QueueStops
  BY <1>9 DEF QueueStops, NoteTypeOK, QueuedBetween, QueuedDuring
<1>10. CASE UNCHANGED noteVars
  BY <1>10 DEF noteVars, NoteTypeOK, QueuedBetween, QueuedDuring
<1> QED
  BY <1>1, <1>2, <1>3, <1>4, <1>5, <1>6, <1>7, <1>8, <1>9, <1>10 DEF NoteNext

LEMMA NoteInvImplies == NoteInv => AlertsAccounted
BY DEF NoteInv, NoteTypeOK, QueuedBetween, QueuedDuring, AlertsAccounted, Held, InQueue, AlertsOf

(* For any number of alerts and retries: the queue of the notification        *)
(* service forgets no alert it has accepted, however enqueueing, passes and   *)
(* backoffs interleave, and a subscriber that gave up is not "connected",     *)
(* unless the service is stopping.                                            *)
THEOREM QueueKeepsAlerts == NoteSpec => []AlertsAccounted
BY NoteInitInv, NoteNextInv, NoteInvImplies, PTL DEF NoteSpec
-----------------------------------------------------------------------------
(* Mt5Connections.  Three things are hidden behind LinksOwned.  A stop in  *)
(* progress is always of a connection that is no longer wanted.  Someone   *)
(* attends not only to a wanted connection but to every registered adapter *)
(* (Served), or start_all_connections, which leaves a connected account    *)
(* alone, would leave it dead.  And while none of the known slips has      *)
(* happened (loose = {}) there is one task at most, and it is the          *)
(* registered one (Registered).                                            *)

NoneLive == \A k \in Adapters : ~Live(k)
NoneOpen == \A k \in Adapters : sock[k] # "open"

StopUnwanted == stopPc # "no" => ~wanted /\ created > 0

Served ==
    loose \cap {"idle", "raced"} = {} /\ stopPc = "no" =>
        ((running /\ wanted) \/ connection # 0 => Attended)

Registered ==
    loose = {} =>
        /\ \A k \in Adapters : sock[k] = "open" => connection = k
        /\ \A k \in Adapters : Live(k) => connection = k /\ tickReceiver = k
        /\ asleep = IF reconnection = "asleep" THEN 1 ELSE 0
        /\ stopPc = "reconnection" => reconnection = "cancelled"
        /\ ~wanted => NoneLive
        /\ ~wanted /\ stopPc = "no" => asleep = 0 /\ NoneOpen

(* An order id in flight under the current set of pending orders is in it. *)
FlightsApart ==
    /\ \A f \in flights : f.epoch <= epoch
    /\ \A f \in flights : f.epoch = epoch /\ f.order # PositionQuery => f.order \in pending
    /\ \A f, g \in flights : f.order = g.order /\ f.epoch = g.epoch => f = g

LinkInv ==
    /\ LinkTypeOK
    /\ StopUnwanted
    /\ Served
    /\ Registered
    /\ FlightsApart

Sockets == {"none", "open", "unbound", "closed"}
Tasks == {"none", "created", "running", "backoff", "ended"}
LiveIn(r, k) == r[k] \in {"created", "running", "backoff"}

LEMMA StartConnectionFacts ==
    ASSUME LinkTypeOK,
           NEW up \in BOOLEAN, NEW s \in [Adapters -> Sockets], NEW r \in [Adapters -> Tasks],
           NEW reg \in {"none", "asleep", "cancelled"}, NEW n \in Nat,
           reg = "asleep" => n > 0,
           StartConnection(up, s, r, reg, n)
    PROVE  /\ created' \in 1..MaxAdapters /\ connection' \in 0..created'
           /\ tickReceiver' \in 0..created'
           /\ sock' \in [Adapters -> Sockets] /\ tickTask' \in [Adapters -> Tasks]
           /\ health' \in BOOLEAN
           /\ faults' \in 0..MaxLinkFaults
           /\ reconnection' \in {"none", "asleep", "cancelled"}
           /\ asleep' \in Nat /\ (reconnection' = "asleep" => asleep' > 0)
           /\ pending' = {} /\ epoch' = epoch + 1
           /\ up \/ connection' # 0 => Attended'
           /\ (\A k \in Adapters : s[k] # "open") =>
                 \A k \in Adapters : sock'[k] = "open" => connection' = k
           /\ (\A k \in Adapters : ~LiveIn(r, k)) =>
                 \A k \in Adapters : Live(k)' => connection' = k /\ tickReceiver' = k
           /\ n = (IF reg = "asleep" THEN 1 ELSE 0) =>
                 asleep' = IF reconnection' = "asleep" THEN 1 ELSE 0
<1>k. PICK k \in Adapters : k = created + 1
  BY LinkBounds DEF StartConnection, LinkTypeOK, Adapters
<1>0. /\ k \in 1..MaxAdapters /\ created' = k
      /\ pending' = {} /\ epoch' = epoch + 1
      /\ created \in Nat /\ tickReceiver \in 0..created /\ faults \in 0..MaxLinkFaults
  BY <1>k, LinkBounds DEF StartConnection, LinkTypeOK, Adapters
<1>1. CASE /\ connection' = k /\ tickReceiver' = k
           /\ sock' = [s EXCEPT ![k] = "open"]
           /\ tickTask' = [r EXCEPT ![k] = "created"]
           /\ SetHealth(TRUE)
           /\ reconnection' = reg /\ asleep' = n
           /\ UNCHANGED faults
  <2>1. Live(k)'
    BY <1>0, <1>1 DEF Live, Tasks
  <2>2. Attended'
    BY <1>0, <2>1 DEF Attended
  <2>3. \A j \in Adapters \ {k} : sock'[j] = s[j] /\ tickTask'[j] = r[j]
    BY <1>1
  <2>4. sock' \in [Adapters -> Sockets] /\ tickTask' \in [Adapters -> Tasks]
    BY <1>0, <1>1 DEF Sockets, Tasks
  <2>5. health' \in BOOLEAN
    BY <1>1 DEF SetHealth
  <2>6. (\A j \in Adapters : s[j] # "open") =>
           \A j \in Adapters : sock'[j] = "open" => connection' = j
    BY <1>1, <2>3
  <2>7. (\A j \in Adapters : ~LiveIn(r, j)) =>
           \A j \in Adapters : Live(j)' => connection' = j /\ tickReceiver' = j
    BY <1>1, <2>3 DEF Live, LiveIn
  <2>8. /\ created' \in 1..MaxAdapters /\ connection' \in 0..created'
        /\ tickReceiver' \in 0..created'
    BY <1>0, <1>1
  <2>9. /\ reconnection' \in {"none", "asleep", "cancelled"}
        /\ asleep' \in Nat /\ (reconnection' = "asleep" => asleep' > 0)
        /\ n = (IF reg = "asleep" THEN 1 ELSE 0) =>
              asleep' = IF reconnection' = "asleep" THEN 1 ELSE 0
    BY <1>1
  <2>10. faults' \in 0..MaxLinkFaults /\ pending' = {} /\ epoch' = epoch + 1
    BY <1>0, <1>1
  <2> QED
    BY ONLY <2>2, <2>4, <2>5, <2>6, <2>7, <2>8, <2>9, <2>10
<1>2. CASE /\ IF CanBind(s) THEN Fault ELSE UNCHANGED faults
           /\ connection' = 0
           /\ sock' = [s EXCEPT ![k] = "closed"]
           /\ tickTask' = r
           /\ SetHealth(FALSE)
           /\ ScheduleReconnection(up, reg, n)
           /\ UNCHANGED tickReceiver
  <2>1. faults' \in 0..MaxLinkFaults
    BY <1>0, <1>2, LinkBounds DEF Fault
  <2>2. sock' \in [Adapters -> Sockets] /\ tickTask' \in [Adapters -> Tasks]
    BY <1>0, <1>2 DEF Sockets
  <2>3. health' \in BOOLEAN
    BY <1>2 DEF SetHealth
  <2>4. /\ reconnection' \in {"none", "asleep", "cancelled"}
        /\ asleep' \in Nat /\ (reconnection' = "asleep" => asleep' > 0)
        /\ up => asleep' > 0
        /\ n = (IF reg = "asleep" THEN 1 ELSE 0) =>
              asleep' = IF reconnection' = "asleep" THEN 1 ELSE 0
    BY <1>2 DEF ScheduleReconnection
  <2>5. up => Attended'
    BY <2>4 DEF Attended
  <2>6. /\ (\A j \in Adapters : s[j] # "open") => \A j \in Adapters : sock'[j] # "open"
        /\ (\A j \in Adapters : ~LiveIn(r, j)) => \A j \in Adapters : ~Live(j)'
    BY <1>2 DEF Live, LiveIn
  <2>7. tickReceiver' \in 0..created'
    BY <1>k, <1>0, <1>2
  <2> QED
    BY <1>0, <1>2, <2>1, <2>2, <2>3, <2>4, <2>5, <2>6, <2>7
<1> QED
  BY <1>k, <1>1, <1>2 DEF StartConnection

LEMMA LinkInitInv == LinkInit => LinkInv
<1> SUFFICES ASSUME LinkInit PROVE LinkInv
  OBVIOUS
<1>1. running \in BOOLEAN /\ health \in BOOLEAN /\ wanted \in BOOLEAN
  BY DEF LinkInit
<1>2. LinkTypeOK
  BY <1>1, LinkBounds DEF LinkInit, LinkTypeOK
<1>3. NoneLive /\ NoneOpen
  BY DEF LinkInit, NoneLive, NoneOpen, Live
<1>4. Served /\ StopUnwanted
  BY DEF LinkInit, Served, StopUnwanted
<1>5. Registered
  BY <1>3 DEF LinkInit, Registered, NoneLive, NoneOpen
<1>6. FlightsApart
  BY DEF LinkInit, FlightsApart
<1> QED
  BY <1>2, <1>4, <1>5, <1>6 DEF LinkInv
(* Requests: every step but those of this section leaves them alone or, by    *)
(* start_connection, begins a new set of pending orders.                      *)
SendTypeOK ==
    /\ pending \subseteq Tickets /\ epoch \in Nat
    /\ flights \subseteq [order : Tickets \cup {PositionQuery}, epoch : Nat, adapter : Adapters]

LEMMA NewEpoch ==
    ASSUME SendTypeOK, FlightsApart,
           \/ pending' = {} /\ epoch' = epoch + 1
           \/ UNCHANGED <<pending, epoch>>,
           flights' = flights
    PROVE  SendTypeOK' /\ FlightsApart'
<1>1. \A f \in flights : f.epoch \in Nat
  BY DEF SendTypeOK
<1>2. CASE pending' = {} /\ epoch' = epoch + 1
  <2>1. \A f \in flights : f.epoch < epoch'
    BY <1>1, <1>2 DEF SendTypeOK, FlightsApart
  <2>2. epoch' \in Nat
    BY <1>2 DEF SendTypeOK
  <2> QED
    BY <1>1, <1>2, <2>1, <2>2 DEF SendTypeOK, FlightsApart
<1>3. CASE UNCHANGED <<pending, epoch>>
  BY <1>3 DEF SendTypeOK, FlightsApart
<1> QED
  BY <1>2, <1>3

LEMMA RequestSent ==
    ASSUME SendTypeOK, FlightsApart, NEW k \in Adapters,
           NEW order \in Tickets \cup {PositionQuery},
           flights' = flights \cup {[order |-> order, epoch |-> epoch, adapter |-> k]},
           epoch' = epoch, pending \subseteq pending', pending' \subseteq Tickets,
           order # PositionQuery => order \in pending' \ pending,
           order = PositionQuery => \A f \in flights : f.order # PositionQuery
    PROVE  SendTypeOK' /\ FlightsApart'
<1> DEFINE new == [order |-> order, epoch |-> epoch, adapter |-> k]
<1>1. /\ new.order = order /\ new.epoch = epoch
      /\ new \in [order : Tickets \cup {PositionQuery}, epoch : Nat, adapter : Adapters]
  BY DEF SendTypeOK
<1>2. flights' = flights \cup {new} /\ epoch \in Nat
  BY DEF SendTypeOK
<1> HIDE DEF new
<1>3. \A f \in flights : ~(f.order = order /\ f.epoch = epoch)
  BY DEF FlightsApart
<1>4. SendTypeOK'
  BY <1>1, <1>2 DEF SendTypeOK
<1>5. \A f, g \in flights' : f.order = g.order /\ f.epoch = g.epoch => f = g
  BY <1>1, <1>2, <1>3 DEF FlightsApart
<1>6. \A f \in flights' : f.epoch <= epoch'
  BY <1>1, <1>2 DEF FlightsApart
<1>7. \A f \in flights' : f.epoch = epoch' /\ f.order # PositionQuery => f.order \in pending'
  BY <1>1, <1>2 DEF FlightsApart
<1> QED
  BY <1>4, <1>5, <1>6, <1>7 DEF FlightsApart

LEMMA RequestEnded ==
    ASSUME SendTypeOK, FlightsApart, NEW f \in flights, SendEnds(f)
    PROVE  SendTypeOK' /\ FlightsApart'
<1>1. /\ flights' = flights \ {f} /\ epoch' = epoch
      /\ pending' = IF f.epoch = epoch THEN pending \ {f.order} ELSE pending
  BY DEF SendEnds
<1>2. ASSUME NEW g \in flights', g.epoch = epoch', g.order # PositionQuery
      PROVE  g.order \in pending'
  <2>1. g \in flights /\ g # f /\ g.order \in pending
    BY <1>1, <1>2 DEF FlightsApart
  <2>2. f.epoch = epoch => g.order # f.order
    BY <1>1, <1>2, <2>1 DEF FlightsApart
  <2> QED
    BY <1>1, <2>1, <2>2
<1> QED
  BY <1>1, <1>2 DEF SendTypeOK, FlightsApart

-----------------------------------------------------------------------------
(* The connection: every step but the requests. *)

ConnectionVars ==
    <<running, connection, created, sock, tickTask, tickReceiver, reconnection, asleep,
      health, stopPc, wanted, faults, loose>>

ConnectionTypeOK ==
    /\ running \in BOOLEAN /\ health \in BOOLEAN /\ wanted \in BOOLEAN
    /\ connection \in 0..created /\ tickReceiver \in 0..created
    /\ created \in 0..MaxAdapters
    /\ sock \in [Adapters -> Sockets]
    /\ tickTask \in [Adapters -> Tasks]
    /\ reconnection \in {"none", "asleep", "cancelled"}
    /\ asleep \in Nat /\ (reconnection = "asleep" => asleep > 0)
    /\ stopPc \in {"no", "receiver", "reconnection"}
    /\ faults \in 0..MaxLinkFaults
    /\ loose \subseteq {"overlooked", "replaced", "raced", "idle"}

ConnectionInv == ConnectionTypeOK /\ StopUnwanted /\ Served /\ Registered

LEMMA LinkInvParts == LinkInv <=> ConnectionInv /\ SendTypeOK /\ FlightsApart
BY DEF LinkInv, LinkTypeOK, ConnectionInv, ConnectionTypeOK, SendTypeOK, Sockets, Tasks

LEMMA ConnectionUnchanged ==
    ASSUME ConnectionInv, UNCHANGED ConnectionVars
    PROVE  ConnectionInv'
BY DEF ConnectionInv, ConnectionVars, ConnectionTypeOK, StopUnwanted, Served, Registered,
       Attended, Live, NoneLive, NoneOpen

(* What a step of start_connection gives, whichever command or task it is of. *)
LEMMA ConnectionStarted ==
    ASSUME ConnectionTypeOK, LinkTypeOK,
           NEW up \in BOOLEAN, NEW s \in [Adapters -> Sockets], NEW r \in [Adapters -> Tasks],
           NEW reg \in {"none", "asleep", "cancelled"}, NEW n \in Nat,
           reg = "asleep" => n > 0,
           StartConnection(up, s, r, reg, n),
           running' \in BOOLEAN, wanted' \in BOOLEAN,
           loose' \subseteq {"overlooked", "replaced", "raced", "idle"},
           stopPc' = stopPc, running' => up,
           stopPc # "no" => ~wanted' /\ "raced" \in loose',
           loose' = {} =>
              /\ wanted'
              /\ \A k \in Adapters : s[k] # "open" /\ ~LiveIn(r, k)
              /\ n = IF reg = "asleep" THEN 1 ELSE 0
    PROVE  ConnectionInv'
<1>1. /\ created' \in 1..MaxAdapters /\ connection' \in 0..created'
      /\ tickReceiver' \in 0..created'
      /\ sock' \in [Adapters -> Sockets] /\ tickTask' \in [Adapters -> Tasks]
      /\ health' \in BOOLEAN
      /\ faults' \in 0..MaxLinkFaults
      /\ reconnection' \in {"none", "asleep", "cancelled"}
      /\ asleep' \in Nat /\ (reconnection' = "asleep" => asleep' > 0)
      /\ up \/ connection' # 0 => Attended'
      /\ (\A k \in Adapters : s[k] # "open") =>
            \A k \in Adapters : sock'[k] = "open" => connection' = k
      /\ (\A k \in Adapters : ~LiveIn(r, k)) =>
            \A k \in Adapters : Live(k)' => connection' = k /\ tickReceiver' = k
      /\ n = (IF reg = "asleep" THEN 1 ELSE 0) =>
            asleep' = IF reconnection' = "asleep" THEN 1 ELSE 0
  BY StartConnectionFacts
<1>2. ConnectionTypeOK'
  BY <1>1, LinkBounds DEF ConnectionTypeOK
<1>3. StopUnwanted'
  BY <1>1, LinkBounds DEF StopUnwanted
<1>4. Served'
  BY <1>1 DEF Served
<1>5. Registered'
  BY <1>1 DEF Registered
<1> QED
  BY <1>2, <1>3, <1>4, <1>5 DEF ConnectionInv
LEMMA StartsConnection ==
    ASSUME LinkInv, StartAll \/ AddAccountLink \/ Reconnect
    PROVE  ConnectionInv'
<1>0. /\ ConnectionTypeOK /\ LinkTypeOK /\ StopUnwanted /\ Served /\ Registered
      /\ ConnectionInv
  BY LinkInvParts DEF LinkInv, ConnectionInv
<1>1. /\ running \in BOOLEAN /\ sock \in [Adapters -> Sockets] /\ tickTask \in [Adapters -> Tasks]
      /\ reconnection \in {"none", "asleep", "cancelled"} /\ asleep \in Nat
      /\ (reconnection = "asleep" => asleep > 0)
      /\ loose \subseteq {"overlooked", "replaced", "raced", "idle"}
      /\ connection \in 0..created /\ created \in 0..MaxAdapters
  BY <1>0 DEF ConnectionTypeOK
<1>2. CASE StartAll /\ connection # 0
  <2>1. /\ running' = TRUE /\ wanted' = TRUE /\ stopPc = "no"
        /\ UNCHANGED <<connection, created, sock, tickTask, tickReceiver, reconnection,
                       asleep, health, faults, stopPc, loose>>
    BY <1>2 DEF StartAll
  <2>2. Served'
    BY <1>0, <1>2, <2>1 DEF Served, Attended, Live
  <2>3. Registered' /\ StopUnwanted'
    BY <1>0, <2>1 DEF Registered, Live, NoneLive, NoneOpen, StopUnwanted
  <2>4. ConnectionTypeOK'
    BY <1>0, <2>1 DEF ConnectionTypeOK
  <2> QED
    BY <2>2, <2>3, <2>4 DEF ConnectionInv
<1>3. ASSUME connection = 0, loose = {}
      PROVE  \A k \in Adapters : sock[k] # "open" /\ ~LiveIn(tickTask, k)
  BY <1>0, <1>3 DEF Registered, Live, LiveIn, Adapters
<1>4. CASE StartAll /\ connection = 0
  <2>1. /\ StartConnection(TRUE, sock, tickTask, reconnection, asleep)
        /\ stopPc = "no" /\ running' = TRUE /\ wanted' = TRUE /\ loose' = loose
        /\ stopPc' = stopPc
    BY <1>4 DEF StartAll
  <2>2. loose = {} => asleep = IF reconnection = "asleep" THEN 1 ELSE 0
    BY <1>0 DEF Registered
  <2> QED
    BY <1>0, <1>1, <1>3, <1>4, <2>1, <2>2, ConnectionStarted
<1>5. CASE AddAccountLink
  <2>1. /\ StartConnection(running, sock, tickTask, reconnection, asleep)
        /\ created = 0 /\ wanted' = TRUE /\ running' = running /\ loose' = loose
        /\ stopPc' = stopPc
    BY <1>5 DEF AddAccountLink
  <2>2. connection = 0 /\ stopPc = "no"
    BY <1>0, <1>1, <2>1 DEF StopUnwanted
  <2>3. loose = {} => asleep = IF reconnection = "asleep" THEN 1 ELSE 0
    BY <1>0 DEF Registered
  <2> QED
    BY <1>0, <1>1, <1>3, <2>1, <2>2, <2>3, ConnectionStarted
<1>6. CASE Reconnect
  <2> DEFINE s == Closed(connection)
             r == Abandoned(connection)
  <2>1. /\ asleep > 0
        /\ StartConnection(running, s, r, "none", asleep - 1)
        /\ running' = running /\ stopPc' = stopPc /\ wanted' = wanted
    BY <1>6 DEF Reconnect
  <2>2. /\ loose \subseteq loose'
        /\ loose' \subseteq {"overlooked", "replaced", "raced", "idle"}
        /\ stopPc # "no" \/ (reconnection = "asleep" /\ asleep > 1) => "raced" \in loose'
        /\ connection # 0 /\ tickTask[connection] \in {"created", "backoff"} => "replaced" \in loose'
    BY <1>1, <1>6 DEF Reconnect
  <2>3. s \in [Adapters -> Sockets] /\ r \in [Adapters -> Tasks]
    BY <1>1 DEF Closed, Abandoned, Sockets, Tasks
  <2>4. asleep - 1 \in Nat
    BY <1>1, <2>1
  <2>5. stopPc # "no" => ~wanted'
    BY <1>0, <2>1 DEF StopUnwanted
  <2>6. wanted' \in BOOLEAN
    BY <1>0, <2>1 DEF ConnectionTypeOK
  <2>7. ASSUME loose' = {}
        PROVE  /\ wanted'
               /\ \A k \in Adapters : s[k] # "open" /\ ~LiveIn(r, k)
               /\ asleep - 1 = 0
    <3>1. loose = {} /\ stopPc = "no"
      BY <2>2, <2>7
    <3>2. asleep = 1
      BY <1>0, <2>1, <3>1 DEF Registered
    <3>3. wanted'
      BY <1>0, <2>1, <3>1, <3>2 DEF Registered
    <3>4. ASSUME NEW k \in Adapters PROVE s[k] # "open" /\ ~LiveIn(r, k)
      <4>1. CASE connection = 0
        BY <1>3, <3>1, <4>1 DEF Closed, Abandoned
      <4>2. CASE connection # 0
        <5>1. connection \in Adapters
          BY <1>1, <4>2, LinkBounds DEF Adapters
        <5>2. CASE k = connection
          BY <1>1, <2>2, <2>7, <4>2, <5>1, <5>2 DEF Closed, Abandoned, LiveIn
        <5>3. CASE k # connection
          <6>1. sock[k] # "open" /\ ~Live(k)
            BY <1>0, <3>1, <5>3 DEF Registered
          <6> QED
            BY <1>1, <4>2, <5>1, <5>3, <6>1 DEF Closed, Abandoned, LiveIn, Live
        <5> QED
          BY <5>2, <5>3
      <4> QED
        BY <4>1, <4>2
    <3> QED
      BY <3>2, <3>3, <3>4
  <2> HIDE DEF s, r
  <2>8. stopPc # "no" => ~wanted' /\ "raced" \in loose'
    BY <2>2, <2>5
  <2>9. loose' = {} => /\ wanted'
                       /\ \A k \in Adapters : s[k] # "open" /\ ~LiveIn(r, k)
                       /\ asleep - 1 = IF "none" = "asleep" THEN 1 ELSE 0
    BY <2>7
  <2>10. running' \in BOOLEAN /\ (running' => running)
    BY <1>1, <2>1
  <2> QED
    BY <1>0, <1>1, <2>1, <2>2, <2>3, <2>4, <2>6, <2>8, <2>9, <2>10, ConnectionStarted
<1> QED
  BY <1>2, <1>4, <1>5, <1>6
(* A receiver that ends by an exception leaves a reconnection task behind it, *)
(* or is the case "idle".                                                     *)
LEMMA ReceiverFailed ==
    ASSUME ConnectionInv, NEW k \in Adapters, Live(k), ReceiverFails(k),
           sock' \in [Adapters -> Sockets], \A j \in Adapters : sock'[j] = "open" => sock[j] = "open",
           faults' \in 0..MaxLinkFaults,
           UNCHANGED <<running, connection, created, tickReceiver, stopPc, wanted>>
    PROVE  ConnectionInv'
<1>0. ConnectionTypeOK /\ StopUnwanted /\ Served /\ Registered
  BY DEF ConnectionInv
<1>1. /\ tickTask' = [tickTask EXCEPT ![k] = "ended"]
      /\ SetHealth(FALSE)
      /\ ScheduleReconnection(running, reconnection, asleep)
      /\ loose' = IF running THEN loose ELSE loose \cup {"idle"}
  BY DEF ReceiverFails
<1>2. health' \in BOOLEAN /\ tickTask' \in [Adapters -> Tasks]
  BY <1>0, <1>1 DEF SetHealth, ConnectionTypeOK, Tasks
<1>3. /\ reconnection' \in {"none", "asleep", "cancelled"}
      /\ asleep' \in Nat /\ (reconnection' = "asleep" => asleep' > 0)
      /\ running => asleep' > 0 /\ loose' = loose
      /\ ~running => "idle" \in loose'
      /\ asleep = (IF reconnection = "asleep" THEN 1 ELSE 0) =>
            asleep' = IF reconnection' = "asleep" THEN 1 ELSE 0
  BY <1>0, <1>1 DEF ScheduleReconnection, ConnectionTypeOK
<1>4. ConnectionTypeOK'
  BY <1>0, <1>1, <1>2, <1>3 DEF ConnectionTypeOK
<1>5. Served'
  BY <1>3 DEF Served, Attended
<1>6. \A j \in Adapters : Live(j)' => Live(j)
  BY <1>0, <1>1 DEF Live, ConnectionTypeOK
<1>7. Registered'
  <2> SUFFICES ASSUME loose' = {} PROVE Registered'
    BY DEF Registered
  <2>1. loose = {} /\ running
    BY <1>3
  <2>2. wanted /\ stopPc # "reconnection"
    <3>1. wanted
      BY <1>0, <2>1 DEF Registered, NoneLive
    <3> QED
      BY <1>0, <3>1 DEF StopUnwanted
  <2> QED
    BY <1>0, <1>3, <1>6, <2>1, <2>2 DEF Registered
<1>8. StopUnwanted'
  BY <1>0 DEF StopUnwanted
<1> QED
  BY <1>4, <1>5, <1>7, <1>8 DEF ConnectionInv

(* A receiver goes on, in the sockets of its adapter. *)
LEMMA ReceiverGoesOn ==
    ASSUME ConnectionInv, NEW k \in Adapters, Live(k),
           NEW how \in {"running", "backoff"}, tickTask' = [tickTask EXCEPT ![k] = how],
           sock' \in [Adapters -> Sockets],
           \A j \in Adapters \ {k} : sock'[j] = sock[j],
           health' \in BOOLEAN, faults' \in 0..MaxLinkFaults,
           UNCHANGED <<running, connection, created, tickReceiver, reconnection, asleep,
                       stopPc, wanted, loose>>
    PROVE  ConnectionInv'
<1>0. ConnectionTypeOK /\ StopUnwanted /\ Served /\ Registered
  BY DEF ConnectionInv
<1>1. tickTask' \in [Adapters -> Tasks] /\ \A j \in Adapters : Live(j)' <=> Live(j)
  BY <1>0 DEF ConnectionTypeOK, Tasks, Live
<1>2. ConnectionTypeOK'
  BY <1>0, <1>1 DEF ConnectionTypeOK
<1>3. Served'
  BY <1>0, <1>1 DEF Served, Attended
<1>4. Registered'
  <2> SUFFICES ASSUME loose = {} PROVE Registered'
    BY DEF Registered
  <2>1. wanted /\ connection = k
    BY <1>0 DEF Registered, NoneLive
  <2> QED
    BY <1>0, <1>1, <2>1 DEF Registered
<1>5. StopUnwanted'
  BY <1>0 DEF StopUnwanted
<1> QED
  BY <1>2, <1>3, <1>4, <1>5 DEF ConnectionInv

LEMMA ReceiverSteps ==
    ASSUME ConnectionInv, NEW k \in Adapters,
           ReceiverStarts(k) \/ TickArrives(k) \/ TickRaises(k) \/ ReceiveFails(k)
               \/ AdapterReconnects(k)
    PROVE  ConnectionInv'
<1>0. /\ sock \in [Adapters -> Sockets] /\ tickTask \in [Adapters -> Tasks]
      /\ faults \in 0..MaxLinkFaults /\ health \in BOOLEAN
  BY DEF ConnectionInv, ConnectionTypeOK
<1>1. CASE ReceiverStarts(k)
  <2>1. /\ Live(k)
        /\ UNCHANGED <<running, connection, created, sock, tickReceiver, stopPc, wanted, faults>>
    BY <1>1 DEF ReceiverStarts, Live
  <2>2. CASE sock[k] = "open"
    <3>1. /\ tickTask' = [tickTask EXCEPT ![k] = "running"]
          /\ UNCHANGED <<health, reconnection, asleep, loose>>
      BY <1>1, <2>2 DEF ReceiverStarts
    <3> QED
      BY <1>0, <2>1, <3>1, ReceiverGoesOn
  <2>3. CASE sock[k] # "open"
    <3>1. ReceiverFails(k)
      BY <1>1, <2>3 DEF ReceiverStarts
    <3> QED
      BY <1>0, <2>1, <3>1, ReceiverFailed
  <2> QED
    BY <2>2, <2>3
<1>2. CASE TickArrives(k)
  <2>1. /\ tickTask[k] = "running" /\ health' = TRUE
        /\ UNCHANGED <<running, connection, created, sock, tickTask, tickReceiver, reconnection,
                       asleep, stopPc, wanted, faults, loose>>
    BY <1>2 DEF TickArrives, SetHealth
  <2>2. Live(k) /\ tickTask' = [tickTask EXCEPT ![k] = "running"]
    BY <1>0, <2>1 DEF Live
  <2>3. health' \in BOOLEAN
    BY <2>1
  <2> QED
    BY <1>0, <2>1, <2>2, <2>3, ReceiverGoesOn
<1>3. CASE TickRaises(k)
  <2>1. /\ Live(k) /\ ReceiverFails(k) /\ faults' \in 0..MaxLinkFaults
        /\ UNCHANGED <<running, connection, created, sock, tickReceiver, stopPc, wanted>>
    BY <1>0, <1>3, LinkBounds DEF TickRaises, Live, Fault
  <2> QED
    BY <1>0, <2>1, ReceiverFailed
<1>4. CASE ReceiveFails(k)
  <2>1. /\ Live(k) /\ tickTask' = [tickTask EXCEPT ![k] = "backoff"]
        /\ faults' \in 0..MaxLinkFaults
        /\ UNCHANGED <<running, connection, created, sock, tickReceiver, reconnection, asleep,
                       health, stopPc, wanted, loose>>
    BY <1>0, <1>4, LinkBounds DEF ReceiveFails, Live, Fault
  <2> QED
    BY <1>0, <2>1, ReceiverGoesOn
<1>5. CASE AdapterReconnects(k)
  <2>1. /\ Live(k)
        /\ UNCHANGED <<running, connection, created, tickReceiver, stopPc, wanted>>
    BY <1>5 DEF AdapterReconnects, Live
  <2>2. CASE /\ sock' = [sock EXCEPT ![k] = "open"]
             /\ tickTask' = [tickTask EXCEPT ![k] = "running"]
             /\ UNCHANGED <<health, reconnection, asleep, faults, loose>>
    <3>1. sock' \in [Adapters -> Sockets] /\ \A j \in Adapters \ {k} : sock'[j] = sock[j]
      BY <1>0, <2>2 DEF Sockets
    <3> QED
      BY <1>0, <2>1, <2>2, <3>1, ReceiverGoesOn
  <2>3. CASE /\ IF CanBind(Closed(k)) THEN Fault ELSE UNCHANGED faults
             /\ sock' = [sock EXCEPT ![k] = "unbound"]
             /\ ReceiverFails(k)
    <3>1. /\ sock' \in [Adapters -> Sockets]
          /\ \A j \in Adapters : sock'[j] = "open" => sock[j] = "open"
      BY <1>0, <2>3 DEF Sockets
    <3>2. faults' \in 0..MaxLinkFaults
      BY <1>0, <2>3, LinkBounds DEF Fault
    <3> QED
      BY <2>1, <2>3, <3>1, <3>2, ReceiverFailed
  <2> QED
    BY <1>5, <2>2, <2>3 DEF AdapterReconnects
<1> QED
  BY <1>1, <1>2, <1>3, <1>4, <1>5

(* The adapter is disconnected: its sockets close, a receiver in them ends. *)
LEMMA Disconnected ==
    ASSUME ConnectionTypeOK, StopDisconnect(tickTask)
    PROVE  /\ sock' \in [Adapters -> Sockets] /\ tickTask' \in [Adapters -> Tasks]
           /\ \A k \in Adapters : Live(k)' => Live(k)
           /\ \A k \in Adapters : sock'[k] = "open" => sock[k] = "open" /\ k # connection
<1>0. sock \in [Adapters -> Sockets] /\ tickTask \in [Adapters -> Tasks]
  BY DEF ConnectionTypeOK
<1>1. CASE connection = 0
  <2>1. sock' = sock /\ tickTask' = tickTask
    BY <1>1 DEF StopDisconnect, Closed
  <2>2. \A k \in Adapters : k # connection
    BY <1>1 DEF Adapters
  <2> QED
    BY <1>0, <2>1, <2>2 DEF Live
<1>2. CASE connection # 0
  <2>1. connection \in Adapters
    BY <1>2, LinkBounds DEF ConnectionTypeOK, Adapters
  <2>2. /\ sock' = [sock EXCEPT ![connection] = "closed"]
        /\ tickTask' = [tickTask EXCEPT ![connection] = IF @ = "running" THEN "ended" ELSE @]
    BY <1>2 DEF StopDisconnect, Closed
  <2>3. sock' \in [Adapters -> Sockets] /\ tickTask' \in [Adapters -> Tasks]
    BY <1>0, <2>1, <2>2 DEF Sockets, Tasks
  <2>4. \A k \in Adapters : sock'[k] = "open" => sock[k] = "open" /\ k # connection
    BY <1>0, <2>2
  <2>5. \A k \in Adapters : Live(k)' => Live(k)
    BY <1>0, <2>2 DEF Live
  <2> QED
    BY <2>3, <2>4, <2>5
<1> QED
  BY <1>1, <1>2

(* stop_connection once the receiver has been dealt with. *)
LEMMA StopGetsOn ==
    ASSUME ConnectionInv, created > 0, ~wanted', wanted' \in BOOLEAN, running' \in BOOLEAN,
           UNCHANGED <<created, faults, loose>>,
           loose = {} => NoneLive,
           StopReconnection(tickTask)
    PROVE  ConnectionInv'
<1>0. ConnectionTypeOK /\ StopUnwanted /\ Served /\ Registered
  BY DEF ConnectionInv
<1>1. CASE reconnection = "asleep"
  <2>1. /\ tickReceiver' = 0 /\ reconnection' = "cancelled" /\ asleep' = asleep - 1
        /\ stopPc' = "reconnection" /\ UNCHANGED <<tickTask, connection, sock, health>>
    BY <1>1 DEF StopReconnection
  <2>2. asleep' \in Nat
    BY <1>0, <1>1, <2>1 DEF ConnectionTypeOK
  <2>3. ConnectionTypeOK'
    BY <1>0, <2>1, <2>2 DEF ConnectionTypeOK
  <2>4. Served' /\ StopUnwanted'
    BY <2>1 DEF Served, StopUnwanted
  <2>5. Registered'
    BY <1>0, <1>1, <2>1 DEF Registered, NoneLive, Live
  <2> QED
    BY <2>3, <2>4, <2>5 DEF ConnectionInv
<1>2. CASE reconnection # "asleep"
  <2>1. /\ tickReceiver' = 0 /\ StopDisconnect(tickTask) /\ UNCHANGED <<reconnection, asleep>>
    BY <1>2 DEF StopReconnection
  <2>2. connection' = 0 /\ stopPc' = "no" /\ health' \in BOOLEAN
    BY <2>1 DEF StopDisconnect, SetHealth
  <2>4. /\ sock' \in [Adapters -> Sockets] /\ tickTask' \in [Adapters -> Tasks]
        /\ \A k \in Adapters : Live(k)' => Live(k)
        /\ \A k \in Adapters : sock'[k] = "open" => sock[k] = "open" /\ k # connection
    BY <1>0, <2>1, Disconnected
  <2>5. ConnectionTypeOK'
    BY <1>0, <2>1, <2>2, <2>4 DEF ConnectionTypeOK
  <2>6. Served' /\ StopUnwanted'
    BY <2>2 DEF Served, StopUnwanted
  <2>7. Registered'
    BY <1>0, <1>2, <2>1, <2>2, <2>4 DEF Registered, NoneLive, NoneOpen
  <2> QED
    BY <2>5, <2>6, <2>7 DEF ConnectionInv
<1> QED
  BY <1>1, <1>2

LEMMA StopBegins ==
    ASSUME ConnectionInv, created > 0, ~wanted', wanted' \in BOOLEAN, running' \in BOOLEAN,
           UNCHANGED <<created, faults, loose>>,
           StopReceiver
    PROVE  ConnectionInv'
<1>0. ConnectionTypeOK /\ StopUnwanted /\ Served /\ Registered
  BY DEF ConnectionInv
<1>1. CASE tickReceiver # 0 /\ Live(tickReceiver)
  <2>1. /\ tickTask' = [tickTask EXCEPT ![tickReceiver] = "ended"]
        /\ stopPc' = "receiver"
        /\ UNCHANGED <<connection, sock, health, tickReceiver, reconnection, asleep>>
    BY <1>1 DEF StopReceiver
  <2>2. tickReceiver \in Adapters
    BY <1>0, <1>1, LinkBounds DEF ConnectionTypeOK, Adapters
  <2>3. /\ tickTask' \in [Adapters -> Tasks]
        /\ \A k \in Adapters : Live(k)' => Live(k) /\ k # tickReceiver
    BY <1>0, <2>1, <2>2 DEF ConnectionTypeOK, Tasks, Live
  <2>4. ConnectionTypeOK'
    BY <1>0, <2>1, <2>3 DEF ConnectionTypeOK
  <2>5. Served' /\ StopUnwanted'
    BY <2>1 DEF Served, StopUnwanted
  <2>6. Registered'
    BY <1>0, <2>1, <2>3 DEF Registered, NoneLive
  <2> QED
    BY <2>4, <2>5, <2>6 DEF ConnectionInv
<1>2. CASE ~(tickReceiver # 0 /\ Live(tickReceiver))
  <2>1. StopReconnection(tickTask)
    BY <1>2 DEF StopReceiver
  <2>2. loose = {} => NoneLive
    BY <1>0, <1>2 DEF Registered, NoneLive, Adapters
  <2> QED
    BY <2>1, <2>2, StopGetsOn
<1> QED
  BY <1>1, <1>2

LEMMA StopSteps ==
    ASSUME ConnectionInv, StopAccountLink \/ StopAllLinks \/ StopGoesOn \/ StopEnds
    PROVE  ConnectionInv'
<1>0. ConnectionTypeOK /\ StopUnwanted /\ Served /\ Registered
  BY DEF ConnectionInv
<1>b. running \in BOOLEAN /\ FALSE \in BOOLEAN /\ wanted \in BOOLEAN
  BY <1>0 DEF ConnectionTypeOK
<1>1. CASE StopAccountLink
  <2>1. /\ created > 0 /\ wanted' = FALSE /\ StopReceiver
        /\ UNCHANGED <<running, created, faults, loose>>
    BY <1>1 DEF StopAccountLink
  <2> QED
    BY <1>b, <2>1, StopBegins
<1>2. CASE StopAllLinks /\ connection # 0
  <2>1. /\ running' = FALSE /\ wanted' = FALSE /\ StopReceiver
        /\ UNCHANGED <<created, faults, loose>>
    BY <1>2 DEF StopAllLinks
  <2>2. created > 0
    BY <1>0, <1>2 DEF ConnectionTypeOK
  <2> QED
    BY <1>b, <2>1, <2>2, StopBegins
<1>3. CASE StopAllLinks /\ connection = 0
  <2>1. /\ running' = FALSE /\ wanted' = FALSE /\ stopPc = "no"
        /\ loose' = loose \cup (IF asleep > 0 THEN {"overlooked"} ELSE {})
        /\ UNCHANGED <<connection, sock, tickTask, tickReceiver, reconnection, asleep,
                       health, stopPc, created, faults>>
    BY <1>3 DEF StopAllLinks
  <2>2. running' \in BOOLEAN /\ wanted' \in BOOLEAN
    BY <2>1
  <2>3. ConnectionTypeOK'
    BY <1>0, <2>1, <2>2 DEF ConnectionTypeOK
  <2>4. Served' /\ StopUnwanted'
    BY <1>3, <2>1 DEF Served, StopUnwanted
  <2>5. Registered'
    <3> SUFFICES ASSUME loose' = {} PROVE Registered'
      BY DEF Registered
    <3>1. loose = {} /\ asleep = 0
      BY <1>0, <2>1 DEF ConnectionTypeOK
    <3>2. NoneLive /\ NoneOpen
      BY <1>0, <1>3, <3>1 DEF Registered, NoneLive, NoneOpen, Adapters
    <3> QED
      BY <1>0, <2>1, <3>1, <3>2 DEF Registered, NoneLive, NoneOpen, Live
  <2> QED
    BY <2>3, <2>4, <2>5 DEF ConnectionInv
<1>4. CASE StopGoesOn
  <2>1. /\ stopPc = "receiver" /\ StopReconnection(tickTask)
        /\ UNCHANGED <<running, created, wanted, faults, loose>>
    BY <1>4 DEF StopGoesOn
  <2>2. ~wanted /\ created > 0
    BY <1>0, <2>1 DEF StopUnwanted
  <2>3. loose = {} => NoneLive
    BY <1>0, <2>2 DEF Registered
  <2> QED
    BY <1>b, <2>1, <2>2, <2>3, StopGetsOn
<1>5. CASE StopEnds
  <2>1. /\ stopPc = "reconnection" /\ ~wanted /\ created > 0
        /\ loose' = IF reconnection = "cancelled" THEN loose ELSE loose \cup {"raced"}
        /\ UNCHANGED <<running, created, tickReceiver, asleep, wanted, faults>>
    BY <1>0, <1>5 DEF StopEnds, StopUnwanted
  <2>2. CASE reconnection = "none"
    <3>1. /\ stopPc' = "no" /\ "raced" \in loose'
          /\ loose' \subseteq {"overlooked", "replaced", "raced", "idle"}
          /\ UNCHANGED <<connection, sock, tickTask, health, reconnection>>
      BY <1>0, <1>5, <2>1, <2>2 DEF StopEnds, ConnectionTypeOK
    <3> QED
      BY <1>0, <2>1, <3>1
      DEF ConnectionInv, ConnectionTypeOK, StopUnwanted, Served, Registered
  <2>3. CASE reconnection # "none"
    <3>1. StopDisconnect(tickTask) /\ reconnection' = "none"
      BY <1>5, <2>3 DEF StopEnds
    <3>2. connection' = 0 /\ stopPc' = "no" /\ health' \in BOOLEAN
      BY <3>1 DEF StopDisconnect, SetHealth
    <3>3. loose' \subseteq {"overlooked", "replaced", "raced", "idle"} /\ loose \subseteq loose'
      BY <1>0, <2>1 DEF ConnectionTypeOK
    <3>4. /\ sock' \in [Adapters -> Sockets] /\ tickTask' \in [Adapters -> Tasks]
          /\ \A k \in Adapters : Live(k)' => Live(k)
          /\ \A k \in Adapters : sock'[k] = "open" => sock[k] = "open" /\ k # connection
      BY <1>0, <3>1, Disconnected
    <3>5. ConnectionTypeOK'
      BY <1>0, <2>1, <3>1, <3>2, <3>3, <3>4 DEF ConnectionTypeOK
    <3>6. Served' /\ StopUnwanted'
      BY <2>1, <3>2 DEF Served, StopUnwanted
    <3>7. Registered'
      BY <1>0, <2>1, <3>1, <3>2, <3>4 DEF Registered, NoneLive, NoneOpen
    <3> QED
      BY <3>5, <3>6, <3>7 DEF ConnectionInv
  <2> QED
    BY <2>2, <2>3
<1> QED
  BY <1>1, <1>2, <1>3, <1>4, <1>5

LEMMA LinkNextInv == LinkInv /\ [LinkNext]_linkVars => LinkInv'
<1> SUFFICES ASSUME LinkInv, [LinkNext]_linkVars PROVE LinkInv'
  OBVIOUS
<1>0. ConnectionInv /\ SendTypeOK /\ FlightsApart
  BY LinkInvParts
<1>p. ConnectionInv' /\ SendTypeOK' /\ FlightsApart' => LinkInv'
  BY LinkInvParts, PTL
<1>c. connection # 0 => connection \in Adapters
  BY <1>0, LinkBounds DEF ConnectionInv, ConnectionTypeOK, Adapters
<1>1. CASE StartAll \/ AddAccountLink \/ Reconnect
  <2>1. /\ \/ pending' = {} /\ epoch' = epoch + 1
           \/ UNCHANGED <<pending, epoch>>
        /\ flights' = flights
    BY <1>1 DEF StartAll, AddAccountLink, Reconnect, StartConnection
  <2> QED
    BY <1>0, <1>p, <1>1, <2>1, NewEpoch, StartsConnection
<1>2. CASE StopAccountLink \/ StopAllLinks \/ StopGoesOn \/ StopEnds
  <2>1. UNCHANGED <<pending, epoch, flights>>
    BY <1>2 DEF StopAccountLink, StopAllLinks, StopGoesOn, StopEnds, sendVars
  <2> QED
    BY <1>0, <1>p, <1>2, <2>1, NewEpoch, StopSteps
<1>3. ASSUME NEW k \in Adapters,
             ReceiverStarts(k) \/ TickArrives(k) \/ TickRaises(k) \/ ReceiveFails(k)
                 \/ AdapterReconnects(k)
      PROVE  LinkInv'
  <2>1. UNCHANGED <<pending, epoch, flights>>
    BY <1>3 DEF ReceiverStarts, TickArrives, TickRaises, ReceiveFails, AdapterReconnects, sendVars
  <2> QED
    BY <1>0, <1>p, <1>3, <2>1, NewEpoch, ReceiverSteps
<1>4. ASSUME NEW o \in Tickets, SendOrder(o) PROVE LinkInv'
  <2>1. UNCHANGED ConnectionVars /\ epoch' = epoch
    BY <1>4 DEF SendOrder, ConnectionVars
  <2>2. /\ connection # 0 /\ o \notin pending /\ pending' = pending \cup {o}
        /\ flights' = flights \cup {[order |-> o, epoch |-> epoch, adapter |-> connection]}
    BY <1>4 DEF SendOrder
  <2>3. o # PositionQuery /\ pending' \subseteq Tickets
    BY <1>0, <2>2, TicketsApart DEF SendTypeOK
  <2>4. SendTypeOK' /\ FlightsApart'
    BY <1>0, <1>c, <2>1, <2>2, <2>3, RequestSent
  <2> QED
    BY <1>0, <1>p, <2>1, <2>4, ConnectionUnchanged
<1>5. CASE QueryPositions
  <2>1. UNCHANGED ConnectionVars /\ UNCHANGED <<pending, epoch>>
    BY <1>5 DEF QueryPositions, ConnectionVars
  <2>2. /\ connection # 0 /\ \A f \in flights : f.order # PositionQuery
        /\ flights' = flights \cup {[order |-> PositionQuery, epoch |-> epoch,
                                     adapter |-> connection]}
    BY <1>5 DEF QueryPositions
  <2>3. SendTypeOK' /\ FlightsApart'
    BY <1>0, <1>c, <2>1, <2>2, RequestSent DEF SendTypeOK
  <2> QED
    BY <1>0, <1>p, <2>1, <2>3, ConnectionUnchanged
<1>6. ASSUME NEW f \in flights, Answered(f) \/ TimedOut(f) PROVE LinkInv'
  <2>1. SendEnds(f)
    BY <1>6 DEF Answered, TimedOut
  <2>2. UNCHANGED ConnectionVars
    BY <2>1 DEF SendEnds, ConnectionVars
  <2> QED
    BY <1>0, <1>p, <2>1, <2>2, RequestEnded, ConnectionUnchanged
<1>7. CASE UNCHANGED linkVars
  <2>1. UNCHANGED ConnectionVars /\ UNCHANGED <<pending, epoch, flights>>
    BY <1>7 DEF linkVars, ConnectionVars
  <2> QED
    BY <1>0, <1>p, <2>1, NewEpoch, ConnectionUnchanged
<1> QED
  BY <1>1, <1>2, <1>3, <1>4, <1>5, <1>6, <1>7 DEF LinkNext

(* For any number of adapters and order ids: a started connection is never    *)
(* left without a receiver or a reconnection, a stopped one has neither open  *)
(* sockets nor a task that would open them, and no order id is in flight      *)
(* twice, with no other exceptions than the races named in loose.             *)
THEOREM ConnectionsOwned == LinkSpec => []LinksOwned
<1>1. LinkInv => LinksOwned
  <2> SUFFICES ASSUME LinkInv PROVE LinksOwned
    OBVIOUS
  <2>1. running /\ wanted /\ stopPc = "no" /\ loose \cap {"idle", "raced"} = {} => Attended
    BY DEF LinkInv, Served
  <2>2. loose = {} =>
          /\ \A k \in Adapters : sock[k] = "open" => connection = k
          /\ ~wanted /\ stopPc = "no" => ~Attended /\ \A k \in Adapters : sock[k] # "open"
    BY DEF LinkInv, LinkTypeOK, Registered, Attended, NoneLive, NoneOpen
  <2> QED
    BY <2>1, <2>2 DEF LinkInv, FlightsApart, LinksOwned
<1> QED
  BY <1>1, LinkInitInv, LinkNextInv, PTL DEF LinkSpec

-----------------------------------------------------------------------------
(* ChartSession.  Handshakes may interleave step by step and undo each      *)
(* other's work: one creates the session anew when the other has resolved   *)
(* its symbol in it.  But the one that did so has still to resolve a symbol *)
(* and to create a series after that.  So it suffices that the symbol of    *)
(* the session is resolved or will be, by a handshake that nothing can stop *)
(* any more and whose packet, if it is built, names that symbol; and the    *)
(* same of the series.                                                      *)

StepNames == {"replay session", "chart_create_session", "set symbol", "resolve_symbol",
              "next series", "create_series", "connected"}

(* What the order of the steps guarantees. *)
WellOrdered(s) ==
    /\ Follows(s, "chart_create_session", "resolve_symbol")
    /\ Follows(s, "set symbol", "resolve_symbol")
    /\ Follows(s, "resolve_symbol", "create_series")

(* The lists of steps the handshakes are put together from. *)
LEMMA OneStep ==
    ASSUME NEW e \in StepNames
    PROVE  LET s == <<e>>
           IN  /\ s \in Seq(StepNames) /\ Len(s) = 1 /\ Range(s) = {e}
               /\ \A u, v : u # e => Follows(s, u, v)
<1> DEFINE s == <<e>>
<1>1. s \in Seq(StepNames) /\ Len(s) = 1 /\ s[1] = e /\ DOMAIN s = 1..1
  OBVIOUS
<1> HIDE DEF s
<1>2. Range(s) = {e}
  BY <1>1 DEF Range
<1>3. ASSUME NEW u, NEW v, u # e PROVE Follows(s, u, v)
  BY <1>1, <1>3 DEF Follows
<1> QED
  BY <1>1, <1>2, <1>3 DEF s

LEMMA TwoSteps ==
    ASSUME NEW x \in StepNames, NEW y \in StepNames
    PROVE  LET s == <<x, y>>
           IN  /\ s \in Seq(StepNames) /\ Len(s) = 2 /\ Range(s) = {x, y}
               /\ \A u, v : (v = y \/ u # x) /\ u # y => Follows(s, u, v)
<1> DEFINE s == <<x, y>>
<1>1. s \in Seq(StepNames) /\ Len(s) = 2 /\ s[1] = x /\ s[2] = y /\ DOMAIN s = 1..2
  OBVIOUS
<1> HIDE DEF s
<1>2. Range(s) = {x, y}
  <2>1. 1 \in DOMAIN s /\ 2 \in DOMAIN s /\ \A i \in DOMAIN s : i = 1 \/ i = 2
    BY <1>1
  <2> QED
    BY <1>1, <2>1 DEF Range
<1>3. ASSUME NEW u, NEW v, v = y \/ u # x, u # y PROVE Follows(s, u, v)
  <2>1. \A i \in 1..Len(s) : s[i] = u => i = 1 /\ v = y
    BY <1>1, <1>3
  <2>2. 2 \in 1 + 1..Len(s)
    BY <1>1
  <2> QED
    BY <1>1, <2>1, <2>2 DEF Follows
<1> QED
  BY <1>1, <1>2, <1>3 DEF s

LEMMA SetMarketFacts ==
    /\ SetMarket \in Seq(StepNames) /\ WellOrdered(SetMarket)
    /\ "resolve_symbol" \in Range(SetMarket) /\ "create_series" \in Range(SetMarket)
<1>1. /\ ResolveSymbol \in Seq(StepNames) /\ "resolve_symbol" \in Range(ResolveSymbol)
      /\ Follows(ResolveSymbol, "chart_create_session", "resolve_symbol")
      /\ Follows(ResolveSymbol, "set symbol", "resolve_symbol")
  <2>1. "set symbol" \in StepNames /\ "resolve_symbol" \in StepNames
    BY DEF StepNames
  <2>2. /\ ResolveSymbol \in Seq(StepNames) /\ Range(ResolveSymbol) = {"set symbol", "resolve_symbol"}
        /\ \A u, v : (v = "resolve_symbol" \/ u # "set symbol") /\ u # "resolve_symbol"
                         => Follows(ResolveSymbol, u, v)
    BY <2>1, TwoSteps DEF ResolveSymbol
  <2> QED
    BY <2>2
<1>2. /\ CreateSeries \in Seq(StepNames) /\ "create_series" \in Range(CreateSeries)
      /\ WellOrdered(CreateSeries)
  BY TwoSteps, ZenonT(60) DEF CreateSeries, StepNames, WellOrdered
<1>3. PICK r : r = IF mode = "replay" THEN SetMarketWithReplay ELSE <<>>
  OBVIOUS
<1>4. r \in Seq(StepNames)
  BY <1>3, OneStep, EmptyFacts DEF SetMarketWithReplay, StepNames
<1>5. PICK s : s = r \o ResolveSymbol
  OBVIOUS
<1>6. /\ s \in Seq(StepNames) /\ "resolve_symbol" \in Range(s)
      /\ Follows(s, "chart_create_session", "resolve_symbol")
      /\ Follows(s, "set symbol", "resolve_symbol")
  <2>1. s \in Seq(StepNames) /\ Range(s) = Range(r) \cup Range(ResolveSymbol)
    BY <1>1, <1>4, <1>5, ConcatFacts, ZenonT(60)
  <2>2. \A x \in {"chart_create_session", "set symbol"} : Follows(s, x, "resolve_symbol")
    BY <1>1, <1>4, <1>5, FollowsConcat
  <2> QED
    BY <1>1, <2>1, <2>2
<1>7. SetMarket = s \o CreateSeries
  BY <1>3, <1>5 DEF SetMarket
<1>8. SetMarket \in Seq(StepNames) /\ Range(SetMarket) = Range(s) \cup Range(CreateSeries)
  BY <1>2, <1>6, <1>7, ConcatFacts, ZenonT(60)
<1>9. WellOrdered(SetMarket)
  BY <1>2, <1>6, <1>7, FollowsConcat DEF WellOrdered
<1> QED
  BY <1>2, <1>6, <1>8, <1>9

LEMMA ConnectFacts ==
    /\ ConnectSteps \in Seq(StepNames) /\ WellOrdered(ConnectSteps)
    /\ Len(SetMarket) < Len(ConnectSteps) /\ ConnectSteps # <<>>
    /\ Head(ConnectSteps) = "chart_create_session"
<1>1. PICK c, d : c = <<"chart_create_session">> /\ d = <<"connected">>
  OBVIOUS
<1>2. /\ c \in Seq(StepNames) /\ d \in Seq(StepNames) /\ Len(c) = 1 /\ Len(d) = 1
      /\ WellOrdered(d)
      /\ Follows(c, "set symbol", "resolve_symbol")
      /\ Follows(c, "resolve_symbol", "create_series")
  BY <1>1, OneStep DEF StepNames, WellOrdered
<1>3. PICK s : s = c \o SetMarket
  OBVIOUS
<1>4. s \in Seq(StepNames) /\ Len(s) = 1 + Len(SetMarket) /\ Len(SetMarket) \in Nat
  BY <1>2, <1>3, SetMarketFacts, ConcatFacts, LenProperties
<1>5. WellOrdered(s)
  BY <1>2, <1>3, SetMarketFacts, FollowsConcat DEF WellOrdered
<1>6. ConnectSteps = s \o d
  BY <1>1, <1>3 DEF ConnectSteps
<1>7. ConnectSteps \in Seq(StepNames) /\ Len(ConnectSteps) = Len(s) + 1
  <2>1. s \o d \in Seq(StepNames) /\ Len(s \o d) = Len(s) + Len(d)
    BY <1>2, <1>4, ConcatFacts
  <2> QED
    BY <1>2, <1>6, <2>1
<1>8. WellOrdered(ConnectSteps)
  BY <1>2, <1>4, <1>5, <1>6, FollowsConcat DEF WellOrdered
<1>9. Head(ConnectSteps) = "chart_create_session"
  <2>1. c[1] = "chart_create_session"
    BY <1>1
  <2>2. s[1] = c[1]
    <3>1. \A i \in 1..Len(c) + Len(SetMarket) :
              s[i] = IF i <= Len(c) THEN c[i] ELSE SetMarket[i - Len(c)]
      BY <1>2, <1>3, SetMarketFacts, ConcatProperties
    <3>2. \A m, n \in Nat : m = 1 => 1 <= m /\ 1 \in 1..m + n
      OBVIOUS
    <3>3. Len(c) \in Nat /\ Len(c) = 1 /\ Len(SetMarket) \in Nat
      BY <1>2, <1>4, LenProperties
    <3>4. 1 <= Len(c) /\ 1 \in 1..Len(c) + Len(SetMarket)
      BY <3>2, <3>3
    <3> QED
      BY <3>1, <3>4
  <2>3. ConnectSteps[1] = s[1]
    <3>1. \A i \in 1..Len(s) + Len(d) :
              ConnectSteps[i] = IF i <= Len(s) THEN s[i] ELSE d[i - Len(s)]
      BY <1>2, <1>4, <1>6, ConcatProperties
    <3>2. \A k, m, n \in Nat : m = 1 + k => 1 <= m /\ 1 \in 1..m + n
      OBVIOUS
    <3>3. Len(s) \in Nat /\ Len(d) \in Nat /\ Len(SetMarket) \in Nat
      BY <1>2, <1>4, LenProperties
    <3>4. 1 <= Len(s) /\ 1 \in 1..Len(s) + Len(d)
      BY <1>4, <3>2, <3>3
    <3> QED
      BY <3>1, <3>4
  <2>4. ConnectSteps # <<>>
    BY <1>4, <1>7, EmptyFacts
  <2> QED
    BY <1>7, <2>1, <2>2, <2>3, <2>4
<1> QED
  BY <1>4, <1>7, <1>8, <1>9, EmptyFacts

(* A handshake that is under way: one that a cancelled context does not end. *)
Pending(g, step) == steps[g] # ConnectSteps /\ step \in Range(steps[g])

(* Its packet names a symbol the session has no more. *)
Stale(g) == g \in built /\ AtStep(g, "resolve_symbol") /\ named[g] # symbolID

StepsRight ==
    /\ steps \in [Handshakers -> Seq(StepNames)]
    /\ \A g \in Handshakers : WellOrdered(steps[g]) /\ Len(steps[g]) <= Len(ConnectSteps)

PacketsRight ==
    /\ named = [g \in Handshakers |-> named[g]]
    /\ \A g \in built :
        /\ g \in Handshakers
        /\ AtStep(g, "resolve_symbol") \/ AtStep(g, "create_series")
        /\ ~overtaken /\ AtStep(g, "create_series") => named[g] = symbolID

SymbolComes ==
    \/ deleted \/ symbolID \in resolved
    \/ \E g \in Handshakers : Pending(g, "resolve_symbol") /\ ~Stale(g)

SeriesComes ==
    \/ deleted \/ (served # "no" /\ (~overtaken => served = "known"))
    \/ \E g \in Handshakers : Pending(g, "create_series")

AcksRight ==
    /\ ack = [r \in Acks |-> ack[r]]
    /\ closes \in [Acks -> 0..1]
    /\ AcksClosedOnce

ChartInv == StepsRight /\ PacketsRight /\ SymbolComes /\ SeriesComes /\ AcksRight

LEMMA ChartInvSound == ChartInv => ChartSound
<1> SUFFICES ASSUME ChartInv PROVE ChartSound
  OBVIOUS
<1>1. ASSUME ~deleted, \A g \in Handshakers : Idle(g)
      PROVE  served # "no" /\ (~overtaken => served = "known")
  <2>1. \A g \in Handshakers : ~Pending(g, "create_series")
    BY <1>1, EmptyFacts DEF Pending, Idle
  <2> QED
    BY <1>1, <2>1 DEF ChartInv, SeriesComes
<1> QED
  BY <1>1 DEF ChartInv, AcksRight, ChartSound, LastSeriesResolved

LEMMA ChartInitInv == ChartInit => ChartInv
<1> SUFFICES ASSUME ChartInit PROVE ChartInv
  OBVIOUS
<1>1. steps = [g \in Handshakers |-> IF g = "caller" THEN SetMarket ELSE <<>>]
  BY DEF ChartInit
<1>2. /\ SetMarket \in Seq(StepNames) /\ WellOrdered(SetMarket) /\ SetMarket # ConnectSteps
      /\ Len(SetMarket) <= Len(ConnectSteps)
      /\ "resolve_symbol" \in Range(SetMarket) /\ "create_series" \in Range(SetMarket)
  <2>1. /\ SetMarket \in Seq(StepNames) /\ ConnectSteps \in Seq(StepNames)
        /\ Len(SetMarket) < Len(ConnectSteps)
    BY SetMarketFacts, ConnectFacts
  <2>2. Len(SetMarket) \in Nat /\ Len(ConnectSteps) \in Nat
    BY <2>1, LenProperties
  <2> QED
    BY <2>1, <2>2, SetMarketFacts
<1>3. /\ <<>> \in Seq(StepNames) /\ WellOrdered(<<>>) /\ Len(<<>>) <= Len(ConnectSteps)
  <2>1. <<>> \in Seq(StepNames) /\ Len(<<>>) = 0
    BY EmptyFacts
  <2>2. Len(ConnectSteps) \in Nat
    BY ConnectFacts, LenProperties
  <2> QED
    BY <2>1, <2>2 DEF WellOrdered, Follows
<1>4. StepsRight
  BY <1>1, <1>2, <1>3 DEF StepsRight
<1>5. Pending("caller", "resolve_symbol") /\ Pending("caller", "create_series")
  BY <1>1, <1>2 DEF Pending, Handshakers
<1>6. AcksRight
  BY DEF ChartInit, AcksRight, AcksClosedOnce
<1>7. PacketsRight /\ ~Stale("caller")
  BY DEF ChartInit, PacketsRight, Stale
<1> QED
  BY <1>4, <1>5, <1>6, <1>7 DEF ChartInv, SymbolComes, SeriesComes, Handshakers

(* A step done: whoever takes the symbol or the series away has it ahead to   *)
(* bring them back, and the other handshakes are where they were.             *)
LEMMA HandshakeGoesOn ==
    ASSUME StepsRight, NEW g \in Handshakers, ~Idle(g), StepDone(g), mode' = mode,
           NEW step, step = Head(steps[g])
    PROVE  /\ StepsRight'
           /\ \A h \in Handshakers : h # g => steps'[h] = steps[h]
           /\ \A h \in Handshakers, x \in StepNames :
                  Pending(h, x) => Pending(h, x)' \/ (h = g /\ x = step)
           /\ \A h \in Handshakers : Pending(h, "resolve_symbol")' => Pending(h, "create_series")'
           /\ step \in {"chart_create_session", "set symbol"} => Pending(g, "resolve_symbol")'
           /\ step = "resolve_symbol" => Pending(g, "create_series")'
<1>1. PICK later : later = Tail(steps[g])
  OBVIOUS
<1>2. /\ steps[g] \in Seq(StepNames) /\ steps[g] # <<>> /\ WellOrdered(steps[g])
      /\ Len(steps[g]) <= Len(ConnectSteps)
      /\ steps' = [steps EXCEPT ![g] = later]
  BY <1>1 DEF StepDone, StepsRight, Idle
<1>3. ConnectSteps' = ConnectSteps /\ ConnectSteps \in Seq(StepNames) /\ Len(ConnectSteps) \in Nat
  BY ConnectFacts, LenProperties DEF ConnectSteps, SetMarket
<1>4. /\ later \in Seq(StepNames) /\ Len(later) < Len(ConnectSteps)
      /\ Range(steps[g]) = {step} \cup Range(later)
  BY <1>1, <1>2, <1>3, HeadTailFacts
<1>5. /\ WellOrdered(later) /\ later # ConnectSteps
      /\ step \in {"chart_create_session", "set symbol"} => "resolve_symbol" \in Range(later)
      /\ step = "resolve_symbol" => "create_series" \in Range(later)
  <2>1. \A x, y : Follows(steps[g], x, y) =>
            Follows(later, x, y) /\ (step = x => y \in Range(later))
    BY <1>1, <1>2, FollowsTail
  <2>2. later # ConnectSteps
    BY <1>3, <1>4
  <2> QED
    BY <1>2, <2>1, <2>2 DEF WellOrdered
<1>6. \A h \in Handshakers : steps'[h] = IF h = g THEN later ELSE steps[h]
  BY <1>2 DEF StepsRight
<1>7. StepsRight'
  <2>1. steps' \in [Handshakers -> Seq(StepNames)]
    BY <1>2, <1>4 DEF StepsRight
  <2>2. Len(later) <= Len(ConnectSteps)
    BY <1>3, <1>4, LenProperties
  <2>3. \A h \in Handshakers : WellOrdered(steps'[h]) /\ Len(steps'[h]) <= Len(ConnectSteps)
    BY <1>5, <1>6, <2>2 DEF StepsRight
  <2> QED
    BY <1>3, <2>1, <2>3 DEF StepsRight
<1>8. \A h \in Handshakers, x \in StepNames :
          Pending(h, x) => Pending(h, x)' \/ (h = g /\ x = step)
  BY <1>3, <1>4, <1>5, <1>6 DEF Pending
<1>9. \A x \in Range(later) : Pending(g, x)'
  BY <1>3, <1>5, <1>6 DEF Pending
<1>10. \A h \in Handshakers : Pending(h, "resolve_symbol")' => Pending(h, "create_series")'
  <2> SUFFICES ASSUME NEW h \in Handshakers, Pending(h, "resolve_symbol")'
               PROVE  Pending(h, "create_series")'
    OBVIOUS
  <2>1. PICK s : s = steps'[h]
    OBVIOUS
  <2>2. s \in Seq(StepNames) /\ Follows(s, "resolve_symbol", "create_series")
    BY <1>7, <2>1 DEF StepsRight, WellOrdered
  <2>3. "resolve_symbol" \in Range(s)
    BY <2>1 DEF Pending
  <2>4. "create_series" \in Range(s)
    BY <2>2, <2>3, FollowsReaches
  <2> QED
    BY <2>1, <2>4 DEF Pending
<1> QED
  BY <1>5, <1>6, <1>7, <1>8, <1>9, <1>10

(* The name of a packet that waits stays right, unless the step marks it.     *)
LEMMA OthersPackets ==
    ASSUME PacketsRight, NEW g \in Handshakers, g \notin built', built' \subseteq built,
           \A h \in Handshakers : h # g => steps'[h] = steps[h], named' = named,
           \/ symbolID' = symbolID /\ overtaken' = overtaken
           \/ overtaken' = (overtaken \/ \E h \in built \ {g} : AtStep(h, "create_series"))
    PROVE  /\ PacketsRight'
           /\ \A h \in Handshakers : \A x : h # g => (AtStep(h, x)' <=> AtStep(h, x))
<1>1. \A h \in Handshakers : \A x : h # g => (AtStep(h, x)' <=> AtStep(h, x))
  BY DEF AtStep, Idle
<1>2. ASSUME NEW h \in built'
      PROVE  /\ h \in Handshakers
             /\ AtStep(h, "resolve_symbol")' \/ AtStep(h, "create_series")'
             /\ ~overtaken' /\ AtStep(h, "create_series")' => named'[h] = symbolID'
  <2>1. /\ h \in built \ {g} /\ h \in Handshakers
        /\ AtStep(h, "resolve_symbol") \/ AtStep(h, "create_series")
        /\ ~overtaken /\ AtStep(h, "create_series") => named[h] = symbolID
    BY <1>2 DEF PacketsRight
  <2> QED
    BY <1>1, <2>1
<1>3. named' = [h \in Handshakers |-> named'[h]]
  BY DEF PacketsRight
<1> QED
  BY <1>1, <1>2, <1>3 DEF PacketsRight

(* The session is created anew, or the symbol gets its name: the handshake    *)
(* that does so comes to resolve it.                                          *)
LEMMA ResetSteps ==
    ASSUME ChartInv, NEW g \in Handshakers, SetSymbol(g) \/ QueueCreate(g)
    PROVE  ChartInv'
<1> USE DEF ChartInv
<1>1. PICK step : step = Head(steps[g])
  OBVIOUS
<1>2. /\ ~Idle(g) /\ StepDone(g) /\ step \in {"chart_create_session", "set symbol"}
      /\ UNCHANGED <<mode, built, named, ack, closes>>
      /\ overtaken' = (overtaken \/ \E h \in built \ {g} : AtStep(h, "create_series"))
  BY <1>1 DEF SetSymbol, QueueCreate, AtStep, Overtakes
<1>3. g \notin built
  BY <1>1, <1>2 DEF PacketsRight, AtStep
<1>4. /\ StepsRight' /\ \A h \in Handshakers : h # g => steps'[h] = steps[h]
      /\ Pending(g, "resolve_symbol")' /\ Pending(g, "create_series")'
  BY <1>1, <1>2, HandshakeGoesOn
<1>5. PacketsRight'
  BY <1>2, <1>3, <1>4, OthersPackets
<1>6. ~Stale(g)'
  BY <1>2, <1>3 DEF Stale
<1>7. AcksRight'
  BY <1>2 DEF AcksRight, AcksClosedOnce
<1> QED
  BY <1>4, <1>5, <1>6, <1>7 DEF SymbolComes, SeriesComes

(* A step that neither queues a packet nor names a symbol. *)
LEMMA PlainSteps ==
    ASSUME ChartInv, NEW g \in Handshakers, NextSeries(g) \/ OtherStep(g)
    PROVE  ChartInv'
<1> USE DEF ChartInv
<1>1. PICK step : step = Head(steps[g])
  OBVIOUS
<1>2. /\ ~Idle(g) /\ StepDone(g) /\ step \in {"next series", "replay session", "connected"}
      /\ UNCHANGED <<mode, built, named, overtaken, symbolID, resolved, served, deleted, ack, closes>>
  BY <1>1 DEF NextSeries, OtherStep, AtStep
<1>3. g \notin built
  BY <1>1, <1>2 DEF PacketsRight, AtStep
<1>4. /\ StepsRight' /\ \A h \in Handshakers : h # g => steps'[h] = steps[h]
      /\ \A h \in Handshakers, x \in StepNames :
             Pending(h, x) => Pending(h, x)' \/ (h = g /\ x = step)
  BY <1>1, <1>2, HandshakeGoesOn
<1>5. PacketsRight' /\ \A h \in Handshakers : \A x : h # g => (AtStep(h, x)' <=> AtStep(h, x))
  BY <1>2, <1>3, <1>4, OthersPackets
<1>6. \A h \in Handshakers : Stale(h)' => Stale(h)
  BY <1>2, <1>3, <1>5 DEF Stale
<1>7. \A h \in Handshakers :
          /\ Pending(h, "resolve_symbol") => Pending(h, "resolve_symbol")'
          /\ Pending(h, "create_series") => Pending(h, "create_series")'
  BY <1>2, <1>4 DEF StepNames
<1>8. AcksRight'
  BY <1>2 DEF AcksRight, AcksClosedOnce
<1>9. SymbolComes' /\ SeriesComes'
  BY <1>2, <1>6, <1>7 DEF SymbolComes, SeriesComes
<1> QED
  BY <1>4, <1>5, <1>8, <1>9

LEMMA BuildSteps ==
    ASSUME ChartInv, NEW g \in Handshakers, BuildPacket(g)
    PROVE  ChartInv'
<1> USE DEF ChartInv
<1>1. /\ UNCHANGED <<mode, steps, overtaken, symbolID, resolved, served, deleted, ack, closes>>
      /\ built' = built \cup {g}
      /\ named' = [named EXCEPT ![g] = symbolID]
      /\ AtStep(g, "resolve_symbol") \/ AtStep(g, "create_series")
  BY DEF BuildPacket
<1>2. /\ named' = [h \in Handshakers |-> named'[h]]
      /\ \A h \in Handshakers : named'[h] = IF h = g THEN symbolID ELSE named[h]
  <2>1. named = [h \in Handshakers |-> named[h]]
    BY DEF PacketsRight
  <2> QED
    BY <1>1, <2>1
<1>3. ConnectSteps' = ConnectSteps
  BY <1>1 DEF ConnectSteps, SetMarket
<1>4. \A h, x : (AtStep(h, x)' <=> AtStep(h, x)) /\ (Pending(h, x)' <=> Pending(h, x))
  BY <1>1, <1>3 DEF AtStep, Idle, Pending
<1>5. PacketsRight'
  BY <1>1, <1>2, <1>4 DEF PacketsRight
<1>6. \A h \in Handshakers : Stale(h)' => Stale(h)
  BY <1>1, <1>2, <1>4 DEF Stale
<1>7. StepsRight'
  BY <1>1, <1>3 DEF StepsRight
<1>8. AcksRight'
  BY <1>1 DEF AcksRight, AcksClosedOnce
<1>9. SymbolComes' /\ SeriesComes'
  BY <1>1, <1>4, <1>6 DEF SymbolComes, SeriesComes
<1> QED
  BY <1>5, <1>7, <1>8, <1>9

(* A packet that is not stale resolves the symbol of the session; a series is *)
(* created for it, if it is not overtaken, when it is resolved or will be.    *)
LEMMA QueueSteps ==
    ASSUME ChartInv, NEW g \in Handshakers, QueueSymbol(g)
    PROVE  ChartInv'
<1> USE DEF ChartInv
<1>1. PICK step : step = Head(steps[g])
  OBVIOUS
<1>2. /\ g \in built /\ ~Idle(g) /\ StepDone(g) /\ step \in {"resolve_symbol", "create_series"}
      /\ built' = built \ {g}
      /\ AtStep(g, step)
      /\ UNCHANGED <<mode, named, overtaken, symbolID, deleted, ack, closes>>
  BY <1>1 DEF QueueSymbol, AtStep
<1>3. /\ StepsRight' /\ \A h \in Handshakers : h # g => steps'[h] = steps[h]
      /\ \A h \in Handshakers, x \in StepNames :
             Pending(h, x) => Pending(h, x)' \/ (h = g /\ x = step)
      /\ \A h \in Handshakers : Pending(h, "resolve_symbol")' => Pending(h, "create_series")'
      /\ step = "resolve_symbol" => Pending(g, "create_series")'
  BY <1>1, <1>2, HandshakeGoesOn
<1>4. PacketsRight' /\ \A h \in Handshakers : \A x : h # g => (AtStep(h, x)' <=> AtStep(h, x))
  BY <1>2, <1>3, OthersPackets
<1>5. \A h \in Handshakers : Stale(h)' => Stale(h)
  BY <1>2, <1>4 DEF Stale
<1>6. AcksRight'
  BY <1>2 DEF AcksRight, AcksClosedOnce
<1>7. SymbolComes' /\ SeriesComes'
  <2> USE DEF SymbolComes, SeriesComes, StepNames
  <2>1. CASE step = "resolve_symbol"
    <3>1. /\ resolved' = resolved \cup {named[g]} /\ served' = served
      BY <1>1, <2>1 DEF QueueSymbol, AtStep
    <3>2. ~Stale(g) => named[g] = symbolID
      BY <1>2, <2>1 DEF Stale
    <3>3. \A h \in Handshakers : Pending(h, "resolve_symbol") => Pending(h, "resolve_symbol")' \/ h = g
      BY <1>3
    <3>4. SymbolComes'
      BY <1>2, <1>5, <3>1, <3>2, <3>3
    <3> QED
      BY <1>3, <2>1, <3>4
  <2>2. CASE step = "create_series"
    <3>1. /\ resolved' = resolved
          /\ served' = IF named[g] \in resolved THEN "known" ELSE "unknown"
      BY <1>1, <2>2 DEF QueueSymbol, AtStep
    <3>2. ~overtaken => named[g] = symbolID
      BY <1>2, <2>2 DEF PacketsRight
    <3>3. \A h \in Handshakers : Pending(h, "resolve_symbol") => Pending(h, "resolve_symbol")'
      BY <1>3, <2>2
    <3>4. SymbolComes'
      BY <1>2, <1>5, <3>1, <3>3
    <3>5. CASE \E h \in Handshakers : Pending(h, "resolve_symbol")
      BY <1>3, <3>3, <3>4, <3>5
    <3>6. CASE deleted \/ symbolID \in resolved
      <4>1. deleted' \/ (served' # "no" /\ (~overtaken' => served' = "known"))
        BY <1>2, <3>1, <3>2, <3>6
      <4> QED
        BY <3>4, <4>1
    <3> QED
      BY <3>5, <3>6
  <2> QED
    BY <1>2, <2>1, <2>2
<1> QED
  BY <1>3, <1>4, <1>6, <1>7

LEMMA HandshakeSteps ==
    ASSUME ChartInv, NEW g \in Handshakers, HandshakeStep(g)
    PROVE  ChartInv'
BY ResetSteps, PlainSteps, BuildSteps, QueueSteps DEF HandshakeStep

(* A handshake begins or is given up before its first step: none of those     *)
(* under way is touched.                                                      *)
LEMMA AttemptSteps ==
    ASSUME ChartInv, NEW g \in Handshakers, NEW s,
           s = ConnectSteps \/ s = <<>>, steps[g] = <<>> \/ steps[g] = ConnectSteps,
           steps' = [steps EXCEPT ![g] = s],
           UNCHANGED <<mode, symbolID, built, named, overtaken, resolved, served, deleted, ack, closes>>
    PROVE  ChartInv'
<1> USE DEF ChartInv
<1>1. /\ ConnectSteps' = ConnectSteps /\ ConnectSteps \in Seq(StepNames)
      /\ WellOrdered(ConnectSteps) /\ Len(ConnectSteps) \in Nat
  BY ConnectFacts, LenProperties DEF ConnectSteps, SetMarket
<1>2. <<>> \in Seq(StepNames) /\ WellOrdered(<<>>) /\ Len(<<>>) = 0 /\ Range(<<>>) = {}
  BY EmptyFacts DEF WellOrdered, Follows
<1>3. \A h \in Handshakers : steps'[h] = IF h = g THEN s ELSE steps[h]
  BY DEF StepsRight
<1>4. StepsRight'
  <2>1. s \in Seq(StepNames) /\ WellOrdered(s) /\ Len(s) <= Len(ConnectSteps)
    <3>1. CASE s = ConnectSteps
      BY <1>1, <3>1
    <3>2. CASE s = <<>>
      <4>1. Len(s) = 0
        BY <1>2, <3>2
      <4> QED
        BY <1>1, <1>2, <3>2, <4>1
    <3> QED
      BY <3>1, <3>2
  <2>2. steps' \in [Handshakers -> Seq(StepNames)]
    BY <2>1 DEF StepsRight
  <2>3. \A h \in Handshakers : WellOrdered(steps'[h]) /\ Len(steps'[h]) <= Len(ConnectSteps)
    BY <1>3, <2>1 DEF StepsRight
  <2> QED
    BY <1>1, <2>2, <2>3 DEF StepsRight
<1>5. \A h \in Handshakers : \A x : Pending(h, x) => Pending(h, x)'
  BY <1>1, <1>2, <1>3 DEF Pending
<1>6. g \notin built
  <2>1. ~AtStep(g, "resolve_symbol") /\ ~AtStep(g, "create_series")
    BY ConnectFacts DEF AtStep, Idle
  <2> QED
    BY <2>1 DEF PacketsRight
<1>7. PacketsRight' /\ \A h \in Handshakers : \A x : h # g => (AtStep(h, x)' <=> AtStep(h, x))
  BY <1>3, <1>6, OthersPackets
<1>8. \A h \in Handshakers : Stale(h)' => Stale(h)
  BY <1>6, <1>7 DEF Stale
<1>9. SymbolComes' /\ SeriesComes'
  BY <1>5, <1>8 DEF SymbolComes, SeriesComes
<1>10. AcksRight'
  BY DEF AcksRight, AcksClosedOnce
<1> QED
  BY <1>4, <1>7, <1>9, <1>10

LEMMA ErrorPacketSteps ==
    ASSUME ChartInv, ErrorPacket
    PROVE  ChartInv'
<1>1. PICK g \in Reconnectors :
          /\ steps[g] = <<>>
          /\ steps' = IF hasContext THEN [steps EXCEPT ![g] = ConnectSteps] ELSE steps
  BY DEF ErrorPacket, Idle
<1>2. /\ g \in Handshakers /\ steps = [steps EXCEPT ![g] = <<>>]
      /\ UNCHANGED <<mode, symbolID, built, named, overtaken, resolved, served, deleted, ack, closes>>
  BY <1>1 DEF ErrorPacket, Handshakers, ChartInv, StepsRight
<1> QED
  BY <1>1, <1>2, AttemptSteps

(* The handshakes are left alone. *)
LEMMA AckSteps ==
    ASSUME ChartInv, UNCHANGED <<mode, steps, symbolID, built, named, overtaken>>, AcksRight',
           deleted' \/ UNCHANGED <<resolved, served, deleted>>
    PROVE  ChartInv'
<1>1. ConnectSteps' = ConnectSteps
  BY DEF ConnectSteps, SetMarket
<1>2. \A g, x : (Pending(g, x) <=> Pending(g, x)') /\ (AtStep(g, x) <=> AtStep(g, x)')
  BY <1>1 DEF Pending, AtStep, Idle
<1>3. PacketsRight' /\ \A g : Stale(g) <=> Stale(g)'
  BY <1>2 DEF ChartInv, PacketsRight, Stale
<1>4. SymbolComes' /\ SeriesComes'
  <2>1. CASE deleted'
    BY <2>1 DEF SymbolComes, SeriesComes
  <2>2. CASE UNCHANGED <<resolved, served, deleted>>
    BY <1>2, <1>3, <2>2, ZenonT(60) DEF ChartInv, SymbolComes, SeriesComes
  <2> QED
    BY <2>1, <2>2
<1> QED
  BY <1>1, <1>3, <1>4 DEF ChartInv, StepsRight

LEMMA ChartNextInv ==
    ASSUME ChartInv, [ChartNext]_chartVars
    PROVE  ChartInv'
<1> USE DEF ChartInv
<1>1. ASSUME NEW g \in Handshakers, HandshakeStep(g) PROVE ChartInv'
  BY <1>1, HandshakeSteps
<1>2. ASSUME NEW g \in Handshakers, ReconnectCancelled(g) PROVE ChartInv'
  BY <1>2, AttemptSteps DEF ReconnectCancelled
<1>3. CASE ErrorPacket
  BY <1>3, ErrorPacketSteps
<1>4. CASE CancelContext \/ UNCHANGED chartVars
  <2>1. UNCHANGED <<mode, steps, symbolID, built, named, overtaken, resolved, served, deleted,
                    ack, closes>>
    BY <1>4 DEF CancelContext, chartVars
  <2>2. AcksRight'
    BY <2>1 DEF AcksRight, AcksClosedOnce
  <2> QED
    BY <2>1, <2>2, AckSteps
<1>5. CASE DeleteChart
  <2>1. AcksRight'
    BY <1>5 DEF DeleteChart, AcksRight, AcksClosedOnce
  <2> QED
    BY <1>5, <2>1, AckSteps DEF DeleteChart
<1>6. ASSUME NEW r \in Acks, SendCorrelated(r) \/ TakeAck(r) \/ CloseAck(r) PROVE ChartInv'
  <2>1. AcksRight'
    BY <1>6 DEF SendCorrelated, TakeAck, CloseAck, AcksRight, AcksClosedOnce
  <2> QED
    BY <1>6, <2>1, AckSteps DEF SendCorrelated, TakeAck, CloseAck
<1> QED
  BY <1>1, <1>2, <1>3, <1>4, <1>5, <1>6 DEF ChartNext

(* However many goroutines repeat the handshake of a chart session at the     *)
(* same time, whichever of their packets are built and not yet queued, and    *)
(* whatever attempts a cancelled context ends: once they are over the server  *)
(* serves a series, and of a resolved symbol unless a handshake created the   *)
(* session, or renamed its symbol, between the building and the queueing of   *)
(* another's create_series packet; and the channel of a replay command is     *)
(* closed at most once, by the acknowledgement or Delete.                     *)
THEOREM HandshakesLeaveASeries == ChartSpec => []ChartSound
<1>1. ChartInit => ChartInv
  BY ChartInitInv
<1>2. ChartInv /\ [ChartNext]_chartVars => ChartInv'
  BY ChartNextInv
<1>3. ChartInv => ChartSound
  BY ChartInvSound
<1> QED
  BY <1>1, <1>2, <1>3, PTL DEF ChartSpec

-----------------------------------------------------------------------------
(* TvClient: the packets.  That they leave in order needs their numbers:   *)
(* what is queued later has a higher number than all that was sent or is   *)
(* waiting.  That none precedes the token needs to know that, without an   *)
(* outage, the receive loop has no reason to dial again.                   *)

(* What the sessions queue. *)
Packets == [kind : {"create", "delete"}, session : TvSessions, n : Nat]

(* The loops run once Connect is done, and Close waits for the receive loop    *)
(* before all else.                                                            *)
TvPlaces ==
    /\ outages \in Nat
    /\ registered \subseteq TvSessions /\ IsFiniteSet(registered)
    /\ connecting # "done" => sender = "none" /\ receiver = "none"
    /\ closing \notin {"no", "receiver"} => receiver = "ended"
    /\ connecting = "idle" => closing = "no"

(* Without an outage the receive loop never leaves an open connection, a      *)
(* connected client has sent its token, and nothing went out before it.       *)
NoEarlyPacket ==
    outages = 0 =>
        /\ early = {}
        /\ receiver \notin {"delay", "dial", "auth"}
        /\ receiver = "receive" => conn = "open"
        /\ connecting = "done" => authed

(* Every packet is numbered by its place in the order of queueing. *)
PacketsNumbered ==
    /\ queuedLog \in Seq(Packets) /\ sentLog \in Seq(Packets) /\ sendQueue \in Seq(Packets)
    /\ \A i \in 1..Len(queuedLog) : queuedLog[i].n = i

(* Each packet queued is sent, waiting or written to a dead connection, the   *)
(* sent ones before the waiting ones.                                         *)
PacketsApart ==
    /\ Ascending(sentLog) /\ Ascending(sendQueue)
    /\ \A x \in Range(sentLog), y \in Range(sendQueue) : x.n < y.n
    /\ Range(queuedLog) \ vanished = Range(sentLog) \cup Range(sendQueue)
    /\ vanished \subseteq Range(queuedLog)

TvInv == TvPlaces /\ NoEarlyPacket /\ PacketsNumbered /\ PacketsApart

logVars == <<sendQueue, sentLog, vanished, queuedLog>>

(* Steps that touch neither the queue nor the logs. *)
LEMMA PacketsStay ==
    PacketsNumbered /\ PacketsApart /\ UNCHANGED logVars => (PacketsNumbered /\ PacketsApart)'
  BY DEF PacketsNumbered, PacketsApart, logVars, Ascending, Range

(* TvInv holds before Connect. *)
LEMMA TvInitially == TvInit => TvInv
  <1>. SUFFICES ASSUME TvInit
                PROVE  TvInv
    OBVIOUS
  <1>1. IsFiniteSet({})
    BY FS_EmptySet
  <1>2. TvPlaces /\ NoEarlyPacket
    BY <1>1 DEF TvInit, TvPlaces, NoEarlyPacket
  <1>3. <<>> \in Seq(Packets) /\ Len(<<>>) = 0 /\ Range(<<>>) = {}
    BY EmptyFacts
  <1>. QED  BY <1>2, <1>3 DEF TvInit, TvInv, PacketsNumbered, PacketsApart, Ascending

(* New packets have higher numbers than all the others and go to the end. *)
LEMMA EnqueueKeeps ==
    ASSUME TvInv, NEW ms \in Seq(Packets), Enqueue(ms), UNCHANGED <<sentLog, vanished>>,
           \A i \in 1..Len(ms) : ms[i].n = Len(queuedLog) + i
    PROVE  (PacketsNumbered /\ PacketsApart)'
  <1>. USE DEF TvInv
  <1>1. /\ queuedLog \in Seq(Packets) /\ sendQueue \in Seq(Packets) /\ sentLog \in Seq(Packets)
        /\ Len(queuedLog) \in Nat /\ Len(ms) \in Nat /\ DOMAIN ms = 1..Len(ms)
        /\ DOMAIN queuedLog = 1..Len(queuedLog)
    BY LenProperties DEF PacketsNumbered
  <1>2. sendQueue' = sendQueue \o ms /\ queuedLog' = queuedLog \o ms
    BY DEF Enqueue
  <1>3. /\ sendQueue' \in Seq(Packets) /\ Range(sendQueue') = Range(sendQueue) \cup Range(ms)
        /\ queuedLog' \in Seq(Packets) /\ Range(queuedLog') = Range(queuedLog) \cup Range(ms)
        /\ Len(queuedLog') = Len(queuedLog) + Len(ms)
    BY <1>1, <1>2, ConcatFacts
  <1>4. \A x \in Range(queuedLog) : x.n \in 1..Len(queuedLog)
    BY <1>1 DEF PacketsNumbered, Range
  <1>5. \A y \in Range(ms) : y.n \in Int /\ y.n > Len(queuedLog)
    <2>. SUFFICES ASSUME NEW y \in Range(ms)
                  PROVE  y.n \in Int /\ y.n > Len(queuedLog)
      OBVIOUS
    <2>1. PICK i \in 1..Len(ms) : y = ms[i]
      BY <1>1 DEF Range
    <2>2. y.n = Len(queuedLog) + i
      BY <2>1
    <2>. QED  BY <1>1, <2>2
  <1>6. Range(sendQueue) \subseteq Range(queuedLog) /\ Range(sentLog) \subseteq Range(queuedLog)
    BY DEF PacketsApart
  <1>7. Ascending(ms)
    <2>1. \A i \in 1..Len(ms) : ms[i].n = Len(queuedLog) + i
      OBVIOUS
    <2>. QED  BY <1>1, <2>1 DEF Ascending
  <1>8. \A x \in Range(queuedLog), y \in Range(ms) : x.n < y.n
    BY <1>1, <1>4, <1>5
  <1>9. Ascending(sendQueue')
    BY <1>1, <1>2, <1>6, <1>7, <1>8, AscendingConcat DEF PacketsApart
  <1>10. \A i \in 1..Len(queuedLog') : queuedLog'[i].n = i
    <2>1. \A i \in 1..Len(queuedLog) + Len(ms) :
              queuedLog'[i] = IF i <= Len(queuedLog) THEN queuedLog[i] ELSE ms[i - Len(queuedLog)]
      BY <1>1, <1>2, ConcatProperties
    <2>. SUFFICES ASSUME NEW i \in 1..Len(queuedLog) + Len(ms)
                  PROVE  queuedLog'[i].n = i
      BY <1>3
    <2>2. CASE i <= Len(queuedLog)
      BY <1>1, <2>1, <2>2 DEF PacketsNumbered
    <2>3. CASE i > Len(queuedLog)
      <3>1. i - Len(queuedLog) \in 1..Len(ms)
        BY <1>1, <2>3
      <3>2. ms[i - Len(queuedLog)].n = Len(queuedLog) + (i - Len(queuedLog))
        BY <3>1
      <3>. QED  BY <1>1, <2>1, <2>3, <3>2
    <2>. QED  BY <1>1, <2>2, <2>3
  <1>11. PacketsNumbered'
    BY <1>1, <1>3, <1>10 DEF PacketsNumbered
  <1>12. Range(ms) \cap Range(queuedLog) = {}
    BY <1>1, <1>4, <1>5
  <1>13. PacketsApart'
    BY <1>3, <1>6, <1>8, <1>9, <1>12 DEF PacketsApart
  <1>. QED  BY <1>11, <1>13

(* Sessions are created and deleted. *)
LEMMA SessionSteps ==
    ASSUME TvInv, NEW s \in TvSessions, NewSession(s) \/ DeleteSession(s)
    PROVE  TvInv'
  <1>. USE DEF TvInv
  <1>1. /\ UNCHANGED <<conn, authed, isLogged, reconnectCount, rateLimitBackoff, connecting, receiver,
                       sender, closing, sentLog, vanished, early, outages>>
        /\ registered' \in {registered \cup {s}, registered \ {s}}
    BY DEF NewSession, DeleteSession
  <1>2. PICK kind \in {"create", "delete"} : Enqueue(<<Message(kind, s)>>)
    BY DEF NewSession, DeleteSession
  <1>3. PICK m : m = Message(kind, s)
    OBVIOUS
  <1>4. m \in Packets /\ m.n = Len(queuedLog) + 1
    <2>1. Len(queuedLog) \in Nat
      BY LenProperties DEF PacketsNumbered
    <2>. QED  BY <1>3, <2>1 DEF Message, Packets
  <1>5. <<m>> \in Seq(Packets) /\ Len(<<m>>) = 1 /\ <<m>>[1] = m
    BY <1>4
  <1>6. Enqueue(<<m>>) /\ \A i \in 1..Len(<<m>>) : <<m>>[i].n = Len(queuedLog) + i
    BY <1>2, <1>3, <1>4, <1>5
  <1>7. (PacketsNumbered /\ PacketsApart)'
    BY <1>1, <1>5, <1>6, EnqueueKeeps
  <1>8. IsFiniteSet(registered')
    BY <1>1, FS_AddElement, FS_RemoveElement DEF TvPlaces
  <1>9. TvPlaces' /\ NoEarlyPacket'
    BY <1>1, <1>8 DEF TvPlaces, NoEarlyPacket
  <1>. QED  BY <1>7, <1>9

(* CloseAll queues a delete packet for every session, in some order. *)
LEMMA CloseSessionsKeeps ==
    ASSUME TvInv, CloseSessions
    PROVE  TvInv'
  <1>. USE DEF TvInv
  <1>. DEFINE ids == SetToSeq(registered)
              ms == [i \in 1..Len(ids) |-> [Message("delete", ids[i]) EXCEPT !.n = Len(queuedLog) + i]]
  <1>1. /\ UNCHANGED <<conn, authed, isLogged, reconnectCount, rateLimitBackoff, connecting, receiver,
                       sender, sentLog, vanished, early, outages>>
        /\ closing = "sessions" /\ closing' = "conn" /\ registered' = {}
        /\ Enqueue(ms)
    BY DEF CloseSessions
  <1>2. ids \in Seq(TvSessions)
    <2>1. IsFiniteSet(registered) /\ registered \subseteq TvSessions
      BY DEF TvPlaces
    <2>2. PICK c : c = Cardinality(registered)
      OBVIOUS
    <2>3. c \in Nat /\ ExistsBijection(1..c, registered)
      BY <2>1, <2>2, FS_CardinalityType
    <2>4. \E f \in [1..c -> registered] : IsInjective(f)
      <3>1. PICK f \in Bijection(1..c, registered) : TRUE
        BY <2>3 DEF ExistsBijection
      <3>. QED  BY <3>1 DEF Bijection, Injection
    <2>5. ids \in [1..c -> registered]
      BY <2>2, <2>4 DEF SetToSeq
    <2>. HIDE DEF ids
    <2>6. ids \in [1..c -> TvSessions]
      BY <2>1, <2>5
    <2>. QED  BY <2>3, <2>6
  <1>3. Len(ids) \in Nat /\ \A i \in 1..Len(ids) : ids[i] \in TvSessions
    BY <1>2, LenProperties
  <1>4. Len(queuedLog) \in Nat
    BY LenProperties DEF PacketsNumbered
  <1>. HIDE DEF ids
  <1>5. ASSUME NEW i \in 1..Len(ids)
        PROVE  ms[i] \in Packets /\ ms[i].n = Len(queuedLog) + i
    <2>1. PICK d : d = [kind |-> "delete", session |-> ids[i], n |-> Len(queuedLog) + i]
      OBVIOUS
    <2>2. ms[i] = d
      BY <2>1 DEF Message
    <2>3. d \in Packets /\ d.n = Len(queuedLog) + i
      BY <1>3, <1>4, <2>1 DEF Packets
    <2>. QED  BY <2>2, <2>3
  <1>6. ms \in [1..Len(ids) -> Packets]
    <2>1. ms = [i \in 1..Len(ids) |-> ms[i]]
      OBVIOUS
    <2>. HIDE DEF ms
    <2>. QED  BY <1>5, <2>1
  <1>. HIDE DEF ms
  <1>7. ms \in Seq(Packets) /\ Len(ms) = Len(ids)
    BY <1>3, <1>6
  <1>8. (PacketsNumbered /\ PacketsApart)'
    BY <1>1, <1>5, <1>7, EnqueueKeeps
  <1>9. TvPlaces' /\ NoEarlyPacket'
    BY <1>1, FS_EmptySet DEF TvPlaces, NoEarlyPacket
  <1>. QED  BY <1>8, <1>9

(* A packet leaves the queue at its head. *)
LEMMA SendNextKeeps ==
    ASSUME TvInv, SendNext
    PROVE  TvInv'
  <1>. USE DEF TvInv
  <1>1. /\ UNCHANGED <<conn, authed, isLogged, reconnectCount, rateLimitBackoff, connecting, receiver,
                       sender, closing, registered, queuedLog, outages>>
        /\ sender = "drain" /\ sendQueue # <<>> /\ sendQueue' = Tail(sendQueue)
    BY DEF SendNext
  <1>2. PICK m : m = Head(sendQueue)
    OBVIOUS
  <1>3. /\ m \in Packets /\ sendQueue' \in Seq(Packets)
        /\ Range(sendQueue) = {m} \cup Range(sendQueue')
    BY <1>1, <1>2, HeadTailFacts DEF PacketsNumbered
  <1>4. Ascending(sendQueue') /\ \A y \in Range(sendQueue') : m.n < y.n
    BY <1>1, <1>2, AscendingTail DEF PacketsNumbered, PacketsApart
  <1>5. \A y \in Range(sendQueue') : m.n \in Nat /\ y # m
    BY <1>3, <1>4 DEF Packets
  <1>6. \A x \in Range(sentLog) : x # m
    BY <1>3 DEF PacketsApart, Packets
  <1>7. CASE conn = "open"
    <2>1. /\ sentLog' = Append(sentLog, m) /\ UNCHANGED vanished
          /\ early' = IF authed THEN early ELSE early \cup {m}
      BY <1>2, <1>7 DEF SendNext
    <2>2. sentLog' \in Seq(Packets) /\ Range(sentLog') = Range(sentLog) \cup {m}
      BY <1>3, <2>1, AppendFacts DEF PacketsNumbered
    <2>3. Ascending(sentLog')
      BY <1>3, <2>1, AscendingAppend DEF PacketsNumbered, PacketsApart
    <2>4. PacketsNumbered'
      BY <1>1, <1>3, <2>2 DEF PacketsNumbered
    <2>5. PacketsApart'
      BY <1>1, <1>3, <1>4, <2>1, <2>2, <2>3 DEF PacketsApart
    <2>6. TvPlaces' /\ NoEarlyPacket'
      BY <1>1, <2>1 DEF TvPlaces, NoEarlyPacket
    <2>. QED  BY <2>4, <2>5, <2>6
  <1>8. CASE conn # "open"
    <2>1. vanished' = vanished \cup {m} /\ UNCHANGED <<sentLog, early>>
      BY <1>2, <1>8 DEF SendNext
    <2>2. PacketsNumbered'
      BY <1>1, <1>3, <2>1 DEF PacketsNumbered
    <2>3. PacketsApart'
      <3>1. Range(queuedLog) \ vanished' = Range(sentLog) \cup Range(sendQueue')
        BY <1>3, <1>5, <1>6, <2>1 DEF PacketsApart
      <3>. QED  BY <1>1, <1>3, <1>4, <2>1, <3>1 DEF PacketsApart
    <2>4. TvPlaces' /\ NoEarlyPacket'
      BY <1>1, <2>1 DEF TvPlaces, NoEarlyPacket
    <2>. QED  BY <2>2, <2>3, <2>4
  <1>. QED  BY <1>7, <1>8

(* A packet that could not be sent is at its old place again. *)
LEMMA SendFailsKeeps ==
    ASSUME TvInv, SendFails
    PROVE  TvInv'
  <1>. USE DEF TvInv
  <1>1. /\ UNCHANGED <<conn, authed, isLogged, reconnectCount, rateLimitBackoff, connecting, receiver,
                       closing, registered, sentLog, vanished, queuedLog, early, outages>>
        /\ sender = "drain" /\ sender' = "tick" /\ sendQueue # <<>>
        /\ sendQueue' = <<Head(sendQueue)>> \o Tail(sendQueue)
    BY DEF SendFails, Requeued
  <1>2. sendQueue' = sendQueue
    BY <1>1, HeadThenTail DEF PacketsNumbered
  <1>3. (PacketsNumbered /\ PacketsApart)'
    BY <1>1, <1>2, PacketsStay DEF logVars
  <1>4. TvPlaces' /\ NoEarlyPacket'
    BY <1>1 DEF TvPlaces, NoEarlyPacket
  <1>. QED  BY <1>3, <1>4

(* Connect, the loops and Close leave the packets alone. *)
LEMMA LoopSteps ==
    ASSUME TvInv,
           \/ Dial \/ ConnectDone \/ ConnectFails
           \/ ReceiverStep \/ HandleRateLimit
           \/ BeginDrain \/ EndDrain \/ SendLoopEnds
           \/ BeginClose \/ LoopsEnded \/ CloseConnection
           \/ ServerGone
    PROVE  TvInv'
  <1>. USE DEF TvInv
  <1>1. UNCHANGED logVars /\ UNCHANGED <<registered, early>>
    BY DEF logVars, Dial, ConnectDone, ConnectFails, ReceiverStep, HandleMessage, ReceiveError, DelayOver,
           Redial, Reauthenticate, ReconnectFails, HandleRateLimit, BeginDrain, EndDrain, SendLoopEnds,
           BeginClose, LoopsEnded, CloseConnection, ServerGone
  <1>2. (PacketsNumbered /\ PacketsApart)'
    BY <1>1, PacketsStay
  <1>3. CASE Dial \/ ConnectDone \/ ConnectFails
    <2>1. TvPlaces' /\ NoEarlyPacket'
      BY <1>1, <1>3 DEF TvPlaces, NoEarlyPacket, Dial, ConnectDone, ConnectFails, Dialed, Authenticated
    <2>. QED  BY <1>2, <2>1
  <1>4. CASE ReceiverStep \/ HandleRateLimit
    <2>1. TvPlaces'
      BY <1>1, <1>4 DEF TvPlaces, ReceiverStep, HandleMessage, ReceiveError, DelayOver, Redial,
                        Reauthenticate, ReconnectFails, HandleRateLimit, Receives, Cancelled
    <2>2. NoEarlyPacket'
      BY <1>1, <1>4 DEF TvPlaces, NoEarlyPacket, ReceiverStep, HandleMessage, ReceiveError, DelayOver,
                        Redial, Dialed, Authenticated,
                        Reauthenticate, ReconnectFails, HandleRateLimit, Receives, Cancelled
    <2>. QED  BY <1>2, <2>1, <2>2
  <1>5. CASE BeginDrain \/ EndDrain \/ SendLoopEnds
    <2>1. TvPlaces' /\ NoEarlyPacket'
      BY <1>1, <1>5 DEF TvPlaces, NoEarlyPacket, BeginDrain, EndDrain, SendLoopEnds
    <2>. QED  BY <1>2, <2>1
  <1>6. CASE BeginClose \/ LoopsEnded \/ CloseConnection
    <2>1. TvPlaces' /\ NoEarlyPacket'
      BY <1>1, <1>6 DEF TvPlaces, NoEarlyPacket, BeginClose, LoopsEnded, CloseConnection
    <2>. QED  BY <1>2, <2>1
  <1>7. CASE ServerGone
    <2>1. TvPlaces' /\ NoEarlyPacket'
      BY <1>1, <1>7 DEF TvPlaces, NoEarlyPacket, ServerGone
    <2>. QED  BY <1>2, <2>1
  <1>. QED  BY <1>3, <1>4, <1>5, <1>6, <1>7

(* Every step keeps TvInv. *)
LEMMA TvStep == TvInv /\ [TvNext]_tvVars => TvInv'
  <1>. SUFFICES ASSUME TvInv, [TvNext]_tvVars
                PROVE  TvInv'
    OBVIOUS
  <1>1. CASE UNCHANGED tvVars
    <2>1. (PacketsNumbered /\ PacketsApart)'
      BY <1>1, PacketsStay DEF tvVars, logVars, TvInv
    <2>. QED  BY <1>1, <2>1 DEF tvVars, TvInv, TvPlaces, NoEarlyPacket
  <1>2. ASSUME NEW s \in TvSessions, NewSession(s) \/ DeleteSession(s)
        PROVE  TvInv'
    BY <1>2, SessionSteps
  <1>3. CASE \/ Dial \/ ConnectDone \/ ConnectFails \/ ReceiverStep \/ HandleRateLimit
             \/ BeginClose \/ LoopsEnded \/ CloseConnection \/ ServerGone
    BY <1>3, LoopSteps
  <1>4. CASE SenderStep
    BY <1>4, LoopSteps, SendNextKeeps, SendFailsKeeps DEF SenderStep
  <1>5. CASE CloseSessions
    BY <1>5, CloseSessionsKeeps
  <1>. QED  BY <1>1, <1>2, <1>3, <1>4, <1>5 DEF TvNext

(* What TvInv is for. *)
LEMMA TvInvSuffices == TvInv => SentInOrder
  <1>. SUFFICES ASSUME TvInv
                PROVE  SentInOrder
    OBVIOUS
  <1>1. Ascending(sentLog \o sendQueue)
    BY AscendingConcat DEF TvInv, PacketsNumbered, PacketsApart
  <1>2. early # {} => outages > 0
    BY DEF TvInv, TvPlaces, NoEarlyPacket
  <1>. QED  BY <1>1, <1>2, ToSetIsRange DEF TvInv, PacketsNumbered, PacketsApart, SentInOrder

(* For any sessions, messages, outages and rate limits: the server receives   *)
(* the packets in the order they were queued, each at most once, the missing   *)
(* ones were written to a dead connection, and none precedes the auth token    *)
(* unless a connection was lost before.                                        *)
THEOREM PacketsSentInOrder == TvSpec => []SentInOrder
  <1>. QED  BY TvInitially, TvStep, TvInvSuffices, PTL DEF TvSpec

-----------------------------------------------------------------------------
(* BarFeed: the bars of the node, and the channels of the adapter.  The    *)
(* channels agree with what is wanted only between calls, so the invariant *)
(* follows a pending call through a reconnection.                          *)

(* What is published. *)
Bars == [n : Nat, kind : {"good", "malformed", "raising"}]

(* The pub/sub objects are numbered without gaps, so that a new one is new. *)
FeedShaped ==
    /\ \E k \in Nat : Objects = 0..k
    /\ DOMAIN inFlight = Objects
    /\ feedPubsub \in Objects
    /\ published \in Nat /\ drops \in Nat /\ feedAttempt \in Nat /\ renewals \in Nat
    /\ inFlight[0] \in Seq(Bars) /\ heard \in Seq(Bars)

(* What the node has heard comes before what is on its way to it, and together *)
(* they are what Redis sent.                                                   *)
BarsInOrder ==
    /\ \A b \in Range(heard) \cup Range(inFlight[0]) : b.n <= published
    /\ Ascending(heard) /\ Ascending(inFlight[0])
    /\ \A x \in Range(heard), y \in Range(inFlight[0]) : x.n < y.n
    /\ nodeTask # "stopped" =>
        Range(heard) \cup {b \in Range(inFlight[0]) : b.kind = "good"} = sentToNode

(* A node without a connection has lost one. *)
NodeStopsAtLoss ==
    /\ ~redisUp => drops > 0
    /\ nodeTask = "reading" /\ 0 \notin online => drops > 0
    /\ nodeTask = "dead" => 0 \notin online /\ drops > 0

(* An attempt that is still counted after the fact has failed, and it failed   *)
(* because Redis was gone.                                                     *)
AttemptsCounted ==
    /\ listener \in {"reading", "resubscribing"} => feedPubsub # 0
    /\ listener = "off" => feedCall = NoFeedCall /\ feedPubsub = 0
    /\ listener \in {"off", "reading", "resubscribing"} => feedAttempt = 0
    /\ listener \in {"ended", "sleeping"} /\ feedAttempt > 0 => drops > 0
    /\ listener = "sleeping" => feedAttempt < MaxAttempts
    /\ listener = "gave_up" => feedAttempt = MaxAttempts /\ drops > 0
    /\ feedAttempt <= MaxAttempts

(* A pending call was made at this or an earlier renewal. *)
CallsKnown ==
    feedCall # NoFeedCall =>
        /\ feedCall.do \in {"subscribe", "unsubscribe"}
        /\ feedCall.at \in Nat /\ feedCall.at <= renewals

(* The channel of the pending call. *)
Unsettled == IF feedCall = NoFeedCall THEN {} ELSE {feedCall.channel}

(* While the adapter listens, its channels are the wanted ones but for those   *)
(* of pending or crossed calls.  A pending call that no renewal has crossed    *)
(* has taken effect on the present pub/sub object; one that is about to be     *)
(* crossed cannot leave more than it wants.                                    *)
ChannelsWanted ==
    /\ listener = "reading" =>
        /\ channelsOf[feedPubsub] \ Unsettled \subseteq subscriptions \cup crossed
        /\ subscriptions \ Unsettled \subseteq channelsOf[feedPubsub] \cup crossed
        /\ (feedCall # NoFeedCall /\ feedCall.at = renewals) =>
            (feedCall.channel \in channelsOf[feedPubsub] <=> feedCall.do = "subscribe")
    /\ listener = "resubscribing" =>
        /\ channelsOf[feedPubsub] \ Unsettled \subseteq subscriptions
        /\ (feedCall # NoFeedCall /\ feedCall.do = "unsubscribe") =>
            feedCall.channel \notin channelsOf[feedPubsub]

FeedInv ==
    /\ FeedShaped /\ BarsInOrder /\ NodeStopsAtLoss
    /\ AttemptsCounted /\ CallsKnown /\ ChannelsWanted

(* What BarsInOrder speaks about. *)
nodeFeed == <<heard, inFlight[0], published, nodeTask, sentToNode>>

(* Steps that do not touch the feed of the node. *)
LEMMA BarsStay == BarsInOrder /\ UNCHANGED nodeFeed => BarsInOrder'
  <1>. SUFFICES ASSUME BarsInOrder, UNCHANGED nodeFeed
                PROVE  BarsInOrder'
    OBVIOUS
  <1>1. /\ heard' = heard /\ inFlight'[0] = inFlight[0] /\ published' = published
        /\ nodeTask' = nodeTask /\ sentToNode' = sentToNode
    BY DEF nodeFeed
  <1>. QED  BY <1>1 DEF BarsInOrder

(* FeedInv holds at the start. *)
LEMMA FeedInitially == FeedInit => FeedInv
  <1>. SUFFICES ASSUME FeedInit
                PROVE  FeedInv
    OBVIOUS
  <1>. USE FeedAttempts DEF FeedInit
  <1>1. <<>> \in Seq(Bars) /\ Len(<<>>) = 0 /\ Range(<<>>) = {}
    BY EmptyFacts
  <1>2. DOMAIN channelsOf = {0} /\ inFlight[0] = <<>> /\ DOMAIN inFlight = {0} /\ {0} = 0..0
    OBVIOUS
  <1>3. FeedShaped
    BY <1>1, <1>2 DEF FeedShaped, Objects
  <1>4. BarsInOrder
    BY <1>1, <1>2 DEF BarsInOrder, Ascending
  <1>5. NodeStopsAtLoss /\ AttemptsCounted /\ CallsKnown /\ ChannelsWanted
    BY DEF NodeStopsAtLoss, AttemptsCounted, CallsKnown, ChannelsWanted
  <1>. QED  BY <1>3, <1>4, <1>5 DEF FeedInv

(* A bar has a higher number than all before it. *)
LEMMA PublishBarKeeps ==
    ASSUME FeedInv, NEW c \in BarChannels, NEW kind \in {"good", "malformed", "raising"},
           PublishBar(c, kind)
    PROVE  FeedInv'
  <1>. USE DEF FeedInv
  <1>1. /\ published' = published + 1
        /\ UNCHANGED <<redisUp, online, channelsOf, drops, nodeVars, adapterVars>>
    BY DEF PublishBar
  <1>2. PICK bar : bar = [n |-> published + 1, kind |-> kind]
    OBVIOUS
  <1>3. bar \in Bars /\ bar.n = published + 1 /\ bar.kind = kind
    BY <1>2 DEF Bars, FeedShaped
  <1>4. /\ inFlight' = [o \in Objects |-> IF o \in online /\ c \in channelsOf[o]
                                          THEN Append(inFlight[o], bar) ELSE inFlight[o]]
        /\ sentToNode' = IF 0 \in online /\ c \in channelsOf[0] /\ kind = "good"
                         THEN sentToNode \cup {bar} ELSE sentToNode
    BY <1>1, <1>2 DEF PublishBar
  <1>5. 0 \in Objects /\ DOMAIN inFlight' = Objects /\ Objects' = Objects
        /\ inFlight'[0] = IF 0 \in online /\ c \in channelsOf[0] THEN Append(inFlight[0], bar)
                          ELSE inFlight[0]
    BY <1>1, <1>4 DEF FeedShaped, Objects
  <1>6. inFlight[0] \in Seq(Bars) /\ heard \in Seq(Bars)
    BY DEF FeedShaped
  <1>7. /\ Append(inFlight[0], bar) \in Seq(Bars)
        /\ Range(Append(inFlight[0], bar)) = Range(inFlight[0]) \cup {bar}
    BY <1>3, <1>6, AppendFacts
  <1>8. \A b \in Range(heard) \cup Range(inFlight[0]) : b \in Bars /\ b.n < bar.n
    <2>1. Range(heard) \subseteq Bars /\ Range(inFlight[0]) \subseteq Bars
      BY <1>6, RangeOfSeq
    <2>. QED  BY <1>3, <2>1 DEF BarsInOrder, FeedShaped, Bars
  <1>9. FeedShaped'
    BY <1>1, <1>5, <1>6, <1>7 DEF FeedShaped, nodeVars, adapterVars
  <1>10. BarsInOrder'
    <2>1. Ascending(Append(inFlight[0], bar))
      BY <1>3, <1>6, <1>8, AscendingAppend DEF BarsInOrder
    <2>2. heard' = heard /\ nodeTask' = nodeTask
      BY <1>1 DEF nodeVars
    <2>3. CASE 0 \in online /\ c \in channelsOf[0]
      <3>1. inFlight'[0] = Append(inFlight[0], bar)
            /\ sentToNode' = IF bar.kind = "good" THEN sentToNode \cup {bar} ELSE sentToNode
        BY <1>3, <1>4, <1>5, <2>3
      <3>2. Range(inFlight'[0]) = Range(inFlight[0]) \cup {bar}
        BY <1>7, <3>1
      <3>3. \A b \in Range(heard) \cup Range(inFlight'[0]) : b.n <= published'
        BY <1>1, <1>3, <1>8, <3>2 DEF Bars, FeedShaped
      <3>4. \A x \in Range(heard), y \in Range(inFlight'[0]) : x.n < y.n
        BY <1>8, <3>2 DEF BarsInOrder
      <3>5. nodeTask # "stopped" =>
              Range(heard) \cup {b \in Range(inFlight'[0]) : b.kind = "good"} = sentToNode'
        BY <3>1, <3>2 DEF BarsInOrder
      <3>6. Ascending(inFlight'[0])
        BY <2>1, <3>1
      <3>. QED  BY <2>2, <3>3, <3>4, <3>5, <3>6 DEF BarsInOrder
    <2>4. CASE ~(0 \in online /\ c \in channelsOf[0])
      <3>1. inFlight'[0] = inFlight[0] /\ sentToNode' = sentToNode
        BY <1>4, <1>5, <2>4
      <3>2. \A b \in Range(heard) \cup Range(inFlight[0]) : b.n <= published'
        BY <1>1, <1>3, <1>8 DEF Bars, FeedShaped
      <3>. QED  BY <2>2, <3>1, <3>2 DEF BarsInOrder
    <2>. QED  BY <2>3, <2>4
  <1>11. NodeStopsAtLoss' /\ AttemptsCounted' /\ CallsKnown' /\ ChannelsWanted'
    BY <1>1 DEF NodeStopsAtLoss, AttemptsCounted, CallsKnown, ChannelsWanted, Unsettled, nodeVars,
                adapterVars
  <1>. QED  BY <1>9, <1>10, <1>11

(* Connections break and come back. *)
LEMMA RedisSteps ==
    ASSUME FeedInv,
           \/ Outage \/ Restored
           \/ nodeTask = "reading" /\ LibraryReconnects(0)
           \/ listener = "reading" /\ LibraryReconnects(feedPubsub)
    PROVE  FeedInv'
  <1>. USE DEF FeedInv
  <1>1. UNCHANGED <<channelsOf, inFlight, published, sentToNode, nodeVars, adapterVars>>
    BY DEF Outage, Restored, LibraryReconnects
  <1>2. /\ drops \in Nat /\ drops' \in Nat /\ feedAttempt \in Nat
        /\ drops' = drops \/ (drops' = drops + 1 /\ drops' > 0)
    BY DEF Outage, Restored, LibraryReconnects, FeedShaped
  <1>3. FeedShaped'
    BY <1>1, <1>2 DEF FeedShaped, Objects, nodeVars, adapterVars
  <1>4. BarsInOrder'
    BY <1>1, BarsStay DEF nodeFeed, nodeVars
  <1>5. NodeStopsAtLoss'
    <2>1. CASE Outage
      BY <1>1, <1>2, <2>1 DEF NodeStopsAtLoss, Outage, nodeVars
    <2>2. CASE Restored
      BY <1>1, <1>2, <2>2 DEF NodeStopsAtLoss, Restored, nodeVars
    <2>3. CASE nodeTask = "reading" /\ LibraryReconnects(0)
      BY <1>1, <1>2, <2>3 DEF NodeStopsAtLoss, LibraryReconnects, nodeVars
    <2>4. CASE listener = "reading" /\ LibraryReconnects(feedPubsub)
      BY <1>1, <1>2, <2>4 DEF NodeStopsAtLoss, AttemptsCounted, LibraryReconnects, nodeVars
    <2>. QED  BY <2>1, <2>2, <2>3, <2>4
  <1>6. AttemptsCounted'
    BY <1>1, <1>2 DEF AttemptsCounted, adapterVars
  <1>7. CallsKnown' /\ ChannelsWanted'
    BY <1>1 DEF CallsKnown, ChannelsWanted, Unsettled, adapterVars
  <1>. QED  BY <1>3, <1>4, <1>5, <1>6, <1>7

(* RedisDataClient: a bar moves from the connection to the node. *)
LEMMA NodeSteps ==
    ASSUME FeedInv, NodeConnect \/ NodeReads \/ NodeListenerDies \/ NodeDisconnect
    PROVE  FeedInv'
  <1>. USE DEF FeedInv
  <1>1. /\ UNCHANGED <<redisUp, published, drops, sentToNode, adapterVars>>
        /\ DOMAIN channelsOf' = DOMAIN channelsOf
        /\ \A o \in Objects \ {0} : channelsOf'[o] = channelsOf[o]
        /\ DOMAIN inFlight' = DOMAIN inFlight
    BY DEF NodeConnect, NodeReads, NodeListenerDies, NodeDisconnect, serverVars, Objects
  <1>2. /\ inFlight[0] \in Seq(Bars) /\ heard \in Seq(Bars) /\ 0 \in Objects /\ feedPubsub \in Objects
        /\ <<>> \in Seq(Bars) /\ Range(<<>>) = {} /\ Ascending(<<>>)
        /\ DOMAIN inFlight = Objects
    BY EmptyFacts DEF FeedShaped, Ascending
  <1>3. AttemptsCounted' /\ CallsKnown'
    BY <1>1 DEF AttemptsCounted, CallsKnown, adapterVars
  <1>4. ChannelsWanted'
    <2>1. listener \in {"reading", "resubscribing"} => channelsOf'[feedPubsub] = channelsOf[feedPubsub]
      BY <1>1, <1>2 DEF AttemptsCounted
    <2>. QED  BY <1>1, <2>1 DEF ChannelsWanted, Unsettled, adapterVars
  <1>5. NodeStopsAtLoss'
    BY <1>1 DEF NodeStopsAtLoss, NodeConnect, NodeReads, NodeListenerDies, NodeDisconnect, NodeHandles,
                Lost, serverVars
  <1>6. ASSUME heard' \in Seq(Bars), inFlight'[0] \in Seq(Bars)
        PROVE  FeedShaped'
    BY <1>1, <1>6 DEF FeedShaped, Objects, adapterVars
  <1>7. CASE NodeConnect \/ NodeListenerDies
    <2>1. heard' = heard /\ inFlight' = inFlight /\ nodeTask # "stopped"
      BY <1>7 DEF NodeConnect, NodeListenerDies, serverVars
    <2>2. BarsInOrder'
      BY <1>1, <2>1 DEF BarsInOrder
    <2>. QED  BY <1>2, <1>3, <1>4, <1>5, <1>6, <2>1, <2>2
  <1>8. CASE NodeDisconnect
    <2>1. heard' = heard /\ inFlight'[0] = <<>> /\ nodeTask' = "stopped"
      BY <1>2, <1>8 DEF NodeDisconnect
    <2>2. BarsInOrder'
      BY <1>1, <1>2, <2>1 DEF BarsInOrder
    <2>. QED  BY <1>2, <1>3, <1>4, <1>5, <1>6, <2>1, <2>2
  <1>9. CASE NodeReads
    <2>1. PICK b : b = Head(inFlight[0])
      OBVIOUS
    <2>2. /\ inFlight[0] # <<>> /\ inFlight'[0] = Tail(inFlight[0])
          /\ heard' = IF b.kind = "good" THEN Append(heard, b) ELSE heard
          /\ nodeTask' = nodeTask
      BY <1>2, <1>9, <2>1 DEF NodeReads, NodeHandles
    <2>3. /\ b \in Bars /\ inFlight'[0] \in Seq(Bars)
          /\ Range(inFlight[0]) = {b} \cup Range(inFlight'[0])
      BY <1>2, <2>1, <2>2, HeadTailFacts
    <2>4. Ascending(inFlight'[0]) /\ \A y \in Range(inFlight'[0]) : b.n < y.n
      BY <1>2, <2>1, <2>2, AscendingTail DEF BarsInOrder
    <2>5. CASE b.kind = "good"
      <3>1. heard' = Append(heard, b)
        BY <2>2, <2>5
      <3>2. heard' \in Seq(Bars) /\ Range(heard') = Range(heard) \cup {b}
        BY <1>2, <2>3, <3>1, AppendFacts
      <3>3. Ascending(heard')
        BY <1>2, <2>3, <3>1, AscendingAppend DEF BarsInOrder
      <3>4. BarsInOrder'
        BY <1>1, <2>2, <2>3, <2>4, <2>5, <3>2, <3>3 DEF BarsInOrder
      <3>. QED  BY <1>3, <1>4, <1>5, <1>6, <2>3, <3>2, <3>4
    <2>6. CASE b.kind # "good"
      <3>1. heard' = heard
        BY <2>2, <2>6
      <3>2. BarsInOrder'
        BY <1>1, <2>2, <2>3, <2>4, <2>6, <3>1 DEF BarsInOrder
      <3>. QED  BY <1>2, <1>3, <1>4, <1>5, <1>6, <2>3, <3>1, <3>2
    <2>. QED  BY <2>5, <2>6
  <1>. QED  BY <1>7, <1>8, <1>9

(* A new pub/sub object is not 0, the one of the node. *)
LEMMA NewPubsubFacts ==
    ASSUME FeedShaped, NEW channels, NewPubsub(channels)
    PROVE  /\ feedPubsub' \notin Objects /\ feedPubsub' # 0
           /\ feedAttempt' = 0 /\ online' = online \cup {feedPubsub'}
           /\ channelsOf'[feedPubsub'] = channels
           /\ inFlight'[0] = inFlight[0]
           /\ \E k \in Nat : Objects' = 0..k
           /\ DOMAIN inFlight' = Objects' /\ feedPubsub' \in Objects'
  <1>1. PICK k \in Nat : Objects = 0..k
    BY DEF FeedShaped
  <1>2. Cardinality(Objects) = k + 1
    BY <1>1, FS_Interval
  <1>3. PICK o : o = k + 1
    OBVIOUS
  <1>4. /\ feedPubsub' = o /\ feedAttempt' = 0 /\ online' = online \cup {o}
        /\ channelsOf' = [x \in Objects \cup {o} |-> IF x = o THEN channels ELSE channelsOf[x]]
        /\ inFlight' = [x \in Objects \cup {o} |-> IF x = o THEN <<>> ELSE inFlight[x]]
    BY <1>2, <1>3 DEF NewPubsub
  <1>5. o \notin Objects /\ o # 0 /\ Objects \cup {o} = 0..(k + 1)
    BY <1>1, <1>3
  <1>7. Objects' = Objects \cup {o} /\ DOMAIN inFlight' = Objects \cup {o}
    BY <1>4 DEF Objects
  <1>8. 0 \in Objects
    BY <1>1
  <1>9. k + 1 \in Nat
    OBVIOUS
  <1>. QED  BY <1>4, <1>5, <1>7, <1>8, <1>9

(* The adapter connects, for the first time or again. *)
LEMMA PubsubSteps ==
    ASSUME FeedInv, AdapterStart \/ FeedConnected
    PROVE  FeedInv'
  <1>. USE DEF FeedInv
  <1>1. PICK channels : NewPubsub(channels)
    BY DEF AdapterStart, FeedConnected
  <1>2. /\ feedPubsub' \notin Objects /\ feedPubsub' # 0
        /\ feedAttempt' = 0 /\ online' = online \cup {feedPubsub'}
        /\ channelsOf'[feedPubsub'] = channels
        /\ inFlight'[0] = inFlight[0]
        /\ \E k \in Nat : Objects' = 0..k
        /\ DOMAIN inFlight' = Objects' /\ feedPubsub' \in Objects'
    BY <1>1, NewPubsubFacts
  <1>3. /\ UNCHANGED <<redisUp, published, drops, sentToNode, nodeVars, feedCall, calls, renewals, crossed>>
    BY DEF AdapterStart, FeedConnected
  <1>4. FeedShaped'
    BY <1>2, <1>3 DEF FeedShaped, nodeVars
  <1>5. BarsInOrder'
    BY <1>2, <1>3, BarsStay DEF nodeFeed, nodeVars
  <1>6. NodeStopsAtLoss'
    BY <1>2, <1>3 DEF NodeStopsAtLoss, nodeVars
  <1>7. AttemptsCounted'
    <2>1. listener' \in {"reading", "resubscribing"}
      BY DEF AdapterStart, FeedConnected
    <2>2. 0 <= MaxAttempts
      BY FeedAttempts
    <2>. QED  BY <1>2, <2>1, <2>2 DEF AttemptsCounted
  <1>8. CallsKnown'
    BY <1>3 DEF CallsKnown
  <1>9. ChannelsWanted'
    <2>1. CASE AdapterStart
      <3>1. PICK c \in BarChannels : NewPubsub({c}) /\ subscriptions' = {c}
        BY <2>1 DEF AdapterStart
      <3>2. channelsOf'[feedPubsub'] = {c}
        BY <3>1, NewPubsubFacts
      <3>3. listener' = "reading" /\ feedCall' = NoFeedCall
        BY <1>3, <2>1 DEF AdapterStart, AttemptsCounted
      <3>. QED  BY <3>1, <3>2, <3>3 DEF ChannelsWanted, Unsettled
    <2>2. CASE FeedConnected
      <3>1. NewPubsub({}) /\ listener' = "resubscribing"
        BY <2>2 DEF FeedConnected
      <3>2. channelsOf'[feedPubsub'] = {}
        BY <3>1, NewPubsubFacts
      <3>. QED  BY <3>1, <3>2 DEF ChannelsWanted, Unsettled
    <2>. QED  BY <2>1, <2>2
  <1>. QED  BY <1>4, <1>5, <1>6, <1>7, <1>8, <1>9

(* The adapter reads, begins to reconnect and fails to. *)
LEMMA ReadingSteps ==
    ASSUME FeedInv, AdapterReads \/ FeedReconnect \/ FeedDelayOver \/ FeedReconnectFails
    PROVE  FeedInv'
  <1>. USE DEF FeedInv
  <1>1. /\ UNCHANGED <<redisUp, online, channelsOf, published, drops, sentToNode, nodeVars, feedPubsub,
                       subscriptions, feedCall, calls, renewals, crossed>>
        /\ DOMAIN inFlight' = DOMAIN inFlight
        /\ listener' \notin {"off", "resubscribing"}
        /\ listener' = "reading" => listener = "reading"
    BY DEF AdapterReads, FeedReconnect, FeedDelayOver, FeedReconnectFails, serverVars
  <1>2. /\ feedAttempt \in Nat /\ drops \in Nat /\ 0 \in DOMAIN inFlight
        /\ feedAttempt' \in {feedAttempt, feedAttempt + 1}
    <2>1. feedAttempt \in Nat /\ drops \in Nat /\ 0 \in DOMAIN inFlight
      BY DEF FeedShaped
    <2>. QED  BY <2>1 DEF AdapterReads, FeedReconnect, FeedDelayOver, FeedReconnectFails
  <1>3. inFlight'[0] = inFlight[0]
    <2>1. AdapterReads => feedPubsub # 0
      BY DEF AdapterReads, AttemptsCounted
    <2>2. AdapterReads => inFlight' = [inFlight EXCEPT ![feedPubsub] = Tail(@)]
      BY DEF AdapterReads
    <2>3. ~AdapterReads => inFlight' = inFlight
      BY DEF FeedReconnect, FeedDelayOver, FeedReconnectFails, serverVars
    <2>. QED  BY <1>2, <2>1, <2>2, <2>3
  <1>4. FeedShaped'
    <2>1. feedAttempt' \in Nat
      BY <1>2
    <2>. QED  BY <1>1, <1>3, <2>1 DEF FeedShaped, Objects, nodeVars
  <1>5. BarsInOrder'
    BY <1>1, <1>3, BarsStay DEF nodeFeed, nodeVars
  <1>6. NodeStopsAtLoss' /\ CallsKnown'
    BY <1>1 DEF NodeStopsAtLoss, CallsKnown, nodeVars
  <1>7. AttemptsCounted'
    <2>1. CASE AdapterReads
      BY <1>1, <1>2, <2>1, FeedAttempts DEF AttemptsCounted, AdapterReads
    <2>2. CASE FeedReconnect
      <3>1. /\ listener \in {"reading", "ended"} /\ feedAttempt' = feedAttempt
            /\ listener' = IF feedAttempt >= MaxAttempts THEN "gave_up" ELSE "sleeping"
        BY <2>2 DEF FeedReconnect
      <3>2. feedAttempt > 0 => drops > 0
        BY <1>2, <3>1, FeedAttempts DEF AttemptsCounted
      <3>3. /\ listener' = "gave_up" => feedAttempt = MaxAttempts /\ feedAttempt > 0
            /\ listener' = "sleeping" => feedAttempt < MaxAttempts
            /\ listener' \in {"gave_up", "sleeping"} /\ feedAttempt <= MaxAttempts
        <4>1. feedAttempt <= MaxAttempts
          BY DEF AttemptsCounted
        <4>. QED  BY <1>2, <3>1, <4>1, FeedAttempts
      <3>4. drops' = drops /\ feedAttempt' = feedAttempt
        BY <1>1, <3>1
      <3>. QED  BY <3>2, <3>3, <3>4 DEF AttemptsCounted
    <2>3. CASE FeedDelayOver
      BY <1>1, <1>2, <2>3, FeedAttempts DEF AttemptsCounted, FeedDelayOver
    <2>4. CASE FeedReconnectFails
      <3>1. listener' = "ended" /\ feedAttempt' = feedAttempt
        BY <2>4 DEF FeedReconnectFails
      <3>2. feedAttempt = 0 \/ drops > 0
        BY <2>4 DEF FeedReconnectFails, AttemptsCounted, NodeStopsAtLoss
      <3>3. drops' = drops /\ feedAttempt <= MaxAttempts
        BY <1>1 DEF AttemptsCounted
      <3>. QED  BY <1>2, <3>1, <3>2, <3>3, FeedAttempts DEF AttemptsCounted
    <2>. QED  BY <2>1, <2>2, <2>3, <2>4
  <1>8. ChannelsWanted'
    BY <1>1 DEF ChannelsWanted, Unsettled
  <1>. QED  BY <1>4, <1>5, <1>6, <1>7, <1>8

(* reconnect closes the old pub/sub object. *)
LEMMA FeedDisconnectedKeeps ==
    ASSUME FeedInv, FeedDisconnected
    PROVE  FeedInv'
  <1>. USE DEF FeedInv
  <1>1. /\ UNCHANGED <<redisUp, published, drops, sentToNode, nodeVars, subscriptions,
                       feedAttempt, feedCall, calls, renewals, crossed>>
        /\ listener = "closing" /\ listener' = "connecting" /\ feedPubsub' = 0
        /\ online' = online \ ({feedPubsub} \ {0})
        /\ DOMAIN channelsOf' = Objects /\ DOMAIN inFlight' = Objects
        /\ \A o \in Objects : inFlight'[o] = IF o \in {feedPubsub} \ {0} THEN <<>> ELSE inFlight[o]
    BY DEF FeedDisconnected
  <1>2. 0 \in Objects
    BY DEF FeedShaped
  <1>3. inFlight'[0] = inFlight[0]
    BY <1>1, <1>2
  <1>4. FeedShaped'
    BY <1>1, <1>2, <1>3 DEF FeedShaped, Objects, nodeVars
  <1>5. BarsInOrder'
    BY <1>1, <1>3, BarsStay DEF nodeFeed, nodeVars
  <1>6. NodeStopsAtLoss' /\ CallsKnown' /\ AttemptsCounted' /\ ChannelsWanted'
    BY <1>1 DEF NodeStopsAtLoss, CallsKnown, AttemptsCounted, ChannelsWanted, nodeVars
  <1>. QED  BY <1>4, <1>5, <1>6

(* The renewal: from now on a pending call is a crossed one. *)
LEMMA ResubscribeKeeps ==
    ASSUME FeedInv, Resubscribe
    PROVE  FeedInv'
  <1>. USE DEF FeedInv
  <1>1. /\ UNCHANGED <<redisUp, online, inFlight, published, drops, sentToNode, nodeVars,
                       feedPubsub, subscriptions, feedAttempt, feedCall, calls>>
        /\ listener = "resubscribing" /\ listener' = "reading"
        /\ channelsOf' = [channelsOf EXCEPT ![feedPubsub] = @ \cup subscriptions]
        /\ renewals' = renewals + 1 /\ crossed' = {}
    BY DEF Resubscribe
  <1>2. renewals \in Nat /\ feedPubsub \in DOMAIN channelsOf
    BY DEF FeedShaped, Objects
  <1>3. FeedShaped'
    BY <1>1, <1>2 DEF FeedShaped, Objects, nodeVars
  <1>4. BarsInOrder'
    BY <1>1, BarsStay DEF nodeFeed, nodeVars
  <1>5. NodeStopsAtLoss' /\ CallsKnown' /\ AttemptsCounted'
    BY <1>1, <1>2 DEF NodeStopsAtLoss, CallsKnown, AttemptsCounted, nodeVars
  <1>6. ChannelsWanted'
    <2>1. channelsOf'[feedPubsub] = channelsOf[feedPubsub] \cup subscriptions
      BY <1>1, <1>2
    <2>2. feedCall # NoFeedCall => feedCall.at # renewals'
      BY <1>1, <1>2 DEF CallsKnown
    <2>. QED  BY <1>1, <2>1, <2>2 DEF ChannelsWanted, Unsettled
  <1>. QED  BY <1>3, <1>4, <1>5, <1>6

(* A call changes the channels first ... *)
LEMMA CallFeedKeeps ==
    ASSUME FeedInv, NEW c \in BarChannels, NEW do \in {"subscribe", "unsubscribe"}, CallFeed(do, c)
    PROVE  FeedInv'
  <1>. USE DEF FeedInv
  <1>1. /\ UNCHANGED <<redisUp, online, inFlight, published, drops, sentToNode, nodeVars,
                       feedPubsub, subscriptions, feedAttempt, listener, renewals, crossed>>
        /\ feedCall = NoFeedCall /\ feedPubsub # 0
        /\ channelsOf' = [channelsOf EXCEPT ![feedPubsub] =
                            IF do = "subscribe" THEN @ \cup {c} ELSE @ \ {c}]
    BY DEF CallFeed
  <1>2. renewals \in Nat /\ feedPubsub \in DOMAIN channelsOf
    BY DEF FeedShaped, Objects
  <1>3. PICK call : call = [do |-> do, channel |-> c, at |-> renewals]
    OBVIOUS
  <1>4. /\ feedCall' = call /\ call.do = do /\ call.channel = c /\ call.at = renewals
        /\ call # NoFeedCall
    <2>1. NoFeedCall.do = "none"
      BY DEF NoFeedCall
    <2>. QED  BY <1>3, <2>1 DEF CallFeed
  <1>5. FeedShaped'
    BY <1>1, <1>2 DEF FeedShaped, Objects, nodeVars
  <1>6. BarsInOrder'
    BY <1>1, BarsStay DEF nodeFeed, nodeVars
  <1>7. NodeStopsAtLoss' /\ CallsKnown' /\ AttemptsCounted'
    <2>1. NodeStopsAtLoss'
      BY <1>1 DEF NodeStopsAtLoss, nodeVars
    <2>2. CallsKnown'
      BY <1>1, <1>2, <1>4 DEF CallsKnown
    <2>3. AttemptsCounted'
      BY <1>1 DEF AttemptsCounted
    <2>. QED  BY <2>1, <2>2, <2>3
  <1>8. ChannelsWanted'
    <2>1. channelsOf'[feedPubsub] = IF do = "subscribe" THEN channelsOf[feedPubsub] \cup {c}
                                    ELSE channelsOf[feedPubsub] \ {c}
      BY <1>1, <1>2
    <2>2. Unsettled = {} /\ Unsettled' = {c}
      BY <1>1, <1>4 DEF Unsettled
    <2>. QED  BY <1>1, <1>4, <2>1, <2>2 DEF ChannelsWanted
  <1>. QED  BY <1>5, <1>6, <1>7, <1>8

(* ... and what is wanted when it returns. *)
LEMMA FeedCallReturnsKeeps ==
    ASSUME FeedInv, FeedCallReturns
    PROVE  FeedInv'
  <1>. USE DEF FeedInv
  <1>1. /\ UNCHANGED <<serverVars, nodeVars, feedPubsub, feedAttempt, listener, calls, renewals>>
        /\ feedCall # NoFeedCall /\ feedCall' = NoFeedCall
        /\ subscriptions' = IF feedCall.do = "subscribe" THEN subscriptions \cup {feedCall.channel}
                            ELSE subscriptions \ {feedCall.channel}
        /\ crossed' = IF feedCall.at # renewals THEN crossed \cup {feedCall.channel} ELSE crossed
    BY DEF FeedCallReturns
  <1>2. FeedShaped'
    BY <1>1 DEF FeedShaped, Objects, nodeVars, serverVars
  <1>3. BarsInOrder'
    BY <1>1, BarsStay DEF nodeFeed, nodeVars, serverVars
  <1>4. NodeStopsAtLoss' /\ CallsKnown' /\ AttemptsCounted'
    BY <1>1 DEF NodeStopsAtLoss, CallsKnown, AttemptsCounted, nodeVars, serverVars
  <1>5. ChannelsWanted'
    <2>1. Unsettled = {feedCall.channel} /\ Unsettled' = {} /\ channelsOf' = channelsOf
      BY <1>1 DEF Unsettled, serverVars
    <2>2. feedCall.do \in {"subscribe", "unsubscribe"}
      BY <1>1 DEF CallsKnown
    <2>. QED  BY <1>1, <2>1, <2>2 DEF ChannelsWanted
  <1>. QED  BY <1>2, <1>3, <1>4, <1>5

(* Every step keeps FeedInv. *)
LEMMA FeedStep == FeedInv /\ [FeedNext]_feedVars => FeedInv'
  <1>. SUFFICES ASSUME FeedInv, [FeedNext]_feedVars
                PROVE  FeedInv'
    OBVIOUS
  <1>1. CASE UNCHANGED feedVars
    <2>1. UNCHANGED <<redisUp, online, channelsOf, inFlight, published, drops, sentToNode, nodeVars,
                      adapterVars>>
      BY <1>1 DEF feedVars, serverVars
    <2>2. BarsInOrder'
      BY <2>1, BarsStay DEF nodeFeed, nodeVars, FeedInv
    <2>. QED  BY <2>1, <2>2 DEF nodeVars, adapterVars, FeedInv, FeedShaped, Objects,
                                NodeStopsAtLoss, AttemptsCounted, CallsKnown, ChannelsWanted, Unsettled
  <1>2. ASSUME NEW c \in BarChannels, NEW kind \in {"good", "malformed", "raising"}, PublishBar(c, kind)
        PROVE  FeedInv'
    BY <1>2, PublishBarKeeps
  <1>3. ASSUME NEW c \in BarChannels, NEW do \in {"subscribe", "unsubscribe"}, CallFeed(do, c)
        PROVE  FeedInv'
    BY <1>3, CallFeedKeeps
  <1>4. CASE \/ Outage \/ Restored
             \/ nodeTask = "reading" /\ LibraryReconnects(0)
             \/ listener = "reading" /\ LibraryReconnects(feedPubsub)
    BY <1>4, RedisSteps
  <1>5. CASE NodeConnect \/ NodeReads \/ NodeListenerDies \/ NodeDisconnect
    BY <1>5, NodeSteps
  <1>6. CASE AdapterStart \/ FeedConnected
    BY <1>6, PubsubSteps
  <1>7. CASE AdapterReads \/ FeedReconnect \/ FeedDelayOver \/ FeedReconnectFails
    BY <1>7, ReadingSteps
  <1>8. CASE FeedDisconnected \/ Resubscribe \/ FeedCallReturns
    BY <1>8, FeedDisconnectedKeeps, ResubscribeKeeps, FeedCallReturnsKeeps
  <1>. QED  BY <1>1, <1>2, <1>3, <1>4, <1>5, <1>6, <1>7, <1>8 DEF FeedNext

(* What FeedInv is for. *)
LEMMA FeedInvSuffices == FeedInv => FeedServed
  <1>. SUFFICES ASSUME FeedInv
                PROVE  FeedServed
    OBVIOUS
  <1>. USE DEF FeedInv
  <1>1. Ascending(heard \o inFlight[0])
    BY AscendingConcat DEF FeedShaped, BarsInOrder
  <1>2. nodeTask \in {"reading", "dead"} =>
            ToSet(heard) \cup {b \in ToSet(inFlight[0]) : b.kind = "good"} = sentToNode
    BY ToSetIsRange DEF BarsInOrder
  <1>3. (listener = "reading" /\ feedCall = NoFeedCall) =>
            /\ channelsOf[feedPubsub] \subseteq subscriptions \cup crossed
            /\ subscriptions \subseteq channelsOf[feedPubsub] \cup crossed
    BY DEF ChannelsWanted, Unsettled
  <1>. QED  BY <1>1, <1>2, <1>3 DEF NodeStopsAtLoss, AttemptsCounted, FeedServed

(* For any channels, bars, outages, attempts and calls: a node hears the good   *)
(* bars Redis sent it once and in order until a connection is lost, the         *)
(* adapter receives the channels it wants but for crossed calls, and it gives   *)
(* up after MaxAttempts attempts, never without an outage.                      *)
THEOREM BarsAreServed == FeedSpec => []FeedServed
  <1>. QED  BY FeedInitially, FeedStep, FeedInvSuffices, PTL DEF FeedSpec

-----------------------------------------------------------------------------
(* HistoryFetch: the fetch ends its loop when the range is reached or when    *)
(* the oldest bar was the same twice.  For the second to mean that the server *)
(* has nothing older, the answers that are due are counted against the        *)
(* tokens: a token says that an answer came, not which one.                   *)

(* Where the fetch stands.  The periods are the newest of the wanted bars.    *)
Wanted == {u \in serverBars : u <= toTs}
NewestHeld == periods \subseteq Wanted /\ \A u \in Wanted, p \in periods : p < u => u \in periods
NoOlder == \A u \in Wanted : \E p \in periods : p <= u

Looping == {"loop", "wait", "compare"}
Ranging == {"range", "write", "manifest", "done"}
FetchPcs == {"subscribe", "initial", "first wait", "error"} \cup Looping \cup Ranging
FetchPackets == {"create_series", "request_more_data"}

FetchTyped ==
    /\ serverBars \subseteq 1..LastTime /\ fromTs \in 1..LastTime /\ toTs \in 1..LastTime
    /\ due \in Seq(FetchPackets) /\ tokens \in Nat /\ fetchPc \in FetchPcs
    /\ prevMin \in Nat /\ sameStreak \in Nat

(* At most one token is left over from before a request.                      *)
TokensMatch ==
    /\ fetchPc = "subscribe" => tokens = 0 /\ ~subscribed
    /\ fetchPc \in {"subscribe", "initial", "first wait", "loop", "compare"} =>
           tokens + Len(due) <= 1
    /\ fetchPc = "wait" => tokens + Len(due) <= 2

(* As long as the oldest bar stays what it was at the last comparison, no     *)
(* packet that was due then has been answered, unless nothing is older.       *)
Unanswered == IF fetchPc = "loop" THEN sameStreak ELSE sameStreak + 1
StreakMeans ==
    /\ fetchPc \in {"subscribe", "initial", "first wait"} => prevMin = 0 /\ sameStreak = 0
    /\ fetchPc \in Looping =>
        /\ sameStreak \in {0, 1}
        /\ prevMin > 0 => periods # {} /\ Min(periods) <= prevMin
        /\ prevMin > 0 /\ Min(periods) = prevMin => NoOlder \/ Len(due) >= Unanswered

RangeBars == {u \in serverBars : fromTs <= u /\ u <= toTs}
RangeKept ==
    /\ fetchPc \in Ranging => \A u \in Wanted : fromTs <= u => u \in periods
    /\ fetchPc \in {"manifest", "done"} => dataset = RangeBars
    /\ fetchPc = "done" => manifest = dataset
    /\ tmpFile => fetchPc = "write"

FetchInv == FetchTyped /\ NewestHeld /\ TokensMatch /\ StreakMeans /\ RangeKept

LEMMA OldestBar ==
    ASSUME NEW S \in SUBSET (1..LastTime), S # {}
    PROVE  /\ Min(S) \in S /\ Min(S) \in Nat /\ Min(S) > 0
           /\ \A p \in S : Min(S) <= p
<1>1. LastTime \in Nat
  BY FetchBounds
<1>2. S \subseteq Nat
  BY <1>1
<1>3. PICK m \in S : \A p \in S : m <= p
  BY <1>2, LeastNatural
<1>4. Min(S) \in S /\ \A p \in S : Min(S) <= p
  BY <1>3 DEF Min
<1>5. PICK least : least = Min(S)
  OBVIOUS
<1>6. least \in 1..LastTime
  BY <1>4, <1>5
<1>7. least \in Nat /\ least > 0
  BY <1>1, <1>6
<1> QED
  BY <1>4, <1>5, <1>7

LEMMA PeriodFacts ==
    ASSUME FetchTyped, NewestHeld
    PROVE  periods \in SUBSET (1..LastTime)
  BY DEF FetchTyped, NewestHeld, Wanted

LEMMA FetchInitInv == FetchInit => FetchInv
<1> SUFFICES ASSUME FetchInit PROVE FetchInv
  OBVIOUS
<1>1. due \in Seq(FetchPackets) /\ Len(due) = 1
  BY DEF FetchInit, FetchPackets
<1>2. FetchTyped
  BY <1>1 DEF FetchInit, FetchTyped, FetchPcs
<1>3. NewestHeld
  BY DEF FetchInit, NewestHeld
<1>4. TokensMatch
  BY <1>1 DEF FetchInit, TokensMatch
<1>5. StreakMeans
  BY DEF FetchInit, StreakMeans, Looping
<1>6. RangeKept
  BY DEF FetchInit, RangeKept, Ranging
<1> QED
  BY <1>2, <1>3, <1>4, <1>5, <1>6 DEF FetchInv

(* An answer brings the newest of the older bars, or there are none.          *)
LEMMA NextBarsFacts ==
    ASSUME FetchTyped, NewestHeld
    PROVE  /\ NextBars \subseteq Wanted
           /\ \A u \in NextBars, p \in periods : u < p
           /\ \A u \in Wanted, b \in NextBars : b < u => u \in periods \cup NextBars
           /\ NextBars = {} => NoOlder
<1>1. PICK older : older = {b \in serverBars : b <= toTs /\ \A p \in periods : p <= toTs => b < p}
  OBVIOUS
<1>2. NextBars = {b \in older : Cardinality({c \in older : c > b}) < FetchBatch}
  BY <1>1 DEF NextBars, Newest
<1>3. /\ periods \subseteq 1..LastTime /\ LastTime \in Nat /\ toTs \in Nat
      /\ serverBars \subseteq 1..LastTime
  BY PeriodFacts, FetchBounds DEF FetchTyped
<1>4. older \subseteq Wanted /\ \A u \in older, p \in periods : u < p
  BY <1>1 DEF NewestHeld, Wanted
<1>5. \A u \in Wanted : u \in older \/ \E p \in periods : p <= u
  BY <1>1, <1>3 DEF Wanted, NewestHeld
<1>6. IsFiniteSet(older)
  <2>1. 1 \in Int /\ LastTime \in Int
    BY <1>3
  <2>2. IsFiniteSet(1..LastTime)
    BY ONLY <2>1, FS_Interval
  <2>3. older \subseteq 1..LastTime
    BY <1>1, <1>3
  <2> QED
    BY ONLY <2>2, <2>3, FS_Subset
<1>7. ASSUME NEW u \in Wanted, NEW b \in NextBars, b < u PROVE u \in periods \cup NextBars
  <2>1. CASE u \in older
    <3>1. {c \in older : c > u} \subseteq {c \in older : c > b}
      <4>1. older \subseteq 1..LastTime /\ b \in older
        BY <1>1, <1>2, <1>3
      <4> SUFFICES ASSUME NEW c \in older, c > u PROVE c > b
        OBVIOUS
      <4>2. c \in Int /\ u \in Int /\ b \in Int
        BY <1>3, <2>1, <4>1
      <4> QED
        BY <1>7, <4>2
    <3>2. PICK hi, lo : hi = {c \in older : c > u} /\ lo = {c \in older : c > b}
      OBVIOUS
    <3>3. hi \subseteq lo /\ lo \subseteq older
      BY <3>1, <3>2
    <3>4. IsFiniteSet(lo)
      BY ONLY <1>6, <3>3, FS_Subset
    <3>5. IsFiniteSet(hi) /\ Cardinality(hi) <= Cardinality(lo)
      BY ONLY <3>3, <3>4, FS_Subset
    <3>6. Cardinality(hi) \in Nat /\ Cardinality(lo) \in Nat
      BY ONLY <3>4, <3>5, FS_CardinalityType
    <3>7. Cardinality(lo) < FetchBatch
      BY <1>2, <1>7, <3>2
    <3>8. Cardinality(hi) < FetchBatch
      BY <3>5, <3>6, <3>7, FetchBounds
    <3> QED
      BY <1>2, <2>1, <3>2, <3>8
  <2>2. CASE u \notin older
    <3>1. PICK p \in periods : p <= u
      BY <1>5, <2>2
    <3>2. p = u \/ p < u
      BY <1>3, <3>1 DEF Wanted
    <3> QED
      BY <3>1, <3>2 DEF NewestHeld
  <2> QED
    BY <2>1, <2>2
<1>8. ASSUME NextBars = {} PROVE older = {}
  <2> SUFFICES ASSUME older # {} PROVE FALSE
    OBVIOUS
  <2>1. PICK n : n = LastTime
    OBVIOUS
  <2>2. n \in Nat /\ older \subseteq 1..n
    BY <1>1, <1>3, <2>1
  <2>3. PICK m \in older : \A c \in older : c <= m
    BY <2>2, GreatestNatural
  <2>4. {c \in older : c > m} = {}
    <3> SUFFICES ASSUME NEW c \in older, c > m PROVE FALSE
      OBVIOUS
    <3>1. c \in Int /\ m \in Int /\ c <= m
      BY <2>2, <2>3
    <3> QED
      BY <3>1
  <2>5. Cardinality({c \in older : c > m}) < FetchBatch
    BY <2>4, FS_EmptySet, FetchBounds
  <2> QED
    BY <1>2, <1>8, <2>5
<1>9. NextBars = {} => NoOlder
  BY <1>5, <1>8 DEF NoOlder
<1> QED
  BY <1>2, <1>4, <1>7, <1>9

LEMMA AnswerKeeps == FetchInv /\ ServerAnswers => FetchInv'
<1> SUFFICES ASSUME FetchInv, ServerAnswers PROVE FetchInv'
  OBVIOUS
<1>1. FetchTyped /\ NewestHeld /\ TokensMatch /\ StreakMeans /\ RangeKept
  BY DEF FetchInv
<1>2. /\ due # <<>> /\ due' = Tail(due)
      /\ UNCHANGED <<serverBars, fromTs, toTs, subscribed, fetchPc, prevMin, sameStreak, tmpFile,
                     dataset, manifest>>
  BY DEF ServerAnswers
<1>3. due' \in Seq(FetchPackets) /\ Len(due') \in Nat /\ Len(due) = Len(due') + 1
  BY <1>1, <1>2 DEF FetchTyped
<1>4. periods' = periods \cup NextBars
  BY DEF ServerAnswers, OnDataBatch
<1>5. tokens' \in Nat /\ tokens' <= tokens + 1 /\ (~subscribed => tokens' = tokens)
  <2>1. tokens \in Nat
    BY <1>1 DEF FetchTyped
  <2> QED
    BY <2>1 DEF ServerAnswers, OnDataBatch, SubscribeUpdateToken
<1>6. FetchTyped'
  BY <1>1, <1>2, <1>3, <1>5 DEF FetchTyped
<1>7. /\ NextBars \subseteq Wanted
      /\ \A u \in NextBars, p \in periods : u < p
      /\ \A u \in Wanted, b \in NextBars : b < u => u \in periods \cup NextBars
      /\ NextBars = {} => NoOlder
  BY <1>1, NextBarsFacts
<1>8. Wanted' = Wanted
  BY <1>2 DEF Wanted
<1>9. NewestHeld'
  BY <1>1, <1>4, <1>7, <1>8 DEF NewestHeld
<1>10. NoOlder => NoOlder'
  BY <1>4, <1>8 DEF NoOlder
<1>11. TokensMatch'
  <2>1. tokens \in Nat /\ tokens' + Len(due') <= tokens + Len(due)
    BY <1>1, <1>3, <1>5 DEF FetchTyped
  <2>2. PICK t, n \in Int : t = tokens' + Len(due') /\ n = tokens + Len(due)
    BY <1>3, <1>5, <2>1
  <2>3. (n <= 1 => t <= 1) /\ (n <= 2 => t <= 2)
    BY <2>1, <2>2
  <2> QED
    BY <1>1, <1>2, <1>5, <2>2, <2>3 DEF TokensMatch
<1>12. StreakMeans'
  <2>1. CASE fetchPc \notin Looping
    BY <1>1, <1>2, <2>1 DEF StreakMeans
  <2>2. CASE fetchPc \in Looping
    <3> SUFFICES ASSUME prevMin > 0
                 PROVE  /\ periods' # {} /\ Min(periods') <= prevMin
                        /\ Min(periods') = prevMin => NoOlder'
      BY <1>1, <1>2, <2>2 DEF StreakMeans, Looping
    <3>1. /\ prevMin \in Nat /\ periods # {} /\ Min(periods) <= prevMin
          /\ Min(periods) \in periods /\ Min(periods) \in Nat
      BY <1>1, <2>2, PeriodFacts, OldestBar DEF StreakMeans, FetchTyped
    <3>2. CASE NextBars = {}
      BY <1>4, <1>7, <1>10, <3>1, <3>2
    <3>3. CASE NextBars # {}
      <4>1. PICK b \in NextBars : b < Min(periods)
        BY <1>7, <3>1, <3>3
      <4>2. PICK m : m = Min(periods') /\ m \in Nat /\ \A p \in periods' : m <= p
        <5>1. periods' \in SUBSET (1..LastTime) /\ periods' # {}
          BY <1>1, <1>4, <1>7, <4>1, PeriodFacts DEF Wanted, FetchTyped
        <5> QED
          BY <5>1, OldestBar
      <4>3. m <= b /\ b \in Nat
        <5>1. b \in 1..LastTime /\ LastTime \in Nat
          BY <1>1, <1>7, FetchBounds DEF FetchTyped, Wanted
        <5> QED
          BY <1>4, <4>1, <4>2, <5>1, SMTT(40)
      <4>4. m < Min(periods)
        BY <3>1, <4>1, <4>2, <4>3
      <4> QED
        BY <1>4, <3>1, <4>2, <4>4
    <3> QED
      BY <3>2, <3>3
  <2> QED
    BY <2>1, <2>2
<1>13. RangeKept'
  BY <1>1, <1>2, <1>4, <1>8 DEF RangeKept, RangeBars
<1> QED
  BY <1>6, <1>9, <1>11, <1>12, <1>13 DEF FetchInv


(* The goroutine's steps.                                                     *)

LEMMA SubscribeKeeps == FetchInv /\ SubscribeUpdate => FetchInv'
<1> SUFFICES ASSUME FetchInv, SubscribeUpdate PROVE FetchInv'
  OBVIOUS
<1>1. /\ fetchPc = "subscribe" /\ fetchPc' = "initial"
      /\ UNCHANGED <<serverBars, fromTs, toTs, periods, due, tokens, prevMin, sameStreak, batch,
                     tmpFile, dataset, manifest>>
  BY DEF SubscribeUpdate, FetchStep, Unread, Files
<1> QED
  BY <1>1 DEF FetchInv, FetchTyped, FetchPcs, NewestHeld, Wanted, TokensMatch, StreakMeans, Looping,
              RangeKept, Ranging

(* A fetch that stops keeps what is there.                                    *)
LEMMA FailureKeeps ==
    FetchInv /\ fetchPc' = "error" /\ ~tmpFile'
    /\ UNCHANGED <<serverBars, fromTs, toTs, periods, due, prevMin, sameStreak>> /\ tokens' \in Nat
    => FetchInv'
  BY DEF FetchInv, FetchTyped, FetchPcs, NewestHeld, Wanted, TokensMatch, StreakMeans, Looping,
         RangeKept, Ranging

(* When the loop starts, nothing has been compared yet.                       *)
LEMMA InitialBatchKeeps == FetchInv /\ InitialBatch => FetchInv'
<1> SUFFICES ASSUME FetchInv, InitialBatch PROVE FetchInv'
  OBVIOUS
<1>1. /\ fetchPc = "initial" /\ fetchPc' \in {"first wait", "loop"}
      /\ UNCHANGED <<serverBars, fromTs, toTs, periods, due, tokens, prevMin, sameStreak, batch,
                     tmpFile, dataset, manifest>>
  BY DEF InitialBatch, FetchStep, Unread, Files
<1>2. prevMin = 0 /\ sameStreak = 0
  BY <1>1 DEF FetchInv, StreakMeans
<1>3. ~(prevMin > 0)
  BY <1>2
<1> QED
  BY <1>1, <1>2, <1>3 DEF FetchInv, FetchTyped, FetchPcs, NewestHeld, Wanted, TokensMatch, StreakMeans,
              Looping, RangeKept, Ranging

LEMMA FirstWaitKeeps == FetchInv /\ FirstWait => FetchInv'
<1> SUFFICES ASSUME FetchInv, FirstWait PROVE FetchInv'
  OBVIOUS
<1>1. /\ fetchPc = "first wait" /\ fetchPc' \in {"loop", "error"}
      /\ UNCHANGED <<serverBars, fromTs, toTs, periods, due, prevMin, sameStreak, batch,
                     tmpFile, dataset, manifest>>
  BY DEF FirstWait, FetchStep, Unread, Files
<1>2. prevMin = 0 /\ sameStreak = 0
  BY <1>1 DEF FetchInv, StreakMeans
<1>3. PICK n \in Nat : n = Len(due)
  BY DEF FetchInv, FetchTyped
<1>4. tokens \in Nat /\ tokens + n <= 1
  BY <1>1, <1>3 DEF FetchInv, FetchTyped, TokensMatch
<1>5. tokens' \in Nat /\ tokens' <= tokens
  <2>1. (tokens > 0 /\ tokens' = tokens - 1) \/ tokens' = tokens
    BY DEF FirstWait, TakeToken, TimesOut
  <2> QED
    BY <1>4, <2>1
<1>6. tokens' + Len(due') <= 1
  <2>1. due' = due
    BY <1>1
  <2>2. PICK t, u \in Nat : t = tokens' /\ u = tokens
    BY <1>4, <1>5
  <2>3. u + n <= 1 /\ t <= u
    BY ONLY <1>4, <1>5, <2>2
  <2>4. t + n <= 1
    BY ONLY <2>3, n \in Nat, t \in Nat, u \in Nat
  <2> QED
    BY <1>3, <2>1, <2>2, <2>4
<1>7. ~(prevMin > 0)
  BY <1>2
<1> QED
  BY <1>1, <1>2, <1>5, <1>6, <1>7 DEF FetchInv, FetchTyped, FetchPcs, NewestHeld, Wanted, TokensMatch,
              StreakMeans, Looping, RangeKept, Ranging

(* The range is reached, or there is nothing older: every wanted bar of the   *)
(* range is there.                                                            *)
LEMMA ReachedHeld ==
    ASSUME FetchTyped, NewestHeld, Reached
    PROVE  \A u \in Wanted : fromTs <= u => u \in periods
<1>1. periods # {} /\ Min(periods) <= fromTs
  BY DEF Reached, MinPeriodTime
<1>2. PICK m : m = Min(periods) /\ m \in periods /\ m \in Nat
  BY <1>1, PeriodFacts, OldestBar
<1> SUFFICES ASSUME NEW u \in Wanted, fromTs <= u PROVE u \in periods
  OBVIOUS
<1>3. u \in Int /\ fromTs \in Int /\ m <= fromTs
  BY <1>1, <1>2 DEF FetchTyped, Wanted
<1>4. m = u \/ m < u
  BY <1>2, <1>3
<1> QED
  BY <1>2, <1>4 DEF NewestHeld

LEMMA NoOlderHeld ==
    ASSUME FetchTyped, NewestHeld, NoOlder
    PROVE  \A u \in Wanted : u \in periods
<1> SUFFICES ASSUME NEW u \in Wanted PROVE u \in periods
  OBVIOUS
<1>1. PICK p \in periods : p <= u
  BY DEF NoOlder
<1>2. p \in Int /\ u \in Int
  BY PeriodFacts DEF FetchTyped, Wanted
<1>3. p = u \/ p < u
  BY <1>1, <1>2
<1> QED
  BY <1>1, <1>3 DEF NewestHeld

LEMMA RequestKeeps == FetchInv /\ RequestMoreData => FetchInv'
<1> SUFFICES ASSUME FetchInv, RequestMoreData PROVE FetchInv'
  OBVIOUS
<1>1. FetchTyped /\ NewestHeld /\ TokensMatch /\ StreakMeans /\ RangeKept
  BY DEF FetchInv
<1>2. /\ fetchPc = "loop"
      /\ UNCHANGED <<serverBars, fromTs, toTs, periods, tokens, prevMin, sameStreak, tmpFile,
                     dataset, manifest>>
  BY DEF RequestMoreData, Unread, Files
<1>3. CASE Reached /\ fetchPc' = "range" /\ due' = due
  <2>1. \A u \in Wanted : fromTs <= u => u \in periods
    BY <1>1, <1>3, ReachedHeld
  <2> QED
    BY <1>1, <1>2, <1>3, <2>1 DEF FetchInv, FetchTyped, FetchPcs, NewestHeld, Wanted, TokensMatch,
              StreakMeans, Looping, RangeKept, Ranging
<1>4. CASE fetchPc' = "wait" /\ due' = due \o <<"request_more_data">>
  <2>1. /\ due' \in Seq(FetchPackets) /\ Len(due') = Len(due) + 1
        /\ Len(due) \in Nat /\ Len(due') \in Nat
    <3>1. <<"request_more_data">> \in Seq(FetchPackets) /\ Len(<<"request_more_data">>) = 1
      BY DEF FetchPackets
    <3>2. due \in Seq(FetchPackets)
      BY <1>1 DEF FetchTyped
    <3> QED
      BY <1>4, <3>1, <3>2
  <2>2. tokens \in Nat /\ tokens + Len(due) <= 1 /\ sameStreak \in Nat
    BY <1>1, <1>2 DEF FetchTyped, TokensMatch
  <2>3. tokens' + Len(due') <= 2
    BY <1>2, <2>1, <2>2
  <2>4. FetchTyped' /\ NewestHeld'
    BY <1>1, <1>2, <1>4, <2>1 DEF FetchTyped, FetchPcs, Looping, NewestHeld, Wanted
  <2>5. TokensMatch' /\ RangeKept'
    BY <1>1, <1>2, <1>4, <2>3 DEF TokensMatch, RangeKept, Ranging
  <2>6. Len(due) >= sameStreak => Len(due') >= sameStreak + 1
    BY <2>1, <2>2
  <2>7. StreakMeans'
    BY <1>1, <1>2, <1>4, <2>6 DEF StreakMeans, Looping, Unanswered, NoOlder, Wanted
  <2> QED
    BY <2>4, <2>5, <2>7 DEF FetchInv
<1> QED
  BY <1>3, <1>4 DEF RequestMoreData

LEMMA WaitKeeps == FetchInv /\ WaitForUpdate => FetchInv'
<1> SUFFICES ASSUME FetchInv, WaitForUpdate PROVE FetchInv'
  OBVIOUS
<1>1. /\ fetchPc = "wait" /\ fetchPc' = "compare"
      /\ UNCHANGED <<serverBars, fromTs, toTs, periods, due, prevMin, sameStreak, batch,
                     tmpFile, dataset, manifest>>
  BY DEF WaitForUpdate, FetchStep, Unread, Files
<1>2. tokens \in Nat /\ Len(due) \in Nat /\ tokens + Len(due) <= 2
  BY <1>1 DEF FetchInv, FetchTyped, TokensMatch
<1>3. /\ tokens' \in Nat
      /\ tokens' = tokens - 1 \/ (tokens' = 0 /\ due = <<>>)
  BY <1>2 DEF WaitForUpdate, TakeToken, TimesOut
<1>4. tokens' + Len(due') <= 1
  BY <1>1, <1>2, <1>3
<1> QED
  BY <1>1, <1>3, <1>4 DEF FetchInv, FetchTyped, FetchPcs, NewestHeld, Wanted, NoOlder, TokensMatch,
              StreakMeans, Unanswered, Looping, RangeKept, Ranging

(* A streak of two needs two answers that are still due, and one token at     *)
(* most is left: nothing is older.                                            *)
LEMMA CompareKeeps == FetchInv /\ CompareMin => FetchInv'
<1> SUFFICES ASSUME FetchInv, CompareMin PROVE FetchInv'
  OBVIOUS
<1>1. FetchTyped /\ NewestHeld /\ TokensMatch /\ StreakMeans /\ RangeKept
  BY DEF FetchInv
<1>2. PICK streak : /\ streak = IF MinPeriodTime = prevMin /\ MinPeriodTime > 0
                                THEN sameStreak + 1 ELSE 0
                    /\ fetchPc = "compare"
                    /\ fetchPc' = IF NoOlderBars(streak) THEN "range" ELSE "loop"
                    /\ sameStreak' = streak /\ prevMin' = MinPeriodTime
  BY DEF CompareMin, FetchStep
<1>3. UNCHANGED <<serverBars, fromTs, toTs, periods, due, tokens, tmpFile, dataset, manifest>>
  BY DEF CompareMin, Unread, Files
<1>4. /\ sameStreak \in {0, 1} /\ tokens \in Nat /\ Len(due) \in Nat /\ tokens + Len(due) <= 1
      /\ prevMin \in Nat
  BY <1>1, <1>2 DEF FetchTyped, TokensMatch, StreakMeans, Looping
<1>5. MinPeriodTime \in Nat /\ (MinPeriodTime > 0 => periods # {} /\ Min(periods) = MinPeriodTime)
  <2>1. periods # {} => Min(periods) \in Nat
    BY <1>1, PeriodFacts, OldestBar
  <2> QED
    BY <2>1 DEF MinPeriodTime
<1>6. streak \in {0, 1, 2} /\ (streak = 0 \/ streak = sameStreak + 1)
  BY <1>2, <1>4
<1>7. streak # 0 => prevMin > 0 /\ Min(periods) = prevMin /\ (NoOlder \/ Len(due) >= streak)
  <2> SUFFICES ASSUME streak # 0
               PROVE  prevMin > 0 /\ Min(periods) = prevMin /\ (NoOlder \/ Len(due) >= streak)
    OBVIOUS
  <2>1. MinPeriodTime = prevMin /\ MinPeriodTime > 0 /\ streak = sameStreak + 1
    BY <1>2
  <2> QED
    BY <1>1, <1>2, <1>5, <2>1 DEF StreakMeans, Unanswered, Looping
<1>8. FetchTyped' /\ NewestHeld'
  <2>1. fetchPc' \in FetchPcs /\ sameStreak' \in Nat /\ prevMin' \in Nat
    BY <1>2, <1>5, <1>6 DEF FetchPcs, Looping, Ranging
  <2> QED
    BY <1>1, <1>3, <2>1 DEF FetchTyped, NewestHeld, Wanted
<1>9. CASE NoOlderBars(streak)
  <2>1. streak = 2
    BY <1>6, <1>9 DEF NoOlderBars
  <2>2. NoOlder
    BY <1>4, <1>7, <2>1
  <2>3. \A u \in Wanted : u \in periods
    BY <1>1, <2>2, NoOlderHeld
  <2>4. fetchPc' = "range"
    BY <1>2, <1>9
  <2>5. TokensMatch' /\ StreakMeans'
    BY <1>2, <2>4 DEF TokensMatch, StreakMeans, Looping
  <2>6. RangeKept'
    BY <1>1, <1>2, <1>3, <2>3, <2>4 DEF RangeKept, Ranging, Wanted
  <2> QED
    BY <1>8, <2>5, <2>6 DEF FetchInv
<1>10. CASE ~NoOlderBars(streak)
  <2>1. fetchPc' = "loop" /\ streak \in {0, 1}
    BY <1>2, <1>6, <1>10 DEF NoOlderBars
  <2>2. TokensMatch'
    BY <1>3, <1>4, <2>1 DEF TokensMatch
  <2>3. NoOlder \/ Len(due) >= streak
    BY <1>4, <1>6, <1>7
  <2>4. prevMin' > 0 => periods # {} /\ Min(periods) = prevMin' /\ Min(periods) <= prevMin'
    BY <1>2, <1>5
  <2>5. StreakMeans'
    BY <1>2, <1>3, <2>1, <2>3, <2>4 DEF StreakMeans, Unanswered, Looping, NoOlder, Wanted
  <2>6. RangeKept'
    BY <1>1, <1>2, <1>3, <2>1 DEF RangeKept, Ranging
  <2> QED
    BY <1>8, <2>2, <2>5, <2>6 DEF FetchInv
<1> QED
  BY <1>9, <1>10

(* The range is copied when all of it is there; no older bar of it can arrive *)
(* any more.                                                                  *)
LEMMA RangeIsAll ==
    ASSUME FetchTyped, NewestHeld, \A u \in Wanted : fromTs <= u => u \in periods
    PROVE  FetchRange = RangeBars
<1>1. ASSUME NEW u \in FetchRange PROVE u \in RangeBars
  BY <1>1 DEF FetchRange, RangeBars, NewestHeld, Wanted
<1>2. ASSUME NEW u \in RangeBars PROVE u \in FetchRange
  BY <1>2 DEF FetchRange, RangeBars, Wanted
<1> QED
  BY <1>1, <1>2

LEMMA OpenWriterKeeps == FetchInv /\ OpenWriter => FetchInv'
<1> SUFFICES ASSUME FetchInv, OpenWriter PROVE FetchInv'
  OBVIOUS
<1>1. /\ fetchPc = "range"
      /\ \/ fetchPc' = "error" /\ ~tmpFile'
         \/ fetchPc' = "write"
      /\ UNCHANGED <<serverBars, fromTs, toTs, periods, due, tokens, prevMin, sameStreak, dataset,
                     manifest>>
  BY DEF OpenWriter, FetchStep, Unread, Files
<1> QED
  BY <1>1 DEF FetchInv, FetchTyped, FetchPcs, NewestHeld, Wanted, TokensMatch, StreakMeans, Looping,
              RangeKept, Ranging

LEMMA WriteBarsKeeps == FetchInv /\ WriteBars => FetchInv'
<1> SUFFICES ASSUME FetchInv, WriteBars PROVE FetchInv'
  OBVIOUS
<1>1. /\ fetchPc = "write" /\ ~tmpFile'
      /\ \/ fetchPc' = "error"
         \/ fetchPc' = "manifest" /\ dataset' = FetchRange
      /\ UNCHANGED <<serverBars, fromTs, toTs, periods, due, tokens, prevMin, sameStreak, manifest>>
  BY DEF WriteBars, FetchStep, Unread, Files
<1>2. FetchTyped /\ NewestHeld /\ RangeKept
  BY DEF FetchInv
<1>3. FetchRange = RangeBars
  BY <1>1, <1>2, RangeIsAll DEF RangeKept, Ranging
<1>4. RangeBars' = RangeBars
  BY <1>1 DEF RangeBars
<1> QED
  BY <1>1, <1>3, <1>4 DEF FetchInv, FetchTyped, FetchPcs, NewestHeld, Wanted, TokensMatch, StreakMeans,
              Looping, RangeKept, Ranging

LEMMA WriteManifestKeeps == FetchInv /\ WriteManifest => FetchInv'
<1> SUFFICES ASSUME FetchInv, WriteManifest PROVE FetchInv'
  OBVIOUS
<1>1. /\ fetchPc = "manifest"
      /\ \/ fetchPc' = "error"
         \/ fetchPc' = "done" /\ manifest' = dataset
      /\ UNCHANGED <<serverBars, fromTs, toTs, periods, due, tokens, prevMin, sameStreak, tmpFile,
                     dataset>>
  BY DEF WriteManifest, FetchStep, Unread, Files
<1>2. RangeBars' = RangeBars
  BY <1>1 DEF RangeBars
<1> QED
  BY <1>1, <1>2 DEF FetchInv, FetchTyped, FetchPcs, NewestHeld, Wanted, TokensMatch, StreakMeans,
              Looping, RangeKept, Ranging

LEMMA FetchStopKeeps == FetchInv /\ (TooManyBatches \/ FetchCancelled) => FetchInv'
<1> SUFFICES ASSUME FetchInv, TooManyBatches \/ FetchCancelled PROVE FetchInv'
  OBVIOUS
<1>1. /\ fetchPc' = "error" /\ fetchPc \in {"first wait", "loop", "wait", "compare"}
      /\ UNCHANGED <<serverBars, fromTs, toTs, periods, due, tokens, prevMin, sameStreak, tmpFile>>
  BY DEF TooManyBatches, FetchCancelled, FetchStep, Unread, Files
<1>2. ~tmpFile' /\ tokens' \in Nat
  BY <1>1 DEF FetchInv, RangeKept, FetchTyped
<1> QED
  BY <1>1, <1>2, FailureKeeps

LEMMA FetchUnchanged == FetchInv /\ UNCHANGED fetchVars => FetchInv'
<1> SUFFICES ASSUME FetchInv, UNCHANGED fetchVars PROVE FetchInv'
  OBVIOUS
<1>1. /\ FetchTyped' /\ NewestHeld' /\ TokensMatch'
      /\ RangeKept'
  BY DEF fetchVars, FetchInv, FetchTyped, NewestHeld, Wanted, TokensMatch, RangeKept, RangeBars
<1>2. StreakMeans'
  BY DEF fetchVars, FetchInv, StreakMeans, NoOlder, Wanted, Unanswered
<1> QED
  BY <1>1, <1>2 DEF FetchInv

LEMMA FetchInvComplete == FetchInv => FetchComplete
  BY DEF FetchInv, RangeKept, RangeBars, Ranging, FetchComplete

(* A fetch that succeeds has every bar the server has in the range, its       *)
(* manifest describes the file, and one that fails leaves no temporary file,  *)
(* whichever way answers, dropped tokens and timeouts fall together           *)
(* (fetchUntil and fetchAndWrite, chart.go and parquet writer).               *)
THEOREM FetchesAreComplete == FetchSpec => []FetchComplete
<1>1. FetchInit => FetchInv
  BY FetchInitInv
<1>2. FetchInv /\ [FetchNext]_fetchVars => FetchInv'
  BY AnswerKeeps, SubscribeKeeps, InitialBatchKeeps, FirstWaitKeeps, RequestKeeps, WaitKeeps,
     CompareKeeps, OpenWriterKeeps, WriteBarsKeeps, WriteManifestKeeps, FetchStopKeeps,
     FetchUnchanged DEF FetchNext, Fetching
<1>3. FetchInv => FetchComplete
  BY FetchInvComplete
<1> QED
  BY <1>1, <1>2, <1>3, PTL DEF FetchSpec
=============================================================================
