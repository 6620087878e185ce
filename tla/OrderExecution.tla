--------------------------- MODULE OrderExecution ---------------------------
(***************************************************************************)
(* OrderExecutionService with its PositionTracker and TradeDBWriter, for   *)
(* one account and symbol: signals become orders, fills become positions   *)
(* and trades, trades become rows.  Calls of execute_signal overlap; all   *)
(* that happens between two awaits of a call is one step.                  *)
(***************************************************************************)
EXTENDS BufferedWriter, Integers

CONSTANT Orders

NoOrder == "no order"

(* A trade's row is named by the order that opened the trade. *)
ASSUME OrdersWritten == Orders \subseteq Entries
ASSUME NoOrderOutside == NoOrder \notin Orders

VARIABLES
    order,      \* order[o]: [state, side, close], InternalOrder
    call,       \* call[o]: where execute_signal is
    position,   \* PositionTracker: the order that opened the position, or NoOrder
    trade,      \* trade[o]: the trade opened by o
    exiting,    \* the trade update_trade_exit is working on, or NoOrder
    closedRows, \* the rows of trades with status "closed"
    missedExits,\* history: exits whose UPDATE matched no row or failed
    net,        \* the lots open at MT5, buys positive
    untracked,  \* history: orders MT5 filled and the service did not book
    stranded    \* history: positions dropped by a fill of their own side, and that fill

fillVars == <<net, untracked, stranded>>
orderVars == <<order, call, position, trade, exiting, closedRows, missedExits, fillVars>>

OrderStates == {"pending", "submitted", "filled", "rejected", "error"}

(* _VALID_TRANSITIONS, without the states nothing enters. *)
OrderTransitions ==
    [s \in OrderStates |->
        CASE s = "pending"   -> {"submitted", "error"}
          [] s = "submitted" -> {"filled", "rejected", "error"}
          [] OTHER           -> {}]

(* transition_to raises on an invalid transition and leaves the state. *)
TransitionTo(s, target) == IF target \in OrderTransitions[s] THEN target ELSE s

OrderInit ==
    /\ order = [o \in Orders |-> [state |-> "pending", side |-> 1, close |-> FALSE]]
    /\ call = [o \in Orders |-> "idle"]
    /\ position = NoOrder
    /\ trade = [o \in Orders |-> "none"]
    /\ exiting = NoOrder
    /\ closedRows = {}
    /\ missedExits = {}
    /\ net = 0
    /\ untracked = {}
    /\ stranded = {}

-----------------------------------------------------------------------------
(* _create_order: a close takes the side opposite to the position's and       *)
(* raises when there is none.                                                 *)
CreateOrder(o, kind) ==
    CASE kind = "close" -> [state |-> "pending", side |-> -order[position].side, close |-> TRUE]
      [] kind = "buy"   -> [state |-> "pending", side |-> 1, close |-> FALSE]
      [] kind = "sell"  -> [state |-> "pending", side |-> -1, close |-> FALSE]

(* execute_signal up to the await of send_order_and_wait. *)
ExecuteSignal(o, kind) ==
    /\ call[o] = "idle"
    /\ kind = "close" => position # NoOrder
    /\ order' = [order EXCEPT ![o] =
                    [CreateOrder(o, kind) EXCEPT !.state = TransitionTo("pending", "submitted")]]
    /\ call' = [call EXCEPT ![o] = "waiting"]
    /\ UNCHANGED <<position, trade, exiting, closedRows, missedExits, fillVars>>
    /\ UNCHANGED writerVars

(* The end of the call: the finally clause forgets the pending order.  A      *)
(* raising call tries to move the order to "error".                           *)
Returns(o, state) ==
    /\ call' = [call EXCEPT ![o] = "done"]
    /\ order' = [order EXCEPT ![o].state = state]

(* PositionTracker.open_position refuses a second position of the symbol. *)
OpenPosition(o) == position = NoOrder /\ position' = o

(* PositionTracker.close_position *)
ClosePosition == position # NoOrder /\ position' = NoOrder

(* Trade.close: exit price, P&L and status of the trade the position opened.  *)
CloseTrade == trade' = [trade EXCEPT ![position] = "closed"]

(* TradeDBWriter.write_trade_entry *)
WriteTradeEntry(o) == AddEntry(o)

(* _handle_entry_fill.  PositionTracker refuses a second position: the call   *)
(* raises, the order stays filled and nothing is booked.  Otherwise the       *)
(* position, the trade and the row are made, in this order; then the audit    *)
(* entry is written, and its failure raises without undoing anything.         *)
HandleEntryFill(o) ==
    IF position # NoOrder
    THEN /\ untracked' = untracked \cup {o}
         /\ UNCHANGED <<position, trade>>
         /\ UNCHANGED writerVars
    ELSE /\ OpenPosition(o)
         /\ trade' = [trade EXCEPT ![o] = "open"]
         /\ WriteTradeEntry(o)
         /\ UNCHANGED untracked

(* Mutant: the position outlives its closing. *)
HandleCloseFillKeeps(o) ==
    /\ trade' = IF position = NoOrder THEN trade ELSE [trade EXCEPT ![position] = "closed"]
    /\ exiting' = position
    /\ flush' = [flush EXCEPT !["exit"] = IF position = NoOrder THEN @ ELSE Ready]
    /\ untracked' = IF position = NoOrder THEN untracked \cup {o} ELSE untracked
    /\ UNCHANGED <<position, stranded>>
    /\ UNCHANGED <<writing, buffer, table, accepted, gone, failures>>

(* _handle_close_fill: the position is taken out and its trade closed; the    *)
(* update of the row is started.  Without a position, because another close   *)
(* came first, only a warning is logged, though MT5 has opened the opposite.  *)
(* The position taken out is whichever the symbol has now: it may have been   *)
(* opened after the close was created, and be on the side the close is on.    *)
(* Bound: one update of a row at a time.                                      *)
HandleCloseFill(o) ==
    IF position = NoOrder
    THEN /\ untracked' = untracked \cup {o}
         /\ UNCHANGED <<position, trade, exiting, stranded>>
         /\ UNCHANGED writerVars
    ELSE /\ exiting = NoOrder
         /\ ClosePosition
         /\ CloseTrade
         /\ exiting' = position
         /\ flush' = [flush EXCEPT !["exit"] = Ready]
         /\ stranded' = IF order[position].side = order[o].side
                        THEN stranded \cup {o, position} ELSE stranded
         /\ UNCHANGED untracked
         /\ UNCHANGED <<writing, buffer, table, accepted, gone, failures>>

(* _handle_result with a filled result. *)
Filled(o) ==
    /\ call[o] = "waiting"
    /\ net' = net + order[o].side
    /\ Returns(o, TransitionTo("submitted", "filled"))
    /\ IF order[o].close THEN HandleCloseFill(o)
       ELSE HandleEntryFill(o) /\ UNCHANGED <<exiting, stranded>>
    /\ UNCHANGED <<closedRows, missedExits>>

Rejected(o) ==
    /\ call[o] = "waiting"
    /\ Returns(o, TransitionTo("submitted", "rejected"))
    /\ UNCHANGED <<position, trade, exiting, closedRows, missedExits, fillVars>>
    /\ UNCHANGED writerVars

(* A result that is neither filled nor rejected, as a partial fill, is        *)
(* ignored: the call returns an order that is still submitted.                *)
PartiallyFilled(o) ==
    /\ call[o] = "waiting"
    /\ net' = net + order[o].side
    /\ untracked' = untracked \cup {o}
    /\ Returns(o, "submitted")
    /\ UNCHANGED <<position, trade, exiting, closedRows, missedExits, stranded>>
    /\ UNCHANGED writerVars

(* TimeoutError or another exception of the adapter: the order ends in error, *)
(* and MT5 may have filled it all the same.                                   *)
TimedOut(o) ==
    /\ call[o] = "waiting"
    /\ Returns(o, TransitionTo("submitted", "error"))
    /\ \/ UNCHANGED <<net, untracked>>
       \/ net' = net + order[o].side /\ untracked' = untracked \cup {o}
    /\ UNCHANGED <<position, trade, exiting, closedRows, missedExits, stranded>>
    /\ UNCHANGED writerVars

(* update_trade_exit after its flush: an UPDATE of the row, if it is there. *)
UpdateTradeExit ==
    /\ exiting # NoOrder
    /\ flush["exit"] = None
    /\ exiting' = NoOrder
    /\ IF exiting \in table
       THEN closedRows' = closedRows \cup {exiting} /\ UNCHANGED missedExits
       ELSE missedExits' = missedExits \cup {exiting} /\ UNCHANGED closedRows
    /\ UNCHANGED <<order, call, position, trade, fillVars>>
    /\ UNCHANGED writerVars

(* The UPDATE raises: logged. *)
UpdateFails ==
    /\ exiting # NoOrder
    /\ flush["exit"] = None
    /\ failures < MaxFailures
    /\ failures' = failures + 1
    /\ exiting' = NoOrder
    /\ missedExits' = missedExits \cup {exiting}
    /\ UNCHANGED <<order, call, position, trade, closedRows, fillVars>>
    /\ UNCHANGED <<writing, buffer, flush, table, accepted, gone>>

WriterTask ==
    \/ TimerFires \/ StopWriter \/ StartWriter
    \/ \E f \in AllFlushers :
        TakeBuffer(f) \/ InsertOk(f) \/ InsertFails(f) \/ InsertConflicts(f)

OrderNext ==
    \/ \E o \in Orders :
        \/ \E kind \in {"buy", "sell", "close"} : ExecuteSignal(o, kind)
        \/ Filled(o) \/ Rejected(o) \/ PartiallyFilled(o) \/ TimedOut(o)
    \/ UpdateTradeExit \/ UpdateFails
    \/ WriterTask /\ UNCHANGED orderVars

-----------------------------------------------------------------------------
SideOf(o) == IF o = NoOrder THEN 0 ELSE order[o].side

(* The lots of a set of filled orders, buys less sells. *)
Lots(filled) == Cardinality({o \in filled : order[o].side = 1})
                - Cardinality({o \in filled : order[o].side = -1})

(* The open trade is the position's; a fill is left unbooked only by a        *)
(* timeout, a partial fill, a second entry or a second close; and the exit of *)
(* every closed trade is in its row, under way, or missed because the row was *)
(* not in the table yet or the database failed.                               *)
TradesAccounted ==
    /\ \A o \in Orders : trade[o] = "open" <=> o = position
    /\ \A o \in untracked : trade[o] = "none"
    /\ {o \in Orders : trade[o] = "closed"} =
           closedRows \cup missedExits \cup ({exiting} \ {NoOrder})
    /\ closedRows \subseteq table

(* The position the service believes in, with the fills it did not book and   *)
(* the positions a late close stranded, is what is open at MT5, however       *)
(* calls, timeouts and closes overlap, and its trades are accounted for.      *)
FillsAccounted ==
    /\ net = SideOf(position) + Lots(untracked) + Lots(stranded)
    /\ TradesAccounted

OrderSpec == OrderInit /\ WriterInit /\ [][OrderNext]_<<orderVars, writerVars>>
=============================================================================
