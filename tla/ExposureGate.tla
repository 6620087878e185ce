---------------------------- MODULE ExposureGate ----------------------------
(***************************************************************************)
(* The in-flight exposure gate of one trading account: every               *)
(* SubmitOrder runs ValidatedZmqAdapter.send_order_and_wait as a coroutine *)
(* that snapshots the realized position, reserves lots in a Redis counter  *)
(* by a Lua script, sends the order to MT5 over ZeroMQ, books the fill in  *)
(* the account's P&L tracker, releases the reservation, and has its        *)
(* outcome turned into one Nautilus event by dispatch_submit_order.        *)
(*                                                                         *)
(* A coroutine runs without interruption from one await to the next, so    *)
(* one action is the code between two awaits; a Redis command and the code *)
(* that consumes its reply are one action, because nobody else can observe *)
(* the time between them.  Accounts share nothing in this code path (the   *)
(* counter, the tracker and the cap are all keyed by account id), so one   *)
(* account is modelled.                                                    *)
(***************************************************************************)
EXTENDS Integers, FiniteSets

CONSTANTS
    Orders,         \* orders submitted for the account, one coroutine each
    Volume,         \* Volume[o]: requested lots, in units of 0.01 lot
    MaxLots,        \* what max_lots_provider answers for the account
    Faults,         \* which disturbances of the environment may happen
    TrackerExists   \* the account has traded before: its tracker is registered

FaultKinds ==
    {"redis",    \* a Redis command raises, before or after the server ran it
     "slow",     \* MT5 answers after the send timeout, or never
     "send",     \* the ZeroMQ send raises (not connected, ZMQError)
     "cancel",   \* the coroutine is cancelled at an await
     "ungated",  \* no limit, or no risk state, is known for an order
     "irregular",\* MT5 fills partially, or reports a fill without a price
     "crash"}    \* the engine process dies and is started again

ASSUME OrdersFinite == IsFiniteSet(Orders)
ASSUME VolumePositive == Volume \in [Orders -> Nat \ {0}]
ASSUME MaxLotsNat == MaxLots \in Nat
ASSUME FaultsKnown == Faults \subseteq FaultKinds
ASSUME TrackerFlag == TrackerExists \in BOOLEAN

VARIABLES
    pc,         \* pc[o]: the await the coroutine of o is suspended at
    cap,        \* cap[o]: max_total_for_reserve, computed from the snapshot
    held,       \* held[o]: the local `reservation` is not None
    outcome,    \* outcome[o]: what send_order_and_wait returns or raises
    reserved,   \* Redis account:{id}:reserved_lots (0: the key is absent)
    registered, \* the registry has a tracker for the account
    positions,  \* position ids in the registered tracker
    pending,    \* ZmqAdapter._pending_orders
    mt5,        \* mt5[o]: the order at the bridge and the MT5 terminal
    leaked,     \* history: reservations in the counter that nobody will release
    unguarded   \* history: orders whose lots the gate did not account for

vars == <<pc, cap, held, outcome, reserved, registered, positions, pending,
          mt5, leaked, unguarded>>

(* One value per await of the coroutine, plus before and after it. *)
Awaits == {"new", "reserving", "sending", "waiting", "result", "balance",
           "persist", "releasing", "done"}

Outcomes == {"none", "blocked", "filled", "noprice", "partial", "rejected",
             "timeout", "error", "cancelled", "died"}

(* OrderStatus; "noprice" is FILLED without a fill_price, ERROR is rejected. *)
MT5Status == {"idle", "sent", "filled", "noprice", "partial", "rejected"}

(* OrderResult.is_filled: PARTIALLY_FILLED is not a fill. *)
IsFilled(status) == status \in {"filled", "noprice"}

(***************************************************************************)
(* Lots(S) is the total volume of the orders in S: the number of pairs of  *)
(* an order and one of its units.                                          *)
(***************************************************************************)
Units(S) == UNION {{o} \X (1..Volume[o]) : o \in S}
Lots(S) == Cardinality(Units(S))

Held == {o \in Orders : held[o]}
Opened == {o \in Orders : mt5[o] \in {"filled", "noprice", "partial"}}

(* get_total_position_lots: what the snapshot sees of the open positions. *)
Realized == Lots(positions)

(* Sent to MT5 with the answer still open. *)
InFlight == {o \in Orders : mt5[o] = "sent"}

TypeOK ==
    /\ pc \in [Orders -> Awaits]
    /\ cap \in [Orders -> Int]
    /\ held \in [Orders -> BOOLEAN]
    /\ outcome \in [Orders -> Outcomes]
    /\ reserved \in Nat
    /\ registered \in BOOLEAN
    /\ positions \in SUBSET Orders
    /\ pending \in SUBSET Orders
    /\ mt5 \in [Orders -> MT5Status]
    /\ leaked \in SUBSET Orders
    /\ unguarded \in SUBSET Orders

Init ==
    /\ pc = [o \in Orders |-> "new"]
    /\ cap = [o \in Orders |-> 0]
    /\ held = [o \in Orders |-> FALSE]
    /\ outcome = [o \in Orders |-> "none"]
    /\ reserved = 0
    /\ registered = TrackerExists
    /\ positions = {}
    /\ pending = {}
    /\ mt5 = [o \in Orders |-> "idle"]
    /\ leaked = {}
    /\ unguarded = {}

Goto(o, await) == pc' = [pc EXCEPT ![o] = await]

(* The coroutine leaves the adapter: an exception or the result. *)
Finish(o, out) ==
    /\ Goto(o, "done")
    /\ outcome' = [outcome EXCEPT ![o] = out]

(* The handler that releases the reservation runs next, then out is raised. *)
Unwind(o, out) ==
    /\ Goto(o, "releasing")
    /\ outcome' = [outcome EXCEPT ![o] = out]

-----------------------------------------------------------------------------
(* The Redis counter.                                                      *)

(* Mutant of Fits: the lots already reserved are not read. *)
FitsBlind(o) == cap[o] >= 0 /\ Volume[o] <= cap[o]

(* atomic_reserve.lua: does the reservation fit under the cap it was given?  *)
(* reserve() answers a negative cap without running the script.              *)
Fits(o) == cap[o] >= 0 /\ reserved + Volume[o] <= cap[o]

(* atomic_release.lua: saturates at zero. *)
AfterRelease(o) == IF reserved < Volume[o] THEN 0 ELSE reserved - Volume[o]

(* The cap o was given leaves out lots that are open at MT5 and no longer    *)
(* covered by a reservation, so granting it does not bound the exposure.     *)
Understated(o) == cap[o] > MaxLots - Lots(Opened \ Held)

-----------------------------------------------------------------------------
(* send_order_and_wait                                                     *)

(* _build_account_state: of an account without a risk state it shows no lots. *)
LotsSeen == {Realized} \cup (IF "ungated" \in Faults THEN {0} ELSE {})

(* Snapshot of the account, rule validation (synchronous) and the arguments  *)
(* of the reservation, up to the first await.                                *)
Validate(o) ==
    /\ pc[o] = "new"
    /\ \E lots \in LotsSeen : cap' = [cap EXCEPT ![o] = MaxLots - lots]
    /\ Goto(o, "reserving")
    /\ UNCHANGED <<held, outcome, reserved, registered, positions, pending,
                   mt5, unguarded, leaked>>

(* A rule blocks the order, the validator fails and blocks to be safe, or the *)
(* order is of a kind that has no translation and is denied before.           *)
RuleBlocks(o) ==
    /\ pc[o] = "new"
    /\ Finish(o, "blocked")
    /\ UNCHANGED <<cap, held, reserved, registered, positions, pending, mt5,
                   unguarded, leaked>>

(* max_lots_provider returns None: the order is sent without the gate. *)
ValidateUngated(o) ==
    /\ "ungated" \in Faults
    /\ pc[o] = "new"
    /\ Goto(o, "sending")
    /\ unguarded' = unguarded \cup {o}
    /\ UNCHANGED <<cap, held, outcome, reserved, registered, positions,
                   pending, mt5, leaked>>

Reserve(o) ==
    /\ pc[o] = "reserving"
    /\ Fits(o)
    /\ reserved' = reserved + Volume[o]
    /\ held' = [held EXCEPT ![o] = TRUE]
    /\ unguarded' = IF Understated(o) THEN unguarded \cup {o} ELSE unguarded
    /\ Goto(o, "sending")
    /\ UNCHANGED <<cap, outcome, registered, positions, pending, mt5, leaked>>

ReserveRejected(o) ==
    /\ pc[o] = "reserving"
    /\ ~Fits(o)
    /\ Finish(o, "blocked")
    /\ UNCHANGED <<cap, held, reserved, registered, positions, pending, mt5,
                   unguarded, leaked>>

(* reserve() raises (Redis is down, the reply is lost, start() was not        *)
(* called): the gate is skipped.  The script may have run on the server.      *)
ReserveRaises(o) ==
    /\ "redis" \in Faults
    /\ pc[o] = "reserving"
    /\ \/ UNCHANGED <<reserved, leaked>>
       \/ /\ Fits(o)
          /\ reserved' = reserved + Volume[o]
          /\ leaked' = leaked \cup {o}
    /\ unguarded' = unguarded \cup {o}
    /\ Goto(o, "sending")
    /\ UNCHANGED <<cap, held, outcome, registered, positions, pending, mt5>>

(* Cancelled while the script runs: CancelledError is not caught. *)
ReserveCancelled(o) ==
    /\ "cancel" \in Faults
    /\ pc[o] = "reserving"
    /\ \/ UNCHANGED <<reserved, leaked>>
       \/ /\ Fits(o)
          /\ reserved' = reserved + Volume[o]
          /\ leaked' = leaked \cup {o}
    /\ Finish(o, "cancelled")
    /\ UNCHANGED <<cap, held, registered, positions, pending, mt5, unguarded>>

(* ZmqAdapter.send_order_and_wait: register the future, publish the order. *)
Send(o) ==
    /\ pc[o] = "sending"
    /\ pending' = pending \cup {o}
    /\ mt5' = [mt5 EXCEPT ![o] = "sent"]
    /\ Goto(o, "waiting")
    /\ UNCHANGED <<cap, held, outcome, reserved, registered, positions,
                   unguarded, leaked>>

(* The send raises.  Only a timeout removes the future from _pending_orders. *)
SendRaises(o) ==
    /\ "send" \in Faults
    /\ pc[o] = "sending"
    /\ pending' = pending \cup {o}
    /\ Unwind(o, "error")
    /\ UNCHANGED <<cap, held, reserved, registered, positions, mt5,
                   unguarded, leaked>>

Answered == {"filled", "rejected"} \cup
            (IF "irregular" \in Faults THEN {"partial", "noprice"} ELSE {})

(* MT5 executes or refuses the order; the bridge publishes the result. *)
MT5Answers(o, status) ==
    /\ mt5[o] = "sent"
    /\ mt5' = [mt5 EXCEPT ![o] = status]
    /\ UNCHANGED <<pc, cap, held, outcome, reserved, registered, positions,
                   pending, unguarded, leaked>>

(* receive_ticks reads the result and resolves the future of the order. *)
ResultArrives(o) ==
    /\ mt5[o] \in Answered
    /\ pc[o] = "waiting"
    /\ pending' = pending \ {o}
    /\ outcome' = [outcome EXCEPT ![o] = mt5[o]]
    /\ Goto(o, "result")
    /\ UNCHANGED <<cap, held, reserved, registered, positions, mt5,
                   unguarded, leaked>>

(* A result whose waiter is gone only clears a leftover future. *)
LateResult(o) ==
    /\ mt5[o] \in Answered
    /\ pc[o] # "waiting"
    /\ o \in pending
    /\ pending' = pending \ {o}
    /\ UNCHANGED <<pc, cap, held, outcome, reserved, registered, positions,
                   mt5, unguarded, leaked>>

(* The reservation is given up while the order is still open at MT5. *)
Abandon(o) == unguarded' = unguarded \cup ({o} \cap InFlight)

(* asyncio.wait_for expires: the order may still be executed later. *)
Timeout(o) ==
    /\ "slow" \in Faults
    /\ pc[o] = "waiting"
    /\ pending' = pending \ {o}
    /\ Abandon(o)
    /\ Unwind(o, "timeout")
    /\ UNCHANGED <<cap, held, reserved, registered, positions, mt5, leaked>>

(* Cancelled while waiting for MT5: released, the future is left behind. *)
WaitCancelled(o) ==
    /\ "cancel" \in Faults
    /\ pc[o] = "waiting"
    /\ Abandon(o)
    /\ Unwind(o, "cancelled")
    /\ UNCHANGED <<cap, held, reserved, registered, positions, pending, mt5,
                   leaked>>

(* Not a fill: nothing to book. *)
NotFilled(o) ==
    /\ pc[o] = "result"
    /\ ~IsFilled(outcome[o])
    /\ Goto(o, "releasing")
    /\ UNCHANGED <<cap, held, outcome, reserved, registered, positions,
                   pending, mt5, unguarded, leaked>>

(* The account's tracker exists: get_or_create returns at once and            *)
(* on_trade_executed adds the position before its first await.                *)
BookFill(o) ==
    /\ pc[o] = "result"
    /\ IsFilled(outcome[o])
    /\ registered
    /\ positions' = positions \cup {o}
    /\ Goto(o, "persist")
    /\ UNCHANGED <<cap, held, outcome, reserved, registered, pending, mt5,
                   unguarded, leaked>>

(* No tracker yet: get_or_create awaits the balance from Redis. *)
FirstFill(o) ==
    /\ pc[o] = "result"
    /\ IsFilled(outcome[o])
    /\ ~registered
    /\ Goto(o, "balance")
    /\ UNCHANGED <<cap, held, outcome, reserved, registered, positions,
                   pending, mt5, unguarded, leaked>>

(* The balance arrives: a new tracker is registered under the account id,     *)
(* in place of any tracker registered meanwhile, and takes the position.      *)
CreateTracker(o) ==
    /\ pc[o] = "balance"
    /\ registered' = TRUE
    /\ positions' = {o}
    /\ Goto(o, "persist")
    /\ UNCHANGED <<cap, held, outcome, reserved, pending, mt5, unguarded,
                   leaked>>

(* The equity update and the balance write that end on_trade_executed. *)
Persist(o) ==
    /\ pc[o] = "persist"
    /\ Goto(o, "releasing")
    /\ UNCHANGED <<cap, held, outcome, reserved, registered, positions,
                   pending, mt5, unguarded, leaked>>

(* Redis raises, or the coroutine is cancelled, while the fill is booked. *)
BookingRaises(o) ==
    /\ pc[o] \in {"balance", "persist"}
    /\ \/ "redis" \in Faults /\ Unwind(o, "error")
       \/ "cancel" \in Faults /\ Unwind(o, "cancelled")
    /\ UNCHANGED <<cap, held, reserved, registered, positions, pending, mt5,
                   unguarded, leaked>>

(* Mutant of Release: lots are given back whether or not they were reserved. *)
ReleaseUnconditionally(o) ==
    /\ pc[o] = "releasing"
    /\ reserved' = AfterRelease(o)
    /\ held' = [held EXCEPT ![o] = FALSE]
    /\ Goto(o, "done")
    /\ UNCHANGED <<cap, outcome, registered, positions, pending, mt5,
                   unguarded, leaked>>

Release(o) ==
    /\ pc[o] = "releasing"
    /\ reserved' = IF held[o] THEN AfterRelease(o) ELSE reserved
    /\ held' = [held EXCEPT ![o] = FALSE]
    /\ Goto(o, "done")
    /\ UNCHANGED <<cap, outcome, registered, positions, pending, mt5,
                   unguarded, leaked>>

(* release() raises and is logged, or is cancelled; the script may have run. *)
ReleaseRaises(o) ==
    /\ pc[o] = "releasing"
    /\ held[o]
    /\ \/ UNCHANGED reserved /\ leaked' = leaked \cup {o}
       \/ reserved' = AfterRelease(o) /\ UNCHANGED leaked
    /\ held' = [held EXCEPT ![o] = FALSE]
    /\ Goto(o, "done")
    /\ \/ "redis" \in Faults /\ UNCHANGED outcome
       \/ "cancel" \in Faults /\ outcome' = [outcome EXCEPT ![o] = "cancelled"]
    /\ UNCHANGED <<cap, registered, positions, pending, mt5, unguarded>>

-----------------------------------------------------------------------------

(* Mutant of Expire: the scripts set no time to live. *)
ExpireNever == FALSE /\ UNCHANGED vars

(* The time to live of the counter, 900 s, is refreshed by every reserve and *)
(* release; a reservation is held for the 5 s send timeout and two Redis     *)
(* commands.  So the key expires only when nobody holds a reservation.       *)
Expire ==
    /\ reserved > 0
    /\ Held = {}
    /\ reserved' = 0
    /\ leaked' = {}
    /\ UNCHANGED <<pc, cap, held, outcome, registered, positions, pending,
                   mt5, unguarded>>

(* The process dies: coroutines, futures and trackers are gone, the counter  *)
(* and the orders at MT5 are not.  Recovery does not rebuild the trackers.   *)
Crash ==
    LET running == {o \in Orders : pc[o] \notin {"new", "done"}} IN
    /\ "crash" \in Faults
    /\ running # {}
    /\ pc' = [o \in Orders |-> IF o \in running THEN "done" ELSE pc[o]]
    /\ outcome' = [o \in Orders |-> IF o \in running THEN "died" ELSE outcome[o]]
    /\ held' = [o \in Orders |-> FALSE]
    /\ registered' = FALSE
    /\ positions' = {}
    /\ pending' = {}
    /\ leaked' = leaked \cup Held
    /\ unguarded' = unguarded \cup InFlight
    /\ UNCHANGED <<cap, reserved, mt5>>

(* What the coroutine of o does of itself, or is made to do by a fault. *)
Coroutine(o) ==
    \/ Validate(o) \/ RuleBlocks(o) \/ ValidateUngated(o)
    \/ Reserve(o) \/ ReserveRejected(o) \/ ReserveRaises(o) \/ ReserveCancelled(o)
    \/ Send(o) \/ SendRaises(o)
    \/ ResultArrives(o) \/ Timeout(o) \/ WaitCancelled(o)
    \/ NotFilled(o) \/ BookFill(o) \/ FirstFill(o) \/ CreateTracker(o)
    \/ Persist(o) \/ BookingRaises(o)
    \/ Release(o) \/ ReleaseRaises(o)

(* Every order has been answered. *)
Idle == /\ \A o \in Orders : pc[o] = "done"
        /\ UNCHANGED vars

Next ==
    \/ \E o \in Orders : Coroutine(o) \/ LateResult(o)
    \/ \E o \in Orders, status \in Answered : MT5Answers(o, status)
    \/ Expire
    \/ Crash
    \/ Idle

Spec == Init /\ [][Next]_vars

(* The event loop runs every coroutine that can run; send_order_and_wait has *)
(* a timer, so the wait for MT5 ends; Redis expires keys.  MT5 owes nothing  *)
(* when "slow" is among the faults, and answers in time otherwise.           *)
Fairness ==
    /\ \A o \in Orders : WF_vars(Coroutine(o))
    /\ WF_vars(Expire)
    /\ "slow" \notin Faults =>
         \A o \in Orders : WF_vars(\E status \in Answered : MT5Answers(o, status))

FairSpec == Spec /\ Fairness

-----------------------------------------------------------------------------

(* Mutants of TerminalEvent: no event for a timeout; a partial fill is        *)
(* reported as a fill.                                                        *)
TerminalEventNoTimeout(out) ==
    CASE out = "blocked" -> "denied"
      [] out = "filled" -> "filled"
      [] out \in {"noprice", "partial", "rejected", "error"} -> "rejected"
      [] out \in {"none", "cancelled", "died", "timeout"} -> "none"

TerminalEventPartial(out) ==
    CASE out = "blocked" -> "denied"
      [] out \in {"filled", "partial"} -> "filled"
      [] out \in {"noprice", "rejected", "timeout", "error"} -> "rejected"
      [] out \in {"none", "cancelled", "died"} -> "none"

(* dispatch_submit_order: the one Nautilus event that ends the order.        *)
(* CancelledError is no Exception and a dead process emits nothing.          *)
TerminalEvent(out) ==
    CASE out = "blocked" -> "denied"
      [] out = "filled" -> "filled"
      [] out \in {"noprice", "partial", "rejected", "timeout", "error"} -> "rejected"
      [] out \in {"none", "cancelled", "died"} -> "none"

Event(o) == IF pc[o] = "done" THEN TerminalEvent(outcome[o]) ELSE "none"

(* The Redis counter never exceeds the account's cap, whatever fails: leaked *)
(* reservations (lost replies, cancellations, crashes) are refused more, not *)
(* granted more.                                                             *)
CounterCapped == reserved <= MaxLots

(* The counter is exactly the lots of the reservations in use and of those    *)
(* that a lost reply, a cancellation or a crash left behind: no release,     *)
(* failed release or expiry takes away lots of another order or counts an    *)
(* order twice.                                                              *)
CounterExact == reserved = Lots(Held \cup leaked)

(* So the counter covers every order that still relies on its reservation.   *)
HeldCovered == Lots(Held) <= reserved

(* The gate's guarantee: of the lots that are open at MT5 or reserved, those *)
(* that the gate accounted for never exceed the cap.  What is left out are   *)
(* exactly the orders that went past it: sent without a reservation, granted *)
(* on a snapshot that missed open lots, or given up while open at MT5.       *)
GatedExposure == Lots((Held \cup Opened) \ unguarded) <= MaxLots

(* Where an order can be while its coroutine is at each await: it reaches    *)
(* MT5 only with a reservation or as unguarded, and stays so while open.     *)
CoroutineInv ==
    \A o \in Orders :
        /\ pc[o] \in {"new", "reserving", "sending"} => mt5[o] = "idle"
        /\ pc[o] \in {"new", "reserving", "done"} => ~held[o]
        /\ pc[o] \in {"new", "reserving"} \/ held[o] => o \notin leaked
        /\ pc[o] = "sending" => held[o] \/ o \in unguarded
        /\ mt5[o] = "sent" => held[o] \/ o \in unguarded
        /\ pc[o] \in {"result", "balance", "persist"} => mt5[o] # "sent"
        /\ pc[o] = "releasing" /\ mt5[o] = "sent" => o \in unguarded
        /\ cap[o] <= MaxLots

(* The inductive invariant behind CounterCapped, CounterExact, GatedExposure:*)
(* the grant of a reservation, the one step that raises the exposure, needs  *)
(* the counter to cover the reservations held and the cap to be at most      *)
(* MaxLots; a fill needs every open order to be reserved or unguarded.       *)
GateInv ==
    /\ TypeOK
    /\ CoroutineInv
    /\ CounterCapped
    /\ CounterExact
    /\ GatedExposure

(* What the strategy is told: "filled" only for an order MT5 filled, and     *)
(* "denied" only for an order MT5 never saw.                                 *)
EventsTruthful ==
    \A o \in Orders : /\ Event(o) = "filled" => mt5[o] = "filled"
                      /\ Event(o) = "denied" => mt5[o] = "idle"

(* Combined exposure, open at MT5 and in flight, never exceeds the cap.      *)
CombinedExposureCapped == Lots(Held \cup Opened) <= MaxLots

(* Every order submitted is answered by a terminal event, unless it is        *)
(* cancelled or its process dies.                                            *)
EveryOrderAnswered ==
    \A o \in Orders : <>(Event(o) # "none" \/ outcome[o] \in {"cancelled", "died"})

(* Lots are not lost for good: whatever was leaked, the counter is back at   *)
(* zero once the orders are through.                                         *)
CounterDrains == <>[](reserved = 0)
=============================================================================
