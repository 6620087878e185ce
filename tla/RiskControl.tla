---------------------------- MODULE RiskControl -----------------------------
(***************************************************************************)
(* The risk state of one account: PnLTracker keeps positions and balance,  *)
(* RiskStateRegistry keeps the RiskState the rules are checked against and *)
(* its copy in Redis, RiskIsolationService pauses the account at a breach. *)
(*                                                                         *)
(* The writers of a RiskState take the account's lock; the readers and the *)
(* daily reset do not, and a first use that finds no manager loads one     *)
(* from Redis across an await.  A task is one call of a public operation;  *)
(* it runs from one await to the next in one step.                         *)
(***************************************************************************)
EXTENDS ComplianceRules

CONSTANTS
    Tasks,            \* calls that may be in flight together
    Positions,        \* order ids of positions
    Marks,            \* unrealized P&L a price change may give a position
    Results,          \* realized P&L of a closed trade
    Equities,         \* equities reported from outside the tracker
    StartBalance,     \* balance the account starts with
    LossLimit,        \* daily loss limit, percent
    DrawdownLimit,    \* max drawdown limit, percent
    MaxOps,           \* bound: operations started
    MaxFaults         \* bound: failing commands and crashes

ASSUME RiskBounds == MaxOps \in Nat /\ MaxFaults \in Nat /\ StartBalance \in Nat \ {0}
ASSUME RiskLimits == LossLimit \in 1..100 /\ DrawdownLimit \in 1..100
ASSUME RiskTasks == IsFiniteSet(Tasks)
ASSUME RiskAmounts == Marks \cup Results \cup Equities \subseteq Int   \* in cents, say

VARIABLES
    task,       \* Tasks -> the call in progress, or Idle
    queue,      \* the account's lock: its holder, then the waiters in order
    mem,        \* the registered manager's RiskState, or NoState
    stored,     \* risk:{account}:state in Redis, or NoState
    tracker,    \* the account's PnLTracker, or NoTracker
    balance,    \* account:{account}:balance in Redis
    status,     \* account status in Redis
    violations, \* violations recorded in Redis
    trades,     \* history: realized P&L applied since the daily reset
    spoiled,    \* history: why memory may differ from Redis or the history
    ops, faults

riskVars == <<task, queue, mem, stored, tracker, balance, status, violations,
              trades, spoiled, ops, faults>>

NoState == [start |-> -1]
NoTracker == [bal |-> -1]
Idle == [kind |-> "none", todo |-> <<>>, at |-> "idle", pnl |-> 0, equity |-> 0,
         seen |-> NoState, owes |-> FALSE]

-----------------------------------------------------------------------------
(* RiskState.  The two percentages are functions of the other fields.        *)

FreshState == [daily |-> 0, equity |-> 0, peak |-> 0, start |-> 0]

UpdateEquity(s, e) ==
    [s EXCEPT !.equity = e, !.peak = IF e > s.peak THEN e ELSE s.peak]

(* Mutant of RecordTrade: the latest result replaces the day's. *)
RecordTradeOverwrites(s, pnl) == [s EXCEPT !.daily = pnl]

RecordTrade(s, pnl) == [s EXCEPT !.daily = s.daily + pnl]

ResetDaily(s, b) == [s EXCEPT !.daily = 0, !.start = b]

DailyPnlPercent(s) == IF s.start > 0 THEN Ratio(s.daily * 100, s.start) ELSE Zero
DrawdownFromPeak(s) ==
    IF s.peak <= 0 THEN Zero ELSE Ratio((s.peak - s.equity) * 100, s.peak)

(* Mutant of CheckMaxDrawdown: a drawdown at the limit is no violation. *)
CheckMaxDrawdownAbove(s) == AtLeast(DrawdownFromPeak(s), DrawdownLimit + 1)

CheckDailyLossLimit(s) ==
    s.daily < 0 /\ AtLeast(Ratio(Abs(DailyPnlPercent(s).num), DailyPnlPercent(s).den),
                           LossLimit)
CheckMaxDrawdown(s) == AtLeast(DrawdownFromPeak(s), DrawdownLimit)

(* The two limits in terms of the amounts, for the history and the properties. *)
LossBreached(s) == s.start > 0 /\ -s.daily * 100 >= LossLimit * s.start
DrawdownBreached(s) == s.peak > 0 /\ (s.peak - s.equity) * 100 >= DrawdownLimit * s.peak
Breached(step, s) ==
    \/ step = "check_daily" /\ LossBreached(s)
    \/ step = "check_drawdown" /\ DrawdownBreached(s)

(* check_account_violation for the rule a step of a task names. *)
Violated(step, s) ==
    CASE step = "check_daily" -> CheckDailyLossLimit(s)
      [] step = "check_drawdown" -> CheckMaxDrawdown(s)
      [] OTHER -> FALSE

-----------------------------------------------------------------------------
(* What an order is validated against.                                     *)

(* _build_account_state: an account without a manager gets zeros. *)
BuildAccountState(s) ==
    IF s = NoState
    THEN [daily_pnl_percent |-> Zero, total_drawdown_percent |-> Zero,
          initial_balance |-> 0, current_equity |-> 0, account_balance |-> 0,
          total_pnl_percent |-> Zero]
    ELSE [daily_pnl_percent |-> DailyPnlPercent(s),
          total_drawdown_percent |-> DrawdownFromPeak(s),
          initial_balance |-> s.start, current_equity |-> s.equity,
          account_balance |-> s.start, total_pnl_percent |-> DailyPnlPercent(s)]

LossRules ==
    ParseRules(<<[type |-> "max_drawdown", threshold_percent |-> DrawdownLimit],
                 [type |-> "daily_loss_limit", threshold_percent |-> LossLimit]>>)

(* The decision an order gets that is validated now: from the read of the     *)
(* risk state to the engine's result there is no await.                       *)
Decision == EngineValidate(LossRules, BuildAccountState(mem), TRUE, FALSE).action

-----------------------------------------------------------------------------
(* PnLTracker                                                              *)

(* `pos` maps the open positions to their unrealized P&L. *)
Unrealized(tr) == FoldFunction(LAMBDA u, sum : u + sum, 0, tr.pos)

RecalculateEquity(tr) == [tr EXCEPT !.eq = tr.bal + Unrealized(tr)]

(* PnLTrackerRegistry.get_or_create, from the stored balance. *)
GetOrCreateTracker ==
    IF tracker # NoTracker THEN tracker
    ELSE [bal |-> balance, day |-> 0, eq |-> balance, pos |-> <<>>]

(* A fill opens a position with its mark at the entry price, or adds to it. *)
OnTradeExecuted(tr, p) ==
    RecalculateEquity([tr EXCEPT !.pos = [o \in DOMAIN tr.pos \cup {p} |-> Get(tr.pos, o, 0)]])

OnTick(tr, mark) ==
    RecalculateEquity([tr EXCEPT !.pos = [p \in DOMAIN tr.pos |-> mark[p]]])

(* on_position_closed up to its first await: the equity is not recomputed yet. *)
OnPositionClosed(tr, p, pnl) ==
    [tr EXCEPT !.pos = [o \in DOMAIN tr.pos \ {p} |-> tr.pos[o]],
               !.day = tr.day + pnl, !.bal = tr.bal + pnl]

-----------------------------------------------------------------------------
(* Tasks.  `todo` is what is left of an operation; `at` the await a task is   *)
(* suspended at.                                                              *)

Locked == {"update", "record"}

Program(kind) ==
    CASE kind = "tick"   -> <<"update">>
      [] kind = "fill"   -> <<"update", "save">>
      [] kind = "close"  -> <<"record", "save", "update">>
      [] kind = "equity" -> <<"update", "check_drawdown">>
      [] kind = "trade"  -> <<"record", "check_daily">>
      [] kind = "mt5"    -> <<"save", "update">>
      [] kind = "reset"  -> <<"reset">>
      [] kind = "pre"    -> <<"check_drawdown">>

Service(k) == k.kind \in {"equity", "trade"}

Applied(step, k, s) ==
    CASE step = "update" -> UpdateEquity(s, k.equity)
      [] step = "record" -> RecordTrade(s, k.pnl)
      [] step = "reset"  -> ResetDaily(s, k.equity)
      [] OTHER -> s

History(step, k) ==
    CASE step = "record" -> trades + k.pnl
      [] step = "reset" -> 0
      [] OTHER -> trades

(* With a manager at hand a mutation is applied and its write sent; a check   *)
(* is answered at once and, in the service, a violation leads to the pause.   *)
WithManager(t, k, s) ==
    LET step == Head(k.todo)
        new  == Applied(step, k, s)
    IN  /\ mem' = new
        /\ trades' = History(step, k)
        /\ task' = [task EXCEPT ![t] =
              IF step \in Locked \cup {"reset"}
              THEN [k EXCEPT !.at = "writing", !.seen = new,
                             !.owes = Service(k) /\ Len(k.todo) = 2
                                         /\ Breached(k.todo[2], new)]
              ELSE IF Service(k) /\ Violated(step, s)
                   THEN [k EXCEPT !.at = "pausing"]
                   ELSE [Idle EXCEPT !.owes = k.owes /\ Breached(step, s)]]

(* get_or_create: without a manager the state is read from Redis first. *)
GetOrCreate(t, k, s, q) ==
    /\ queue' = q
    /\ IF s = NoState
       THEN /\ task' = [task EXCEPT ![t] = [k EXCEPT !.at = "loading"]]
            /\ UNCHANGED <<mem, trades>>
       ELSE WithManager(t, k, s)

(* Runs a task on to its next await.  A lock that is free is taken at once. *)
Continue(t, k, q) ==
    CASE k.todo = <<>> ->
           /\ task' = [task EXCEPT ![t] = [Idle EXCEPT !.owes = k.owes]]
           /\ queue' = q
           /\ UNCHANGED <<mem, trades>>
      [] k.todo # <<>> /\ Head(k.todo) = "save" ->
           /\ task' = [task EXCEPT ![t] = [k EXCEPT !.at = "saving"]]
           /\ queue' = q
           /\ UNCHANGED <<mem, trades>>
      [] k.todo # <<>> /\ Head(k.todo) \in Locked ->
           IF q = <<>> THEN GetOrCreate(t, k, mem, <<t>>)
           ELSE /\ task' = [task EXCEPT ![t] = [k EXCEPT !.at = "queued"]]
                /\ queue' = Append(q, t)
                /\ UNCHANGED <<mem, trades>>
      [] OTHER -> GetOrCreate(t, k, mem, q)

Call(kind, pnl, equity) ==
    [Idle EXCEPT !.kind = kind, !.todo = Program(kind), !.pnl = pnl, !.equity = equity]

Start(t, k) ==
    /\ task[t].at = "idle" /\ ops < MaxOps
    /\ ops' = ops + 1
    /\ Continue(t, k, queue)
    /\ UNCHANGED <<stored, balance, status, violations, spoiled, faults>>

TradeExecuted(t) ==
    \E p \in Positions :
        LET tr == OnTradeExecuted(GetOrCreateTracker, p)
        IN  tracker' = tr /\ Start(t, Call("fill", 0, tr.eq))

(* on_tick_all holds a lock of its own, so one tick is worked off at a time. *)
Tick(t) ==
    /\ tracker # NoTracker /\ tracker.pos # <<>>
    /\ \A u \in Tasks : task[u].kind # "tick"
    /\ \E mark \in [Positions -> Marks] :
         LET tr == OnTick(tracker, mark)
         IN  tracker' = tr /\ Start(t, Call("tick", 0, tr.eq))

ClosePosition(t) ==
    /\ tracker # NoTracker
    /\ \E p \in DOMAIN tracker.pos, pnl \in Results :
         /\ tracker' = OnPositionClosed(tracker, p, pnl)
         /\ Start(t, Call("close", pnl, 0))

EquityUpdate(t) == \E e \in Equities : Start(t, Call("equity", 0, e)) /\ UNCHANGED tracker
TradeCompleted(t) == \E r \in Results : Start(t, Call("trade", r, 0)) /\ UNCHANGED tracker
CheckPreTrade(t) == Start(t, Call("pre", 0, 0)) /\ UNCHANGED tracker

(* on_mt5_balance_update, when the debounce lets it through. *)
Mt5BalanceUpdate(t) == \E e \in Equities : Start(t, Call("mt5", 0, e)) /\ UNCHANGED tracker

(* reset_daily_all of both registries: the tracker's balance is replaced and   *)
(* its equity left as it is.                                                  *)
DailyReset(t) ==
    /\ tracker' = IF tracker = NoTracker THEN tracker
                  ELSE [tracker EXCEPT !.day = 0, !.bal = StartBalance]
    /\ Start(t, Call("reset", 0, StartBalance))

-----------------------------------------------------------------------------
(* The awaits.                                                             *)

(* RiskState.from_dict of what Redis answered: fields that are absent are zero. *)
FromDict(fields) == IF fields = NoState THEN FreshState ELSE fields

(* hgetall has answered. *)
LoadReads(t) ==
    /\ task[t].at = "loading"
    /\ task' = [task EXCEPT ![t] = [task[t] EXCEPT !.at = "loaded",
                    !.seen = FromDict(stored)]]
    /\ UNCHANGED <<queue, mem, stored, tracker, balance, status, violations, trades,
                   spoiled, ops, faults>>

(* The manager is registered, whether or not another call has done so since.   *)
Register(t) ==
    /\ task[t].at = "loaded"
    /\ WithManager(t, task[t], task[t].seen)
    /\ spoiled' = IF mem # NoState THEN spoiled \cup {"replaced"} ELSE spoiled
    /\ UNCHANGED <<queue, stored, tracker, balance, status, violations, ops, faults>>

Release(t) == SelectSeq(queue, LAMBDA u : u # t)

Woken(t) ==
    /\ task[t].at = "queued" /\ Head(queue) = t
    /\ GetOrCreate(t, task[t], mem, queue)
    /\ UNCHANGED <<stored, tracker, balance, status, violations, spoiled, ops, faults>>

(* Two writes in flight, a reset's and a locked one's, arrive in any order. *)
Written(t) ==
    /\ task[t].at = "writing"
    /\ stored' = task[t].seen
    /\ spoiled' = IF \E u \in Tasks \ {t} : task[u].at = "writing"
                  THEN spoiled \cup {"crossed"}
                  ELSE IF mem = task[t].seen THEN spoiled \ {"crossed", "unsaved"}
                       ELSE spoiled
    /\ Continue(t, [task[t] EXCEPT !.todo = Tail(@), !.seen = NoState], Release(t))
    /\ UNCHANGED <<tracker, balance, status, violations, ops, faults>>

(* Mutant of WriteFails: the lock is not released on the way out. *)
WriteFailsKeepsLock(t) ==
    /\ task[t].at = "writing" /\ faults < MaxFaults
    /\ faults' = faults + 1
    /\ task' = [task EXCEPT ![t] = Idle]
    /\ spoiled' = spoiled \cup {"unsaved"}
    /\ UNCHANGED <<queue, mem, stored, tracker, balance, status, violations, trades, ops>>

(* The caller gets the exception and the rest of the operation is not done. *)
WriteFails(t) ==
    /\ task[t].at = "writing" /\ faults < MaxFaults
    /\ faults' = faults + 1
    /\ queue' = Release(t)
    /\ task' = [task EXCEPT ![t] = Idle]
    /\ spoiled' = spoiled \cup {"unsaved"}
    /\ UNCHANGED <<mem, stored, tracker, balance, status, violations, trades, ops>>

(* After the balance is saved a close computes the equity it goes on with. *)
Saved(t) ==
    LET k == task[t]
        tr == IF k.kind = "close" THEN RecalculateEquity(tracker) ELSE tracker
    IN  /\ k.at = "saving"
        /\ balance' = IF k.kind = "mt5" THEN k.equity ELSE tracker.bal
        /\ tracker' = tr
        /\ Continue(t, [k EXCEPT !.todo = Tail(@),
                                 !.equity = IF k.kind = "close" THEN tr.eq ELSE k.equity],
                    queue)
        /\ UNCHANGED <<stored, status, violations, spoiled, ops, faults>>

(* pause_for_rule_violation raises unless the account is active, and then     *)
(* nothing is recorded.                                                       *)
Pause(t) ==
    /\ task[t].at = "pausing"
    /\ IF status = "active"
       THEN /\ status' = "paused"
            /\ task' = [task EXCEPT ![t] = [task[t] EXCEPT !.at = "recording", !.owes = FALSE]]
       ELSE UNCHANGED status /\ task' = [task EXCEPT ![t] = Idle]
    /\ UNCHANGED <<queue, mem, stored, tracker, balance, violations, trades, spoiled,
                   ops, faults>>

RecordViolation(t) ==
    /\ task[t].at = "recording"
    /\ violations' = violations + 1
    /\ task' = [task EXCEPT ![t] = Idle]
    /\ UNCHANGED <<queue, mem, stored, tracker, balance, status, trades, spoiled, ops, faults>>

Resume ==
    /\ status = "paused" /\ ops < MaxOps
    /\ status' = "active" /\ ops' = ops + 1
    /\ UNCHANGED <<task, queue, mem, stored, tracker, balance, violations, trades,
                   spoiled, faults>>

(* The process is killed: what is in memory is gone. *)
Crash ==
    /\ faults < MaxFaults
    /\ faults' = faults + 1
    /\ task' = [t \in Tasks |-> Idle]
    /\ queue' = <<>>
    /\ mem' = NoState
    /\ tracker' = NoTracker
    /\ trades' = IF stored = NoState THEN 0 ELSE stored.daily
    /\ spoiled' = {}
    /\ UNCHANGED <<stored, balance, status, violations, ops>>

RiskInit ==
    /\ task = [t \in Tasks |-> Idle]
    /\ queue = <<>>
    /\ mem = NoState
    /\ stored \in {NoState, [FreshState EXCEPT !.start = StartBalance]}
    /\ tracker = NoTracker
    /\ balance = StartBalance
    /\ status = "active"
    /\ violations = 0
    /\ trades = 0
    /\ spoiled = {}
    /\ ops = 0 /\ faults = 0

Await(t) ==
    \/ LoadReads(t) \/ Register(t) \/ Woken(t) \/ Written(t)
    \/ Saved(t) \/ Pause(t) \/ RecordViolation(t)

RiskNext ==
    \/ \E t \in Tasks :
        \/ TradeExecuted(t) \/ Tick(t) \/ ClosePosition(t)
        \/ EquityUpdate(t) \/ TradeCompleted(t) \/ CheckPreTrade(t)
        \/ Mt5BalanceUpdate(t) \/ DailyReset(t)
        \/ Await(t) \/ WriteFails(t)
    \/ Resume \/ Crash

RiskSpec == RiskInit /\ [][RiskNext]_riskVars /\ \A t \in Tasks : WF_riskVars(Await(t))

-----------------------------------------------------------------------------
(* Properties.                                                             *)

RiskStates == [daily : Int, equity : Int, peak : Nat, start : Nat]

(* The variables have the shapes the code gives them, and a holder or waiter  *)
(* of the lock is a call that is in a locked operation.                       *)
RiskTypeOK ==
    /\ mem = NoState \/ mem \in RiskStates
    /\ stored = NoState \/ stored \in RiskStates
    /\ status \in {"active", "paused"}
    /\ IsInjective(queue)
    /\ \A t \in Tasks :
         /\ task[t].at \in {"idle", "queued", "loading", "loaded", "writing", "saving",
                            "pausing", "recording"}
         /\ t \in ToSet(queue) <=>
              task[t].todo # <<>> /\ Head(task[t].todo) \in Locked

(* No trade is lost or counted twice in the day's P&L the loss rule reads:    *)
(* ticks, fills, closes, the service, a reset and a restart may overlap in    *)
(* any way, unless a second manager has replaced the registered one.          *)
TradesCounted == mem # NoState /\ "replaced" \notin spoiled => mem.daily = trades

(* When no call is in progress Redis holds what memory holds, so that a       *)
(* restart resumes from it, unless the last write failed or crossed the       *)
(* unlocked one of a daily reset, or a manager was replaced.                  *)
PersistedAgrees ==
    mem # NoState /\ spoiled = {} /\ (\A t \in Tasks : task[t].at = "idle")
        => stored = mem \/ (stored = NoState /\ mem = FreshState)

(* A breach that a call of RiskIsolationService brings about is acted on by   *)
(* this call: it never ends without trying to pause the account, unless the   *)
(* write of the state raised or a reset has ended the breach meanwhile.       *)
BreachNoticed == \A t \in Tasks : task[t].at = "idle" => ~task[t].owes

(* While the risk state is in breach of a limit, an order that is validated   *)
(* is blocked: the rules and the risk manager agree on what a breach is.      *)
BreachBlocks ==
    mem # NoState /\ (LossBreached(mem) \/ DrawdownBreached(mem))
        => Decision = "block"

(* The day's P&L is complete in memory and, at rest, in Redis. *)
DailyPnlKept == TradesCounted /\ PersistedAgrees

(* A breach is acted on by the call that causes it and blocks every order     *)
(* that is validated while it lasts.                                          *)
BreachHandled == BreachNoticed /\ BreachBlocks

(* Every call returns: whatever fails, the account's lock is handed on.       *)
CallsReturn == \A t \in Tasks : task[t].at # "idle" ~> task[t].at = "idle"
=============================================================================
