---------------------------- MODULE BracketTrade ----------------------------
(* A strategy at work (BaseStrategy, BracketStrategyMixin and                  *)
(* BracketScaleOutMixin of src/services/trading-engine/src/strategies): the    *)
(* bar's signal becomes a bracket sized by the risk budget or a close, and an  *)
(* open position is scaled out, its stop moved to breakeven and then trailed.  *)
(*                                                                             *)
(* A bar passes through the venue, which matches the resting stop and target   *)
(* first; then the regime actor and the strategy handle it, in either order;   *)
(* then the venue executes the commands of the bar and reports the events.     *)
(* The venue is the simulated exchange of the backtests: it nets positions,    *)
(* fills market orders at the bar's close, refuses a reduce-only order that    *)
(* reduces nothing and cancels the legs of a closed position.  The live client *)
(* refuses order lists and modifications, so a bracket is traded only there.   *)
(*                                                                             *)
(* Prices and lots are integers, in steps; the unit of risk is a price step of *)
(* one lot.                                                                    *)
EXTENDS Strategies

CONSTANTS
    SampleConfigs,    \* configurations, the ones __post_init__ refuses included
    BarsOf(_, _, _),  \* of Bars those that may follow, by configuration, price and time
    StartPrice,
    Balances,         \* balances the venue's account may have
    MaxLots,          \* max_lot_size
    MaxTime           \* bound: time of the last bar

(* A bar, as far as the strategies, the regime actor and the venue look at it. *)
Bars ==
    [price : Int, reading : -2..2, rsi : {-1, 1}, ready : BOOLEAN, noWidth : BOOLEAN,
     adxStrong : BOOLEAN, atr : Int, features : Features,
     trail : [ready : BOOLEAN, trend : {-1, 1}, line : Int]]

(* The fields of a strategy's configuration, whether or not they make sense. *)
Configs ==
    [kind : STRING, regime : {"none", "disabled", "enabled"}, session : STRING,
     adx : BOOLEAN, crossOnly : BOOLEAN, recross : BOOLEAN, scaleOut : BOOLEAN,
     trailing : BOOLEAN, trigger : Int, breakevenAt : Int, offset : Int, slMult : Int,
     tpMult : Int, riskPercent : Int,
     params : [period : Int, slow : Int, width : Int, low : Int, mid : Int, high : Int,
               openingRange : Int]]

ASSUME TradeSamples ==
    /\ SampleConfigs \subseteq Configs /\ Balances \subseteq Int
    /\ StartPrice \in Int /\ MaxLots \in Nat /\ MaxTime \in Nat

VARIABLES
    cfg,         \* the strategy's configuration
    clock,       \* time of the last bar
    lastPrice,     \* close of the last bar
    bar,         \* the bar being handled, or NoBar between two bars
    toRun,       \* handlers of the bar that have not run: "actor", "strategy"
    memory,      \* what generate_signal remembers
    position,    \* _position: side, entry, lots and the lots it was opened with
    stop,        \* trigger of the venue's STOP_MARKET order, or NoPrice
    target,      \* price of the venue's LIMIT order, or NoPrice
    scaleState,  \* _scale_state, or NoScale
    commands,    \* commands of the bar, in order
    bars,        \* history: bars delivered
    entries      \* history: time and bar number of every bracket submitted

tradeVars == <<cfg, clock, lastPrice, bar, toRun, memory, position, stop, target, scaleState,
               commands, bars, entries>>
strategyVars == <<tradeVars, regimeVars>>

NoPrice == 0
NoScale == [on |-> FALSE]
NoPosition == [side |-> "flat", entry |-> 0, lots |-> 0, initial |-> 0]
NoBar == [ready |-> FALSE]
NoBreakeven == -1

Sign(side) == IF side = "long" THEN 1 ELSE -1

(* BracketStrategyConfig.__post_init__: the configurations it accepts, by its *)
(* checks of the fields kept here (those of periods, the close fraction, the  *)
(* safety target and the ADX gate concern what the model leaves out).         *)
ValidConfig(c) ==
    /\ c.slMult > 0 /\ c.slMult < c.tpMult /\ c.riskPercent > 0
    /\ c.scaleOut => /\ c.trigger > 0
                     /\ c.breakevenAt = NoBreakeven \/ c.breakevenAt \in 1..c.trigger
    /\ c.offset >= 0
    /\ c.session \in {"off", "flatten", "block_entry"}

(* _build_strategy: resolve_strategy knows the name, and the configuration is *)
(* accepted by the bracket's checks and by the strategy's own.                *)
Buildable ==
    {c \in SampleConfigs : c.kind \in Kinds /\ ValidConfig(c) /\ ValidIndicators(c.kind, c.params)}

(* run_backtest: the handlers it gives a bar to. *)
HandlersOf(c) == AttachRegime(c) \cup {"strategy"}

StrategyInit ==
    /\ RegimeInit
    /\ cfg \in Buildable
    /\ clock = 0 /\ lastPrice = StartPrice /\ bar = NoBar /\ toRun = {}
    /\ memory = FreshMemory /\ position = NoPosition /\ stop = NoPrice /\ target = NoPrice
    /\ scaleState = NoScale /\ commands = <<>> /\ bars = 0 /\ entries = {}

(* is_flat, is_long, is_short: only position events change the answer. *)
Held == position.side

(* PositionClosed: on_event of BaseStrategy and of the mixin; the venue       *)
(* cancels the remaining leg.                                                 *)
PositionClosed ==
    /\ position' = NoPosition /\ stop' = NoPrice /\ target' = NoPrice
    /\ scaleState' = NoScale

StopHit(p) == stop # NoPrice /\ Sign(position.side) * (p - stop) <= 0
TargetHit(p) == target # NoPrice /\ Sign(position.side) * (p - target) >= 0

(* The venue receives a bar, matches the resting orders and passes it on. *)
NextBar ==
    /\ bar = NoBar
    /\ \E t \in clock + 1..clock + 2 :
        /\ t <= MaxTime
        /\ clock' = t
        /\ \E b \in BarsOf(cfg, lastPrice, t) \cap Bars :
            /\ bar' = b /\ lastPrice' = b.price
            /\ IF StopHit(b.price) \/ TargetHit(b.price) THEN PositionClosed
               ELSE UNCHANGED <<position, stop, target, scaleState>>
    /\ toRun' = HandlersOf(cfg)
    /\ bars' = bars + 1
    /\ UNCHANGED <<cfg, memory, commands, entries, regimeVars>>

(* RegimeActor.on_bar. *)
ActorRuns ==
    /\ "actor" \in toRun
    /\ ActorOnBar(bar.features)
    /\ toRun' = toRun \ {"actor"}
    /\ UNCHANGED <<cfg, clock, lastPrice, bar, memory, position, stop, target, scaleState, commands, bars, entries>>

(* calculate_lot_size of RiskBasedPositionSizer: the budget over the loss per *)
(* lot, rounded down to a step, 0 below the smallest lot.                     *)
LotSize(balance, distance) ==
    LET lots == (balance * cfg.riskPercent) \div (100 * distance)
    IN  IF distance <= 0 THEN 0 ELSE IF lots > MaxLots THEN MaxLots ELSE lots

(* size_from_risk, on the distance to the stop. *)
SizeFromRisk(balance, entry, sl) == LotSize(balance, Max({entry - sl, sl - entry}))

(* _read_account_balance: 0 when the account or its balance is missing. *)
ReadAccountBalance == Balances \cup {0}

(* calculate_atr_stop and calculate_atr_take_profit. *)
AtrStop(side, price, atr) == price - Sign(side) * cfg.slMult * atr
AtrTakeProfit(side, price, atr) == price + Sign(side) * cfg.tpMult * atr

(* _submit_bracket_order: nothing for a quantity sized to nothing. *)
SubmitBracketOrder(side, lots, sl, tp, budget) ==
    IF lots <= 0 THEN <<>>
    ELSE <<[do |-> "bracket", side |-> side, lots |-> lots, stop |-> sl, target |-> tp,
            budget |-> budget]>>

(* _submit_bracket_for_entry, at the close of the last bar. *)
Bracket(signal, balance) ==
    LET side == IF signal = "BUY" THEN "long" ELSE "short"
        sl == AtrStop(side, bar.price, bar.atr)
    IN  SubmitBracketOrder(side, SizeFromRisk(balance, bar.price, sl), sl,
                           AtrTakeProfit(side, bar.price, bar.atr), balance * cfg.riskPercent)

IsAtrUnsafe(atr) == atr <= 0

CloseAll == <<[do |-> "close"]>>

(* A signal against the position, which the reversing strategies close first. *)
Reverses(signal) ==
    /\ cfg.kind \in {"supertrend", "ma_crossover"}
    /\ \/ signal = "BUY" /\ Held = "short"
       \/ signal = "SELL" /\ Held = "long"

(* An entry needs a usable ATR, no position and the regime's admission. *)
Enters(signal) ==
    /\ signal \in {"BUY", "SELL"} /\ Held = "flat"
    /\ ~IsAtrUnsafe(bar.atr) /\ RegimeAdmits(cfg)

(* _execute_signal of the strategies.  The entry that follows a reversal is   *)
(* dropped, the position being still there.                                   *)
ExecuteSignal(signal, balance) ==
    CASE Held # "flat" /\ (signal = "CLOSE" \/ Reverses(signal)) -> CloseAll
      [] Enters(signal) -> Bracket(signal, balance)
      [] OTHER -> <<>>

(* _compute_be_price: the entry, or the offset beyond it while that stays     *)
(* short of the price at which the stop is moved.                             *)
BreakevenPrice(side, entry, risk) ==
    IF cfg.scaleOut /\ cfg.breakevenAt # NoBreakeven /\ cfg.offset > 0 /\ cfg.offset < cfg.breakevenAt * risk
    THEN entry + Sign(side) * cfg.offset
    ELSE entry

(* _init_scale_state, of the position and of the stop found for it. *)
InitScaleState(pos, sl) ==
    LET risk == Max({pos.entry - sl, sl - pos.entry})
    IN  [on |-> TRUE, risk |-> risk, bePrice |-> BreakevenPrice(pos.side, pos.entry, risk), sl |-> sl,
         scaledOut |-> FALSE, beMoved |-> FALSE, trailing |-> FALSE]

(* _close_partial: the fraction (a half), at most all but one step; a lot of  *)
(* one step is left alone.  make_qty rounds what is between two steps.        *)
PartialLots(lots) ==
    IF lots <= 1 THEN {0}
    ELSE {q \in {lots \div 2, (lots + 1) \div 2} : q <= lots - 1}

(* _find_active_sl_order: the working STOP_MARKET order. *)
StopWorking == stop # NoPrice

ReduceOnly(q) == IF q = 0 THEN <<>> ELSE <<[do |-> "reduce", lots |-> q]>>
ModifyStop(p) == <<[do |-> "modify", stop |-> p]>>

(* A plausible slip: the line is followed in both directions. *)
TrailMovesEitherWay(s) ==
    bar.trail.ready /\ bar.trail.trend = Sign(position.side) /\ bar.trail.line # s.sl

(* _update_trailing_sl: a line that is ready, on the position's side and      *)
(* beyond the stop last set.                                                  *)
TrailMoves(s) ==
    /\ bar.trail.ready /\ bar.trail.trend = Sign(position.side)
    /\ Sign(position.side) * (bar.trail.line - s.sl) > 0

(* evaluate_scale_out: the four transitions of a bar, in order, and the       *)
(* commands they submit; q is what the partial close rounds to.               *)
EvaluateScaleOut(s, q) ==
    LET gain == Sign(position.side) * (bar.price - position.entry)
        scales == cfg.scaleOut /\ ~s.scaledOut /\ gain >= cfg.trigger * s.risk
        s1 == [s EXCEPT !.scaledOut = @ \/ scales]
        breaks == /\ s1.scaledOut /\ ~s1.beMoved /\ cfg.breakevenAt # NoBreakeven
                  /\ gain >= cfg.breakevenAt * s.risk /\ StopWorking
        s2 == [s1 EXCEPT !.beMoved = @ \/ breaks, !.sl = IF breaks THEN s.bePrice ELSE @]
        trails == cfg.trailing /\ \/ s2.trailing \/ s2.beMoved \/ ~cfg.scaleOut
                                  \/ s2.scaledOut /\ cfg.breakevenAt = NoBreakeven
        moves == trails /\ StopWorking /\ TrailMoves(s2)
        s3 == [s2 EXCEPT !.trailing = trails, !.sl = IF moves THEN bar.trail.line ELSE @]
    IN  [state |-> s3,
         commands |-> (IF scales THEN ReduceOnly(q) ELSE <<>>) \o
                      (IF breaks THEN ModifyStop(s.bePrice) ELSE <<>>) \o
                      (IF moves THEN ModifyStop(bar.trail.line) ELSE <<>>)]

Manages == ScalesOut(cfg.kind) /\ (cfg.scaleOut \/ cfg.trailing)

(* on_bar of the strategy: the signal, then the scale-out of what is held; a  *)
(* state that the opening of the position could not set up is set up now.     *)
StrategyOnBar ==
    /\ "strategy" \in toRun
    /\ toRun' = toRun \ {"strategy"}
    /\ LET answer == GenerateSignal(cfg, bar, clock, memory, Held)
           s == IF scaleState.on THEN scaleState ELSE InitScaleState(position, stop)
       IN  /\ memory' = answer.memory
           /\ \E balance \in ReadAccountBalance, q \in PartialLots(position.lots) :
                LET signalled == ExecuteSignal(answer.signal, balance)
                    managed == EvaluateScaleOut(s, q)
                    manages == Manages /\ position # NoPosition /\ StopWorking /\ s.risk > 0
                IN  /\ commands' = signalled \o (IF manages THEN managed.commands ELSE <<>>)
                    /\ scaleState' = IF manages THEN managed.state ELSE scaleState
                    /\ entries' = IF \E i \in 1..Len(signalled) : signalled[i].do = "bracket"
                                  THEN entries \cup {[time |-> clock, bar |-> bars]} ELSE entries
    /\ UNCHANGED <<cfg, clock, lastPrice, bar, position, stop, target, bars, regimeVars>>

(* The venue fills the entry; PositionOpened finds the stop working, or not   *)
(* yet, in which case the scale-out is set up with the next bar.              *)
FillBracket(c) ==
    LET pos == [side |-> c.side, entry |-> bar.price, lots |-> c.lots, initial |-> c.lots]
    IN  /\ position' = pos /\ stop' = c.stop /\ target' = c.target
        /\ \/ scaleState' = NoScale
           \/ Manages /\ scaleState' = InitScaleState(pos, c.stop)

(* A reduce-only order never opens or turns a position. *)
FillReduce(c) ==
    /\ position' = IF position = NoPosition THEN NoPosition
                   ELSE [position EXCEPT !.lots = @ - c.lots]
    /\ UNCHANGED <<stop, target, scaleState>>

(* The venue executes the next command of the bar. *)
Execute ==
    /\ bar # NoBar /\ toRun = {} /\ commands # <<>>
    /\ commands' = Tail(commands)
    /\ LET c == Head(commands) IN
        CASE c.do = "bracket" -> FillBracket(c)
          [] c.do = "close" -> PositionClosed
          [] c.do = "reduce" -> FillReduce(c)
          [] c.do = "modify" -> /\ stop' = IF stop = NoPrice THEN NoPrice ELSE c.stop
                                /\ UNCHANGED <<position, target, scaleState>>
    /\ UNCHANGED <<cfg, clock, lastPrice, bar, toRun, memory, bars, entries, regimeVars>>

BarDone ==
    /\ bar # NoBar /\ toRun = {} /\ commands = <<>>
    /\ bar' = NoBar
    /\ UNCHANGED <<cfg, clock, lastPrice, toRun, memory, position, stop, target, scaleState,
                   commands, bars, entries, regimeVars>>

StrategyNext ==
    NextBar \/ ActorRuns \/ StrategyOnBar \/ Execute \/ BarDone

StrategySpec == StrategyInit /\ [][StrategyNext]_strategyVars

StrategyTypeOK ==
    /\ RegimeTypeOK
    /\ cfg \in SampleConfigs /\ clock \in 0..MaxTime
    /\ toRun \subseteq {"actor", "strategy"} /\ entries \subseteq [time : 1..MaxTime, bar : 1..MaxTime]
    /\ position.side \in {"flat", "long", "short"} /\ position.lots \in 0..MaxLots

(* What an open position loses if its stop is hit, in price steps of a lot. *)
LossAtStop(pos, sl) == pos.lots * Sign(pos.side) * (pos.entry - sl)

(* A position is opened only by a bracket, within the risk budget of the      *)
(* account; while it is held its lots only shrink, by one partial close that  *)
(* leaves some of it open, and its stop only moves towards profit.  So what a *)
(* trade can lose at its stop never exceeds what it was sized for, whatever   *)
(* the signals, the scale-out, the breakeven move and the trail do to it.     *)
RiskShrinks ==
    [][/\ (position = NoPosition /\ position' # NoPosition) =>
            /\ commands # <<>> /\ Head(commands).do = "bracket"
            /\ 100 * LossAtStop(position', stop') <= Head(commands).budget
       /\ (position # NoPosition /\ position' # NoPosition) =>
            /\ position'.side = position.side /\ position'.entry = position.entry
            /\ position'.lots # position.lots =>
                    position.lots = position.initial /\ position'.lots \in 1..position.initial - 1
            /\ Sign(position.side) * (stop' - stop) >= 0]_strategyVars

(* An entry never relies on a regime older than the bar before: the state     *)
(* confirmed by that bar, or by the entry's own, is one the strategy is       *)
(* registered for.  (The actor and the strategy handle a bar in either order.)*)
EntriesAdmitted ==
    HasRegime(cfg) => \A e \in entries : \E i \in {e.bar - 1, e.bar} :
        LET decided == i - WarmupBars + 1
        IN  decided \in 1..Len(rawStates) /\ ConfirmedAfter(decided) \in AllowedRegimes(cfg.kind)

(* Every entry is justified: the regime filter confirms exactly what its      *)
(* reference confirms and no strategy enters without such a regime; the       *)
(* opening-range strategy enters once a session; and a strategy told to be    *)
(* flat outside its session holds nothing once a bar from outside has been    *)
(* handled (bands of no width make mean reversion skip its session gate).     *)
EntriesJustified ==
    /\ RegimeExact /\ EntriesAdmitted
    /\ cfg.kind = "orb" => \A d, e \in entries : d # e => Day(d.time) # Day(e.time)
    /\ (/\ bar # NoBar /\ toRun = {} /\ commands = <<>> /\ ~InSession(clock) /\ bar.ready
        /\ \/ cfg.kind = "orb"
           \/ cfg.session = "flatten" /\ Filtered(cfg.kind) /\ ~bar.noWidth) =>
       position = NoPosition
=============================================================================
