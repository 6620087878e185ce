------------------------------- MODULE MCRisk -------------------------------
(* Two calls in flight on an account of balance 10 with limits of 20 %, the   *)
(* calendar service, the rules on samples around their limits, and a strategy *)
(* on six bars.  The three machines share no state, so a behaviour moves one. *)
EXTENDS RiskControl, CalendarService, RuleChecks, BracketTrade

VARIABLE focus

MCTasks == {"t1", "t2"}
MCPositions == {"p1"}
MCMarks == {-2, 1}
MCResults == {-2, 1}
MCEquities == {8, 11}

Event(start, impact, country) ==
    [start |-> start, impact |-> impact, country |-> country, symbols |-> {},
     complete |-> TRUE, timed |-> TRUE]
MCFeeds ==
    {NotFetched, <<[Event(2, "high", "USD") EXCEPT !.timed = FALSE]>>,
     <<Event(3, "high", "USD"), Event(1, "tentative", "EUR")>>}
MCFallback == NoEvents
MCEvents ==
    {Event(s, i, c) : s \in 2..3, i \in {"high", "low"}, c \in {"USD", "JPY"}} \cup
    {[Event(2, "high", "USD") EXCEPT !.symbols = {<<"EUR", c>>}] : c \in {"USD", "JPY"}}
MCTimes == 0..5
MCSymbols == {<<>>, <<"EUR", "USD">>}

MCSpecs ==
    {[type |-> "daily_loss_limit", threshold_percent |-> t] : t \in {0, 4, 5}} \cup
    {[type |-> "max_drawdown", threshold_percent |-> t, method |-> m] :
        t \in {4, 5}, m \in {"equity_peak", "balance_based"}} \cup
    {[type |-> "max_position_size", max_lots |-> l, scaling |-> s] :
        l \in 1..2, s \in {"fixed", "per_10k_balance"}} \cup
    {[type |-> "consistency", block_at |-> b] : b \in {40, 50}}
MCOverrides == {0, 1, 2, 3, 4, 5, 40, 45, 50}
MCRules ==
    {ParseSingleRule(spec) : spec \in
        {[type |-> "daily_loss_limit", threshold_percent |-> 4],
         [type |-> "max_drawdown", threshold_percent |-> 5, method |-> "equity_peak"],
         [type |-> "max_position_size", max_lots |-> 2, scaling |-> "per_10k_balance"],
         [type |-> "profit_target", threshold_percent |-> 300],
         [type |-> "weekly_target"],
         [type |-> "min_trading_days", required_days |-> 2],
         [type |-> "consistency"],
         [type |-> "news_blackout", impact_levels |-> {"high"}]}} \cup {[type |-> "raising"]}
WithSymbol ==
    {[daily_pnl_percent |-> Ratio(p, 1), total_drawdown_percent |-> Ratio(d, 1),
      total_pnl_percent |-> Ratio(p, 1), initial_balance |-> 10, current_equity |-> 10 - e,
      account_balance |-> 10 * b, requested_lots |-> 1, current_position_lots |-> l,
      trading_days_count |-> l, current_day_pnl |-> l, daily_profits_history |-> <<1, -1>>,
      symbol |-> <<"EUR", "USD">>, calendar |-> <<Event(4, "high", "USD")>>, now |-> 10 * b] :
        p \in {-4, 4}, d \in {0, 5}, e \in 0..1, b \in 0..1, l \in {-2, 1}}
WithoutSymbol ==
    {[f \in DOMAIN c \ {"symbol"} |-> c[f]] :
        c \in {x \in WithSymbol : x.total_drawdown_percent = Zero /\ x.current_equity = 10}}
MCContexts == WithSymbol \cup WithoutSymbol

(* The strategies.  A session filter in a configuration of the trade samples  *)
(* is off and their price moves; the others keep it and trade on one price,   *)
(* the opening-range strategy, whose stop is to be hit, excepted.             *)
Plain ==
    [kind |-> "supertrend", regime |-> "none", session |-> "flatten", adx |-> FALSE,
     crossOnly |-> FALSE, recross |-> FALSE, scaleOut |-> FALSE, trailing |-> FALSE,
     trigger |-> 1, breakevenAt |-> 1, offset |-> 0, slMult |-> 2, tpMult |-> 4,
     riskPercent |-> 100,
     params |-> [period |-> 1, slow |-> 2, width |-> 2, low |-> 30, mid |-> 50, high |-> 70,
                 openingRange |-> 1]]
MCTrades ==
    {[Plain EXCEPT !.session = "off", !.scaleOut = TRUE, !.trailing = t, !.breakevenAt = b, !.offset = o] :
        t \in BOOLEAN, b \in {1, 2}, o \in {0, 1, 2}} \cup
    {[Plain EXCEPT !.session = "off", !.scaleOut = s, !.trailing = TRUE, !.breakevenAt = NoBreakeven] :
        s \in BOOLEAN} \cup
    {[Plain EXCEPT !.session = "off"], [Plain EXCEPT !.session = "off", !.slMult = 4]}
MCConfigs ==
    MCTrades \cup
    {[Plain EXCEPT !.kind = k] : k \in Kinds} \cup
    {[Plain EXCEPT !.kind = k, !.regime = "enabled"] : k \in {"supertrend", "mean_reversion", "orb"}} \cup
    {[Plain EXCEPT !.kind = "supertrend", !.session = "block_entry"],
     [Plain EXCEPT !.kind = "donchian_breakout", !.adx = TRUE, !.crossOnly = TRUE],
     [Plain EXCEPT !.kind = "mean_reversion", !.recross = TRUE],
     [Plain EXCEPT !.kind = "orb", !.regime = "disabled"],
     [Plain EXCEPT !.kind = "trend"], [Plain EXCEPT !.params.period = 0],
     [Plain EXCEPT !.kind = "orb", !.params.openingRange = SlotsPerDay - 1]} \cup
    {[Plain EXCEPT !.kind = k, !.params.slow = 1, !.params.width = 6, !.params.mid = 30] :
        k \in {"ma_crossover", "mean_reversion", "bollinger_mean_reversion", "rsi_mean_reversion"}}

Trending == [volatile |-> FALSE, trending |-> TRUE, slope |-> 1, di |-> 1, narrow |-> FALSE]
Ranging == [Trending EXCEPT !.trending = FALSE, !.narrow = TRUE]
Volatile == [Trending EXCEPT !.volatile = TRUE]

MCFeatures(c) == IF HasRegime(c) THEN {IF c.kind = "supertrend" THEN Trending ELSE Ranging, Volatile} ELSE {Trending}
MCReadings(c) ==
    CASE c.kind = "supertrend" -> {-1, 1}
      [] c.kind \in {"donchian_breakout", "ma_crossover", "orb"} -> -1..1
      [] OTHER -> IF HasRegime(c) THEN {-2, 0, 2} ELSE -2..2
MCMoves(c) == IF c.session = "off" THEN {-1, 2} ELSE IF c.kind = "orb" THEN {0, 2} ELSE {0}
MCBars(c, p, t) ==
    {[price |-> p + m, reading |-> r, rsi |-> IF r < 0 THEN -1 ELSE 1, ready |-> t > 1 \/ c.kind = "orb",
      noWidth |-> c.recross /\ r = 0, adxStrong |-> x, atr |-> IF c.adx /\ t = 2 THEN 0 ELSE 1,
      features |-> f, trail |-> [ready |-> TRUE, trend |-> d, line |-> p + m - 2 * d]] :
        m \in MCMoves(c), r \in MCReadings(c), x \in (IF c.adx THEN BOOLEAN ELSE {TRUE}),
        f \in MCFeatures(c), d \in (IF c.trailing THEN {-1, 1} ELSE {1})}

allVars == <<riskVars, calVars, strategyVars, focus, input>>

MCInit ==
    /\ RiskInit /\ CalInit
    /\ StrategyInit
    /\ \/ /\ focus \in {"account", "calendar"} /\ input = NoInput
          /\ cfg = [Plain EXCEPT !.session = "off"]
       \/ focus = "strategy" /\ input = NoInput /\ stored = NoState
       \/ focus = "rules" /\ RulesInit /\ stored = NoState /\ cfg = [Plain EXCEPT !.session = "off"]

MCNext ==
    /\ UNCHANGED <<focus, input>>
    /\ \/ focus = "account" /\ RiskNext /\ UNCHANGED <<calVars, strategyVars>>
       \/ focus = "calendar" /\ CalNext /\ UNCHANGED <<riskVars, strategyVars>>
       \/ focus = "strategy" /\ StrategyNext /\ UNCHANGED <<riskVars, calVars>>

MCSpec ==
    /\ MCInit /\ [][MCNext]_allVars
    /\ \A t \in Tasks : WF_riskVars(Await(t))
=============================================================================
