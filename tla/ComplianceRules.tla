-------------------------- MODULE ComplianceRules ---------------------------
(***************************************************************************)
(* The compliance rules an order is validated against: the rule types, how *)
(* a rule set is put together from a firm's product, a phase and the       *)
(* overrides of an account, and RuleEngine.validate, which combines them.  *)
(*                                                                         *)
(* Everything here is a function of its arguments.  A rule specification   *)
(* (the YAML mapping) and a validation context are functions from field    *)
(* names to values, in which a field may be missing.  Percentages are      *)
(* ratios of integers, so that no comparison depends on rounding.          *)
(***************************************************************************)
EXTENDS Integers, Sequences, FiniteSets, SequencesExt

CONSTANT BalanceUnit    \* the balance that carries one lot (10000 in the code)

ASSUME BalanceUnitPositive == BalanceUnit \in Nat \ {0}

Get(f, field, default) == IF field \in DOMAIN f THEN f[field] ELSE default

Ratio(n, d) == [num |-> n, den |-> d]
Zero == Ratio(0, 1)
AtLeast(p, t) == p.num >= t * p.den
AtLeastHundredths(p, t) == 100 * p.num >= t * p.den
Abs(n) == IF n < 0 THEN -n ELSE n

(* A rule whose specification cannot be parsed: RuleParseError. *)
Invalid == [type |-> "invalid"]
IsRule(r) == r.type # "invalid"

-----------------------------------------------------------------------------
(* Constructors.  A field that only documents or words a message is left out. *)

NewDailyLossLimit(spec) ==
    [type |-> "daily_loss_limit",
     threshold |-> Get(spec, "threshold_percent", 5),
     warnAt |-> Get(spec, "warning_at", {70, 80, 90})]

NewMaxDrawdown(spec) ==
    LET method == Get(spec, "method", "equity_peak")
    IN  IF method \notin {"equity_peak", "balance_based"} THEN Invalid
        ELSE [type |-> "max_drawdown", method |-> method,
              threshold |-> Get(spec, "threshold_percent", 10),
              warnAt |-> Get(spec, "warning_at", {50, 70, 85})]

(* An unknown scaling mode is only logged: the limit becomes a fixed one. *)
NewMaxPositionSize(spec) ==
    LET scaling == Get(spec, "scaling", "fixed")
    IN  [type |-> "max_position_size",
         maxLots |-> Get(spec, "max_lots", 1),
         scaled |-> scaling = "per_10k_balance",
         warnAt |-> Get(spec, "warning_at", {70, 80, 90})]

(* A target's threshold is a percentage in hundredths: the weekly default is 1.25. *)
NewProfitTarget(spec) ==
    [type |-> "profit_target", threshold |-> Get(spec, "threshold_percent", 1000)]

NewWeeklyTarget(spec) ==
    [type |-> "weekly_target", threshold |-> Get(spec, "threshold_percent", 125)]

NewMinTradingDays(spec) ==
    [type |-> "min_trading_days", required |-> Get(spec, "required_days", 4)]

(* The default warnings are cut to those below block_at; given ones must be. *)
NewConsistency(spec) ==
    LET block == Get(spec, "block_at", 50)
        given == "warn_at" \in DOMAIN spec
        warn  == IF given THEN spec["warn_at"]
                 ELSE {w \in {40, 45, 48} : w < block}
    IN  IF block \notin 1..100 \/ \E w \in warn : w >= block THEN Invalid
        ELSE [type |-> "consistency", blockAt |-> block, warnAt |-> warn]

(* An empty list of impact levels is refused, an empty symbol filter is none. *)
NewNewsBlackout(spec) ==
    LET before == Get(spec, "blackout_minutes_before", 5)
        after  == Get(spec, "blackout_minutes_after", 5)
        levels == Get(spec, "impact_levels", {"high"})
    IN  IF before < 0 \/ after < 0 \/ levels = {} THEN Invalid
        ELSE [type |-> "news_blackout", before |-> before, after |-> after,
              levels |-> levels, only |-> Get(spec, "symbols_filter", {})]

(* RULE_TYPES: the class a type stands for; one it does not know is refused. *)
NewRule(type, spec) ==
    CASE type = "daily_loss_limit"  -> NewDailyLossLimit(spec)
      [] type = "max_drawdown"      -> NewMaxDrawdown(spec)
      [] type = "max_position_size" -> NewMaxPositionSize(spec)
      [] type = "profit_target"     -> NewProfitTarget(spec)
      [] type = "weekly_target"     -> NewWeeklyTarget(spec)
      [] type = "min_trading_days"  -> NewMinTradingDays(spec)
      [] type = "consistency"       -> NewConsistency(spec)
      [] type = "news_blackout"     -> NewNewsBlackout(spec)
      [] OTHER                      -> Invalid

ParseSingleRule(spec) == NewRule(Get(spec, "type", "none"), spec)

(* parse_rules raises on the first bad specification: all rules or none. *)
Parsed(specs) == \A i \in DOMAIN specs : IsRule(ParseSingleRule(specs[i]))
ParseRules(specs) == [i \in DOMAIN specs |-> ParseSingleRule(specs[i])]

-----------------------------------------------------------------------------
(* validate of each rule type.                                             *)

(* The warnings are tried from the highest; any of them is a warning.  The   *)
(* share of the limit in use is value / limit * 100.                         *)
Warns(value, limit, warnAt) ==
    \E w \in warnAt : value.num * 100 >= w * limit * value.den

DailyLossLimit(r, ctx) ==
    LET pnl  == Get(ctx, "daily_pnl_percent", Zero)
        loss == Ratio(Abs(pnl.num), pnl.den)
    IN  CASE pnl.num >= 0                        -> "allow"
          [] pnl.num < 0 /\ AtLeast(loss, r.threshold) -> "block"
          [] OTHER -> IF Warns(loss, r.threshold, r.warnAt) THEN "warn" ELSE "allow"

(* No drawdown can be computed from a missing or zero initial balance. *)
DrawdownPercent(r, ctx) ==
    LET initial == Get(ctx, "initial_balance", 0)
        equity  == Get(ctx, "current_equity", 0)
    IN  CASE r.method = "equity_peak" -> Get(ctx, "total_drawdown_percent", Zero)
          [] r.method = "balance_based" ->
                IF initial <= 0 \/ equity >= initial THEN Zero
                ELSE Ratio((initial - equity) * 100, initial)

MaxDrawdown(r, ctx) ==
    LET dd == DrawdownPercent(r, ctx)
    IN  CASE dd.num <= 0                          -> "allow"
          [] dd.num > 0 /\ AtLeast(dd, r.threshold) -> "block"
          [] OTHER -> IF Warns(dd, r.threshold, r.warnAt) THEN "warn" ELSE "allow"

(* A balance that is not positive falls back to the unscaled limit. *)
EffectiveMax(r, ctx) ==
    LET balance == Get(ctx, "account_balance", 0)
    IN  IF r.scaled /\ balance > 0 THEN Ratio(balance * r.maxLots, BalanceUnit)
        ELSE Ratio(r.maxLots, 1)

(* Existing lots count in absolute value, whatever side the order is on. *)
MaxPositionSize(r, ctx) ==
    LET requested == Get(ctx, "requested_lots", 0)
        total     == Abs(Get(ctx, "current_position_lots", 0)) + Abs(requested)
        max       == EffectiveMax(r, ctx)
        exceeds(lots) == lots * max.den > max.num
    IN  CASE requested <= 0                        -> "allow"
          [] requested > 0 /\ (exceeds(requested) \/ exceeds(total)) -> "block"
          [] OTHER -> IF \E w \in r.warnAt :
                            \/ max.num <= 0 /\ 100 >= w
                            \/ max.num > 0 /\ total * max.den * 100 >= w * max.num
                      THEN "warn" ELSE "allow"

(* The targets never block: reaching one is reported as a warning. *)
ProfitTarget(r, ctx) ==
    IF AtLeastHundredths(Get(ctx, "total_pnl_percent", Zero), r.threshold)
    THEN "warn" ELSE "allow"

WeeklyTarget(r, ctx) ==
    IF AtLeastHundredths(Get(ctx, "weekly_pnl_percent", Zero), r.threshold)
    THEN "warn" ELSE "allow"

MinTradingDays(r, ctx) ==
    IF Get(ctx, "trading_days_count", 0) >= r.required THEN "warn" ELSE "allow"

AddProfit(p, sum) == IF p > 0 THEN p + sum ELSE sum

(* Today's share of all profits; none on a losing day, and none before a     *)
(* first profitable day has been.                                            *)
ShareOfProfits(ctx) ==
    LET today   == Get(ctx, "current_day_pnl", 0)
        history == Get(ctx, "daily_profits_history", <<>>)
        prior   == FoldSeq(AddProfit, 0, history)
    IN  IF today <= 0 \/ prior <= 0 THEN Zero
        ELSE Ratio(today * 100, today + prior)

Consistency(r, ctx) ==
    LET share == ShareOfProfits(ctx)
    IN  CASE share.num <= 0                       -> "allow"
          [] share.num > 0 /\ AtLeast(share, r.blockAt) -> "block"
          [] OTHER -> IF \E w \in r.warnAt : AtLeast(share, w)
                      THEN "warn" ELSE "allow"

-----------------------------------------------------------------------------
(* The calendar behind the news rule.  An event is a record of start, impact, *)
(* country and symbols; a symbol is the sequence of the codes it is made of.  *)

AffectsSymbol(event, symbol) ==
    IF event.symbols # {} THEN symbol \in event.symbols
    ELSE \E i \in DOMAIN symbol : symbol[i] = event.country

(* EventIndex: the events in order of their start, equal ones as given. *)
EventIndex(events) ==
    LET before(i, j) == \/ events[i].start < events[j].start
                        \/ events[i].start = events[j].start /\ i < j
        place(i) == Cardinality({j \in DOMAIN events : before(j, i)}) + 1
    IN  [k \in DOMAIN events |-> events[CHOOSE i \in DOMAIN events : place(i) = k]]

(* The library's bisect_left and bisect_right on the starts of an index. *)
BisectLeft(index, t) == Cardinality({i \in DOMAIN index : index[i].start < t})
BisectRight(index, t) == Cardinality({i \in DOMAIN index : index[i].start =< t})

(* The margin after an event bounds how old it may be, the one before it how  *)
(* far ahead it may lie.  Without a symbol every event counts.                *)
ActiveEventsAt(index, now, before, after, levels, symbol) ==
    LET lo == BisectLeft(index, now - after)
        hi == BisectRight(index, now + before)
    IN  {e \in {index[i] : i \in lo + 1..hi} :
            e.impact \in levels /\ (symbol = <<>> \/ AffectsSymbol(e, symbol))}

(* Without a calendar, or with an empty one, the rule warns and lets pass. *)
NewsBlackout(r, ctx) ==
    LET symbol == Get(ctx, "symbol", <<>>)
        index  == Get(ctx, "calendar", <<>>)
    IN  CASE r.only # {} /\ symbol \notin r.only -> "allow"
          [] OTHER ->
              IF index = <<>> THEN "warn"
              ELSE IF ActiveEventsAt(index, ctx.now, r.before, r.after,
                                     r.levels, symbol) # {}
                   THEN "block" ELSE "allow"

-----------------------------------------------------------------------------
(* RuleEngine                                                              *)

Validate(r, ctx) ==
    CASE r.type = "daily_loss_limit"  -> DailyLossLimit(r, ctx)
      [] r.type = "max_drawdown"      -> MaxDrawdown(r, ctx)
      [] r.type = "max_position_size" -> MaxPositionSize(r, ctx)
      [] r.type = "profit_target"     -> ProfitTarget(r, ctx)
      [] r.type = "weekly_target"     -> WeeklyTarget(r, ctx)
      [] r.type = "min_trading_days"  -> MinTradingDays(r, ctx)
      [] r.type = "consistency"       -> Consistency(r, ctx)
      [] r.type = "news_blackout"     -> NewsBlackout(r, ctx)
      [] r.type = "raising"           -> "raise"

Priority(r) ==
    CASE r.type = "daily_loss_limit"  -> 1
      [] r.type = "max_drawdown"      -> 2
      [] r.type = "max_position_size" -> 3
      [] r.type = "consistency"       -> 5
      [] r.type = "news_blackout"     -> 6
      [] r.type = "raising"           -> 50
      [] OTHER                        -> 100

(* sorted() by priority is stable. *)
ByPriority(rules) ==
    LET before(i, j) == \/ Priority(rules[i]) < Priority(rules[j])
                        \/ Priority(rules[i]) = Priority(rules[j]) /\ i < j
        place(i) == Cardinality({j \in DOMAIN rules : before(j, i)}) + 1
    IN  [k \in DOMAIN rules |-> rules[CHOOSE i \in DOMAIN rules : place(i) = k]]

(* Mutant of EngineStep: in strict mode too a rule that raises is passed over. *)
EngineStepLenient(acc, r, ctx, strict, continue) ==
    LET outcome == Validate(r, ctx)
    IN  CASE acc.stop \/ outcome = "raise" -> acc
          [] ~acc.stop /\ outcome = "block" ->
                [acc EXCEPT !.blocked = r.type, !.stop = ~continue]
          [] ~acc.stop /\ outcome = "warn" ->
                [acc EXCEPT !.warned = acc.warned \cup {r.type}]
          [] OTHER -> acc

(* The loop of RuleEngine.validate, one rule at a time.  `blocked` is the     *)
(* rule reported as blocked_by; a rule that raises blocks in strict mode and  *)
(* is passed over otherwise.                                                  *)
EngineStep(acc, r, ctx, strict, continue) ==
    LET outcome == Validate(r, ctx)
    IN  CASE acc.stop -> acc
          [] ~acc.stop /\ outcome = "raise" ->
                IF strict THEN [acc EXCEPT !.blocked = r.type, !.stop = TRUE] ELSE acc
          [] ~acc.stop /\ outcome = "block" ->
                [acc EXCEPT !.blocked = r.type, !.stop = ~continue]
          [] ~acc.stop /\ outcome = "warn" ->
                [acc EXCEPT !.warned = acc.warned \cup {r.type}]
          [] OTHER -> acc

EngineValidate(rules, ctx, strict, continue) ==
    LET acc == FoldLeft(LAMBDA a, r : EngineStep(a, r, ctx, strict, continue),
                        [blocked |-> "none", warned |-> {}, stop |-> FALSE],
                        ByPriority(rules))
    IN  [action |-> CASE acc.blocked # "none" -> "block"
                      [] acc.blocked = "none" /\ acc.warned # {} -> "warn"
                      [] OTHER -> "allow",
         blockedBy |-> acc.blocked, warned |-> acc.warned]

-----------------------------------------------------------------------------
(* Rule sets: product baseline, then the phase, then the account.          *)

(* The fields whose value encodes how tight a rule is: lower is tighter. *)
TightnessGuards ==
    [daily_loss_limit |-> "threshold_percent", max_drawdown |-> "threshold_percent",
     max_position_size |-> "max_lots", consistency |-> "block_at"]

Loosens(type, field, old, new) ==
    /\ type \in DOMAIN TightnessGuards
    /\ field = TightnessGuards[type]
    /\ new > old

(* An override is a function from rule types to functions from fields to      *)
(* values.  It may name neither a rule nor a field that is not there.         *)
LayerAccepted(specs, overrides, guarded) ==
    \A type \in DOMAIN overrides : \E i \in DOMAIN specs :
        /\ specs[i]["type"] = type
        /\ \A field \in DOMAIN overrides[type] :
              /\ field # "type"
              /\ field \in DOMAIN specs[i]
              /\ guarded => ~Loosens(type, field, specs[i][field], overrides[type][field])

ApplyLayer(specs, overrides) ==
    [i \in DOMAIN specs |->
        LET type == specs[i]["type"]
        IN  [field \in DOMAIN specs[i] |->
                IF type \in DOMAIN overrides /\ field \in DOMAIN overrides[type]
                THEN overrides[type][field] ELSE specs[i][field]]]

(* A product that declares a rule type twice is refused. *)
MergeAccepted(specs, phase, account) ==
    /\ \A i, j \in DOMAIN specs : specs[i]["type"] = specs[j]["type"] => i = j
    /\ LayerAccepted(specs, phase, FALSE)
    /\ LayerAccepted(ApplyLayer(specs, phase), account, TRUE)

MergeRuleOverrides(specs, phase, account) == ApplyLayer(ApplyLayer(specs, phase), account)

(* from_account_config *)
AssignmentType(account) ==
    CASE account.firm -> "firm"
      [] ~account.firm /\ account.personal /\ account.rulesFile -> "personal"
      [] OTHER -> "none"

(* get_rules_for_account: the rules, or "refused" when no engine is built. *)
RulesForAccount(account, product, phase, file) ==
    CASE AssignmentType(account) = "firm" ->
           IF /\ MergeAccepted(product, phase, account.overrides)
              /\ Parsed(MergeRuleOverrides(product, phase, account.overrides))
           THEN ParseRules(MergeRuleOverrides(product, phase, account.overrides))
           ELSE <<Invalid>>
      [] AssignmentType(account) = "personal" ->
           IF Parsed(file) THEN ParseRules(file) ELSE <<Invalid>>
      [] OTHER -> <<>>
=============================================================================
