----------------------------- MODULE RuleChecks -----------------------------
(***************************************************************************)
(* What the compliance rules promise, each checked over a bounded set of   *)
(* rule sets, contexts, overrides and calendars.                           *)
(***************************************************************************)
EXTENDS ComplianceRules

CONSTANTS
    SampleRules,      \* parsed rules, a rule that raises among them
    SampleContexts,   \* validation contexts
    SampleSpecs,      \* rule specifications of a product
    SampleOverrides,  \* functions from the guarded fields to values
    SampleEvents,     \* calendar events
    SampleSymbols,    \* symbols as the codes they are made of; none is the empty sequence
    Times             \* instants, in minutes

(* What the code's types say of the samples.  A rule is of some type; the     *)
(* amounts of a context are numbers, its percentages ratios; a specification  *)
(* is of a type with a guarded field, which is a number if it is there.       *)
Ratios == [num : Int, den : Nat \ {0}]

Measured(ctx) ==
    /\ \A f \in {"daily_pnl_percent", "total_drawdown_percent"} : Get(ctx, f, Zero) \in Ratios
    /\ \A f \in {"initial_balance", "current_equity", "account_balance", "requested_lots",
                 "current_position_lots", "current_day_pnl"} : Get(ctx, f, 0) \in Int
    /\ Get(ctx, "daily_profits_history", <<>>) \in Seq(Int)

ASSUME RuleSamples ==
    /\ \A r \in SampleRules : r.type # "none"
    /\ \A ctx \in SampleContexts : Measured(ctx)
    /\ \A spec \in SampleSpecs :
          /\ "type" \in DOMAIN spec /\ spec["type"] \in DOMAIN TightnessGuards
          /\ \A f \in DOMAIN spec : f = TightnessGuards[spec["type"]] => spec[f] \in Int
    /\ SampleOverrides \subseteq Int
    /\ \A e \in SampleEvents : e.start \in Int
    /\ Times \subseteq Int

VARIABLE input    \* the input under test

Inputs ==
    [what : {"engine"}, rules : [1..3 -> SampleRules], ctx : SampleContexts,
     strict : BOOLEAN] \cup
    [what : {"override"}, spec : SampleSpecs, value : SampleOverrides,
     ctx : SampleContexts] \cup
    [what : {"calendar"}, events : [1..2 -> SampleEvents], now : Times,
     before : Times, after : Times, symbol : SampleSymbols]

NoInput == [what |-> "none"]

(* The input stays what it is. *)
RulesInit == input \in Inputs \cup {NoInput}
RulesSpec == RulesInit /\ [][FALSE]_input

Blocks(r, ctx, strict) == Validate(r, ctx) \in {"block"} \cup (IF strict THEN {"raise"} ELSE {})

(* RuleEngine.validate blocks an order exactly if some rule blocks it (or, in *)
(* strict mode, raises), whatever the order of the rules; the rule it names   *)
(* as the blocker is one of the first in priority; otherwise it warns exactly *)
(* if some rule warns.                                                        *)
EngineSound ==
    input.what = "engine" =>
        LET rules    == input.rules
            blockers == {r \in ToSet(rules) : Blocks(r, input.ctx, input.strict)}
            d        == EngineValidate(rules, input.ctx, input.strict, FALSE)
        IN  /\ d.action = "block" <=> blockers # {}
            /\ blockers # {} => \E r \in blockers :
                 d.blockedBy = r.type /\ \A s \in blockers : Priority(r) <= Priority(s)
            /\ blockers = {} => (d.action = "warn" <=>
                 \E r \in ToSet(rules) : Validate(r, input.ctx) = "warn")

(* An account may only tighten: when the override of a guarded field of an    *)
(* account is accepted, every order the phase's rules block is still blocked. *)
TightenOnly ==
    input.what = "override" =>
        LET spec     == input.spec
            type     == spec["type"]
            override == [t \in {type} |-> [f \in {TightnessGuards[type]} |-> input.value]]
            merged   == MergeRuleOverrides(<<spec>>, <<>>, override)
            old      == ParseSingleRule(spec)
            new      == ParseSingleRule(merged[1])
        IN  /\ MergeAccepted(<<spec>>, <<>>, override) /\ IsRule(old) /\ IsRule(new)
            /\ Validate(old, input.ctx) = "block"
            => Validate(new, input.ctx) = "block"

(* The two binary searches on the sorted starts find exactly the events whose *)
(* blackout window holds the instant, those of equal start included; without  *)
(* a symbol, every one of them.                                               *)
BlackoutExact ==
    input.what = "calendar" =>
        ActiveEventsAt(EventIndex(input.events), input.now, input.before, input.after,
                       {"high"}, input.symbol)
            = {e \in ToSet(input.events) :
                 /\ e.start - input.before <= input.now
                 /\ input.now <= e.start + input.after
                 /\ e.impact = "high"
                 /\ \/ input.symbol = <<>>
                    \/ e.symbols = {} /\ e.country \in ToSet(input.symbol)
                    \/ input.symbol \in e.symbols}

(* The rules decide what the configuration says: the engine blocks for any    *)
(* blocking rule, an override only tightens, and the blackout is exact.       *)
RulesSound == EngineSound /\ TightenOnly /\ BlackoutExact
=============================================================================
