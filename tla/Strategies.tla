----------------------------- MODULE Strategies -----------------------------
(* The signals of the registered strategies (src/services/trading-engine/src/ *)
(* strategies): what each generate_signal answers to a bar.                   *)
(*                                                                            *)
(* A bar carries the reading of the strategy's indicator, as far as its       *)
(* thresholds tell values apart:                                              *)
(*   supertrend               -1, 1: trend                                    *)
(*   ma_crossover             sign of fast - slow                             *)
(*   donchian_breakout        -1, 0, 1: close below, in, above the channel    *)
(*   bollinger_mean_reversion, mean_reversion                                 *)
(*                            -2 under the lower band, -1 under the middle,   *)
(*                            0 on it, 1 above it, 2 over the upper band      *)
(*   rsi_mean_reversion       -2 at most oversold, -1 below neutral, 0 neutral*)
(*                            1 above it, 2 at least overbought               *)
(*   orb                      -1, 0, 1: close below, in, above the opening    *)
(*                            range (the range itself is not kept)            *)
EXTENDS RegimeDetection

CONSTANT SlotsPerDay    \* bars of a day; slot 0 is outside the session

ASSUME SessionBounds == SlotsPerDay \in Nat \ {0, 1}

Day(t) == t \div SlotsPerDay
InSession(t) == t % SlotsPerDay # 0

Kinds ==
    {"supertrend", "donchian_breakout", "mean_reversion", "ma_crossover", "orb",
     "bollinger_mean_reversion", "rsi_mean_reversion"}

(* The regimes a strategy is registered for: an empty list admits none. *)
AllowedRegimes(kind) ==
    CASE kind \in {"supertrend", "donchian_breakout"} -> {"trending_up", "trending_down"}
      [] kind = "mean_reversion" -> {"ranging"}
      [] OTHER -> {}

(* Hosts of EntryFilterMixin and of BracketScaleOutMixin. *)
Filtered(kind) == kind \in {"supertrend", "donchian_breakout", "mean_reversion"}
ScalesOut(kind) == kind \in {"supertrend", "donchian_breakout", "ma_crossover"}

(* The indicator parameters __post_init__ of each strategy accepts: p.period  *)
(* and p.slow are the periods, p.width is multiplier or num_std, and p.low,   *)
(* p.mid, p.high are the thresholds of the RSI in percent.                    *)
ValidSupertrend(p) == p.period > 0 /\ p.width > 0
ValidDonchian(p) == p.period > 0
ValidMeanReversion(p) ==
    /\ p.period > 0 /\ p.slow > 0 /\ p.width \in 1..5
    /\ 0 <= p.low /\ p.low < p.high /\ p.high <= 100
ValidBollinger(p) == p.period > 0 /\ p.width \in 1..5
ValidMaCrossover(p) == 0 < p.period /\ p.period < p.slow
ValidRsiMeanReversion(p) ==
    p.period > 0 /\ 0 <= p.low /\ p.low < p.mid /\ p.mid < p.high /\ p.high <= 100

(* The opening range ends before the session does. *)
ValidOrb(p) == p.openingRange > 0 /\ p.openingRange < SlotsPerDay - 1

ValidIndicators(kind, p) ==
    CASE kind = "supertrend" -> ValidSupertrend(p)
      [] kind = "donchian_breakout" -> ValidDonchian(p)
      [] kind = "mean_reversion" -> ValidMeanReversion(p)
      [] kind = "bollinger_mean_reversion" -> ValidBollinger(p)
      [] kind = "ma_crossover" -> ValidMaCrossover(p)
      [] kind = "rsi_mean_reversion" -> ValidRsiMeanReversion(p)
      [] kind = "orb" -> ValidOrb(p)

(* build_regime_actor: the block of the firm must be there and enabled. *)
HasRegime(c) == c.regime = "enabled"

(* attach_regime: what handles a bar beside the strategy. *)
AttachRegime(c) == IF HasRegime(c) THEN {"actor"} ELSE {}

(* _regime_admits: an entry passes without a store; with one it needs a       *)
(* published, tradeable state of the strategy's list.                         *)
RegimeAdmits(c) ==
    HasRegime(c) => published \in AllowedRegimes(c.kind) \ {"high_volatility", "unknown"}

(* What a strategy remembers between bars: the last reading, and for the      *)
(* opening range the session, the time it was opened and what became of it.   *)
NoReading == 9
NoSession == [day |-> -1, open |-> 0, complete |-> FALSE, entered |-> FALSE]
FreshMemory == [last |-> NoReading, session |-> NoSession]

Answer(signal, memory) == [signal |-> signal, memory |-> memory]

(* _session_gate: the signal it forces, or "pass". *)
SessionGate(c, t, held) ==
    CASE c.session = "off" \/ InSession(t) -> "pass"
      [] ~InSession(t) /\ c.session = "flatten" -> IF held = "flat" THEN "NONE" ELSE "CLOSE"
      [] ~InSession(t) /\ c.session = "block_entry" -> IF held = "flat" THEN "NONE" ELSE "pass"

AdxGateBlocks(c, b) == c.adx /\ ~b.adxStrong

(* SupertrendStrategy.generate_signal: outside the session the last trend is  *)
(* not recorded.                                                              *)
Supertrend(c, b, t, m, held) ==
    LET gate == SessionGate(c, t, held)
        seen == [m EXCEPT !.last = b.reading]
    IN  CASE gate # "pass" -> Answer(gate, m)
          [] gate = "pass" /\ m.last \in {NoReading, b.reading} -> Answer("NONE", seen)
          [] gate = "pass" /\ m.last \notin {NoReading, b.reading} ->
                Answer(CASE AdxGateBlocks(c, b) -> "NONE"
                         [] ~AdxGateBlocks(c, b) /\ b.reading = 1 -> "BUY"
                         [] OTHER -> "SELL", seen)

(* DonchianBreakoutStrategy.generate_signal: the channel and the breakout are *)
(* recorded before the gates, and the very first channel only seeds them.     *)
Donchian(c, b, t, m, held) ==
    LET gate == SessionGate(c, t, held)
        fresh == ~c.crossOnly \/ m.last # b.reading
    IN  IF m.last = NoReading THEN Answer("NONE", [m EXCEPT !.last = 0])
        ELSE Answer(CASE gate # "pass" -> gate
                      [] gate = "pass" /\ (b.reading = 0 \/ ~fresh \/ AdxGateBlocks(c, b)) -> "NONE"
                      [] OTHER -> IF b.reading = 1 THEN "BUY" ELSE "SELL",
                    [m EXCEPT !.last = b.reading])

(* A position is left when the close is back at the middle band. *)
Reverted(b, held) ==
    \/ held = "long" /\ b.reading >= 0
    \/ held = "short" /\ b.reading <= 0

(* MeanReversionStrategy.generate_signal: bands of no width end the handler   *)
(* before anything is recorded; an entry needs the RSI at its extreme, and    *)
(* with entry_mode "recross" the close of the bar before beyond its band.     *)
MeanReversion(c, b, t, m, held) ==
    LET gate == SessionGate(c, t, held)
        entry == IF c.recross
                 THEN CASE m.last = -2 /\ b.reading >= -1 /\ b.rsi = -1 -> "BUY"
                        [] m.last = 2 /\ b.reading <= 1 /\ b.rsi = 1 -> "SELL"
                        [] OTHER -> "NONE"
                 ELSE CASE b.reading = -2 /\ b.rsi = -1 -> "BUY"
                        [] b.reading = 2 /\ b.rsi = 1 -> "SELL"
                        [] OTHER -> "NONE"
    IN  IF b.noWidth THEN Answer("NONE", m)
        ELSE Answer(CASE gate # "pass" -> gate
                      [] gate = "pass" /\ Reverted(b, held) -> "CLOSE"
                      [] gate = "pass" /\ ~Reverted(b, held) -> IF held = "flat" THEN entry ELSE "NONE",
                    [m EXCEPT !.last = b.reading])

(* BollingerMeanReversionStrategy.generate_signal. *)
Bollinger(b, m, held) ==
    Answer(CASE b.noWidth -> "NONE"
             [] ~b.noWidth /\ Reverted(b, held) -> "CLOSE"
             [] ~b.noWidth /\ ~Reverted(b, held) /\ held = "flat" ->
                    CASE b.reading = -2 -> "BUY" [] b.reading = 2 -> "SELL" [] OTHER -> "NONE"
             [] OTHER -> "NONE", m)

(* MACrossoverStrategy.generate_signal. *)
MaCrossover(b, m) ==
    Answer(CASE m.last # NoReading /\ m.last <= 0 /\ b.reading > 0 -> "BUY"
             [] m.last # NoReading /\ m.last >= 0 /\ b.reading < 0 -> "SELL"
             [] OTHER -> "NONE", [m EXCEPT !.last = b.reading])

(* RSIMeanReversionStrategy.generate_signal: exits when the RSI crosses       *)
(* neutral, entries when it leaves an extreme.                                *)
RsiMeanReversion(b, m, held) ==
    Answer(CASE m.last = NoReading -> "NONE"
             [] m.last # NoReading /\ held = "long" /\ m.last < 0 /\ b.reading >= 0 -> "CLOSE"
             [] m.last # NoReading /\ held = "short" /\ m.last > 0 /\ b.reading <= 0 -> "CLOSE"
             [] m.last # NoReading /\ held = "flat" /\ m.last = -2 /\ b.reading > -2 -> "BUY"
             [] m.last # NoReading /\ held = "flat" /\ m.last = 2 /\ b.reading < 2 -> "SELL"
             [] OTHER -> "NONE", [m EXCEPT !.last = b.reading])

(* ORBStrategy.generate_signal: the session's state starts afresh with its    *)
(* first bar; the bars of the opening range only extend the range; one entry  *)
(* is signalled per session, whether or not it is then admitted.              *)
Orb(p, b, t, m, held) ==
    LET s == IF m.session.day = Day(t) THEN m.session
             ELSE [NoSession EXCEPT !.day = Day(t), !.open = t]
        complete == s.complete \/ t - s.open >= p.openingRange
        entry == complete /\ ~s.entered /\ held = "flat" /\ b.reading # 0
    IN  CASE ~InSession(t) /\ held # "flat" -> Answer("CLOSE", m)
          [] ~InSession(t) /\ held = "flat" -> Answer("NONE", [m EXCEPT !.session = NoSession])
          [] InSession(t) ->
                Answer(CASE entry -> IF b.reading = 1 THEN "BUY" ELSE "SELL"
                         [] ~entry -> "NONE",
                       [m EXCEPT !.session = [s EXCEPT !.complete = complete,
                                                       !.entered = s.entered \/ entry]])

(* generate_signal of the configured strategy, once its indicators are ready. *)
GenerateSignal(c, b, t, m, held) ==
    CASE ~b.ready /\ c.kind # "supertrend" -> Answer("NONE", m)
      [] ~b.ready /\ c.kind = "supertrend" ->
            Answer(IF SessionGate(c, t, held) = "pass" THEN "NONE" ELSE SessionGate(c, t, held), m)
      [] b.ready /\ c.kind = "supertrend" -> Supertrend(c, b, t, m, held)
      [] b.ready /\ c.kind = "donchian_breakout" -> Donchian(c, b, t, m, held)
      [] b.ready /\ c.kind = "mean_reversion" -> MeanReversion(c, b, t, m, held)
      [] b.ready /\ c.kind = "bollinger_mean_reversion" -> Bollinger(b, m, held)
      [] b.ready /\ c.kind = "ma_crossover" -> MaCrossover(b, m)
      [] b.ready /\ c.kind = "rsi_mean_reversion" -> RsiMeanReversion(b, m, held)
      [] b.ready /\ c.kind = "orb" -> Orb(c.params, b, t, m, held)
=============================================================================
