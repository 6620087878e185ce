-------------------------- MODULE RegimeDetection --------------------------
(* The regime actor of a trading node (src/services/trading-engine/src/regime):*)
(* every bar is turned into features, the features into a raw state, and a    *)
(* hysteresis filter confirms a raw state only after ConfirmationBars bars in *)
(* a row before the store that the strategies read is changed.                *)
(*                                                                            *)
(* A feature is kept as far as the classifier's thresholds tell its values    *)
(* apart; the confidence of a decision, which nothing reads, is left out.     *)
EXTENDS Integers, Sequences, FiniteSets, FiniteSetsExt

CONSTANTS
    ConfirmationBars,   \* confirmation_bars
    WarmupBars          \* bars before the extractor yields features

ASSUME RegimeBounds == ConfirmationBars \in Nat \ {0} /\ WarmupBars \in Nat \ {0}

VARIABLES
    barsSeen,       \* FeatureExtractor._bars_seen, up to WarmupBars
    current,        \* HysteresisFilter._current
    pendingState,   \* HysteresisFilter._pending, or NoRegime
    barsInPending,  \* HysteresisFilter._bars_in_pending
    published,      \* RegimeStateStore: the published state, or NoRegime
    rawStates       \* history: the raw states decided, one per bar after the warm-up

regimeVars == <<barsSeen, current, pendingState, barsInPending, published, rawStates>>

NoRegime == "none"
RegimeStates == {"trending_up", "trending_down", "ranging", "high_volatility", "unknown"}

(* volatile: band width or realized volatility at its limit; trending: ADX at *)
(* its minimum; slope, di: sign of the EMA slope beyond its threshold and of  *)
(* +DI - -DI; narrow: band width under its lower limit.                       *)
Features == [volatile : BOOLEAN, trending : BOOLEAN, slope : -1..1, di : -1..1, narrow : BOOLEAN]

Decide(f) ==
    CASE f.volatile -> "high_volatility"
      [] ~f.volatile /\ f.trending /\ f.slope = 1 /\ f.di = 1 -> "trending_up"
      [] ~f.volatile /\ f.trending /\ f.slope = -1 /\ f.di = -1 -> "trending_down"
      [] ~f.volatile /\ ~f.trending /\ f.narrow -> "ranging"
      [] OTHER -> "unknown"

RegimeInit ==
    /\ barsSeen = 0 /\ current = "unknown" /\ pendingState = NoRegime
    /\ barsInPending = 0 /\ published = NoRegime /\ rawStates = <<>>

(* A plausible slip: a bar that agrees with the current state leaves the count *)
(* of the pending one standing.                                               *)
ApplyKeepsPending(raw) ==
    LET bars == IF raw = pendingState THEN barsInPending + 1 ELSE 1
        confirmed == raw # current /\ bars >= ConfirmationBars
    IN  /\ current' = IF confirmed THEN raw ELSE current
        /\ pendingState' = IF confirmed THEN NoRegime ELSE IF raw = current THEN pendingState ELSE raw
        /\ barsInPending' = IF confirmed THEN 0 ELSE IF raw = current THEN barsInPending ELSE bars

(* HysteresisFilter.apply. *)
Apply(raw) ==
    LET bars == IF raw = pendingState THEN barsInPending + 1 ELSE 1
        confirmed == raw # current /\ bars >= ConfirmationBars
        waiting == raw # current /\ ~confirmed
    IN  /\ current' = IF confirmed THEN raw ELSE current
        /\ pendingState' = IF waiting THEN raw ELSE NoRegime
        /\ barsInPending' = IF waiting THEN bars ELSE 0

(* FeatureExtractor.update: no features before the warm-up is over.  The      *)
(* indicators have their values by then, and none is NaN: an extractor that   *)
(* is short of a value, or raises, leaves the actor as it is.                 *)
UpdateExtractor == barsSeen' = IF barsSeen < WarmupBars THEN barsSeen + 1 ELSE barsSeen

(* RegimeStateStore.publish: the snapshot strategies read is replaced. *)
Publish(s) == published' = s

(* RegimeActor.on_bar: nothing is decided or published before the warm-up is  *)
(* over; a failing audit hook does not stop the publication.                  *)
ActorOnBar(f) ==
    /\ UpdateExtractor
    /\ IF barsSeen' < WarmupBars
       THEN UNCHANGED <<current, pendingState, barsInPending, published, rawStates>>
       ELSE /\ Apply(Decide(f))
            /\ Publish(current')
            /\ rawStates' = Append(rawStates, Decide(f))

(* RegimeDecision.__post_init__: what a decision must satisfy or the actor's  *)
(* handler raises.                                                            *)
ValidDecision ==
    /\ (pendingState = NoRegime) <=> (barsInPending = 0)
    /\ pendingState # current

(* The reference: the state of the last run of ConfirmationBars equal raw     *)
(* states among the first n, unknown while there is none.                     *)
ConfirmedAfter(n) ==
    LET runs == {i \in ConfirmationBars..n :
                    \A j \in (i - ConfirmationBars + 1)..i : rawStates[j] = rawStates[i]}
    IN  IF runs = {} THEN "unknown" ELSE rawStates[Max(runs)]

(* The filter confirms exactly the runs of the reference, never a count that  *)
(* an intermediate bar has broken, and every decision it makes is valid.      *)
RegimeExact ==
    /\ published = (IF rawStates = <<>> THEN NoRegime ELSE ConfirmedAfter(Len(rawStates)))
    /\ ValidDecision

(* A snapshot's bars in pending stay below the confirmation count. *)
RegimeTypeOK ==
    /\ barsSeen \in 0..WarmupBars /\ current \in RegimeStates
    /\ pendingState \in RegimeStates \cup {NoRegime} /\ published \in RegimeStates \cup {NoRegime}
    /\ barsInPending \in 0..(ConfirmationBars - 1) /\ rawStates \in Seq(RegimeStates)
=============================================================================
