----------------------------- MODULE CandleStore -----------------------------
(***************************************************************************)
(* TimescaleStore (tv-api, internal/store/timescaledb.go) behind a chart   *)
(* session with storage: the update handler saves candles, a goroutine     *)
(* batches them into the table, the main goroutine cancels the context and *)
(* closes the store.  Ticks take the same path through the same goroutine. *)
(*                                                                         *)
(* A candle is saved again at every update: a save is [candle, version, n],*)
(* the n-th of all, with the version of the candle's values.               *)
(***************************************************************************)
EXTENDS Naturals, Sequences, FiniteSets, SequencesExt

CONSTANTS
    MaxSaves,       \* bound: saves of the update handler
    ChannelSize,    \* capacity of candleBuffer
    StoreBatch,     \* config.BatchSize
    MaxFlushErrors  \* bound: flushes the database fails

VARIABLES
    current,      \* the candle being formed, and
    version,      \* the version of its values
    saves,        \* history: the saves so far
    candleBuffer, \* the channel
    candleBatch,  \* local to batchProcessor
    processor,    \* batchProcessor: "select", "flush", "last" (flush at stop), "ended"
    storeCtx,     \* the context: "live" or "cancelled"
    closing,      \* Close: "no", "waiting", "closed"
    candleRows,   \* the table candles: candle -> version
    flushed,      \* history: saves in committed batches
    unsaved,      \* history: saves given up, each with the reason
    flushErrors

candleVars == <<current, version, saves, candleBuffer, candleBatch, processor, storeCtx,
                closing, candleRows, flushed, unsaved, flushErrors>>
producerVars == <<current, version, saves>>

CandleInit ==
    /\ current = 1 /\ version = 0 /\ saves = <<>>
    /\ candleBuffer = <<>> /\ candleBatch = <<>>
    /\ processor = "select" /\ storeCtx = "live" /\ closing = "no"
    /\ candleRows = <<>> /\ flushed = {} /\ unsaved = {}
    /\ flushErrors = 0

GiveUp(s, why) == unsaved \cup {[save |-> x, why |-> why] : x \in s}

-----------------------------------------------------------------------------
(* The update handler of createChartSessionWithStorage                     *)

(* SaveCandle: a select over the channel and the context.  With both ready    *)
(* Go takes either; the default, a full channel, drops the candle.            *)
SaveCandle(c, v) ==
    LET s == [candle |-> c, version |-> v, n |-> Len(saves) + 1]
    IN  /\ closing = "no"
        /\ Len(saves) < MaxSaves
        /\ saves' = Append(saves, s)
        /\ \/ /\ Len(candleBuffer) < ChannelSize
              /\ candleBuffer' = Append(candleBuffer, s)
              /\ UNCHANGED unsaved
           \/ /\ storeCtx = "cancelled"
              /\ unsaved' = GiveUp({s}, "cancelled")
              /\ UNCHANGED candleBuffer
           \/ /\ Len(candleBuffer) = ChannelSize /\ storeCtx = "live"
              /\ unsaved' = GiveUp({s}, "full")
              /\ UNCHANGED candleBuffer

(* The candle being formed has changed, or a new one begins with some volume: *)
(* the latest candle is saved.                                                *)
CandleUpdate ==
    /\ \/ current' = current /\ version' = version + 1
       \/ version > 0 /\ current' = current + 1 /\ version' = 1
    /\ SaveCandle(current', version')
    /\ UNCHANGED <<candleBatch, processor, storeCtx, closing, candleRows, flushed,
                   flushErrors>>

(* The first update of a new candle, flat or without volume: the handler      *)
(* saves the one before it once more.                                         *)
NewCandle ==
    /\ version > 0
    /\ current' = current + 1 /\ version' = 0
    /\ SaveCandle(current, version)
    /\ UNCHANGED <<candleBatch, processor, storeCtx, closing, candleRows, flushed,
                   flushErrors>>

-----------------------------------------------------------------------------
(* batchProcessor: a select over the channel, the timer, stopChan and the  *)
(* context.                                                                *)

Receive ==
    /\ processor = "select"
    /\ candleBuffer # <<>>
    /\ candleBatch' = Append(candleBatch, Head(candleBuffer))
    /\ candleBuffer' = Tail(candleBuffer)
    /\ processor' = IF Len(candleBatch') >= StoreBatch THEN "flush" ELSE "select"
    /\ UNCHANGED <<producerVars, storeCtx, closing, candleRows, flushed, unsaved, flushErrors>>

FlushTimer ==
    /\ processor = "select"
    /\ candleBatch # <<>>
    /\ processor' = "flush"
    /\ UNCHANGED <<producerVars, candleBuffer, candleBatch, storeCtx, closing, candleRows,
                   flushed, unsaved, flushErrors>>

(* What the goroutine leaves behind when it returns: its batch b and whatever *)
(* is in the channel.                                                         *)
ProcessorEnds(b) ==
    /\ processor' = "ended"
    /\ unsaved' = GiveUp(ToSet(b) \cup ToSet(candleBuffer), "left")
    /\ candleBuffer' = <<>>
    /\ candleBatch' = <<>>

(* ctx.Done: no flush. *)
ContextDone ==
    /\ processor = "select"
    /\ storeCtx = "cancelled"
    /\ ProcessorEnds(candleBatch)
    /\ UNCHANGED <<producerVars, storeCtx, closing, candleRows, flushed, flushErrors>>

(* stopChan: the batch is flushed, with a context of its own, the channel is  *)
(* not read.                                                                  *)
StopReceived ==
    /\ processor = "select"
    /\ closing # "no"
    /\ IF candleBatch = <<>>
       THEN ProcessorEnds(<<>>)
       ELSE processor' = "last" /\ UNCHANGED <<candleBuffer, candleBatch, unsaved>>
    /\ UNCHANGED <<producerVars, storeCtx, closing, candleRows, flushed, flushErrors>>

-----------------------------------------------------------------------------
(* flushCandles, one transaction                                           *)

(* ON CONFLICT DO NOTHING: the first version of a candle to arrive stays. *)
Inserted(rows, s) ==
    IF s.candle \in DOMAIN rows THEN rows
    ELSE [c \in DOMAIN rows \cup {s.candle} |-> IF c = s.candle THEN s.version ELSE rows[c]]

Flushing == processor \in {"flush", "last"}

(* Mutant: the batch is not emptied after a timer's or a full batch's flush. *)
FlushEndsKeepsBatch ==
    IF processor = "last"
    THEN ProcessorEnds(<<>>)
    ELSE /\ processor' = "select"
         /\ UNCHANGED <<candleBuffer, candleBatch, unsaved>>

(* The batch is emptied, whatever became of the transaction. *)
FlushEnds ==
    IF processor = "last"
    THEN ProcessorEnds(<<>>)
    ELSE /\ processor' = "select"
         /\ candleBatch' = <<>>
         /\ UNCHANGED <<candleBuffer, unsaved>>

FlushCandles ==
    /\ Flushing
    /\ candleRows' = FoldLeft(Inserted, candleRows, candleBatch)
    /\ flushed' = flushed \cup ToSet(candleBatch)
    /\ FlushEnds
    /\ UNCHANGED <<producerVars, storeCtx, closing, flushErrors>>

(* The transaction cannot begin or commit.  An error of one row aborts it     *)
(* too, although the loop goes on to the next row.                            *)
FlushFails ==
    /\ Flushing
    /\ \/ processor = "flush" /\ storeCtx = "cancelled" /\ UNCHANGED flushErrors
       \/ flushErrors < MaxFlushErrors /\ flushErrors' = flushErrors + 1
    /\ candleBatch' = <<>>
    /\ IF processor = "last"
       THEN /\ processor' = "ended"
            /\ candleBuffer' = <<>>
            /\ unsaved' = GiveUp(ToSet(candleBatch), "failed")
                          \cup GiveUp(ToSet(candleBuffer), "left")
       ELSE /\ processor' = "select"
            /\ unsaved' = GiveUp(ToSet(candleBatch), "failed")
            /\ UNCHANGED candleBuffer
    /\ UNCHANGED <<producerVars, storeCtx, closing, candleRows, flushed>>

-----------------------------------------------------------------------------
(* runWithStorage                                                          *)

(* A signal cancels the context. *)
Interrupt ==
    /\ storeCtx = "live" /\ closing # "closed"
    /\ storeCtx' = "cancelled"
    /\ UNCHANGED <<producerVars, candleBuffer, candleBatch, processor, closing, candleRows,
                   flushed, unsaved, flushErrors>>

(* Close, after the client was closed; without an interrupt when the start    *)
(* failed, or in the programs that close the store themselves.                *)
CloseStore ==
    /\ closing = "no"
    /\ closing' = "waiting"
    /\ UNCHANGED <<producerVars, candleBuffer, candleBatch, processor, storeCtx, candleRows,
                   flushed, unsaved, flushErrors>>

CloseReturns ==
    /\ closing = "waiting"
    /\ processor = "ended"
    /\ closing' = "closed"
    /\ UNCHANGED <<producerVars, candleBuffer, candleBatch, processor, storeCtx, candleRows,
                   flushed, unsaved, flushErrors>>

CandleNext ==
    \/ CandleUpdate \/ NewCandle
    \/ Receive \/ FlushTimer \/ ContextDone \/ StopReceived
    \/ FlushCandles \/ FlushFails
    \/ Interrupt \/ CloseStore \/ CloseReturns

CandleSpec == CandleInit /\ [][CandleNext]_candleVars

-----------------------------------------------------------------------------
GivenUp(why) == {u.save : u \in {x \in unsaved : x.why = why}}

OnTheWay == candleBatch \o candleBuffer

(* Every save is in one place: on its way, in order, or in the table, or      *)
(* given up; and given up only when the channel was full, a transaction       *)
(* failed, the context was cancelled, or Close found it in the channel.       *)
SavesAccounted ==
    LET places == <<ToSet(OnTheWay), flushed, GivenUp("full"), GivenUp("failed"),
                    GivenUp("cancelled"), GivenUp("left")>>
    IN  /\ UNION ToSet(places) = ToSet(saves)
        /\ \A i, j \in DOMAIN places : i # j => places[i] \cap places[j] = {}
        /\ \A i, j \in DOMAIN OnTheWay : i < j => OnTheWay[i].n < OnTheWay[j].n
        /\ \A s \in flushed, t \in ToSet(OnTheWay) : s.n < t.n
        /\ GivenUp("failed") # {} => flushErrors > 0 \/ storeCtx = "cancelled"
        /\ GivenUp("left") # {} => closing # "no" \/ storeCtx = "cancelled"

(* Every save is accounted for, and the row of a candle is the oldest version *)
(* that was written, so what the updates after that flush brought is never    *)
(* stored.                                                                    *)
CandlesAccounted ==
    /\ SavesAccounted
    /\ DOMAIN candleRows = {s.candle : s \in flushed}
    /\ \A s \in flushed : candleRows[s.candle] <= s.version
=============================================================================
