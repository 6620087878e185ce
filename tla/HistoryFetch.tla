---------------------------- MODULE HistoryFetch ----------------------------
(***************************************************************************)
(* Fetching history for a backtest: the command backtest-fetch of tv-cli   *)
(* asks a chart session for older and older bars until the wanted range is *)
(* reached (fetchUntil), then writes a Parquet file and its manifest.      *)
(*                                                                         *)
(* A bar is its time.  The fetching goroutine and the receive loop share   *)
(* the session's periods; the only other link is a channel of tokens, one  *)
(* per update, which does not say what the update held.                    *)
(*                                                                         *)
(* Assumed of the server: it answers a request in less than the response   *)
(* timeout if it has older bars, and a series with an anchor in the past   *)
(* gets no live candles.                                                   *)
(***************************************************************************)
EXTENDS Naturals, Sequences, FiniteSets, FiniteSetsExt

CONSTANTS
    LastTime,       \* bars are at times 1..LastTime
    FetchBatch,     \* batchSize
    MaxBatches,     \* maxBatches
    TokenBuffer     \* the buffer of the channel of SubscribeUpdate

(* parseBacktestFetchFlags refuses a batch size that is not positive. *)
ASSUME FetchBounds == LastTime \in Nat /\ FetchBatch \in Nat \ {0} /\ TokenBuffer \in Nat

VARIABLES
    serverBars,     \* the bars the server has
    fromTs, toTs,
    periods,        \* cs.periods
    due,            \* packets the server has to answer: create_series, request_more_data
    tokens,         \* tokens in the channel
    subscribed,
    fetchPc,
    prevMin, sameStreak, batch,
    tmpFile,        \* does the temporary file exist?
    dataset,        \* the Parquet file: its bars, {} when there is none
    manifest        \* the bars the manifest describes, {} when there is none

fetchVars == <<serverBars, fromTs, toTs, periods, due, tokens, subscribed, fetchPc, prevMin,
               sameStreak, batch, tmpFile, dataset, manifest>>

(* parseBacktestFetchFlags refuses an empty range.  SetMarket has queued      *)
(* create_series with the range's end as its anchor.                          *)
FetchInit ==
    /\ serverBars \in SUBSET (1..LastTime)
    /\ fromTs \in 1..LastTime /\ toTs \in 1..LastTime /\ fromTs < toTs
    /\ periods = {} /\ due = <<"create_series">>
    /\ tokens = 0 /\ subscribed = FALSE
    /\ fetchPc = "subscribe"
    /\ prevMin = 0 /\ sameStreak = 0 /\ batch = 0
    /\ tmpFile = FALSE /\ dataset = {} /\ manifest = {}

-----------------------------------------------------------------------------
(* The receive loop.                                                       *)

(* The callback of SubscribeUpdate: a full channel drops the token. *)
SubscribeUpdateToken ==
    tokens' = IF subscribed /\ tokens < TokenBuffer THEN tokens + 1 ELSE tokens

(* OnDataBatch with a timescale_update: the periods are stored, then the      *)
(* event is emitted.                                                          *)
OnDataBatch(bars) ==
    /\ periods' = periods \cup bars
    /\ SubscribeUpdateToken

Newest(bars, n) == {b \in bars : Cardinality({c \in bars : c > b}) < n}

(* What the server sends next: bars up to the anchor, then older ones. *)
NextBars ==
    Newest({b \in serverBars : b <= toTs /\ \A p \in periods : p <= toTs => b < p}, FetchBatch)

ServerAnswers ==
    /\ due # <<>>
    /\ due' = Tail(due)
    /\ \/ OnDataBatch(NextBars)
       \/ NextBars = {} /\ UNCHANGED <<periods, tokens>>   \* out of bars: no answer
    /\ UNCHANGED <<serverBars, fromTs, toTs, subscribed, fetchPc, prevMin, sameStreak, batch, tmpFile,
                   dataset, manifest>>

-----------------------------------------------------------------------------
(* fetchUntil.                                                             *)

MinPeriodTime == IF periods = {} THEN 0 ELSE Min(periods)

FetchStep(pc, next) == fetchPc = pc /\ fetchPc' = next

Unread == <<serverBars, fromTs, toTs, periods>>
Files == <<tmpFile, dataset, manifest>>

SubscribeUpdate ==
    /\ FetchStep("subscribe", "initial")
    /\ subscribed' = TRUE
    /\ UNCHANGED <<Unread, due, tokens, prevMin, sameStreak, batch, Files>>

(* The initial batch is awaited only if no period is there yet. *)
InitialBatch ==
    /\ FetchStep("initial", IF MinPeriodTime = 0 THEN "first wait" ELSE "loop")
    /\ UNCHANGED <<Unread, due, tokens, subscribed, prevMin, sameStreak, batch, Files>>

(* waitForUpdate: a token, or the response timeout. *)
TakeToken == tokens > 0 /\ tokens' = tokens - 1
TimesOut == tokens = 0 /\ due = <<>> /\ UNCHANGED tokens

FirstWait ==
    /\ \/ FetchStep("first wait", "loop") /\ TakeToken
       \/ FetchStep("first wait", "error") /\ TimesOut
    /\ UNCHANGED <<Unread, due, subscribed, prevMin, sameStreak, batch, Files>>

Reached == MinPeriodTime > 0 /\ MinPeriodTime <= fromTs

RequestMoreData ==
    /\ fetchPc = "loop"
    /\ batch < MaxBatches
    /\ \/ /\ Reached
          /\ fetchPc' = "range"
          /\ UNCHANGED due
       \/ /\ ~Reached
          /\ fetchPc' = "wait"
          /\ due' = due \o <<"request_more_data">>
    /\ UNCHANGED <<Unread, tokens, subscribed, prevMin, sameStreak, batch, Files>>

TooManyBatches ==
    /\ FetchStep("loop", "error")
    /\ batch = MaxBatches
    /\ UNCHANGED <<Unread, due, tokens, subscribed, prevMin, sameStreak, batch, Files>>

(* Mutant: the wait is for a token only. *)
WaitForUpdateOnly ==
    /\ FetchStep("wait", "compare")
    /\ TakeToken
    /\ UNCHANGED <<Unread, due, subscribed, prevMin, sameStreak, batch, Files>>

(* The wait, and the throttle after it. *)
WaitForUpdate ==
    /\ FetchStep("wait", "compare")
    /\ TakeToken \/ TimesOut
    /\ UNCHANGED <<Unread, due, subscribed, prevMin, sameStreak, batch, Files>>

(* Two consecutive batches without progress: the server has no older bars. *)
NoOlderBars(streak) == streak >= 2

CompareMin ==
    LET newMin == MinPeriodTime
        streak == IF newMin = prevMin /\ newMin > 0 THEN sameStreak + 1 ELSE 0
    IN  /\ FetchStep("compare", IF NoOlderBars(streak) THEN "range" ELSE "loop")
        /\ sameStreak' = streak
        /\ prevMin' = newMin
        /\ batch' = batch + 1
        /\ UNCHANGED <<Unread, due, tokens, subscribed, Files>>

(* The context is cancelled: every wait and the loop's head see it. *)
FetchCancelled ==
    /\ fetchPc \in {"first wait", "loop", "wait", "compare"}
    /\ fetchPc' = "error"
    /\ UNCHANGED <<Unread, due, tokens, subscribed, prevMin, sameStreak, batch, Files>>

-----------------------------------------------------------------------------
(* FetchRange or FetchHistoricalReplay, and fetchAndWrite.                 *)

FetchRange == {p \in periods : fromTs <= p /\ p <= toTs}

(* NewParquetWriter opens the temporary file. *)
OpenWriter ==
    /\ FetchStep("range", IF FetchRange = {} THEN "error" ELSE "write")
    /\ tmpFile' = (FetchRange # {})
    /\ UNCHANGED <<Unread, due, tokens, subscribed, prevMin, sameStreak, batch, dataset, manifest>>

(* WriteBars and Close, which renames the file at the end; an error of either *)
(* removes the temporary file.  The rows were converted when it was opened,   *)
(* and no older bar arrives afterwards.                                       *)
WriteBars ==
    /\ tmpFile' = FALSE
    /\ \/ FetchStep("write", "manifest") /\ dataset' = FetchRange
       \/ FetchStep("write", "error") /\ UNCHANGED dataset
    /\ UNCHANGED <<Unread, due, tokens, subscribed, prevMin, sameStreak, batch, manifest>>

WriteManifest ==
    /\ \/ FetchStep("manifest", "done") /\ manifest' = dataset
       \/ FetchStep("manifest", "error") /\ UNCHANGED manifest
    /\ UNCHANGED <<Unread, due, tokens, subscribed, prevMin, sameStreak, batch, tmpFile, dataset>>

Fetching ==
    \/ SubscribeUpdate \/ InitialBatch \/ FirstWait \/ RequestMoreData \/ TooManyBatches
    \/ WaitForUpdate \/ CompareMin \/ OpenWriter \/ WriteBars \/ WriteManifest

FetchNext == Fetching \/ FetchCancelled \/ ServerAnswers

(* The goroutine runs and its timeouts fire; the server answers. *)
FetchFairness == WF_fetchVars(Fetching) /\ WF_fetchVars(ServerAnswers)

FetchSpec == FetchInit /\ [][FetchNext]_fetchVars /\ FetchFairness

-----------------------------------------------------------------------------
(* A fetch that succeeds has every bar the server has in the range, whichever *)
(* way answers and waits fall together: the streak of two absorbs a token     *)
(* that belongs to an earlier update.  The manifest describes the file,       *)
(* and a fetch that fails leaves no temporary file.                           *)
FetchComplete ==
    /\ fetchPc = "done" =>
        /\ dataset = {b \in serverBars : fromTs <= b /\ b <= toTs}
        /\ manifest = dataset
    /\ fetchPc \in {"done", "error"} => ~tmpFile

(* A fetch under way ends: no wait is for an update that need not come. *)
FetchEnds == fetchPc = "initial" ~> fetchPc \in {"done", "error"}

(* FetchHistory (chart.go) and the Parquet writer behind it: a fetch ends,    *)
(* and one that succeeds is complete.                                         *)
FetchSound == []FetchComplete /\ FetchEnds
=============================================================================
