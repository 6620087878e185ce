---------------------------- MODULE ChartSession ----------------------------
(***************************************************************************)
(* A chart session (internal/session/chart.go) with its replay session:    *)
(* the handshake that subscribes to a market, the goroutines that repeat   *)
(* it when the server reports an error (reconnection.go), and the          *)
(* acknowledgements of replay commands (replay.go).                        *)
(*                                                                         *)
(* A handshake is the list of its steps still to do; between two of them   *)
(* no lock is held and another handshake may run.  A packet is built, with *)
(* the symbol id of the session, after the session's lock is released, and *)
(* queued under the lock of the client's queue: two steps.  Packets reach  *)
(* the server in the order they were queued (TvClient); of the server the  *)
(* model keeps the symbols it has resolved and the series it serves.       *)
(***************************************************************************)
EXTENDS Naturals, Sequences, FiniteSets, SequencesExt

CONSTANTS
    Reconnectors,   \* bound: reconnecting goroutines at the same time
    Acks,           \* request ids of replay commands
    MaxPacketErrors \* bound: error packets of the server

VARIABLES
    mode,           \* the subscription: "live" (with a reference time or not) or "replay"
    hasContext,     \* SetContext was called: errors lead to reconnection
    ctxDone,        \* the context is cancelled
    symbolID,       \* the number in cs.symbolID
    currentSeries,
    chartState,     \* SessionState
    steps,          \* steps[g]: the handshake of goroutine g
    built,          \* the goroutines whose next packet is built and not yet queued ...
    named,          \* ... and the symbol it names
    overtaken,      \* history: a create_series packet was overtaken
    resolved,       \* the server's: symbols of the session created last
    served,         \* the server's: "no" series, or one with its symbol "known" or "unknown"
    deleted,        \* Delete was called
    ack,            \* ack[r]: the channel of replay command r
    closes,         \* history: how often that channel was closed
    packetErrors

chartVars == <<mode, hasContext, ctxDone, symbolID, currentSeries, chartState, steps, built,
               named, overtaken, resolved, served, deleted, ack, closes, packetErrors>>

(* The caller's own handshake, and those of the reconnections. *)
Handshakers == {"caller"} \cup Reconnectors

ResolveSymbol == <<"set symbol", "resolve_symbol">>
CreateSeries == <<"next series", "create_series">>

(* The handshake of a market, in premium replay mode with the replay session: *)
(* create, add series and reset, which leave the chart's own state alone.     *)
SetMarketWithReplay == <<"replay session">>
SetMarket ==
    (IF mode = "replay" THEN SetMarketWithReplay ELSE <<>>) \o ResolveSymbol \o CreateSeries

(* Mutant: the symbol has its number from before and is not resolved again. *)
ConnectReusesSymbol == <<"chart_create_session">> \o CreateSeries \o <<"connected">>

(* connect: the session is created anew and the subscription repeated.  Its   *)
(* returns for an empty symbol or timeframe are not taken: only tv-chart sets *)
(* a context, and it has stored a subscription, with both (main.go:178-181).  *)
ConnectSteps == <<"chart_create_session">> \o SetMarket \o <<"connected">>

(* NewChartSession has queued the create packet.  The session of tv-chart is  *)
(* live and has a context; that of tv-cli has none.                           *)
ChartInit ==
    /\ mode \in {"live", "replay"}
    /\ hasContext \in BOOLEAN /\ (hasContext => mode = "live")
    /\ ctxDone = FALSE
    /\ symbolID = 0 /\ currentSeries = 0
    /\ chartState = "none"
    /\ steps = [g \in Handshakers |-> IF g = "caller" THEN SetMarket ELSE <<>>]
    /\ built = {}
    /\ named = [g \in Handshakers |-> 0]
    /\ overtaken = FALSE
    /\ resolved = {} /\ served = "no"
    /\ deleted = FALSE
    /\ ack = [r \in Acks |-> "none"]
    /\ closes = [r \in Acks |-> 0]
    /\ packetErrors = 0

Idle(g) == steps[g] = <<>>
AtStep(g, step) == ~Idle(g) /\ Head(steps[g]) = step
StepDone(g) == steps' = [steps EXCEPT ![g] = Tail(@)]

(* Another goroutine's create_series packet names the symbol of a session     *)
(* that is about to be replaced, or one that is about to be renamed.          *)
Overtakes(g) ==
    overtaken' = (overtaken \/ \E h \in built \ {g} : AtStep(h, "create_series"))

(* ResolveSymbol under the lock. *)
SetSymbol(g) ==
    /\ AtStep(g, "set symbol") /\ StepDone(g)
    /\ symbolID' = currentSeries
    /\ Overtakes(g)
    /\ UNCHANGED <<mode, hasContext, ctxDone, currentSeries, chartState, built, named, resolved,
                   served, deleted, ack, closes, packetErrors>>

(* CreateSeries under the lock. *)
NextSeries(g) ==
    /\ AtStep(g, "next series") /\ StepDone(g)
    /\ currentSeries' = currentSeries + 1
    /\ UNCHANGED <<mode, hasContext, ctxDone, symbolID, chartState, built, named, overtaken,
                   resolved, served, deleted, ack, closes, packetErrors>>

(* The packet names the symbol cs.symbolID holds when it is built, without    *)
(* the lock.  A read during the write of SetSymbol, which may see part of     *)
(* either name, counts as one before it.                                      *)
BuildPacket(g) ==
    /\ g \notin built
    /\ AtStep(g, "resolve_symbol") \/ AtStep(g, "create_series")
    /\ built' = built \cup {g}
    /\ named' = [named EXCEPT ![g] = symbolID]
    /\ UNCHANGED <<mode, hasContext, ctxDone, symbolID, currentSeries, chartState, steps, overtaken,
                   resolved, served, deleted, ack, closes, packetErrors>>

(* Client.Send *)
QueueSymbol(g) ==
    /\ g \in built /\ StepDone(g)
    /\ built' = built \ {g}
    /\ \/ /\ AtStep(g, "resolve_symbol")
          /\ resolved' = resolved \cup {named[g]}
          /\ UNCHANGED served
       \/ /\ AtStep(g, "create_series")
          /\ served' = IF named[g] \in resolved THEN "known" ELSE "unknown"
          /\ UNCHANGED resolved
    /\ UNCHANGED <<mode, hasContext, ctxDone, symbolID, currentSeries, chartState, named, overtaken,
                   deleted, ack, closes, packetErrors>>

QueueCreate(g) ==
    /\ AtStep(g, "chart_create_session") /\ StepDone(g)
    /\ resolved' = {} /\ served' = "no"
    /\ Overtakes(g)
    /\ UNCHANGED <<mode, hasContext, ctxDone, symbolID, currentSeries, chartState, built, named,
                   deleted, ack, closes, packetErrors>>

(* The packets of the replay session, and setState(connected). *)
OtherStep(g) ==
    /\ AtStep(g, "replay session") \/ AtStep(g, "connected")
    /\ StepDone(g)
    /\ chartState' = IF AtStep(g, "connected") THEN "connected" ELSE chartState
    /\ UNCHANGED <<mode, hasContext, ctxDone, symbolID, currentSeries, built, named, overtaken,
                   resolved, served, deleted, ack, closes, packetErrors>>

HandshakeStep(g) ==
    \/ SetSymbol(g) \/ NextSeries(g) \/ BuildPacket(g) \/ QueueSymbol(g)
    \/ QueueCreate(g) \/ OtherStep(g)

(* handleSymbolError, handleSeriesError, handleCriticalError: every one       *)
(* starts a goroutine of its own, also when another is reconnecting.          *)
ErrorPacket ==
    /\ packetErrors < MaxPacketErrors
    /\ packetErrors' = packetErrors + 1
    /\ chartState' = IF hasContext THEN "reconnecting" ELSE chartState
    /\ \E g \in Reconnectors :
        /\ Idle(g)
        /\ steps' = IF hasContext THEN [steps EXCEPT ![g] = ConnectSteps] ELSE steps
    /\ UNCHANGED <<mode, hasContext, ctxDone, symbolID, currentSeries, built, named, overtaken, resolved,
                   served, deleted, ack, closes>>

(* The context is cancelled.  A goroutine that has not begun its attempt sees *)
(* it and the session has failed; an attempt that has begun goes on, and since*)
(* queueing a packet does not fail there is no second attempt.                *)
CancelContext ==
    /\ hasContext /\ ~ctxDone
    /\ ctxDone' = TRUE
    /\ UNCHANGED <<mode, hasContext, symbolID, currentSeries, chartState, steps, built, named, overtaken,
                   resolved, served, deleted, ack, closes, packetErrors>>

ReconnectCancelled(g) ==
    /\ ctxDone
    /\ steps[g] = ConnectSteps
    /\ steps' = [steps EXCEPT ![g] = <<>>]
    /\ chartState' = "failed"
    /\ UNCHANGED <<mode, hasContext, ctxDone, symbolID, currentSeries, built, named, overtaken, resolved,
                   served, deleted, ack, closes, packetErrors>>

-----------------------------------------------------------------------------
(* ReplaySession.                                                          *)

(* sendCorrelated: Step, Start, Stop, by the caller after its handshake. *)
SendCorrelated(r) ==
    /\ mode = "replay" /\ Idle("caller")
    /\ ack[r] = "none"
    /\ ack' = [ack EXCEPT ![r] = "pending"]
    /\ UNCHANGED <<mode, hasContext, ctxDone, symbolID, currentSeries, chartState, steps, built, named,
                   overtaken, resolved, served, deleted, closes, packetErrors>>

(* handleReplayOK: the channel is taken out of the map under the lock ... *)
TakeAck(r) ==
    /\ ack[r] = "pending"
    /\ ack' = [ack EXCEPT ![r] = "taken"]
    /\ UNCHANGED <<mode, hasContext, ctxDone, symbolID, currentSeries, chartState, steps, built, named,
                   overtaken, resolved, served, deleted, closes, packetErrors>>

(* ... and closed after it. *)
CloseAck(r) ==
    /\ ack[r] = "taken"
    /\ ack' = [ack EXCEPT ![r] = "closed"]
    /\ closes' = [closes EXCEPT ![r] = @ + 1]
    /\ UNCHANGED <<mode, hasContext, ctxDone, symbolID, currentSeries, chartState, steps, built, named,
                   overtaken, resolved, served, deleted, packetErrors>>

(* Delete of the chart session: the replay session is deleted first, and the  *)
(* channels in its map are closed.  A reconnection does not notice.           *)
DeleteChart ==
    /\ ~deleted /\ Idle("caller")
    /\ deleted' = TRUE
    /\ resolved' = {} /\ served' = "no"
    /\ LET open == {r \in Acks : mode = "replay" /\ ack[r] = "pending"}
       IN  /\ ack' = [r \in Acks |-> IF r \in open THEN "closed" ELSE ack[r]]
           /\ closes' = [r \in Acks |-> IF r \in open THEN closes[r] + 1 ELSE closes[r]]
    /\ UNCHANGED <<mode, hasContext, ctxDone, symbolID, currentSeries, chartState, steps, built, named,
                   overtaken, packetErrors>>

ChartNext ==
    \/ \E g \in Handshakers : HandshakeStep(g) \/ ReconnectCancelled(g)
    \/ ErrorPacket \/ CancelContext \/ DeleteChart
    \/ \E r \in Acks : SendCorrelated(r) \/ TakeAck(r) \/ CloseAck(r)

ChartSpec == ChartInit /\ [][ChartNext]_chartVars

-----------------------------------------------------------------------------
(* Handshakes may overlap, and each undo what another did: once they are over *)
(* the server serves a series, in the session created last, and of a symbol   *)
(* resolved there.  Only in one case, which nothing in the code prevents, is  *)
(* the symbol another one: if a handshake created the session anew, or gave   *)
(* the symbol a new name, while another had built its create_series packet    *)
(* and not queued it.                                                         *)
LastSeriesResolved ==
    ~deleted /\ (\A g \in Handshakers : Idle(g)) =>
        served # "no" /\ (~overtaken => served = "known")

(* The channel of a replay command is closed once: a second close would end   *)
(* the process, none would leave the caller waiting.                          *)
AcksClosedOnce == \A r \in Acks : closes[r] = IF ack[r] = "closed" THEN 1 ELSE 0

(* Reconnections leave a subscription, and late, missing and repeated         *)
(* acknowledgements do no harm.                                               *)
ChartSound == LastSeriesResolved /\ AcksClosedOnce
=============================================================================
