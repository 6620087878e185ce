------------------------------- MODULE MCLinks -------------------------------
(* The components at the edges of the system: the bridge to MT5 and the       *)
(* connections to it, the emergency stop between bot and engine, the          *)
(* notification service, the TradingView client with its chart sessions and   *)
(* history fetches, and the two readers of the bar feed.  They share no       *)
(* state, so a behaviour moves one of them.                                   *)
EXTENDS Mt5Bridge, Mt5Connections, EmergencyStop, Notifications, TvClient,
        ChartSession, HistoryFetch, BarFeed, TLC

VARIABLE focus

CONSTANTS a, b, o1, o2, o3, a1, a2

MCAccounts == {a1, a2}
MCEAs == {a, b}
MCOrders == {o1, o2, o3}
MCAccount == o1 :> a @@ o2 :> a @@ o3 :> b

allVars == <<vars, linkVars, emVars, noteVars, tvVars, chartVars, fetchVars, feedVars, focus>>

(* The components a behaviour does not move start in one state. *)
MCInit ==
    /\ focus \in {"bridge", "connections", "emergency", "notifications", "client", "chart",
                 "fetch", "node feed", "adapter feed"}
    /\ Init /\ LinkInit /\ AnyStatus /\ NoteInit /\ TvInit /\ ChartInit /\ FetchInit
    /\ FeedInit
    /\ focus # "emergency" => open = [x \in Accounts |-> 0] /\ status = [x \in Accounts |-> "active"]
    /\ focus # "notifications" => notifier = "bot"
    /\ focus # "chart" => mode = "live" /\ ~hasContext
    /\ focus # "fetch" => serverBars = {} /\ fromTs = 1 /\ toTs = 2

MCNext ==
    /\ UNCHANGED focus
    /\ \/ focus = "bridge" /\ Next
          /\ UNCHANGED <<linkVars, emVars, noteVars, tvVars, chartVars, fetchVars, feedVars>>
       \/ focus = "connections" /\ LinkNext
          /\ UNCHANGED <<vars, emVars, noteVars, tvVars, chartVars, fetchVars, feedVars>>
       \/ focus = "emergency" /\ EmNext
          /\ UNCHANGED <<vars, linkVars, noteVars, tvVars, chartVars, fetchVars, feedVars>>
       \/ focus = "notifications" /\ NoteNext
          /\ UNCHANGED <<vars, linkVars, emVars, tvVars, chartVars, fetchVars, feedVars>>
       \/ focus = "client" /\ TvNext
          /\ UNCHANGED <<vars, linkVars, emVars, noteVars, chartVars, fetchVars, feedVars>>
       \/ focus = "chart" /\ ChartNext
          /\ UNCHANGED <<vars, linkVars, emVars, noteVars, tvVars, fetchVars, feedVars>>
       \/ focus = "fetch" /\ FetchNext
          /\ UNCHANGED <<vars, linkVars, emVars, noteVars, tvVars, chartVars, feedVars>>
       \/ /\ \/ focus = "node feed" /\ FeedNext /\ listener' = "off"
             \/ focus = "adapter feed" /\ FeedNext /\ nodeTask' = "off"
          /\ UNCHANGED <<vars, linkVars, emVars, noteVars, tvVars, chartVars, fetchVars>>

(* The fairness of each component, for the behaviours that move it. *)
MCFairness ==
    /\ SF_vars(focus = "bridge" /\ ReceiveCommand)
    /\ \A x \in EAs : /\ SF_vars(focus = "bridge" /\ Heartbeat(x))
                      /\ WF_vars(focus = "bridge" /\ Reply(x))
    /\ WF_emVars(focus = "emergency" /\ Handle)
    /\ WF_tvVars(focus = "client" /\ ReceiverStep)
    /\ WF_tvVars(focus = "client" /\ SenderStep)
    /\ WF_tvVars(focus = "client" /\ (LoopsEnded \/ CloseSessions \/ CloseConnection))
    /\ WF_fetchVars(focus = "fetch" /\ Fetching)
    /\ WF_fetchVars(focus = "fetch" /\ ServerAnswers)

MCSpec == MCInit /\ [][MCNext]_allVars /\ MCFairness
=============================================================================
