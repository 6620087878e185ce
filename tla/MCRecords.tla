------------------------------ MODULE MCRecords ------------------------------
(* The components that keep the records: order execution with the trade       *)
(* writer, the batched writers by themselves, the audit queue, the daily      *)
(* snapshots and the candle store.  They share no state, so a behaviour moves *)
(* one of them.                                                               *)
EXTENDS OrderExecution, AuditQueue, DailySnapshots, CandleStore

VARIABLE focus

Session(tz, offset, reset) == [tz |-> tz, offset |-> offset, reset |-> reset]
MCDefaultSession == Session("U", 0, 0)
MCSessionOf == [d1 |-> Session("P", 1, 0), d2 |-> Session("N", 0, 1)]

(* A close that takes out another position than the one it was created for    *)
(* needs four orders.  They come with a writer that neither stops nor fails.  *)
(* Being alike they are used in the order of their names, and the first buys, *)
(* as buys and sells are alike too.  The other behaviours have three.         *)
Nth == [o1 |-> 1, o2 |-> 2, o3 |-> 3, o4 |-> 4]
Quiet ==
    /\ writing' = writing /\ failures' = failures
    /\ order'["o1"].side = 1
    /\ \A o, q \in Orders : Nth[o] < Nth[q] /\ call'[q] # "idle" => call'[o] # "idle"
Three == call'["o4"] = "idle" /\ "o4" \notin accepted'

(* The daily snapshots are started, for the last time, within two hours. *)
StartedEarly == taking' => taking \/ clock <= DayLength + 1

MCInit ==
    /\ OrderInit /\ WriterInit /\ AuditInit /\ DayInit /\ CandleInit
    /\ focus \in {"orders", "closes", "writer", "audit", "days", "candles"}
    /\ focus # "days" => members = {}

MCNext ==
    /\ UNCHANGED focus
    /\ \/ focus = "orders" /\ OrderNext /\ Three
          /\ UNCHANGED <<auditVars, dayVars, candleVars>>
       \/ focus = "closes" /\ OrderNext /\ Quiet
          /\ UNCHANGED <<auditVars, dayVars, candleVars>>
       \/ focus = "writer" /\ WriterNext
          /\ UNCHANGED <<orderVars, auditVars, dayVars, candleVars>> /\ Three
       \/ focus = "audit" /\ AuditNext
          /\ UNCHANGED <<orderVars, writerVars, dayVars, candleVars>>
       \/ focus = "days" /\ DayNext /\ StartedEarly
          /\ UNCHANGED <<orderVars, writerVars, auditVars, candleVars>>
       \/ focus = "candles" /\ CandleNext
          /\ UNCHANGED <<orderVars, writerVars, auditVars, dayVars>>

MCSpec ==
    /\ MCInit
    /\ [][MCNext]_<<orderVars, writerVars, auditVars, dayVars, candleVars, focus>>
    /\ WriterFairness
=============================================================================
