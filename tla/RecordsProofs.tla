---------------------------- MODULE RecordsProofs ----------------------------
(***************************************************************************)
(* Proofs about the components that keep the records.                      *)
(***************************************************************************)
EXTENDS OrderExecution, AuditQueue, CandleStore, DailySnapshots, SequenceFacts, FiniteSetTheorems

-----------------------------------------------------------------------------
(* BufferedWriter implements RowStore.  A step of a flush is a Commit or a *)
(* Drop of exactly its batch only if no row is in two places: in the       *)
(* buffer and in a batch, or in two batches.  And stop() may make its      *)
(* flush ready only because a running writer has no flush of an earlier    *)
(* stop: otherwise that flush's batch would vanish.                        *)

Places == {"none", "ready", "insert"}
RowsOf(f) == ToSet(flush[f].batch)
OtherRows(f) == UNION {RowsOf(g) : g \in AllFlushers \ {f}}

WriterTypeOK ==
    /\ writing \in BOOLEAN
    /\ buffer \in Seq(Entries)
    /\ flush \in [AllFlushers -> [at : Places, batch : Seq(Entries)]]

BatchesApart ==
    /\ \A f \in AllFlushers : ~Inserting(f) => RowsOf(f) = {}
    /\ \A f, g \in AllFlushers : f # g => RowsOf(f) \cap RowsOf(g) = {}
    /\ \A f \in AllFlushers : ToSet(buffer) \cap RowsOf(f) = {}

RowsAccepted == accepted = ToSet(buffer) \cup InFlight \cup table \cup LostRows

WriterInv ==
    /\ WriterTypeOK
    /\ BatchesApart
    /\ RowsAccepted
    /\ writing => flush["stop"] = None

LEMMA FlusherNames == "timer" \in AllFlushers /\ "stop" \in AllFlushers /\ "exit" \in AllFlushers
BY DEF AllFlushers

LEMMA RecordTypes ==
    /\ None \in [at : Places, batch : Seq(Entries)]
    /\ Ready \in [at : Places, batch : Seq(Entries)]
    /\ None # Ready /\ None.at = "none" /\ Ready.at = "ready"
    /\ None.batch = <<>> /\ Ready.batch = <<>>
    /\ ToSet(<<>>) = {}
<1>1. <<>> \in Seq(Entries) /\ ToSet(<<>>) = {}
  BY EmptyFacts, ToSetIsRange
<1> QED
  BY <1>1 DEF None, Ready, Places

LEMMA InFlightParts ==
    ASSUME NEW f \in AllFlushers
    PROVE  InFlight = RowsOf(f) \cup OtherRows(f)
BY DEF InFlight, RowsOf, OtherRows

(* A step of flush f changes the rows in flight by those of f alone. *)
LEMMA FlushMoves ==
    ASSUME WriterTypeOK, BatchesApart, NEW f \in AllFlushers,
           NEW w \in [at : Places, batch : Seq(Entries)],
           flush' = [flush EXCEPT ![f] = w]
    PROVE  /\ flush' \in [AllFlushers -> [at : Places, batch : Seq(Entries)]]
           /\ flush'[f] = w /\ RowsOf(f)' = ToSet(w.batch)
           /\ \A g \in AllFlushers \ {f} : flush'[g] = flush[g] /\ RowsOf(g)' = RowsOf(g)
           /\ InFlight' = ToSet(w.batch) \cup OtherRows(f)
           /\ InFlight = RowsOf(f) \cup OtherRows(f)
           /\ RowsOf(f) \cap OtherRows(f) = {}
           /\ ToSet(buffer) \cap OtherRows(f) = {}
<1>1. /\ flush' \in [AllFlushers -> [at : Places, batch : Seq(Entries)]]
      /\ flush'[f] = w /\ \A g \in AllFlushers \ {f} : flush'[g] = flush[g]
  BY DEF WriterTypeOK
<1>2. RowsOf(f)' = ToSet(w.batch) /\ \A g \in AllFlushers \ {f} : RowsOf(g)' = RowsOf(g)
  BY <1>1 DEF RowsOf
<1>3. OtherRows(f)' = OtherRows(f)
  BY <1>2 DEF OtherRows
<1>4. InFlight' = RowsOf(f)' \cup OtherRows(f)'
  BY DEF InFlight, RowsOf, OtherRows
<1>5. RowsOf(f) \cap OtherRows(f) = {} /\ ToSet(buffer) \cap OtherRows(f) = {}
  BY DEF BatchesApart, OtherRows
<1> QED
  BY <1>1, <1>2, <1>3, <1>4, <1>5, InFlightParts

LEMMA WriterInitInv == WriterInit => WriterInv /\ Store!StoreInit
<1> SUFFICES ASSUME WriterInit PROVE WriterInv /\ Store!StoreInit
  OBVIOUS
<1>1. /\ \A f \in AllFlushers : flush[f] = None /\ RowsOf(f) = {} /\ ~Inserting(f)
      /\ ToSet(buffer) = {} /\ buffer \in Seq(Entries) /\ writing \in BOOLEAN
  BY RecordTypes, EmptyFacts DEF WriterInit, RowsOf, Inserting
<1>2. WriterTypeOK
  BY <1>1, RecordTypes DEF WriterInit, WriterTypeOK
<1>3. InFlight = {} /\ LostRows = {}
  BY <1>1 DEF InFlight, RowsOf, LostRows, WriterInit
<1>4. BatchesApart /\ RowsAccepted
  BY <1>1, <1>3 DEF BatchesApart, RowsAccepted, WriterInit
<1>5. Store!StoreInit
  BY <1>1, <1>3 DEF Store!StoreInit, WriterInit
<1> QED
  BY <1>1, <1>2, <1>4, <1>5, FlusherNames DEF WriterInv

(* What every step of the writer does: the invariant is kept, and the store   *)
(* takes a step or none.                                                      *)
StoreStep == Store!StoreNext \/ UNCHANGED <<ToSet(buffer) \cup InFlight, table, LostRows>>

(* A flush is made ready: by a full batch, the timer or a caller. *)
MadeReady(f) ==
    /\ flush[f] = None
    /\ flush' = [flush EXCEPT ![f] = Ready]

LEMMA ReadySteps ==
    ASSUME WriterInv, NEW f \in AllFlushers \ {"stop"}, MadeReady(f),
           UNCHANGED <<writing, buffer, table, accepted, gone>>
    PROVE  WriterInv' /\ StoreStep /\ InFlight' = InFlight
<1> USE DEF WriterInv, MadeReady
<1>1. RowsOf(f) = {} /\ flush[f] = None
  BY RecordTypes DEF RowsOf
<1>2. /\ flush' \in [AllFlushers -> [at : Places, batch : Seq(Entries)]]
      /\ flush'[f] = Ready /\ RowsOf(f)' = {}
      /\ \A g \in AllFlushers \ {f} : flush'[g] = flush[g] /\ RowsOf(g)' = RowsOf(g)
      /\ InFlight' = InFlight
  <2>1. ToSet(Ready.batch) = {} /\ Ready \in [at : Places, batch : Seq(Entries)]
    BY RecordTypes
  <2>2. flush' = [flush EXCEPT ![f] = Ready] /\ f \in AllFlushers
    OBVIOUS
  <2>3. /\ flush' \in [AllFlushers -> [at : Places, batch : Seq(Entries)]]
        /\ flush'[f] = Ready /\ RowsOf(f)' = ToSet(Ready.batch)
        /\ \A g \in AllFlushers \ {f} : flush'[g] = flush[g] /\ RowsOf(g)' = RowsOf(g)
        /\ InFlight' = ToSet(Ready.batch) \cup OtherRows(f)
        /\ InFlight = RowsOf(f) \cup OtherRows(f)
    BY <2>1, <2>2, FlushMoves
  <2> QED
    BY <1>1, <2>1, <2>3
<1>3. BatchesApart'
  BY <1>1, <1>2 DEF BatchesApart, Inserting
<1>4. RowsAccepted' /\ StoreStep
  BY <1>2 DEF RowsAccepted, StoreStep, LostRows
<1>5. WriterTypeOK' /\ (writing' => flush'["stop"] = None)
  BY <1>2, FlusherNames DEF WriterTypeOK
<1> QED
  BY <1>2, <1>3, <1>4, <1>5

LEMMA AddEntrySteps ==
    ASSUME WriterInv, NEW e \in Entries, AddEntry(e)
    PROVE  WriterInv' /\ StoreStep
<1> USE DEF WriterInv
<1>1. /\ e \notin accepted /\ accepted' = accepted \cup {e} /\ buffer' = Append(buffer, e)
      /\ UNCHANGED <<writing, table, gone>>
  BY DEF AddEntry
<1>2. buffer' \in Seq(Entries) /\ ToSet(buffer') = ToSet(buffer) \cup {e}
  BY <1>1, AppendFacts, ToSetIsRange DEF WriterTypeOK
<1>3. flush' = flush \/ \E f \in Flushers : MadeReady(f)
  BY DEF AddEntry, MadeReady
<1>4. /\ flush' \in [AllFlushers -> [at : Places, batch : Seq(Entries)]]
      /\ \A f \in AllFlushers : RowsOf(f)' = RowsOf(f) /\ (Inserting(f) => Inserting(f)')
      /\ flush'["stop"] = flush["stop"]
  <2>1. CASE flush' = flush
    BY <2>1 DEF WriterTypeOK, RowsOf, Inserting
  <2>2. ASSUME NEW f \in Flushers, MadeReady(f)
        PROVE  /\ flush' \in [AllFlushers -> [at : Places, batch : Seq(Entries)]]
               /\ \A g \in AllFlushers : RowsOf(g)' = RowsOf(g) /\ (Inserting(g) => Inserting(g)')
               /\ flush'["stop"] = flush["stop"]
    <3>1. f \in AllFlushers /\ f # "stop"
      BY FlushersApart DEF AllFlushers
    <3>2. /\ flush' \in [AllFlushers -> [at : Places, batch : Seq(Entries)]]
          /\ flush'[f] = Ready /\ RowsOf(f)' = {}
          /\ \A g \in AllFlushers \ {f} : flush'[g] = flush[g] /\ RowsOf(g)' = RowsOf(g)
      BY <2>2, <3>1, RecordTypes, FlushMoves, ZenonT(60) DEF MadeReady
    <3>3. RowsOf(f) = {} /\ ~Inserting(f)
      BY <2>2, RecordTypes DEF MadeReady, RowsOf, Inserting
    <3> QED
      BY <3>1, <3>2, <3>3, FlusherNames DEF Inserting
  <2> QED
    BY <1>3, <2>1, <2>2
<1>5. InFlight' = InFlight /\ LostRows' = LostRows
  BY <1>1, <1>4 DEF InFlight, RowsOf, LostRows
<1>6. e \notin ToSet(buffer) \cup InFlight \cup table \cup LostRows
  BY <1>1 DEF RowsAccepted
<1>7. \A f \in AllFlushers : e \notin RowsOf(f)
  BY <1>6 DEF InFlight, RowsOf
<1>8. BatchesApart'
  BY <1>2, <1>4, <1>7 DEF BatchesApart
<1>9. RowsAccepted' /\ WriterTypeOK'
  BY <1>1, <1>2, <1>4, <1>5 DEF RowsAccepted, WriterTypeOK
<1>10. Store!Accept(e)
  BY <1>1, <1>2, <1>5, <1>6 DEF Store!Accept
<1> QED
  BY <1>1, <1>4, <1>8, <1>9, <1>10 DEF StoreStep, Store!StoreNext

LEMMA TakeBufferSteps ==
    ASSUME WriterInv, NEW f \in AllFlushers, TakeBuffer(f)
    PROVE  WriterInv' /\ StoreStep
<1> USE DEF WriterInv
<1> DEFINE w == IF buffer = <<>> THEN None ELSE [at |-> "insert", batch |-> buffer]
<1>1. /\ flush[f] = Ready /\ flush' = [flush EXCEPT ![f] = w] /\ buffer' = <<>>
      /\ UNCHANGED <<writing, table, accepted, gone>>
  BY DEF TakeBuffer
<1>2. /\ w \in [at : Places, batch : Seq(Entries)] /\ ToSet(w.batch) = ToSet(buffer)
      /\ w.at # "insert" => ToSet(w.batch) = {}
      /\ buffer' \in Seq(Entries) /\ ToSet(buffer') = {}
  BY <1>1, RecordTypes, EmptyFacts DEF WriterTypeOK, Places
<1>3. RowsOf(f) = {}
  BY <1>1, RecordTypes DEF RowsOf
<1> HIDE DEF w
<1>4. /\ flush' \in [AllFlushers -> [at : Places, batch : Seq(Entries)]]
      /\ flush'[f] = w /\ RowsOf(f)' = ToSet(w.batch)
      /\ \A g \in AllFlushers \ {f} : flush'[g] = flush[g] /\ RowsOf(g)' = RowsOf(g)
      /\ InFlight' = ToSet(w.batch) \cup OtherRows(f)
      /\ InFlight = RowsOf(f) \cup OtherRows(f)
  BY <1>1, <1>2, FlushMoves
<1>5. BatchesApart'
  <2>1. \A g \in AllFlushers : ~Inserting(g)' => RowsOf(g)' = {}
    BY <1>2, <1>4 DEF BatchesApart, Inserting
  <2>2. \A g, h \in AllFlushers : g # h => RowsOf(g)' \cap RowsOf(h)' = {}
    <3>1. \A g, h \in AllFlushers \ {f} : g # h => RowsOf(g)' \cap RowsOf(h)' = {}
      BY <1>4 DEF BatchesApart
    <3>2. \A g \in AllFlushers \ {f} : RowsOf(f)' \cap RowsOf(g)' = {}
      <4>1. RowsOf(f)' = ToSet(buffer)
        BY <1>2, <1>4
      <4>2. \A g \in AllFlushers : ToSet(buffer) \cap RowsOf(g) = {}
        BY DEF BatchesApart
      <4> QED
        BY <1>4, <4>1, <4>2
    <3> QED
      BY <3>1, <3>2
  <2>3. \A g \in AllFlushers : ToSet(buffer') \cap RowsOf(g)' = {}
    BY <1>2
  <2> QED
    BY <2>1, <2>2, <2>3 DEF BatchesApart
<1>6. ToSet(buffer') \cup InFlight' = ToSet(buffer) \cup InFlight /\ LostRows' = LostRows
  BY <1>1, <1>2, <1>3, <1>4 DEF LostRows
<1>7. RowsAccepted' /\ StoreStep
  BY <1>1, <1>6 DEF RowsAccepted, StoreStep
<1>8. writing => f # "stop"
  BY <1>1, RecordTypes
<1>9. WriterTypeOK' /\ (writing' => flush'["stop"] = None)
  BY <1>1, <1>2, <1>4, <1>8, FlusherNames DEF WriterTypeOK
<1> QED
  BY <1>5, <1>7, <1>9

(* A flush ends: its rows leave the flight, those of the others stay. *)
LEMMA FlushEnded ==
    ASSUME WriterInv, NEW f \in AllFlushers, flush' = [flush EXCEPT ![f] = None]
    PROVE  /\ flush' \in [AllFlushers -> [at : Places, batch : Seq(Entries)]]
           /\ RowsOf(f)' = {}
           /\ \A g \in AllFlushers \ {f} : flush'[g] = flush[g] /\ RowsOf(g)' = RowsOf(g)
           /\ InFlight' = InFlight \ RowsOf(f) /\ InFlight' = OtherRows(f)
           /\ RowsOf(f) \subseteq InFlight
           /\ flush["stop"] = None => flush'["stop"] = None
<1>1. None \in [at : Places, batch : Seq(Entries)] /\ ToSet(None.batch) = {}
  BY RecordTypes
<1>2. /\ flush' \in [AllFlushers -> [at : Places, batch : Seq(Entries)]]
      /\ flush'[f] = None /\ RowsOf(f)' = ToSet(None.batch)
      /\ \A g \in AllFlushers \ {f} : flush'[g] = flush[g] /\ RowsOf(g)' = RowsOf(g)
      /\ InFlight' = ToSet(None.batch) \cup OtherRows(f)
      /\ InFlight = RowsOf(f) \cup OtherRows(f)
      /\ RowsOf(f) \cap OtherRows(f) = {}
  BY <1>1, FlushMoves DEF WriterInv
<1> QED
  BY <1>1, <1>2, FlusherNames

LEMMA InsertOkSteps ==
    ASSUME WriterInv, NEW f \in AllFlushers, InsertOk(f)
    PROVE  WriterInv' /\ StoreStep
<1> USE DEF WriterInv
<1>1. /\ table' = table \cup RowsOf(f) /\ flush' = [flush EXCEPT ![f] = None]
      /\ UNCHANGED <<writing, buffer, accepted, gone>>
  BY DEF InsertOk, RowsOf
<1>2. /\ flush' \in [AllFlushers -> [at : Places, batch : Seq(Entries)]]
      /\ RowsOf(f)' = {}
      /\ \A g \in AllFlushers \ {f} : flush'[g] = flush[g] /\ RowsOf(g)' = RowsOf(g)
      /\ InFlight' = InFlight \ RowsOf(f)
      /\ RowsOf(f) \subseteq InFlight
      /\ flush["stop"] = None => flush'["stop"] = None
  BY <1>1, FlushEnded
<1>3. BatchesApart'
  BY <1>1, <1>2 DEF BatchesApart, Inserting
<1>4. ToSet(buffer) \cap RowsOf(f) = {} /\ LostRows' = LostRows
  BY <1>1 DEF BatchesApart, LostRows
<1>5. RowsAccepted'
  BY <1>1, <1>2, <1>4 DEF RowsAccepted
<1>6. Store!Commit(RowsOf(f)) /\ RowsOf(f) \in SUBSET (ToSet(buffer) \cup InFlight)
  BY <1>1, <1>2, <1>4 DEF Store!Commit
<1>7. StoreStep
  BY <1>6 DEF StoreStep, Store!StoreNext
<1>8. WriterTypeOK' /\ (writing' => flush'["stop"] = None)
  BY <1>1, <1>2 DEF WriterTypeOK
<1> QED
  BY <1>3, <1>5, <1>7, <1>8

(* The bound of the buffer keeps a part of the rows. *)
LEMMA NewestKeeps ==
    ASSUME NEW s \in Seq(Entries)
    PROVE  Newest(s) \in Seq(Entries) /\ ToSet(Newest(s)) \subseteq ToSet(s)
<1>1. CASE Len(s) > MaxBuffer
  <2>1. Len(s) \in Nat
    BY LenProperties
  <2>2. Len(s) - MaxBuffer + 1 \in 1..Len(s) + 1
    BY <1>1, <2>1, WriterBounds
  <2> QED
    BY <1>1, <2>2, SuffixFacts, ToSetIsRange DEF Newest
<1>2. CASE ~(Len(s) > MaxBuffer)
  BY <1>2 DEF Newest
<1> QED
  BY <1>1, <1>2

LEMMA InsertFailsSteps ==
    ASSUME WriterInv, NEW f \in AllFlushers, Failed(f),
           table' = table \/ table' = table \cup ToSet(flush[f].batch)
    PROVE  WriterInv' /\ StoreStep
<1> USE DEF WriterInv
<1> DEFINE all == flush[f].batch \o buffer
           dropped == ToSet(all) \ ToSet(buffer')
           stored == table' \ table
<1>1. /\ buffer' = Newest(all)
      /\ gone' = gone \cup {<<e, "buffer full">> : e \in dropped}
      /\ flush' = [flush EXCEPT ![f] = None]
      /\ UNCHANGED <<writing, accepted>>
  BY DEF Failed, PutBack
<1>2. all \in Seq(Entries) /\ ToSet(all) = RowsOf(f) \cup ToSet(buffer)
  <2>1. flush[f].batch \in Seq(Entries) /\ buffer \in Seq(Entries)
    BY DEF WriterTypeOK
  <2> QED
    BY <2>1, ConcatFacts, ToSetIsRange DEF RowsOf
<1>3. buffer' \in Seq(Entries) /\ ToSet(buffer') \subseteq ToSet(all)
  BY <1>1, <1>2, NewestKeeps
<1> HIDE DEF all
<1>4. LostRows' = LostRows \cup dropped
  <2>1. \A e : <<e, "buffer full">>[1] = e
    OBVIOUS
  <2> HIDE DEF dropped
  <2> QED
    BY <1>1, <2>1, ZenonT(60) DEF LostRows
<1>5. /\ flush' \in [AllFlushers -> [at : Places, batch : Seq(Entries)]]
      /\ RowsOf(f)' = {}
      /\ \A g \in AllFlushers \ {f} : flush'[g] = flush[g] /\ RowsOf(g)' = RowsOf(g)
      /\ InFlight' = InFlight \ RowsOf(f) /\ InFlight' = OtherRows(f)
      /\ RowsOf(f) \subseteq InFlight
      /\ flush["stop"] = None => flush'["stop"] = None
  BY <1>1, FlushEnded
<1>6. \A g \in AllFlushers \ {f} : RowsOf(g) \cap ToSet(all) = {}
  BY <1>2 DEF BatchesApart
<1>7. OtherRows(f) \cap ToSet(all) = {}
  BY <1>6 DEF OtherRows
<1>8. BatchesApart'
  <2>1. \A g \in AllFlushers : ~Inserting(g)' => RowsOf(g)' = {}
    BY <1>5 DEF BatchesApart, Inserting
  <2>2. \A g, h \in AllFlushers : g # h => RowsOf(g)' \cap RowsOf(h)' = {}
    BY <1>5 DEF BatchesApart
  <2>3. \A g \in AllFlushers : ToSet(buffer') \cap RowsOf(g)' = {}
    BY <1>3, <1>5, <1>6, SMTT(40)
  <2> QED
    BY <2>1, <2>2, <2>3 DEF BatchesApart
<1>9. ToSet(buffer') \cup InFlight' = (ToSet(buffer) \cup InFlight) \ dropped
  BY <1>2, <1>3, <1>5, <1>7
<1>10. dropped \subseteq ToSet(buffer) \cup InFlight
  BY <1>2, <1>5
<1>11. table' = table \cup stored /\ stored \subseteq ToSet(buffer) \cup InFlight
  BY <1>5 DEF RowsOf
<1> HIDE DEF dropped, stored
<1>12. RowsAccepted'
  BY <1>1, <1>4, <1>9, <1>10, <1>11 DEF RowsAccepted
<1>13. Store!Unanswered(stored, dropped)
  BY <1>4, <1>9, <1>11 DEF Store!Unanswered
<1>14. StoreStep
  BY <1>10, <1>11, <1>13 DEF StoreStep, Store!StoreNext
<1>15. WriterTypeOK' /\ (writing' => flush'["stop"] = None)
  BY <1>1, <1>3, <1>5 DEF WriterTypeOK
<1> QED
  BY <1>8, <1>12, <1>14, <1>15

LEMMA StopWriterSteps ==
    ASSUME WriterInv, StopWriter
    PROVE  WriterInv' /\ StoreStep /\ flush'["exit"] = flush["exit"]
<1> USE DEF WriterInv
<1> DEFINE timed == RowsOf("timer")
<1>1. /\ writing /\ writing' = FALSE /\ flush["stop"] = None
      /\ gone' = gone \cup {<<e, "timer cancelled">> : e \in
                                IF Inserting("timer") THEN timed ELSE {}}
      /\ flush' = [flush EXCEPT !["timer"] = None, !["stop"] = Ready]
      /\ UNCHANGED <<buffer, table, accepted>>
  BY DEF StopWriter, RowsOf
<1>2. gone' = gone \cup {<<e, "timer cancelled">> : e \in timed}
  BY <1>1, FlusherNames DEF BatchesApart
<1>3. LostRows' = LostRows \cup timed
  <2>1. \A e : <<e, "timer cancelled">>[1] = e
    OBVIOUS
  <2> HIDE DEF timed
  <2> QED
    BY <1>2, <2>1, ZenonT(60) DEF LostRows
<1>4. /\ flush' \in [AllFlushers -> [at : Places, batch : Seq(Entries)]]
      /\ flush'["timer"] = None /\ flush'["stop"] = Ready
      /\ \A g \in AllFlushers \ {"timer", "stop"} : flush'[g] = flush[g]
  BY <1>1, RecordTypes, FlusherNames DEF WriterTypeOK
<1>5. /\ RowsOf("timer")' = {} /\ RowsOf("stop")' = {} /\ RowsOf("stop") = {}
      /\ \A g \in AllFlushers \ {"timer", "stop"} : RowsOf(g)' = RowsOf(g)
  BY <1>1, <1>4, RecordTypes DEF RowsOf
<1>6. BatchesApart'
  <2>1. \A g \in AllFlushers : RowsOf(g)' = {} \/ (RowsOf(g)' = RowsOf(g) /\ flush'[g] = flush[g])
    BY <1>4, <1>5
  <2> QED
    BY <1>1, <2>1 DEF BatchesApart, Inserting
<1>7. InFlight' = InFlight \ timed /\ timed \subseteq InFlight
  <2>1. /\ InFlight = UNION {RowsOf(g) : g \in AllFlushers}
        /\ InFlight' = UNION {RowsOf(g)' : g \in AllFlushers}
    BY DEF InFlight, RowsOf
  <2>2. \A g \in AllFlushers : RowsOf(g)' = RowsOf(g) \ timed
    BY <1>5, FlusherNames DEF BatchesApart
  <2> HIDE DEF timed
  <2>3. InFlight' = InFlight \ timed
    BY <2>1, <2>2
  <2>4. timed \subseteq InFlight
    BY <2>1, FlusherNames DEF timed
  <2> QED
    BY <2>3, <2>4
<1>8. ToSet(buffer) \cap timed = {}
  BY FlusherNames DEF BatchesApart
<1> HIDE DEF timed
<1>9. RowsAccepted'
  BY <1>1, <1>3, <1>7 DEF RowsAccepted
<1>10. Store!Drop(timed)
  BY <1>1, <1>3, <1>7, <1>8 DEF Store!Drop
<1>11. StoreStep
  BY <1>7, <1>10 DEF StoreStep, Store!StoreNext
<1>12. WriterTypeOK'
  BY <1>1, <1>4 DEF WriterTypeOK
<1> QED
  BY <1>1, <1>4, <1>6, <1>9, <1>11, <1>12, FlusherNames

(* No row moves. *)
LEMMA WriterIdle ==
    ASSUME WriterInv, UNCHANGED <<buffer, flush, table, accepted, gone>>,
           writing' = writing \/ (writing' = TRUE /\ flush["stop"] = None)
    PROVE  WriterInv' /\ StoreStep
<1>0. writing' \in BOOLEAN
  <2>1. CASE writing' = writing
    BY <2>1 DEF WriterInv, WriterTypeOK
  <2>2. CASE writing' = TRUE
    BY <2>2
  <2> QED
    BY <2>1, <2>2
<1>1. WriterTypeOK' /\ (writing' => flush'["stop"] = None)
  BY <1>0 DEF WriterInv, WriterTypeOK
<1>2. BatchesApart' /\ RowsAccepted' /\ StoreStep
  BY DEF WriterInv, BatchesApart, RowsAccepted, StoreStep, InFlight, LostRows, RowsOf, Inserting
<1> QED
  BY <1>1, <1>2 DEF WriterInv

LEMMA WriterTaskSteps ==
    ASSUME WriterInv, WriterTask
    PROVE  WriterInv' /\ StoreStep /\ (flush["exit"] = None => flush'["exit"] = None)
<1>0. WriterTypeOK
  BY DEF WriterInv
<1>1. CASE TimerFires
  <2>1. /\ MadeReady("timer") /\ UNCHANGED <<writing, buffer, table, accepted, gone>>
        /\ flush' = [flush EXCEPT !["timer"] = Ready]
    BY <1>1 DEF TimerFires, MadeReady
  <2> QED
    BY <1>0, <2>1, ReadySteps, FlusherNames DEF WriterTypeOK
<1>2. CASE StopWriter
  BY <1>2, StopWriterSteps
<1>3. CASE StartWriter
  BY <1>3, WriterIdle DEF StartWriter
<1>4. ASSUME NEW f \in AllFlushers,
             TakeBuffer(f) \/ InsertOk(f) \/ InsertFails(f) \/ InsertConflicts(f)
      PROVE  WriterInv' /\ StoreStep /\ (flush["exit"] = None => flush'["exit"] = None)
  <2>1. flush["exit"] = None => flush'["exit"] = None
    <3>1. CASE TakeBuffer(f)
      <4>1. flush[f] = Ready /\ \A g \in AllFlushers \ {f} : flush'[g] = flush[g]
        BY <1>0, <3>1 DEF TakeBuffer, WriterTypeOK
      <4> QED
        BY <4>1, FlusherNames, RecordTypes
    <3>2. CASE InsertOk(f) \/ InsertFails(f) \/ InsertConflicts(f)
      BY <1>0, <3>2, FlusherNames DEF InsertOk, InsertFails, InsertConflicts, Failed, WriterTypeOK
    <3> QED
      BY <1>4, <3>1, <3>2
  <2>2. CASE InsertFails(f) \/ InsertConflicts(f)
    <3>1. /\ Failed(f)
          /\ table' = table \/ table' = table \cup ToSet(flush[f].batch)
      BY <2>2 DEF InsertFails, InsertConflicts
    <3> QED
      BY <2>1, <3>1, InsertFailsSteps
  <2> QED
    BY <1>4, <2>1, <2>2, TakeBufferSteps, InsertOkSteps
<1> QED
  BY <1>1, <1>2, <1>3, <1>4 DEF WriterTask

(* For any rows, batch sizes, buffer bounds and number of flushes at the same *)
(* time: the batched writer is a RowStore.  No row is stored that was not     *)
(* handed over, none disappears unless it is counted as dropped, and a        *)
(* committed row stays.                                                       *)
THEOREM WriterImplementsStore == WriterSpec => ImplementsStore
<1>1. WriterInit => WriterInv /\ Store!StoreInit
  BY WriterInitInv
<1>2. WriterInv /\ [WriterNext]_writerVars => WriterInv' /\ StoreStep
  <2> SUFFICES ASSUME WriterInv, [WriterNext]_writerVars PROVE WriterInv' /\ StoreStep
    OBVIOUS
  <2>1. ASSUME NEW e \in Entries, AddEntry(e) PROVE WriterInv' /\ StoreStep
    BY <2>1, AddEntrySteps
  <2>2. CASE WriterTask
    BY <2>2, WriterTaskSteps
  <2>3. CASE UNCHANGED writerVars
    BY <2>3, WriterIdle DEF writerVars
  <2> QED
    BY <2>1, <2>2, <2>3 DEF WriterNext, WriterTask
<1>3. StoreStep => [Store!StoreNext]_(Store!storeVars)
  BY DEF StoreStep, Store!storeVars
<1> QED
  BY <1>1, <1>2, <1>3, PTL DEF WriterSpec, ImplementsStore, Store!StoreSpec
-----------------------------------------------------------------------------
(* OrderExecution with its writer.  The writer's part carries over: an     *)
(* order books a row at most once, and the flush of an exit is made ready  *)
(* only when the one before it is over.  The trades need that a call ends  *)
(* before its order can be booked, once, and that a row in the table stays.*)

OrderTypeOK ==
    /\ call \in [Orders -> {"idle", "waiting", "done"}]
    /\ position \in Orders \cup {NoOrder}
    /\ trade \in [Orders -> {"none", "open", "closed"}]
    /\ exiting \in Orders \cup {NoOrder}
    /\ untracked \subseteq Orders

ExitFlush == exiting = NoOrder => flush["exit"] = None

BookedAtEnd ==
    /\ \A o \in Orders : call[o] # "done" => trade[o] = "none"
    /\ \A o \in untracked : call[o] = "done"

OrderInv ==
    /\ WriterInv
    /\ OrderTypeOK
    /\ ExitFlush
    /\ BookedAtEnd
    /\ TradesAccounted

LEMMA TableGrows ==
    ASSUME StoreStep
    PROVE  table \subseteq table'
BY DEF StoreStep, Store!StoreNext, Store!Accept, Store!Commit, Store!Drop, Store!Unanswered

LEMMA OrderInitInv == OrderInit /\ WriterInit => OrderInv /\ Store!StoreInit
<1> SUFFICES ASSUME OrderInit, WriterInit PROVE OrderInv /\ Store!StoreInit
  OBVIOUS
<1>1. WriterInv /\ Store!StoreInit
  BY WriterInitInv
<1>2. OrderTypeOK
  BY DEF OrderInit, OrderTypeOK
<1>3. ExitFlush
  BY FlusherNames DEF WriterInit, ExitFlush
<1>4. BookedAtEnd
  BY DEF OrderInit, BookedAtEnd
<1>5. TradesAccounted
  BY NoOrderOutside DEF OrderInit, TradesAccounted
<1> QED
  BY <1>1, <1>2, <1>3, <1>4, <1>5 DEF OrderInv

(* A call that ends without booking anything. *)
LEMMA NothingBooked ==
    ASSUME OrderInv, NEW o \in Orders, call[o] = "waiting",
           call' = [call EXCEPT ![o] = "done"],
           untracked' = untracked \/ untracked' = untracked \cup {o},
           UNCHANGED <<position, trade, exiting, closedRows, missedExits, table, flush>>
    PROVE  OrderTypeOK' /\ ExitFlush' /\ BookedAtEnd' /\ TradesAccounted'
<1> USE DEF OrderInv, OrderTypeOK
<1>1. trade[o] = "none"
  BY DEF BookedAtEnd
<1>2. OrderTypeOK' /\ ExitFlush'
  BY DEF ExitFlush
<1>3. BookedAtEnd'
  BY DEF BookedAtEnd
<1>4. TradesAccounted'
  BY <1>1 DEF TradesAccounted
<1> QED
  BY <1>2, <1>3, <1>4

LEMMA FilledSteps ==
    ASSUME OrderInv, NEW o \in Orders, Filled(o)
    PROVE  OrderInv' /\ StoreStep
<1> USE DEF OrderInv
<1>0. /\ call[o] = "waiting" /\ call' = [call EXCEPT ![o] = "done"]
      /\ UNCHANGED <<closedRows, missedExits>> /\ trade[o] = "none"
  BY DEF Filled, Returns, BookedAtEnd
<1>1. CASE /\ untracked' = untracked \cup {o}
           /\ UNCHANGED <<position, trade, exiting>> /\ UNCHANGED writerVars
  <2>1. WriterInv' /\ StoreStep
    BY <1>1, WriterIdle DEF writerVars
  <2> QED
    BY <1>0, <1>1, <2>1, NothingBooked DEF writerVars
<1>2. CASE /\ position = NoOrder /\ position' = o
           /\ trade' = [trade EXCEPT ![o] = "open"]
           /\ AddEntry(o)
           /\ UNCHANGED <<untracked, exiting>>
  <2>1. WriterInv' /\ StoreStep
    BY <1>2, OrdersWritten, AddEntrySteps
  <2>2. o # NoOrder
    BY NoOrderOutside
  <2>3. /\ trade'[o] = "open" /\ \A p \in Orders \ {o} : trade'[p] = trade[p]
        /\ call'[o] = "done" /\ \A p \in Orders \ {o} : call'[p] = call[p]
    BY <1>0, <1>2 DEF OrderTypeOK
  <2>4. OrderTypeOK'
    BY <1>0, <1>2 DEF OrderTypeOK
  <2>5. ExitFlush'
    <3>1. CASE flush' = flush
      BY <1>2, <3>1 DEF ExitFlush
    <3>2. ASSUME NEW f \in Flushers, flush' = [flush EXCEPT ![f] = Ready]
          PROVE  ExitFlush'
      BY <1>2, <3>2, FlushersApart, FlusherNames DEF ExitFlush, WriterInv, WriterTypeOK
    <3> QED
      BY <1>2, <3>1, <3>2 DEF AddEntry
  <2>6. BookedAtEnd'
    BY <1>2, <2>3 DEF BookedAtEnd, OrderTypeOK
  <2>7. TradesAccounted'
    <3>1. table' = table
      BY <1>2 DEF AddEntry
    <3>2. \A p \in Orders : trade'[p] = "open" <=> p = position'
      BY <1>2, <2>2, <2>3, NoOrderOutside DEF TradesAccounted
    <3>3. o \notin untracked
      BY <1>0 DEF BookedAtEnd
    <3>4. \A p \in untracked' : trade'[p] = "none"
      BY <1>2, <2>3, <3>3 DEF TradesAccounted, OrderTypeOK
    <3>5. {p \in Orders : trade'[p] = "closed"} = {p \in Orders : trade[p] = "closed"}
      BY <1>0, <2>3
    <3> QED
      BY <1>0, <1>2, <3>1, <3>2, <3>4, <3>5 DEF TradesAccounted
  <2> QED
    BY <2>1, <2>4, <2>5, <2>6, <2>7
<1>3. CASE /\ position # NoOrder /\ exiting = NoOrder
           /\ position' = NoOrder /\ exiting' = position
           /\ trade' = [trade EXCEPT ![position] = "closed"]
           /\ flush' = [flush EXCEPT !["exit"] = Ready]
           /\ UNCHANGED untracked
           /\ UNCHANGED <<writing, buffer, table, accepted, gone, failures>>
  <2>1. WriterInv' /\ StoreStep
    BY <1>3, ReadySteps, FlusherNames DEF MadeReady, ExitFlush
  <2>2. position \in Orders /\ position # o /\ trade[position] = "open"
    BY <1>0, <1>3 DEF OrderTypeOK, TradesAccounted
  <2>3. /\ trade'[position] = "closed" /\ \A p \in Orders \ {position} : trade'[p] = trade[p]
        /\ call'[o] = "done" /\ \A p \in Orders \ {o} : call'[p] = call[p]
    BY <1>0, <1>3, <2>2 DEF OrderTypeOK
  <2>4. OrderTypeOK'
    BY <1>0, <1>3, <2>2 DEF OrderTypeOK
  <2>5. ExitFlush'
    BY <1>3 DEF ExitFlush
  <2>6. BookedAtEnd'
    <3>1. call[position] = "done"
      BY <2>2 DEF BookedAtEnd
    <3> QED
      BY <1>3, <2>2, <2>3, <3>1 DEF BookedAtEnd, OrderTypeOK
  <2>7. TradesAccounted'
    <3>1. \A p \in Orders : trade'[p] = "open" <=> p = position'
      BY <1>3, <2>2, <2>3, NoOrderOutside DEF TradesAccounted
    <3>2. \A p \in untracked' : trade'[p] = "none"
      BY <1>3, <2>2, <2>3 DEF TradesAccounted, OrderTypeOK
    <3>3. {p \in Orders : trade'[p] = "closed"} = {p \in Orders : trade[p] = "closed"} \cup {position}
      BY <2>2, <2>3
    <3> QED
      BY <1>0, <1>3, <3>1, <3>2, <3>3 DEF TradesAccounted
  <2> QED
    BY <2>1, <2>4, <2>5, <2>6, <2>7
<1> QED
  BY <1>1, <1>2, <1>3
  DEF Filled, HandleCloseFill, HandleEntryFill, OpenPosition, ClosePosition, CloseTrade,
      WriteTradeEntry

LEMMA OrderNextInv ==
    OrderInv /\ [OrderNext]_<<orderVars, writerVars>> => OrderInv' /\ StoreStep
<1> SUFFICES ASSUME OrderInv, [OrderNext]_<<orderVars, writerVars>>
             PROVE  OrderInv' /\ StoreStep
  OBVIOUS
<1> USE DEF OrderInv
<1>1. ASSUME NEW o \in Orders, NEW kind \in {"buy", "sell", "close"}, ExecuteSignal(o, kind)
      PROVE  OrderInv' /\ StoreStep
  <2>1. /\ call[o] = "idle" /\ call' = [call EXCEPT ![o] = "waiting"]
        /\ UNCHANGED <<position, trade, exiting, closedRows, missedExits, untracked>>
        /\ UNCHANGED writerVars
    BY <1>1 DEF ExecuteSignal, fillVars
  <2>2. WriterInv' /\ StoreStep
    BY <2>1, WriterIdle DEF writerVars
  <2>3. OrderTypeOK' /\ ExitFlush' /\ TradesAccounted'
    BY <2>1 DEF OrderTypeOK, ExitFlush, TradesAccounted, writerVars
  <2>4. BookedAtEnd'
    BY <2>1 DEF BookedAtEnd, OrderTypeOK
  <2> QED
    BY <2>2, <2>3, <2>4
<1>2. ASSUME NEW o \in Orders, Filled(o) PROVE OrderInv' /\ StoreStep
  BY <1>2, FilledSteps
<1>3. ASSUME NEW o \in Orders, Rejected(o) \/ PartiallyFilled(o) \/ TimedOut(o)
      PROVE  OrderInv' /\ StoreStep
  <2>1. /\ call[o] = "waiting" /\ call' = [call EXCEPT ![o] = "done"]
        /\ untracked' = untracked \/ untracked' = untracked \cup {o}
        /\ UNCHANGED <<position, trade, exiting, closedRows, missedExits>>
        /\ UNCHANGED writerVars
    BY <1>3 DEF Rejected, PartiallyFilled, TimedOut, Returns, fillVars
  <2>2. WriterInv' /\ StoreStep
    BY <2>1, WriterIdle DEF writerVars
  <2> QED
    BY <2>1, <2>2, NothingBooked DEF writerVars
<1>4. CASE UpdateTradeExit \/ UpdateFails
  <2>1. /\ exiting # NoOrder /\ exiting' = NoOrder /\ flush["exit"] = None
        /\ \/ exiting \in table /\ closedRows' = closedRows \cup {exiting} /\ UNCHANGED missedExits
           \/ missedExits' = missedExits \cup {exiting} /\ UNCHANGED closedRows
        /\ UNCHANGED <<call, position, trade, untracked>>
        /\ UNCHANGED <<writing, buffer, flush, table, accepted, gone>>
    BY <1>4 DEF UpdateTradeExit, UpdateFails, writerVars, fillVars
  <2>2. WriterInv' /\ StoreStep
    BY <2>1, WriterIdle
  <2>3. OrderTypeOK' /\ ExitFlush' /\ BookedAtEnd'
    BY <2>1 DEF OrderTypeOK, ExitFlush, BookedAtEnd
  <2>4. TradesAccounted'
    BY <2>1 DEF TradesAccounted
  <2> QED
    BY <2>2, <2>3, <2>4
<1>5. CASE WriterTask /\ UNCHANGED orderVars
  <2>1. WriterInv' /\ StoreStep /\ (flush["exit"] = None => flush'["exit"] = None)
    BY <1>5, WriterTaskSteps
  <2>2. table \subseteq table'
    BY <2>1, TableGrows
  <2>3. UNCHANGED <<call, position, trade, exiting, closedRows, missedExits, untracked>>
    BY <1>5 DEF orderVars, fillVars
  <2>4. OrderTypeOK' /\ ExitFlush' /\ BookedAtEnd' /\ TradesAccounted'
    BY <2>1, <2>2, <2>3 DEF OrderTypeOK, ExitFlush, BookedAtEnd, TradesAccounted
  <2> QED
    BY <2>1, <2>4
<1>6. CASE UNCHANGED <<orderVars, writerVars>>
  <2>1. WriterInv' /\ StoreStep
    BY <1>6, WriterIdle DEF writerVars
  <2>2. OrderTypeOK' /\ ExitFlush' /\ BookedAtEnd' /\ TradesAccounted'
    BY <1>6 DEF orderVars, writerVars, OrderTypeOK, ExitFlush, BookedAtEnd, TradesAccounted, fillVars
  <2> QED
    BY <2>1, <2>2
<1> QED
  BY <1>1, <1>2, <1>3, <1>4, <1>5, <1>6 DEF OrderNext

(* However calls of execute_signal, their timeouts and the flushes of the     *)
(* writer overlap: the open trade is the position's, nothing unbooked has a   *)
(* trade, and every closed trade's exit is in its row, under way or counted   *)
(* as missed.                                                                 *)
THEOREM OrdersAccountTrades == OrderSpec => []TradesAccounted
<1>1. OrderInv => TradesAccounted
  BY DEF OrderInv
<1> QED
  BY <1>1, OrderInitInv, OrderNextInv, PTL DEF OrderSpec

(* The writer keeps its promise to order execution too, whose exits make      *)
(* flushes of their own.                                                      *)
THEOREM OrdersImplementStore == OrderSpec => ImplementsStore
<1>1. StoreStep => [Store!StoreNext]_(Store!storeVars)
  BY DEF StoreStep, Store!storeVars
<1> QED
  BY <1>1, OrderInitInv, OrderNextInv, PTL DEF OrderSpec, ImplementsStore, Store!StoreSpec

-----------------------------------------------------------------------------
(* The lots.  The equation between the books and MT5 needs that the sets it *)
(* counts are finite and hold only orders whose call is over, as the side   *)
(* of those no longer changes, and that the position is in neither of them. *)

Balance(ord, filled) == Cardinality({o \in filled : ord[o].side = 1})
                        - Cardinality({o \in filled : ord[o].side = -1})

OrderShape == [state : OrderStates, side : {1, -1}, close : BOOLEAN]

LotsInv ==
    /\ order \in [Orders -> OrderShape]
    /\ net \in Int
    /\ IsFiniteSet(untracked) /\ IsFiniteSet(stranded)
    /\ \A o \in stranded : o \in Orders /\ call[o] = "done" /\ trade[o] # "open"
    /\ net = SideOf(position) + Lots(untracked) + Lots(stranded)

LEMMA BalanceInt ==
    ASSUME NEW ord, NEW S, IsFiniteSet(S)
    PROVE  Balance(ord, S) \in Int
<1>1. \A P \in SUBSET S : Cardinality(P) \in Nat
  BY FS_Subset, FS_CardinalityType
<1>2. /\ Cardinality({o \in S : ord[o].side = 1}) \in Nat
      /\ Cardinality({o \in S : ord[o].side = -1}) \in Nat
  BY <1>1
<1> QED
  BY <1>2 DEF Balance

LEMMA BalanceSame ==
    ASSUME NEW ord, NEW later, NEW S, \A o \in S : later[o].side = ord[o].side
    PROVE  Balance(later, S) = Balance(ord, S)
<1>1. /\ {o \in S : later[o].side = 1} = {o \in S : ord[o].side = 1}
      /\ {o \in S : later[o].side = -1} = {o \in S : ord[o].side = -1}
  OBVIOUS
<1> QED
  BY <1>1 DEF Balance

LEMMA BalanceMore ==
    ASSUME NEW ord, NEW S, IsFiniteSet(S), NEW o, o \notin S, ord[o].side \in {1, -1}
    PROVE  /\ IsFiniteSet(S \cup {o})
           /\ Balance(ord, S \cup {o}) = Balance(ord, S) + ord[o].side
<1> DEFINE Buys == {p \in S : ord[p].side = 1}
           Sells == {p \in S : ord[p].side = -1}
           More == {p \in S \cup {o} : ord[p].side = 1}
           Less == {p \in S \cup {o} : ord[p].side = -1}
<1>1. IsFiniteSet(S \cup {o})
  BY FS_AddElement
<1>2. IsFiniteSet(Buys) /\ IsFiniteSet(Sells)
  BY FS_Subset
<1>3. Cardinality(Buys) \in Nat /\ Cardinality(Sells) \in Nat
  BY <1>2, FS_CardinalityType
<1>4. o \notin Buys /\ o \notin Sells
  OBVIOUS
<1>5. Balance(ord, S) = Cardinality(Buys) - Cardinality(Sells)
  BY DEF Balance
<1>6. Balance(ord, S \cup {o}) = Cardinality(More) - Cardinality(Less)
  BY DEF Balance
<1>7. CASE ord[o].side = 1
  <2>1. More = Buys \cup {o} /\ Less = Sells
    BY <1>7
  <2>2. Cardinality(More) = Cardinality(Buys) + 1
    BY <1>2, <1>4, <2>1, FS_AddElement
  <2> HIDE DEF Buys, Sells, More, Less
  <2> QED
    BY <1>1, <1>3, <1>5, <1>6, <1>7, <2>1, <2>2
<1>8. CASE ord[o].side = -1
  <2>1. More = Buys /\ Less = Sells \cup {o}
    BY <1>8
  <2>2. Cardinality(Less) = Cardinality(Sells) + 1
    BY <1>2, <1>4, <2>1, FS_AddElement
  <2> HIDE DEF Buys, Sells, More, Less
  <2> QED
    BY <1>1, <1>3, <1>5, <1>6, <1>8, <2>1, <2>2
<1> QED
  BY <1>7, <1>8

LEMMA LotsBalance ==
    Lots(untracked) = Balance(order, untracked) /\ Lots(stranded) = Balance(order, stranded)
BY DEF Lots, Balance

LEMMA LotsBalancePrime ==
    /\ Lots(untracked)' = Balance(order', untracked')
    /\ Lots(stranded)' = Balance(order', stranded')
BY DEF Lots, Balance

(* A step that changes no side of an order whose call is over, and no set.  *)
LEMMA LotsKept ==
    ASSUME OrderInv, LotsInv, order' \in [Orders -> OrderShape],
           \A o \in Orders : call[o] = "done" => order'[o].side = order[o].side /\ call'[o] = "done",
           UNCHANGED <<position, trade, net, untracked, stranded>>
    PROVE  LotsInv'
<1> USE DEF OrderInv, LotsInv
<1>1. \A o \in untracked \cup stranded : order'[o].side = order[o].side
  BY DEF BookedAtEnd, OrderTypeOK
<1>2. /\ Balance(order', untracked') = Balance(order, untracked)
      /\ Balance(order', stranded') = Balance(order, stranded)
  BY <1>1, BalanceSame
<1>3. SideOf(position)' = SideOf(position)
  <2>1. CASE position = NoOrder
    BY <2>1 DEF SideOf
  <2>2. CASE position # NoOrder
    <3>1. position \in Orders /\ trade[position] = "open"
      BY <2>2 DEF OrderTypeOK, TradesAccounted
    <3>2. call[position] = "done"
      BY <3>1 DEF BookedAtEnd
    <3> QED
      BY <2>2, <3>1, <3>2 DEF SideOf
  <2> QED
    BY <2>1, <2>2
<1>4. net' = SideOf(position)' + Lots(untracked)' + Lots(stranded)'
  BY <1>2, <1>3, LotsBalance, LotsBalancePrime
<1>5. \A o \in stranded' : o \in Orders /\ call'[o] = "done" /\ trade'[o] # "open"
  OBVIOUS
<1> QED
  BY <1>4, <1>5

(* A call ends: the sides stay, and its order was in neither set. *)
LEMMA CallEnds ==
    ASSUME OrderInv, LotsInv, NEW o \in Orders, call[o] = "waiting", NEW s \in OrderStates,
           call' = [call EXCEPT ![o] = "done"], order' = [order EXCEPT ![o].state = s]
    PROVE  /\ order' \in [Orders -> OrderShape]
           /\ \A p \in Orders : order'[p].side = order[p].side
           /\ \A p \in Orders : call[p] = "done" => call'[p] = "done"
           /\ call'[o] = "done"
           /\ o \notin untracked /\ o \notin stranded /\ trade[o] = "none"
           /\ order[o].side \in {1, -1}
           /\ Balance(order', untracked) = Lots(untracked) /\ Lots(untracked) \in Int
           /\ Balance(order', stranded) = Lots(stranded) /\ Lots(stranded) \in Int
<1> USE DEF OrderInv, LotsInv
<1>1. PICK r : r = [order[o] EXCEPT !.state = s]
  OBVIOUS
<1>2. order[o] \in OrderShape
  OBVIOUS
<1>3. r \in OrderShape /\ r.side = order[o].side
  BY <1>1, <1>2 DEF OrderShape
<1>4. order' = [order EXCEPT ![o] = r]
  BY <1>1
<1>5. /\ order' \in [Orders -> OrderShape]
      /\ \A p \in Orders : order'[p].side = order[p].side
  BY <1>3, <1>4
<1>6. /\ \A p \in Orders : call[p] = "done" => call'[p] = "done"
      /\ call'[o] = "done"
  BY DEF OrderTypeOK
<1>7. o \notin untracked /\ o \notin stranded /\ trade[o] = "none"
  BY DEF BookedAtEnd
<1>8. order[o].side \in {1, -1}
  BY <1>2 DEF OrderShape
<1>9. untracked \subseteq Orders /\ stranded \subseteq Orders
  BY DEF OrderTypeOK
<1>10. /\ Balance(order', untracked) = Balance(order, untracked)
       /\ Balance(order', stranded) = Balance(order, stranded)
  <2>1. /\ \A p \in untracked : order'[p].side = order[p].side
        /\ \A p \in stranded : order'[p].side = order[p].side
    BY <1>5, <1>9
  <2> QED
    BY ONLY <2>1, BalanceSame
<1>11. Balance(order, untracked) \in Int /\ Balance(order, stranded) \in Int
  BY BalanceInt
<1> QED
  BY <1>5, <1>6, <1>7, <1>8, <1>10, <1>11, LotsBalance

(* The position is an order whose call is over, in neither set. *)
LEMMA PositionOver ==
    ASSUME OrderInv, LotsInv, position # NoOrder
    PROVE  /\ position \in Orders /\ call[position] = "done" /\ trade[position] = "open"
           /\ position \notin untracked /\ position \notin stranded
           /\ SideOf(position) = order[position].side /\ order[position].side \in {1, -1}
<1> USE DEF OrderInv, LotsInv
<1>1. position \in Orders /\ trade[position] = "open"
  BY DEF OrderTypeOK, TradesAccounted
<1>2. call[position] = "done" /\ position \notin untracked /\ position \notin stranded
  BY <1>1 DEF BookedAtEnd, TradesAccounted
<1>3. SideOf(position) = order[position].side /\ order[position].side \in {1, -1}
  BY <1>1 DEF SideOf, OrderShape
<1> QED
  BY <1>1, <1>2, <1>3

LEMMA SideInt ==
    ASSUME OrderInv, LotsInv
    PROVE  SideOf(position) \in Int
BY PositionOver DEF SideOf

(* MT5 fills an order that is not booked. *)
LEMMA UnbookedFill ==
    ASSUME OrderInv, LotsInv, NEW o \in Orders, call[o] = "waiting", NEW s \in OrderStates,
           call' = [call EXCEPT ![o] = "done"], order' = [order EXCEPT ![o].state = s],
           net' = net + order[o].side, untracked' = untracked \cup {o},
           UNCHANGED <<position, trade, stranded>>
    PROVE  LotsInv'
<1> USE DEF LotsInv
<1>1. /\ order' \in [Orders -> OrderShape]
      /\ \A p \in Orders : order'[p].side = order[p].side
      /\ \A p \in Orders : call[p] = "done" => call'[p] = "done"
      /\ o \notin untracked /\ order[o].side \in {1, -1}
      /\ Balance(order', untracked) = Lots(untracked) /\ Lots(untracked) \in Int
      /\ Balance(order', stranded) = Lots(stranded) /\ Lots(stranded) \in Int
  BY CallEnds
<1>2. /\ IsFiniteSet(untracked')
      /\ Balance(order', untracked') = Lots(untracked) + order[o].side
  <2>1. order'[o].side = order[o].side
    BY <1>1
  <2>2. IsFiniteSet(untracked) /\ untracked' = untracked \cup {o}
    OBVIOUS
  <2> QED
    BY ONLY <1>1, <2>1, <2>2, BalanceMore
<1>3. SideOf(position)' = SideOf(position)
  BY <1>1, PositionOver DEF SideOf
<1>4. /\ Lots(untracked)' = Lots(untracked) + order[o].side
      /\ Lots(stranded)' = Lots(stranded)
  BY <1>1, <1>2, LotsBalancePrime
<1>5. net' = SideOf(position)' + Lots(untracked)' + Lots(stranded)'
  BY <1>1, <1>3, <1>4, SideInt
<1>6. net' \in Int
  BY <1>1
<1>7. \A p \in stranded' : p \in Orders /\ call'[p] = "done" /\ trade'[p] # "open"
  BY <1>1
<1> QED
  BY <1>1, <1>2, <1>5, <1>6, <1>7

(* An entry is booked. *)
LEMMA EntryFill ==
    ASSUME OrderInv, LotsInv, NEW o \in Orders, call[o] = "waiting", NEW s \in OrderStates,
           call' = [call EXCEPT ![o] = "done"], order' = [order EXCEPT ![o].state = s],
           net' = net + order[o].side, position = NoOrder, position' = o,
           trade' = [trade EXCEPT ![o] = "open"],
           UNCHANGED <<untracked, stranded>>
    PROVE  LotsInv'
<1> USE DEF LotsInv
<1>1. /\ order' \in [Orders -> OrderShape]
      /\ \A p \in Orders : order'[p].side = order[p].side
      /\ \A p \in Orders : call[p] = "done" => call'[p] = "done"
      /\ o \notin stranded /\ order[o].side \in {1, -1}
      /\ Balance(order', untracked) = Lots(untracked) /\ Lots(untracked) \in Int
      /\ Balance(order', stranded) = Lots(stranded) /\ Lots(stranded) \in Int
  BY CallEnds
<1>2. SideOf(position) = 0
  BY DEF SideOf
<1>3. SideOf(position)' = order[o].side
  BY <1>1, NoOrderOutside DEF SideOf
<1>4. net' = SideOf(position)' + Lots(untracked)' + Lots(stranded)'
  BY <1>1, <1>2, <1>3, LotsBalancePrime
<1>5. net' \in Int
  BY <1>1
<1>6. \A p \in stranded' : p \in Orders /\ call'[p] = "done" /\ trade'[p] # "open"
  BY <1>1 DEF OrderInv, OrderTypeOK
<1> QED
  BY <1>1, <1>4, <1>5, <1>6

(* A close takes out the position, which is on the other side or on its own. *)
LEMMA CloseFill ==
    ASSUME OrderInv, LotsInv, NEW o \in Orders, call[o] = "waiting", NEW s \in OrderStates,
           call' = [call EXCEPT ![o] = "done"], order' = [order EXCEPT ![o].state = s],
           net' = net + order[o].side, position # NoOrder, position' = NoOrder,
           trade' = [trade EXCEPT ![position] = "closed"],
           stranded' = IF order[position].side = order[o].side
                       THEN stranded \cup {o, position} ELSE stranded,
           UNCHANGED untracked
    PROVE  LotsInv'
<1> USE DEF LotsInv
<1>1. /\ order' \in [Orders -> OrderShape]
      /\ \A p \in Orders : order'[p].side = order[p].side
      /\ \A p \in Orders : call[p] = "done" => call'[p] = "done"
      /\ call'[o] = "done"
      /\ o \notin stranded /\ trade[o] = "none" /\ order[o].side \in {1, -1}
      /\ Balance(order', untracked) = Lots(untracked) /\ Lots(untracked) \in Int
      /\ Balance(order', stranded) = Lots(stranded) /\ Lots(stranded) \in Int
  BY CallEnds
<1>2. /\ position \in Orders /\ call[position] = "done" /\ trade[position] = "open"
      /\ position \notin stranded
      /\ SideOf(position) = order[position].side /\ order[position].side \in {1, -1}
  BY PositionOver
<1>3. SideOf(position)' = 0
  BY DEF SideOf
<1>4. net' \in Int
  BY <1>1
<1>5. trade'[position] = "closed" /\ \A p \in Orders \ {position} : trade'[p] = trade[p]
  BY <1>2 DEF OrderInv, OrderTypeOK
<1>6. \A p \in stranded' : p \in Orders /\ call'[p] = "done" /\ trade'[p] # "open"
  <2> SUFFICES ASSUME NEW p \in stranded'
               PROVE  p \in Orders /\ call'[p] = "done" /\ trade'[p] # "open"
    OBVIOUS
  <2>1. p \in stranded \/ p = o \/ p = position
    OBVIOUS
  <2>2. CASE p \in stranded
    BY <2>2, <1>1, <1>2, <1>5
  <2>3. CASE p = o
    BY <2>3, <1>1, <1>2, <1>5
  <2>4. CASE p = position
    BY <2>4, <1>1, <1>2, <1>5
  <2> QED
    BY <2>1, <2>2, <2>3, <2>4
<1>7. CASE order[position].side # order[o].side
  <2>1. stranded' = stranded
    BY <1>7
  <2>2. net' = Lots(untracked) + Lots(stranded)
    BY <1>1, <1>2, <1>7
  <2>3. net' = SideOf(position)' + Lots(untracked)' + Lots(stranded)'
    BY <1>1, <1>3, <2>1, <2>2, LotsBalancePrime
  <2> QED
    BY <1>1, <1>4, <1>6, <2>1, <2>3
<1>8. CASE order[position].side = order[o].side
  <2>1. stranded' = (stranded \cup {o}) \cup {position}
    BY <1>8
  <2>2. /\ IsFiniteSet(stranded \cup {o})
        /\ Balance(order', stranded \cup {o}) = Lots(stranded) + order[o].side
    <3>1. order'[o].side = order[o].side
      BY <1>1
    <3>2. IsFiniteSet(stranded)
      OBVIOUS
    <3> QED
      BY ONLY <1>1, <3>1, <3>2, BalanceMore
  <2>3. position \notin stranded \cup {o} /\ order'[position].side = order[position].side
    BY <1>1, <1>2
  <2>4. /\ IsFiniteSet(stranded')
        /\ Balance(order', stranded') = Lots(stranded) + order[o].side + order[position].side
    BY ONLY <1>2, <2>1, <2>2, <2>3, BalanceMore
  <2>5. net' = SideOf(position)' + Lots(untracked)' + Lots(stranded)'
    BY <1>1, <1>2, <1>3, <2>4, LotsBalancePrime
  <2> QED
    BY <1>1, <1>4, <1>6, <2>4, <2>5
<1> QED
  BY <1>7, <1>8

LEMMA LotsInit == OrderInit => LotsInv
<1> SUFFICES ASSUME OrderInit PROVE LotsInv
  OBVIOUS
<1>1. order \in [Orders -> OrderShape]
  BY DEF OrderInit, OrderShape, OrderStates
<1>2. IsFiniteSet({}) /\ Cardinality({}) = 0
  BY FS_EmptySet
<1>4. {o \in {} : order[o].side = 1} = {} /\ {o \in {} : order[o].side = -1} = {}
  OBVIOUS
<1>5. Lots({}) = 0
  BY <1>2, <1>4 DEF Lots
<1>6. untracked = {} /\ stranded = {} /\ net = 0 /\ position = NoOrder
  BY DEF OrderInit
<1>7. SideOf(position) = 0
  BY <1>6 DEF SideOf
<1>8. Lots(untracked) = 0 /\ Lots(stranded) = 0
  BY <1>5, <1>6
<1> QED
  BY <1>1, <1>2, <1>6, <1>7, <1>8 DEF LotsInv

LEMMA LotsNext ==
    OrderInv /\ LotsInv /\ [OrderNext]_<<orderVars, writerVars>> => LotsInv'
<1> SUFFICES ASSUME OrderInv, LotsInv, [OrderNext]_<<orderVars, writerVars>>
             PROVE  LotsInv'
  OBVIOUS
<1>0. call \in [Orders -> {"idle", "waiting", "done"}] /\ order \in [Orders -> OrderShape]
  BY DEF OrderInv, OrderTypeOK, LotsInv
<1>s. \A t \in OrderStates : TransitionTo("submitted", t) \in OrderStates
  BY DEF TransitionTo, OrderStates
<1>t. TransitionTo("pending", "submitted") \in OrderStates
  BY DEF TransitionTo, OrderStates
<1>1. ASSUME NEW o \in Orders, NEW kind \in {"buy", "sell", "close"}, ExecuteSignal(o, kind)
      PROVE  LotsInv'
  <2>1. PICK r : r = [CreateOrder(o, kind) EXCEPT !.state = TransitionTo("pending", "submitted")]
    OBVIOUS
  <2>2. CreateOrder(o, kind) \in OrderShape
    <3>1. "pending" \in OrderStates
      BY DEF OrderStates
    <3>2. CASE kind = "close"
      <4>1. order[position].side \in {1, -1}
        BY <1>1, <3>2, PositionOver DEF ExecuteSignal
      <4>2. PICK side : side = -order[position].side
        OBVIOUS
      <4>3. side \in {1, -1}
        BY <4>1, <4>2
      <4>4. CreateOrder(o, kind) = [state |-> "pending", side |-> side, close |-> TRUE]
        BY <3>2, <4>2 DEF CreateOrder
      <4> QED
        BY <3>1, <4>3, <4>4 DEF OrderShape
    <3>3. CASE kind = "buy"
      BY <3>1, <3>3 DEF CreateOrder, OrderShape
    <3>4. CASE kind = "sell"
      BY <3>1, <3>4 DEF CreateOrder, OrderShape
    <3> QED
      BY <3>2, <3>3, <3>4
  <2>3. r \in OrderShape
    BY <1>t, <2>1, <2>2 DEF OrderShape
  <2>4. /\ order' = [order EXCEPT ![o] = r] /\ call[o] = "idle"
        /\ call' = [call EXCEPT ![o] = "waiting"]
        /\ UNCHANGED <<position, trade, net, untracked, stranded>>
    BY <1>1, <2>1 DEF ExecuteSignal, fillVars
  <2>5. order' \in [Orders -> OrderShape]
    BY <1>0, <2>3, <2>4
  <2>6. \A p \in Orders : call[p] = "done" => order'[p].side = order[p].side /\ call'[p] = "done"
    BY <1>0, <2>4
  <2> QED
    BY <2>4, <2>5, <2>6, LotsKept
<1>2. ASSUME NEW o \in Orders, Filled(o) PROVE LotsInv'
  <2>1. PICK s \in OrderStates : s = TransitionTo("submitted", "filled")
    BY <1>s DEF OrderStates
  <2>2. /\ call[o] = "waiting" /\ call' = [call EXCEPT ![o] = "done"]
        /\ order' = [order EXCEPT ![o].state = s] /\ net' = net + order[o].side
    BY <1>2, <2>1 DEF Filled, Returns
  <2>3. CASE untracked' = untracked \cup {o} /\ UNCHANGED <<position, trade, stranded>>
    BY <2>2, <2>3, UnbookedFill
  <2>4. CASE /\ position = NoOrder /\ position' = o
             /\ trade' = [trade EXCEPT ![o] = "open"]
             /\ UNCHANGED <<untracked, stranded>>
    BY <2>2, <2>4, EntryFill
  <2>5. CASE /\ position # NoOrder /\ position' = NoOrder
             /\ trade' = [trade EXCEPT ![position] = "closed"]
             /\ stranded' = IF order[position].side = order[o].side
                            THEN stranded \cup {o, position} ELSE stranded
             /\ UNCHANGED untracked
    BY <2>2, <2>5, CloseFill
  <2> QED
    BY <1>2, <2>3, <2>4, <2>5
    DEF Filled, HandleCloseFill, HandleEntryFill, OpenPosition, ClosePosition, CloseTrade
<1>3. ASSUME NEW o \in Orders, Rejected(o) \/ PartiallyFilled(o) \/ TimedOut(o)
      PROVE  LotsInv'
  <2>1. PICK s \in OrderStates :
            /\ call[o] = "waiting" /\ call' = [call EXCEPT ![o] = "done"]
            /\ order' = [order EXCEPT ![o].state = s]
            /\ UNCHANGED <<position, trade, stranded>>
            /\ \/ UNCHANGED <<net, untracked>>
               \/ net' = net + order[o].side /\ untracked' = untracked \cup {o}
    <3>1. CASE Rejected(o)
      BY <1>s, <3>1 DEF Rejected, Returns, OrderStates, fillVars
    <3>2. CASE PartiallyFilled(o)
      BY <3>2 DEF PartiallyFilled, Returns, OrderStates
    <3>3. CASE TimedOut(o)
      BY <1>s, <3>3 DEF TimedOut, Returns, OrderStates
    <3> QED
      BY <1>3, <3>1, <3>2, <3>3
  <2>2. CASE UNCHANGED <<net, untracked>>
    <3>1. /\ order' \in [Orders -> OrderShape]
          /\ \A p \in Orders : order'[p].side = order[p].side
          /\ \A p \in Orders : call[p] = "done" => call'[p] = "done"
      BY <2>1, CallEnds
    <3> QED
      BY <2>1, <2>2, <3>1, LotsKept
  <2>3. CASE net' = net + order[o].side /\ untracked' = untracked \cup {o}
    BY <2>1, <2>3, UnbookedFill
  <2> QED
    BY <2>1, <2>2, <2>3
<1>4. CASE UNCHANGED <<order, call, position, trade, fillVars>>
  BY <1>0, <1>4, LotsKept DEF fillVars
<1>5. CASE UpdateTradeExit \/ UpdateFails
  BY <1>4, <1>5 DEF UpdateTradeExit, UpdateFails
<1>6. CASE UNCHANGED orderVars
  BY <1>4, <1>6 DEF orderVars
<1> QED
  BY <1>1, <1>2, <1>3, <1>5, <1>6 DEF OrderNext

(* However calls of execute_signal, their timeouts, partial fills and second  *)
(* closes overlap: the position the service believes in, with the fills it    *)
(* did not book and the positions a late close stranded, is what is open at   *)
(* MT5; and its trades are accounted for.                                     *)
THEOREM FillsAreAccounted == OrderSpec => []FillsAccounted
<1>1. OrderInv /\ LotsInv => FillsAccounted
  BY DEF OrderInv, LotsInv, FillsAccounted
<1> QED
  BY <1>1, OrderInitInv, OrderNextInv, LotsInit, LotsNext, PTL DEF OrderSpec

-----------------------------------------------------------------------------
(* AuditQueue.  An entry that is in one place only, waiting, queued, with  *)
(* the worker, reclaimed, stored or given up, cannot be both stored and    *)
(* given up; and the worker's batch is empty whenever a new one is handed  *)
(* to the insert, so that no entry is overwritten.                         *)

AuditTypeOK ==
    /\ blocked \subseteq AuditEntries
    /\ queue \in Seq(AuditEntries) /\ IsInjective(queue)
    /\ batch \in Seq(AuditEntries)
    /\ inserting \in Seq(AuditEntries)
    /\ leftover \in Seq(AuditEntries)

WorkerHoldsBatch ==
    /\ worker # "insert" => inserting = <<>>
    /\ audit \in {"off", "flushing"} => worker = "none"

(* No two of the seven places share an entry. *)
EntriesApart ==
    /\ blocked \cap (ToSet(queue) \cup ToSet(batch) \cup ToSet(inserting) \cup ToSet(leftover)
                        \cup audited \cup discarded) = {}
    /\ ToSet(queue) \cap (ToSet(batch) \cup ToSet(inserting) \cup ToSet(leftover)
                        \cup audited \cup discarded) = {}
    /\ ToSet(batch) \cap (ToSet(inserting) \cup ToSet(leftover) \cup audited \cup discarded) = {}
    /\ ToSet(inserting) \cap (ToSet(leftover) \cup audited \cup discarded) = {}
    /\ ToSet(leftover) \cap (audited \cup discarded) = {}
    /\ audited \cap discarded = {}

(* AuditAccounted, place by place. *)
EntriesHeld ==
    /\ logged = blocked \cup ToSet(queue) \cup ToSet(batch) \cup ToSet(inserting)
                    \cup ToSet(leftover) \cup audited \cup discarded
    /\ unfinished = Len(queue) + Len(batch) + Len(inserting)

AuditInv == AuditTypeOK /\ WorkerHoldsBatch /\ EntriesApart /\ EntriesHeld

LEMMA AuditInvAccounts == AuditInv => AuditAccounted
<1> SUFFICES ASSUME AuditInv PROVE AuditAccounted
  OBVIOUS
<1>0. /\ queue \in Seq(AuditEntries) /\ batch \in Seq(AuditEntries)
      /\ inserting \in Seq(AuditEntries) /\ leftover \in Seq(AuditEntries)
      /\ EntriesHeld /\ EntriesApart
  BY DEF AuditInv, AuditTypeOK
<1>c. ASSUME NEW s \in Seq(AuditEntries), NEW t \in Seq(AuditEntries)
      PROVE  s \o t \in Seq(AuditEntries) /\ ToSet(s \o t) = ToSet(s) \cup ToSet(t)
  BY ConcatFacts, ToSetIsRange
<1>1. PICK u \in Seq(AuditEntries) :
          u = queue \o batch /\ ToSet(u) = ToSet(queue) \cup ToSet(batch)
  BY <1>0, <1>c
<1>2. PICK v \in Seq(AuditEntries) :
          v = u \o inserting /\ ToSet(v) = ToSet(u) \cup ToSet(inserting)
  BY <1>0, <1>c
<1>3. ToSet(v \o leftover) = ToSet(v) \cup ToSet(leftover)
  BY <1>0, <1>c
<1>4. ToSet(queue \o batch \o inserting \o leftover) =
          ToSet(queue) \cup ToSet(batch) \cup ToSet(inserting) \cup ToSet(leftover)
  BY <1>1, <1>2, <1>3
<1> QED
  BY <1>0, <1>4 DEF AuditAccounted, EntriesHeld, EntriesApart

LEMMA AuditInitInv == AuditInit => AuditInv
<1> SUFFICES ASSUME AuditInit PROVE AuditInv
  OBVIOUS
<1>1. <<>> \in Seq(AuditEntries) /\ Len(<<>>) = 0 /\ ToSet(<<>>) = {} /\ IsInjective(<<>>)
  BY EmptyFacts, ToSetIsRange
<1> QED
  BY <1>1 DEF AuditInit, AuditInv, AuditTypeOK, WorkerHoldsBatch, EntriesApart, EntriesHeld

(* An entry is queued: a new one, or one whose caller waited for room. *)
LEMMA PutSteps ==
    ASSUME AuditInv, NEW e \in AuditEntries, Put(e),
           \/ e \notin logged /\ logged' = logged \cup {e} /\ blocked' = blocked
           \/ e \in blocked /\ logged' = logged /\ blocked' = blocked \ {e},
           UNCHANGED <<audit, batch, inserting, leftover, worker, audited, discarded>>
    PROVE  AuditInv'
<1>0. AuditTypeOK /\ WorkerHoldsBatch /\ EntriesApart /\ EntriesHeld
  BY DEF AuditInv
<1>1. e \notin ToSet(queue)
  BY <1>0 DEF EntriesApart, EntriesHeld
<1>2. /\ queue' \in Seq(AuditEntries) /\ IsInjective(queue')
      /\ Len(queue') = Len(queue) + 1 /\ ToSet(queue') = ToSet(queue) \cup {e}
  BY <1>0, <1>1, AppendFacts, ToSetIsRange DEF Put, AuditTypeOK
<1>3. Len(queue) \in Nat /\ Len(batch) \in Nat /\ Len(inserting) \in Nat
  BY <1>0, LenProperties DEF AuditTypeOK
<1>4. AuditTypeOK' /\ WorkerHoldsBatch'
  BY <1>0, <1>2 DEF AuditTypeOK, WorkerHoldsBatch
<1>5. unfinished' = Len(queue') + Len(batch') + Len(inserting')
  BY <1>0, <1>2, <1>3 DEF Put, EntriesHeld
<1>6. EntriesApart' /\ EntriesHeld'
  BY <1>0, <1>2, <1>5 DEF EntriesApart, EntriesHeld
<1> QED
  BY <1>4, <1>6 DEF AuditInv

(* A new entry that does not enter the queue: its caller waits, stores it     *)
(* itself, or gives it up.                                                    *)
LEMMA PastQueueSteps ==
    ASSUME AuditInv, NEW e \in AuditEntries, e \notin logged, logged' = logged \cup {e},
           \/ blocked' = blocked \cup {e} /\ UNCHANGED <<audited, discarded>>
           \/ audited' = audited \cup {e} /\ UNCHANGED <<blocked, discarded>>
           \/ discarded' = discarded \cup {e} /\ UNCHANGED <<blocked, audited>>,
           UNCHANGED <<audit, queue, unfinished, batch, inserting, leftover, worker>>
    PROVE  AuditInv'
<1>0. AuditTypeOK /\ WorkerHoldsBatch /\ EntriesApart /\ EntriesHeld
  BY DEF AuditInv
<1>1. AuditTypeOK' /\ WorkerHoldsBatch'
  BY <1>0 DEF AuditTypeOK, WorkerHoldsBatch
<1>2. EntriesApart' /\ EntriesHeld'
  BY <1>0 DEF EntriesApart, EntriesHeld
<1> QED
  BY <1>1, <1>2 DEF AuditInv

LEMMA CollectSteps ==
    ASSUME AuditInv, Collect
    PROVE  AuditInv'
<1>0. AuditTypeOK /\ WorkerHoldsBatch /\ EntriesApart /\ EntriesHeld
  BY DEF AuditInv
<1>1. PICK e : e = Head(queue)
  OBVIOUS
<1>2. /\ e \in AuditEntries /\ queue' \in Seq(AuditEntries) /\ IsInjective(queue')
      /\ Len(queue) \in Nat /\ Len(queue') = Len(queue) - 1
      /\ ToSet(queue) = {e} \cup ToSet(queue') /\ e \notin ToSet(queue')
  BY <1>0, <1>1, HeadTailFacts, ToSetIsRange DEF Collect, AuditTypeOK
<1>3. /\ batch' \in Seq(AuditEntries) /\ Len(batch') = Len(batch) + 1
      /\ ToSet(batch') = ToSet(batch) \cup {e}
  BY <1>0, <1>1, <1>2, AppendFacts, ToSetIsRange DEF Collect, AuditTypeOK
<1>4. Len(batch) \in Nat /\ Len(inserting) \in Nat
  BY <1>0, LenProperties DEF AuditTypeOK
<1>5. UNCHANGED <<audit, blocked, unfinished, inserting, leftover, worker, audited, logged, discarded>>
  BY DEF Collect
<1>6. AuditTypeOK' /\ WorkerHoldsBatch'
  BY <1>0, <1>2, <1>3, <1>5 DEF AuditTypeOK, WorkerHoldsBatch
<1>7. unfinished' = Len(queue') + Len(batch') + Len(inserting')
  BY <1>0, <1>2, <1>3, <1>4, <1>5 DEF EntriesHeld
<1>8. EntriesApart'
  BY <1>0, <1>2, <1>3, <1>5 DEF EntriesApart
<1>9. EntriesHeld'
  BY <1>0, <1>2, <1>3, <1>5, <1>7 DEF EntriesHeld
<1> QED
  BY <1>6, <1>8, <1>9 DEF AuditInv

LEMMA BatchReadySteps ==
    ASSUME AuditInv, BatchReady
    PROVE  AuditInv'
<1>0. AuditTypeOK /\ WorkerHoldsBatch /\ EntriesApart /\ EntriesHeld
  BY DEF AuditInv
<1>1. <<>> \in Seq(AuditEntries) /\ Len(<<>>) = 0 /\ ToSet(<<>>) = {}
  BY EmptyFacts, ToSetIsRange
<1>2. /\ worker = "collect" /\ worker' = "insert" /\ inserting' = batch /\ batch' = <<>>
      /\ UNCHANGED <<audit, blocked, queue, unfinished, leftover, audited, logged, discarded>>
  BY DEF BatchReady
<1>3. inserting = <<>>
  BY <1>0, <1>2 DEF WorkerHoldsBatch
<1>4. Len(queue) \in Nat /\ Len(batch) \in Nat
  BY <1>0, LenProperties DEF AuditTypeOK
<1>5. AuditTypeOK' /\ WorkerHoldsBatch'
  BY <1>0, <1>1, <1>2 DEF AuditTypeOK, WorkerHoldsBatch
<1>6. EntriesApart'
  BY <1>0, <1>1, <1>2, <1>3 DEF EntriesApart
<1>7. unfinished' = Len(queue') + Len(batch') + Len(inserting')
  BY <1>0, <1>1, <1>2, <1>3, <1>4 DEF EntriesHeld
<1>8. EntriesHeld'
  BY <1>0, <1>1, <1>2, <1>3, <1>7 DEF EntriesHeld
<1> QED
  BY <1>5, <1>6, <1>8 DEF AuditInv

(* The batch of the insert is stored or given up. *)
LEMMA BatchDoneSteps ==
    ASSUME AuditInv, worker = "insert", BatchDone,
           \/ audited' = audited \cup ToSet(inserting) /\ UNCHANGED discarded
           \/ discarded' = discarded \cup ToSet(inserting) /\ UNCHANGED audited,
           UNCHANGED <<audit, blocked, queue, batch, leftover, logged>>
    PROVE  AuditInv'
<1>0. AuditTypeOK /\ WorkerHoldsBatch /\ EntriesApart /\ EntriesHeld
  BY DEF AuditInv
<1>1. <<>> \in Seq(AuditEntries) /\ Len(<<>>) = 0 /\ ToSet(<<>>) = {}
  BY EmptyFacts, ToSetIsRange
<1>2. worker' = "collect" /\ inserting' = <<>> /\ unfinished' = unfinished - Len(inserting)
  BY DEF BatchDone
<1>3. Len(queue) \in Nat /\ Len(batch) \in Nat /\ Len(inserting) \in Nat
  BY <1>0, LenProperties DEF AuditTypeOK
<1>4. AuditTypeOK' /\ WorkerHoldsBatch'
  BY <1>0, <1>1, <1>2 DEF AuditTypeOK, WorkerHoldsBatch
<1>5. EntriesApart'
  BY <1>0, <1>1, <1>2 DEF EntriesApart
<1>6. unfinished' = Len(queue') + Len(batch') + Len(inserting')
  BY <1>0, <1>1, <1>2, <1>3 DEF EntriesHeld
<1>7. EntriesHeld'
  BY <1>0, <1>1, <1>2, <1>6 DEF EntriesHeld
<1> QED
  BY <1>4, <1>5, <1>7 DEF AuditInv

LEMMA CancelWorkerSteps ==
    ASSUME AuditInv, CancelWorker
    PROVE  AuditInv'
<1>0. AuditTypeOK /\ WorkerHoldsBatch /\ EntriesApart /\ EntriesHeld
  BY DEF AuditInv
<1>1. <<>> \in Seq(AuditEntries) /\ Len(<<>>) = 0 /\ ToSet(<<>>) = {}
  BY EmptyFacts, ToSetIsRange
<1>2. /\ audit' = "flushing" /\ worker' = "none" /\ batch' = <<>> /\ inserting' = <<>>
      /\ discarded' = discarded \cup ToSet(inserting)
      /\ unfinished' = unfinished - Len(batch) - Len(inserting)
      /\ UNCHANGED <<blocked, queue, audited, logged>>
  BY DEF CancelWorker
<1>3. /\ leftover' \in Seq(AuditEntries)
      /\ ToSet(leftover') = ToSet(leftover) \cup ToSet(batch)
  BY <1>0, ConcatFacts, ToSetIsRange DEF CancelWorker, AuditTypeOK
<1>4. Len(queue) \in Nat /\ Len(batch) \in Nat /\ Len(inserting) \in Nat
  BY <1>0, LenProperties DEF AuditTypeOK
<1>5. AuditTypeOK' /\ WorkerHoldsBatch'
  BY <1>0, <1>1, <1>2, <1>3 DEF AuditTypeOK, WorkerHoldsBatch
<1>6. EntriesApart'
  BY <1>0, <1>1, <1>2, <1>3 DEF EntriesApart
<1>7. unfinished' = Len(queue') + Len(batch') + Len(inserting')
  BY <1>0, <1>1, <1>2, <1>4 DEF EntriesHeld
<1>8. EntriesHeld'
  BY <1>0, <1>1, <1>2, <1>3, <1>7 DEF EntriesHeld
<1> QED
  BY <1>5, <1>6, <1>8 DEF AuditInv

LEMMA FlushRemainingSteps ==
    ASSUME AuditInv, FlushRemaining \/ FlushRemainingFails
    PROVE  AuditInv'
<1>0. AuditTypeOK /\ WorkerHoldsBatch /\ EntriesApart /\ EntriesHeld
  BY DEF AuditInv
<1>1. /\ <<>> \in Seq(AuditEntries) /\ Len(<<>>) = 0 /\ ToSet(<<>>) = {}
      /\ IsInjective(<<>>)
  BY EmptyFacts, ToSetIsRange
<1>2. ToSet(leftover \o queue) = ToSet(leftover) \cup ToSet(queue)
  BY <1>0, ConcatFacts, ToSetIsRange DEF AuditTypeOK
<1>3. /\ audit = "flushing" /\ audit' = "off" /\ queue' = <<>> /\ leftover' = <<>>
      /\ unfinished' = unfinished - Len(queue)
      /\ \/ audited' = audited \cup ToSet(leftover) \cup ToSet(queue) /\ UNCHANGED discarded
         \/ discarded' = discarded \cup ToSet(leftover) \cup ToSet(queue) /\ UNCHANGED audited
      /\ UNCHANGED <<blocked, batch, inserting, worker, logged>>
  BY <1>2 DEF FlushRemaining, FlushRemainingFails
<1>4. Len(queue) \in Nat /\ Len(batch) \in Nat /\ Len(inserting) \in Nat
  BY <1>0, LenProperties DEF AuditTypeOK
<1>5. AuditTypeOK' /\ WorkerHoldsBatch'
  BY <1>0, <1>1, <1>3 DEF AuditTypeOK, WorkerHoldsBatch
<1>6. EntriesApart'
  BY <1>0, <1>1, <1>3 DEF EntriesApart
<1>7. unfinished' = Len(queue') + Len(batch') + Len(inserting')
  BY <1>0, <1>1, <1>3, <1>4 DEF EntriesHeld
<1>8. EntriesHeld'
  BY <1>0, <1>1, <1>3, <1>7 DEF EntriesHeld
<1> QED
  BY <1>5, <1>6, <1>8 DEF AuditInv

(* The service starts or stops, or nothing happens. *)
LEMMA AuditIdle ==
    ASSUME AuditInv, StartAudit \/ StopAudit \/ UNCHANGED auditVars
    PROVE  AuditInv'
<1>1. UNCHANGED <<blocked, queue, unfinished, batch, inserting, leftover, audited, logged, discarded>>
  BY DEF StartAudit, StopAudit, auditVars
<1>2. WorkerHoldsBatch'
  BY <1>1 DEF AuditInv, WorkerHoldsBatch, StartAudit, StopAudit, auditVars
<1>3. AuditTypeOK' /\ EntriesApart' /\ EntriesHeld'
  BY <1>1 DEF AuditInv, AuditTypeOK, EntriesApart, EntriesHeld
<1> QED
  BY <1>2, <1>3 DEF AuditInv

LEMMA AuditNextInv == AuditInv /\ [AuditNext]_auditVars => AuditInv'
<1> SUFFICES ASSUME AuditInv, [AuditNext]_auditVars PROVE AuditInv'
  OBVIOUS
<1>1. ASSUME NEW e \in AuditEntries, LogAsync(e) PROVE AuditInv'
  <2>1. CASE Full
    BY <1>1, <2>1, PastQueueSteps DEF LogAsync
  <2>2. CASE ~Full
    BY <1>1, <2>2, PutSteps DEF LogAsync
  <2> QED
    BY <2>1, <2>2
<1>2. ASSUME NEW e \in AuditEntries, EnqueueNowait(e) PROVE AuditInv'
  <2>1. CASE Full
    BY <1>2, <2>1, PastQueueSteps DEF EnqueueNowait
  <2>2. CASE ~Full
    BY <1>2, <2>2, PutSteps DEF EnqueueNowait
  <2> QED
    BY <2>1, <2>2
<1>3. ASSUME NEW e \in AuditEntries, LogSync(e) PROVE AuditInv'
  BY <1>3, PastQueueSteps DEF LogSync
<1>4. ASSUME NEW e \in AuditEntries, PutBlocked(e) PROVE AuditInv'
  BY <1>4, PutSteps DEF PutBlocked
<1>5. CASE Worker \/ InsertBatchFails
  <2>1. CASE InsertBatch \/ InsertBatchFails
    BY <2>1, BatchDoneSteps DEF InsertBatch, InsertBatchFails
  <2> QED
    BY <1>5, <2>1, CollectSteps, BatchReadySteps DEF Worker
<1>6. CASE Drained \/ DrainTimesOut
  BY <1>6, CancelWorkerSteps DEF Drained, DrainTimesOut
<1>7. CASE FlushRemaining \/ FlushRemainingFails
  BY <1>7, FlushRemainingSteps
<1>8. CASE StartAudit \/ StopAudit \/ UNCHANGED auditVars
  BY <1>8, AuditIdle
<1> QED
  BY <1>1, <1>2, <1>3, <1>4, <1>5, <1>6, <1>7, <1>8
  DEF AuditNext, LogTrade, LogSystemEvent, RegimeAuditHook

(* For any entries, queue size and batch size, whatever fails: every entry    *)
(* handed to the audit is waiting, queued, with the worker, reclaimed, stored *)
(* or given up, never both of the last two, and the count stop() waits on is  *)
(* exact.                                                                     *)
THEOREM AuditKeepsEntries == AuditSpec => []AuditAccounted
BY AuditInitInv, AuditNextInv, AuditInvAccounts, PTL DEF AuditSpec

-----------------------------------------------------------------------------
(* CandleStore.  Saves are numbered, so a new one is none of the old; what  *)
(* is in the batch is older than what is in the channel, so that a batch    *)
(* that leaves for the table, or is given up, has nothing in common with    *)
(* what stays; and the flush at stop comes only after Close.                *)

(* In the order of the saves. *)
Increasing(s) == \A i, j \in DOMAIN s : i < j => s[i].n < s[j].n
Numbered == [candle : Nat, version : Nat, n : Nat]

LEMMA IncreasingAppend ==
    ASSUME NEW s \in Seq(Numbered), NEW e \in Numbered,
           Increasing(s), \A x \in Range(s) : x.n < e.n
    PROVE  Increasing(Append(s, e))
<1> DEFINE t == Append(s, e)
<1>1. /\ Len(s) \in Nat /\ DOMAIN s = 1..Len(s) /\ DOMAIN t = 1..Len(s) + 1
      /\ \A i \in 1..Len(s) : t[i] = s[i]
      /\ t[Len(s) + 1] = e
  BY AppendProperties, LenProperties
<1> HIDE DEF t
<1>2. ASSUME NEW i \in DOMAIN t, NEW j \in DOMAIN t, i < j PROVE t[i].n < t[j].n
  <2>1. i \in 1..Len(s) /\ t[i] = s[i]
    BY <1>1, <1>2
  <2>2. CASE j = Len(s) + 1
    BY <1>1, <2>1, <2>2 DEF Range
  <2>3. CASE j \in 1..Len(s)
    BY <1>1, <1>2, <2>1, <2>3 DEF Increasing
  <2> QED
    BY <1>1, <2>2, <2>3
<1> QED
  BY <1>2 DEF Increasing, t

LEMMA IncreasingParts ==
    ASSUME NEW s \in Seq(Numbered), NEW t \in Seq(Numbered), Increasing(s \o t)
    PROVE  /\ Increasing(t)
           /\ \A x \in Range(s), y \in Range(t) : x.n < y.n
<1> DEFINE u == s \o t
<1>1. /\ Len(s) \in Nat /\ Len(t) \in Nat
      /\ DOMAIN s = 1..Len(s) /\ DOMAIN t = 1..Len(t) /\ DOMAIN u = 1..Len(s) + Len(t)
      /\ \A i \in 1..Len(s) + Len(t) : u[i] = IF i <= Len(s) THEN s[i] ELSE t[i - Len(s)]
  BY ConcatProperties, LenProperties
<1>2. \A i, j \in DOMAIN u : i < j => u[i].n < u[j].n
  BY DEF Increasing
<1> HIDE DEF u
<1>3. \A i \in 1..Len(t) : Len(s) + i \in DOMAIN u /\ u[Len(s) + i] = t[i]
  BY <1>1, SMTT(40)
<1>4. \A i \in 1..Len(s) : i \in DOMAIN u /\ u[i] = s[i]
  BY <1>1
<1>5. Increasing(t)
  <2>1. \A i, j \in 1..Len(t) : i < j => Len(s) + i < Len(s) + j
    BY <1>1
  <2> QED
    BY <1>1, <1>2, <1>3, <2>1 DEF Increasing
<1>6. ASSUME NEW i \in 1..Len(s), NEW j \in 1..Len(t) PROVE s[i].n < t[j].n
  <2>1. i < Len(s) + j
    BY <1>1
  <2> QED
    BY <1>2, <1>3, <1>4, <2>1
<1> QED
  BY <1>1, <1>5, <1>6 DEF Range

CandleTypeOK ==
    /\ current \in Nat /\ version \in Nat /\ flushErrors \in Nat
    /\ saves \in Seq(Numbered)
    /\ candleBuffer \in Seq(Numbered) /\ candleBatch \in Seq(Numbered)
    /\ \A s \in Range(saves) : s.n <= Len(saves)
    /\ \A u \in unsaved : u.why \in {"full", "failed", "cancelled", "left"}

AllGivenUp == {u.save : u \in unsaved}

SavesApart ==
    /\ Range(saves) = Range(OnTheWay) \cup flushed \cup AllGivenUp
    /\ Range(OnTheWay) \cap flushed = {}
    /\ Range(OnTheWay) \cap AllGivenUp = {} /\ flushed \cap AllGivenUp = {}
    /\ \A u, v \in unsaved : u.save = v.save => u = v

SavesInOrder ==
    /\ Increasing(OnTheWay)
    /\ \A s \in flushed, t \in Range(OnTheWay) : s.n < t.n

GivenUpFor ==
    /\ \A u \in unsaved : u.why = "failed" => flushErrors > 0 \/ storeCtx = "cancelled"
    /\ \A u \in unsaved : u.why = "left" => closing # "no" \/ storeCtx = "cancelled"
    /\ processor = "last" => closing # "no"

CandleInv == CandleTypeOK /\ SavesApart /\ SavesInOrder /\ GivenUpFor

LEMMA CandleInvAccounts == CandleInv => SavesAccounted
<1> SUFFICES ASSUME CandleInv PROVE SavesAccounted
  OBVIOUS
<1> USE DEF CandleInv
<1>1. PICK p : p = <<ToSet(OnTheWay), flushed, GivenUp("full"), GivenUp("failed"),
                     GivenUp("cancelled"), GivenUp("left")>>
  OBVIOUS
<1>2. AllGivenUp = GivenUp("full") \cup GivenUp("failed")
                       \cup GivenUp("cancelled") \cup GivenUp("left")
  BY DEF AllGivenUp, GivenUp, CandleTypeOK
<1>3. \A v, w : v # w => GivenUp(v) \cap GivenUp(w) = {}
  BY DEF GivenUp, SavesApart
<1>4. DOMAIN p = 1..6 /\ p[1] = Range(OnTheWay) /\ p[2] = flushed /\ p[3] = GivenUp("full")
      /\ p[4] = GivenUp("failed") /\ p[5] = GivenUp("cancelled") /\ p[6] = GivenUp("left")
  BY <1>1, ToSetIsRange
<1>5. ToSet(p) = {p[1], p[2], p[3], p[4], p[5], p[6]}
  BY <1>4 DEF ToSet
<1>6. UNION ToSet(p) = p[1] \cup p[2] \cup p[3] \cup p[4] \cup p[5] \cup p[6]
  BY <1>5
<1>7. UNION ToSet(p) = ToSet(saves)
  BY <1>2, <1>4, <1>6, ToSetIsRange DEF SavesApart
<1>8. \A w : GivenUp(w) \subseteq AllGivenUp
  BY DEF GivenUp, AllGivenUp
<1>9. ASSUME NEW i \in DOMAIN p, NEW j \in DOMAIN p, i # j PROVE p[i] \cap p[j] = {}
  <2>1. i \in {1, 2, 3, 4, 5, 6} /\ j \in {1, 2, 3, 4, 5, 6}
    BY <1>4, <1>9
  <2>2. CASE i \in {1, 2} /\ j \in {1, 2}
    BY <1>4, <1>9, <2>2 DEF SavesApart
  <2>3. CASE i \in {1, 2} /\ j \in {3, 4, 5, 6}
    BY <1>4, <1>8, <2>3 DEF SavesApart
  <2>4. CASE i \in {3, 4, 5, 6} /\ j \in {1, 2}
    BY <1>4, <1>8, <2>4 DEF SavesApart
  <2>5. CASE i \in {3, 4, 5, 6} /\ j \in {3, 4, 5, 6}
    BY <1>3, <1>4, <1>9, <2>5
  <2> QED
    BY <2>1, <2>2, <2>3, <2>4, <2>5
<1>10. \A i, j \in DOMAIN OnTheWay : i < j => OnTheWay[i].n < OnTheWay[j].n
  BY DEF SavesInOrder, Increasing
<1>11. \A s \in flushed, t \in ToSet(OnTheWay) : s.n < t.n
  BY ToSetIsRange DEF SavesInOrder
<1>12. /\ GivenUp("failed") # {} => flushErrors > 0 \/ storeCtx = "cancelled"
       /\ GivenUp("left") # {} => closing # "no" \/ storeCtx = "cancelled"
  BY DEF GivenUp, GivenUpFor
<1> QED
  BY <1>1, <1>7, <1>9, <1>10, <1>11, <1>12 DEF SavesAccounted

LEMMA CandleInitInv == CandleInit => CandleInv
<1> SUFFICES ASSUME CandleInit PROVE CandleInv
  OBVIOUS
<1>1. <<>> \in Seq(Numbered) /\ Len(<<>>) = 0 /\ Range(<<>>) = {} /\ <<>> \o <<>> = <<>>
  BY EmptyFacts, ConcatEmptySeq
<1>2. OnTheWay = <<>> /\ AllGivenUp = {} /\ saves = <<>> /\ flushed = {} /\ unsaved = {}
  BY <1>1 DEF CandleInit, OnTheWay, AllGivenUp
<1>3. Increasing(<<>>)
  BY DEF Increasing
<1> QED
  BY <1>1, <1>2, <1>3
  DEF CandleInit, CandleInv, CandleTypeOK, SavesApart, SavesInOrder, GivenUpFor

(* What is on its way is the batch and, after it, the channel. *)
LEMMA WayFacts ==
    ASSUME CandleInv
    PROVE  /\ OnTheWay \in Seq(Numbered)
           /\ Range(OnTheWay) = Range(candleBatch) \cup Range(candleBuffer)
           /\ Range(candleBatch) \cap Range(candleBuffer) = {}
           /\ Increasing(candleBuffer)
           /\ \A x \in Range(candleBatch), y \in Range(candleBuffer) : x.n < y.n
           /\ \A x \in Range(OnTheWay) : x \in Numbered
<1> USE DEF CandleInv, CandleTypeOK
<1>1. OnTheWay \in Seq(Numbered) /\ Range(OnTheWay) = Range(candleBatch) \cup Range(candleBuffer)
  BY ConcatFacts DEF OnTheWay
<1>2. Increasing(candleBuffer) /\ \A x \in Range(candleBatch), y \in Range(candleBuffer) : x.n < y.n
  BY IncreasingParts DEF SavesInOrder, OnTheWay
<1>3. \A x \in Range(OnTheWay) : x \in Numbered
  BY <1>1, ElementOfSeq, LenProperties DEF Range
<1>4. \A x \in Range(OnTheWay) : ~(x.n < x.n)
  BY <1>3 DEF Numbered
<1> QED
  BY <1>1, <1>2, <1>3, <1>4

(* Saves that were on their way, or new, are given up, for one reason or the *)
(* other.                                                                    *)
LEMMA GiveUpFacts ==
    ASSUME SavesApart, NEW A, NEW C, NEW v, NEW w, v # w, A \cap C = {},
           A \cap AllGivenUp = {}, C \cap AllGivenUp = {},
           unsaved' = GiveUp(A, v) \cup GiveUp(C, w)
    PROVE  /\ AllGivenUp' = AllGivenUp \cup A \cup C
           /\ \A x, y \in unsaved' : x.save = y.save => x = y
           /\ \A u \in unsaved' : u \in unsaved \/ (u.why = v /\ A # {}) \/ (u.why = w /\ C # {})
<1> DEFINE P == {[save |-> x, why |-> v] : x \in A}
           Q == {[save |-> x, why |-> w] : x \in C}
<1>1. unsaved' = unsaved \cup P \cup Q
  BY DEF GiveUp
<1>2. \A u \in P : u.save \in A /\ u.why = v /\ u = [save |-> u.save, why |-> v]
  OBVIOUS
<1>3. \A u \in Q : u.save \in C /\ u.why = w /\ u = [save |-> u.save, why |-> w]
  OBVIOUS
<1>4. (\A x \in A : \E u \in P : u.save = x) /\ (\A x \in C : \E u \in Q : u.save = x)
  <2>1. ASSUME NEW x \in A PROVE \E u \in P : u.save = x
    <3>1. [save |-> x, why |-> v] \in P /\ [save |-> x, why |-> v].save = x
      OBVIOUS
    <3> QED
      BY <3>1
  <2>2. ASSUME NEW x \in C PROVE \E u \in Q : u.save = x
    <3>1. [save |-> x, why |-> w] \in Q /\ [save |-> x, why |-> w].save = x
      OBVIOUS
    <3> QED
      BY <3>1
  <2> QED
    BY <2>1, <2>2
<1> HIDE DEF P, Q
<1>5. \A u \in unsaved : u.save \in AllGivenUp
  BY DEF AllGivenUp
<1>6. AllGivenUp' = AllGivenUp \cup A \cup C
  <2>1. AllGivenUp' = {u.save : u \in unsaved'}
    BY DEF AllGivenUp
  <2>2. \A x : x \in AllGivenUp' <=> \E u \in unsaved \cup P \cup Q : x = u.save
    BY <1>1, <2>1
  <2>3. \A x : x \in AllGivenUp <=> \E u \in unsaved : x = u.save
    BY DEF AllGivenUp
  <2> QED
    BY <1>2, <1>3, <1>4, <2>2, <2>3
<1>7. ASSUME NEW x \in unsaved', NEW y \in unsaved', x.save = y.save PROVE x = y
  <2>1. CASE x \in unsaved /\ y \in unsaved
    BY <1>7, <2>1 DEF SavesApart
  <2>2. CASE x \in P /\ y \in P
    BY <1>2, <1>7, <2>2
  <2>3. CASE x \in Q /\ y \in Q
    BY <1>3, <1>7, <2>3
  <2> QED
    BY <1>1, <1>2, <1>3, <1>5, <1>7, <2>1, <2>2, <2>3
<1>8. \A u \in unsaved' : u \in unsaved \/ (u.why = v /\ A # {}) \/ (u.why = w /\ C # {})
  BY <1>1, <1>2, <1>3
<1> QED
  BY <1>6, <1>7, <1>8

(* A save enters the channel or is given up at once. *)
LEMMA SaveCandleSteps ==
    ASSUME CandleInv, NEW c \in Nat, NEW v \in Nat, SaveCandle(c, v),
           current' \in Nat, version' \in Nat,
           UNCHANGED <<candleBatch, processor, storeCtx, closing, flushed, flushErrors>>
    PROVE  CandleInv'
<1> USE DEF CandleInv
<1>1. PICK s : s = [candle |-> c, version |-> v, n |-> Len(saves) + 1]
  OBVIOUS
<1>2. Len(saves) \in Nat /\ s \in Numbered /\ s.n = Len(saves) + 1
  <2>1. Len(saves) \in Nat
    BY LenProperties DEF CandleTypeOK
  <2> QED
    BY <1>1, <2>1 DEF Numbered
<1>3. /\ saves' \in Seq(Numbered) /\ Len(saves') = Len(saves) + 1
      /\ Range(saves') = Range(saves) \cup {s}
  <2>1. saves' = Append(saves, s) /\ saves \in Seq(Numbered)
    BY <1>1 DEF SaveCandle, CandleTypeOK
  <2> QED
    BY <1>2, <2>1, AppendFacts
<1>4. \A x \in Range(saves) : x \in Numbered /\ x.n < s.n
  <2>1. \A x \in Range(saves) : x \in Numbered
    BY ElementOfSeq, LenProperties DEF CandleTypeOK, Range
  <2>2. \A x \in Range(saves) : x.n \in Nat /\ x.n <= Len(saves)
    BY <2>1 DEF CandleTypeOK, Numbered
  <2> QED
    BY <1>2, <2>1, <2>2
<1>5. s \notin Range(saves)
  BY <1>2, <1>4
<1>6. \A x \in Range(saves') : x.n <= Len(saves')
  BY <1>2, <1>3, <1>4, SMTT(40) DEF Numbered
<1>7. CASE candleBuffer' = Append(candleBuffer, s) /\ UNCHANGED unsaved
  <2>1. candleBuffer' \in Seq(Numbered) /\ OnTheWay' = Append(OnTheWay, s)
    <3>1. candleBuffer' = candleBuffer \o <<s>> /\ <<s>> \in Seq(Numbered)
      BY <1>2, <1>7, AppendIsConcat, SMTT(40) DEF CandleTypeOK
    <3>2. OnTheWay' = candleBatch \o (candleBuffer \o <<s>>)
      BY <3>1 DEF OnTheWay
    <3>3. OnTheWay' = OnTheWay \o <<s>>
      BY <3>1, <3>2, ConcatAssociative, SMTT(40) DEF OnTheWay, CandleTypeOK
    <3>4. Append(OnTheWay, s) = OnTheWay \o <<s>>
      BY <1>2, WayFacts, AppendIsConcat
    <3> QED
      BY <1>2, <1>7, <3>3, <3>4, AppendFacts DEF CandleTypeOK
  <2>2. Range(OnTheWay') = Range(OnTheWay) \cup {s} /\ Range(OnTheWay) \subseteq Range(saves)
    BY <1>2, <2>1, WayFacts, AppendFacts DEF SavesApart
  <2>3. Increasing(OnTheWay')
    BY <1>2, <1>4, <2>1, <2>2, WayFacts, IncreasingAppend DEF SavesInOrder
  <2>4. flushed \subseteq Range(saves) /\ AllGivenUp \subseteq Range(saves)
    BY DEF SavesApart
  <2>5. SavesApart'
    BY <1>3, <1>5, <1>7, <2>2, <2>4 DEF SavesApart, AllGivenUp
  <2>6. SavesInOrder'
    BY <1>4, <2>2, <2>3, <2>4 DEF SavesInOrder
  <2> QED
    BY <1>3, <1>6, <1>7, <2>1, <2>5, <2>6 DEF CandleTypeOK, GivenUpFor
<1>8. ASSUME NEW w \in {"cancelled", "full"}, unsaved' = GiveUp({s}, w), UNCHANGED candleBuffer
      PROVE  CandleInv'
  <2>1. unsaved' = GiveUp({s}, w) \cup GiveUp({}, "left")
    BY <1>8 DEF GiveUp
  <2>2. s \notin AllGivenUp
    BY <1>5 DEF SavesApart
  <2>3. /\ AllGivenUp' = AllGivenUp \cup {s}
        /\ \A x, y \in unsaved' : x.save = y.save => x = y
        /\ \A u \in unsaved' : u \in unsaved \/ u.why = w
    BY <1>8, <2>1, <2>2, GiveUpFacts
  <2>4. OnTheWay' = OnTheWay
    BY <1>8 DEF OnTheWay
  <2>5. SavesApart' /\ SavesInOrder'
    BY <1>3, <1>5, <2>3, <2>4 DEF SavesApart, SavesInOrder
  <2> QED
    BY <1>3, <1>6, <1>8, <2>3, <2>5 DEF CandleTypeOK, GivenUpFor
<1> QED
  BY <1>1, <1>7, <1>8 DEF SaveCandle

(* The batch is done with: its saves are in the table or given up, and what *)
(* is in the channel stays there or is left behind.                         *)
LEMMA BatchEnds ==
    ASSUME CandleInv, NEW F, NEW A, NEW C,
           F \subseteq Range(candleBatch), F \cap A = {}, F \cap C = {}, A \cap C = {},
           Range(candleBuffer') \cap (A \cup C) = {},
           F \cup A \cup C \cup Range(candleBuffer') = Range(OnTheWay),
           candleBatch' = <<>>, candleBuffer' = candleBuffer \/ candleBuffer' = <<>>,
           flushed' = flushed \cup F,
           unsaved' = GiveUp(A, "failed") \cup GiveUp(C, "left"),
           A # {} => flushErrors' > 0 \/ storeCtx = "cancelled",
           C # {} => closing # "no" \/ storeCtx = "cancelled",
           flushErrors' \in Nat, flushErrors' >= flushErrors, processor' # "last",
           UNCHANGED <<storeCtx, closing, producerVars>>
    PROVE  CandleInv'
<1> USE DEF CandleInv
<1>1. OnTheWay' = candleBuffer' /\ candleBuffer' \in Seq(Numbered) /\ <<>> \in Seq(Numbered)
  BY EmptyFacts, ConcatEmptySeq DEF OnTheWay, CandleTypeOK
<1>2. Increasing(candleBuffer') /\ Range(candleBuffer') \subseteq Range(candleBuffer)
  BY WayFacts, EmptyFacts DEF Increasing
<1>3. A \cap AllGivenUp = {} /\ C \cap AllGivenUp = {}
  BY DEF SavesApart
<1>4. /\ AllGivenUp' = AllGivenUp \cup A \cup C
      /\ \A x, y \in unsaved' : x.save = y.save => x = y
      /\ \A u \in unsaved' : u \in unsaved \/ (u.why = "failed" /\ A # {})
                                           \/ (u.why = "left" /\ C # {})
  BY <1>3, GiveUpFacts
<1>5. F \subseteq Range(candleBatch) /\ F \cap Range(candleBuffer') = {}
  BY <1>2, WayFacts
<1>6. SavesApart'
  BY <1>1, <1>4, <1>5 DEF SavesApart, producerVars
<1>7. SavesInOrder'
  <2>1. \A x \in F, y \in Range(candleBuffer') : x.n < y.n
    BY <1>2, <1>5, WayFacts
  <2>2. \A x \in flushed, y \in Range(candleBuffer') : x.n < y.n
    BY <1>2, WayFacts DEF SavesInOrder
  <2> QED
    BY <1>1, <1>2, <2>1, <2>2 DEF SavesInOrder
<1>8. CandleTypeOK'
  BY <1>1, <1>4 DEF CandleTypeOK, producerVars
<1>9. flushErrors > 0 => flushErrors' > 0
  BY DEF CandleTypeOK
<1>10. GivenUpFor'
  BY <1>4, <1>9 DEF GivenUpFor
<1> QED
  BY <1>6, <1>7, <1>8, <1>10

(* batchProcessor takes a candle from the channel into its batch: the order *)
(* of what is on its way stays.                                             *)
LEMMA ReceiveSteps ==
    ASSUME CandleInv, Receive
    PROVE  CandleInv'
<1> USE DEF CandleInv, CandleTypeOK
<1>1. PICK e, t : e = Head(candleBuffer) /\ t = Tail(candleBuffer)
  OBVIOUS
<1>2. /\ candleBuffer \in Seq(Numbered) /\ candleBuffer # <<>> /\ candleBatch \in Seq(Numbered)
      /\ candleBatch' = Append(candleBatch, e) /\ candleBuffer' = t
      /\ processor' # "last"
      /\ UNCHANGED <<producerVars, storeCtx, closing, flushed, unsaved, flushErrors>>
  BY <1>1 DEF Receive
<1>3. e \in Numbered /\ t \in Seq(Numbered)
  BY <1>1, <1>2, HeadTailFacts
<1>4. candleBatch' \in Seq(Numbered) /\ candleBatch' = candleBatch \o <<e>> /\ <<e>> \in Seq(Numbered)
  BY <1>2, <1>3, AppendFacts, AppendIsConcat
<1>5. <<e>> \o t = candleBuffer
  BY <1>1, <1>2, <1>3, HeadThenTail
<1>6. OnTheWay' = OnTheWay
  <2>1. OnTheWay' = (candleBatch \o <<e>>) \o t
    BY <1>2, <1>4 DEF OnTheWay
  <2>2. (candleBatch \o <<e>>) \o t = candleBatch \o (<<e>> \o t)
    BY <1>2, <1>3, <1>4, ConcatAssociative, SMTT(40)
  <2> QED
    BY <1>5, <2>1, <2>2 DEF OnTheWay
<1> QED
  BY <1>2, <1>3, <1>4, <1>6
  DEF SavesApart, SavesInOrder, GivenUpFor, AllGivenUp, producerVars

LEMMA FlushSteps ==
    ASSUME CandleInv, FlushCandles \/ FlushFails
    PROVE  CandleInv'
<1> DEFINE B == Range(candleBatch)
           Q == Range(candleBuffer)
<1>1. /\ UNCHANGED <<storeCtx, closing, producerVars>> /\ flushErrors \in Nat
      /\ Range(OnTheWay) = B \cup Q /\ B \cap Q = {} /\ Range(<<>>) = {}
      /\ processor = "last" => closing # "no"
      /\ flushErrors >= flushErrors
  BY WayFacts, EmptyFacts DEF FlushCandles, FlushFails, CandleInv, CandleTypeOK, GivenUpFor
<1> HIDE DEF B, Q
<1>2. CASE FlushCandles
  <2>1. flushed' = flushed \cup B /\ flushErrors' = flushErrors /\ candleBatch' = <<>>
    BY <1>2, ToSetIsRange DEF B, FlushCandles, FlushEnds, ProcessorEnds
  <2>2. CASE processor = "last"
    <3>1. /\ unsaved' = GiveUp({}, "failed") \cup GiveUp(Q, "left")
          /\ candleBuffer' = <<>> /\ processor' = "ended"
      BY <1>1, <1>2, <2>2, ToSetIsRange DEF B, Q, FlushCandles, FlushEnds, ProcessorEnds, GiveUp
    <3> QED
      BY <1>1, <2>1, <2>2, <3>1, BatchEnds, SMTT(40) DEF B, Q
  <2>3. CASE processor # "last"
    <3>1. /\ unsaved' = GiveUp({}, "failed") \cup GiveUp({}, "left")
          /\ candleBuffer' = candleBuffer /\ processor' = "select"
      BY <1>2, <2>3 DEF FlushCandles, FlushEnds, GiveUp
    <3>2. Range(candleBuffer') = Q
      BY <3>1 DEF Q
    <3>3. /\ B \subseteq Range(candleBatch) /\ B \cap {} = {} /\ {} \cap {} = {}
          /\ Range(candleBuffer') \cap ({} \cup {}) = {}
          /\ B \cup {} \cup {} \cup Range(candleBuffer') = Range(OnTheWay)
      BY <1>1, <3>2 DEF B
    <3>4. flushErrors' >= flushErrors /\ processor' # "last"
      BY <1>1, <2>1, <3>1
    <3> QED
      BY <1>1, <2>1, <3>1, <3>3, <3>4, BatchEnds, ZenonT(60)
  <2> QED
    BY <2>2, <2>3
<1>3. CASE FlushFails
  <2>1. /\ flushed' = flushed \cup {} /\ candleBatch' = <<>> /\ flushErrors' \in Nat
        /\ flushErrors' >= flushErrors
        /\ flushErrors' > 0 \/ storeCtx = "cancelled"
    BY <1>1, <1>3 DEF FlushFails
  <2>2. CASE processor = "last"
    <3>1. /\ unsaved' = GiveUp(B, "failed") \cup GiveUp(Q, "left")
          /\ candleBuffer' = <<>> /\ processor' = "ended"
      BY <1>3, <2>2, ToSetIsRange DEF B, Q, FlushFails
    <3> QED
      BY <1>1, <2>1, <2>2, <3>1, BatchEnds, ZenonT(60) DEF B, Q
  <2>3. CASE processor # "last"
    <3>1. /\ unsaved' = GiveUp(B, "failed") \cup GiveUp({}, "left")
          /\ candleBuffer' = candleBuffer /\ processor' = "select"
      BY <1>3, <2>3, ToSetIsRange DEF B, Q, FlushFails, GiveUp
    <3>2. Range(candleBuffer') = Q
      BY <3>1 DEF Q
    <3>3. /\ {} \subseteq Range(candleBatch) /\ {} \cap B = {} /\ B \cap {} = {} /\ {} \cap {} = {}
          /\ Range(candleBuffer') \cap (B \cup {}) = {}
          /\ {} \cup B \cup {} \cup Range(candleBuffer') = Range(OnTheWay)
      BY <1>1, <3>2
    <3>4. processor' # "last"
      BY <3>1
    <3> QED
      BY <1>1, <2>1, <3>1, <3>3, <3>4, BatchEnds
  <2> QED
    BY <2>2, <2>3
<1> QED
  BY <1>2, <1>3

(* batchProcessor returns without a flush. *)
LEMMA EndSteps ==
    ASSUME CandleInv, ContextDone \/ StopReceived
    PROVE  CandleInv'
<1> DEFINE B == Range(candleBatch)
           Q == Range(candleBuffer)
<1>1. /\ UNCHANGED <<storeCtx, closing, producerVars, flushed, flushErrors>>
      /\ flushErrors \in Nat /\ Range(OnTheWay) = B \cup Q /\ Range(<<>>) = {}
      /\ closing # "no" \/ storeCtx = "cancelled"
  BY WayFacts, EmptyFacts DEF ContextDone, StopReceived, CandleInv, CandleTypeOK
<1>2. CASE ProcessorEnds(candleBatch) \/ (candleBatch = <<>> /\ ProcessorEnds(<<>>))
  <2>1. /\ unsaved' = GiveUp({}, "failed") \cup GiveUp(B \cup Q, "left")
        /\ candleBatch' = <<>> /\ candleBuffer' = <<>> /\ processor' = "ended"
    BY <1>1, <1>2, ToSetIsRange DEF ProcessorEnds, GiveUp
  <2>2. flushed' = flushed \cup {} /\ flushErrors' >= flushErrors
    BY <1>1
  <2> QED
    BY <1>1, <2>1, <2>2, BatchEnds
<1>3. CASE processor' = "last" /\ UNCHANGED <<candleBuffer, candleBatch, unsaved>> /\ closing # "no"
  BY <1>1, <1>3
  DEF CandleInv, CandleTypeOK, SavesApart, SavesInOrder, GivenUpFor, AllGivenUp, OnTheWay,
      producerVars
<1> QED
  BY <1>2, <1>3 DEF ContextDone, StopReceived

LEMMA CandleNextInv ==
    ASSUME CandleInv, [CandleNext]_candleVars
    PROVE  CandleInv'
<1>1. CASE CandleUpdate
  <2>1. current' \in Nat /\ version' \in Nat
    BY <1>1 DEF CandleUpdate, CandleInv, CandleTypeOK
  <2> QED
    BY <1>1, <2>1, SaveCandleSteps DEF CandleUpdate
<1>2. CASE NewCandle
  <2>1. current' \in Nat /\ version' \in Nat /\ current \in Nat /\ version \in Nat
    BY <1>2 DEF NewCandle, CandleInv, CandleTypeOK
  <2> QED
    BY <1>2, <2>1, SaveCandleSteps DEF NewCandle
<1>3. CASE Receive
  BY <1>3, ReceiveSteps
<1>4. CASE ContextDone \/ StopReceived
  BY <1>4, EndSteps
<1>5. CASE FlushCandles \/ FlushFails
  BY <1>5, FlushSteps
<1>6. CASE FlushTimer \/ Interrupt \/ CloseStore \/ CloseReturns \/ UNCHANGED candleVars
  <2>1. /\ UNCHANGED <<producerVars, candleBuffer, candleBatch, flushed, unsaved, flushErrors>>
        /\ storeCtx = "cancelled" => storeCtx' = "cancelled"
        /\ closing # "no" => closing' # "no"
        /\ processor' = "last" => processor = "last"
    BY <1>6 DEF FlushTimer, Interrupt, CloseStore, CloseReturns, candleVars, producerVars
  <2> QED
    BY <2>1
    DEF CandleInv, CandleTypeOK, SavesApart, SavesInOrder, GivenUpFor, AllGivenUp, OnTheWay,
        producerVars
<1> QED
  BY <1>1, <1>2, <1>3, <1>4, <1>5, <1>6 DEF CandleNext

(* A save of the update handler is in exactly one place, what is on its way   *)
(* to the table is in order and newer than what is there, and a save is given *)
(* up only for one of the four reasons TimescaleStore has, for any number of  *)
(* saves, any channel, batch size and number of failing transactions.         *)
THEOREM CandleSavesAccounted == CandleSpec => []SavesAccounted
<1>1. CandleInit => CandleInv
  BY CandleInitInv
<1>2. CandleInv /\ [CandleNext]_candleVars => CandleInv'
  BY CandleNextInv
<1>3. CandleInv => SavesAccounted
  BY CandleInvAccounts
<1> QED
  BY <1>1, <1>2, <1>3, PTL DEF CandleSpec

(* The base.  What the updates of a candle bring is saved in order, so that   *)
(* the row that stays, of the first version written, is of the oldest one.    *)
Rows == UNION {[D -> Nat] : D \in SUBSET Nat}

VersionsGrow ==
    /\ \A s \in Range(saves) : s.candle <= current /\ (s.candle = current => s.version <= version)
    /\ \A s, t \in Range(saves) : s.candle = t.candle /\ s.n < t.n => s.version <= t.version

RowsOldest ==
    /\ candleRows \in Rows
    /\ \A c \in DOMAIN candleRows : \E s \in flushed : s.candle = c /\ s.version = candleRows[c]
    /\ \A s \in flushed : s.candle \in DOMAIN candleRows /\ candleRows[s.candle] <= s.version

RowsInv == CandleInv /\ VersionsGrow /\ RowsOldest

LEMMA RowsFacts ==
    /\ \A r : r \in Rows <=> r \in [DOMAIN r -> Nat] /\ DOMAIN r \subseteq Nat
    /\ \A r \in Rows, s \in Numbered :
        /\ Inserted(r, s) \in Rows
        /\ DOMAIN Inserted(r, s) = DOMAIN r \cup {s.candle}
        /\ \A c \in DOMAIN r : Inserted(r, s)[c] = r[c]
        /\ s.candle \notin DOMAIN r => Inserted(r, s)[s.candle] = s.version
<1>1. ASSUME NEW r PROVE r \in Rows <=> r \in [DOMAIN r -> Nat] /\ DOMAIN r \subseteq Nat
  BY DEF Rows
<1>2. ASSUME NEW r \in Rows, NEW s \in Numbered
      PROVE  /\ Inserted(r, s) \in Rows
             /\ DOMAIN Inserted(r, s) = DOMAIN r \cup {s.candle}
             /\ \A c \in DOMAIN r : Inserted(r, s)[c] = r[c]
             /\ s.candle \notin DOMAIN r => Inserted(r, s)[s.candle] = s.version
  <2>1. r \in [DOMAIN r -> Nat] /\ DOMAIN r \subseteq Nat /\ s.candle \in Nat /\ s.version \in Nat
    BY <1>1, <1>2 DEF Numbered
  <2>2. CASE s.candle \in DOMAIN r
    BY <2>2 DEF Inserted
  <2>3. CASE s.candle \notin DOMAIN r
    <3>1. PICK D : D = DOMAIN r \cup {s.candle}
      OBVIOUS
    <3>2. PICK q : q = [c \in D |-> IF c = s.candle THEN s.version ELSE r[c]]
      OBVIOUS
    <3>3. Inserted(r, s) = q
      BY <2>3, <3>1, <3>2 DEF Inserted
    <3>4. q \in [D -> Nat] /\ D \subseteq Nat /\ DOMAIN q = D
      BY <2>1, <3>1, <3>2
    <3>5. q \in Rows
      BY <1>1, <3>4
    <3> QED
      BY <2>3, <3>1, <3>2, <3>3, <3>4, <3>5
  <2> QED
    BY <2>2, <2>3
<1> QED
  BY <1>1, <1>2

BatchSteps(h, base, taken) ==
    h[0] = base /\ \A i \in 1..Len(taken) : h[i] = Inserted(h[i - 1], taken[i])

(* The transaction works its batch off from left to right. *)
LEMMA FlushRuns ==
    ASSUME NEW base \in Rows, NEW taken \in Seq(Numbered)
    PROVE  \E h : BatchSteps(h, base, taken) /\ h[Len(taken)] = FoldLeft(Inserted, base, taken)
<1>0. PICK n : n = Len(taken)
  OBVIOUS
<1> DEFINE Equation(all) ==
              all = [I \in SUBSET (1..n) |->
                      IF I = {} THEN base ELSE Inserted(all[I \ {Max(I)}], taken[Max(I)])]
<1>1. n \in Nat /\ DOMAIN taken = 1..n /\ \A i \in 1..n : taken[i] \in Numbered
  BY <1>0, ElementOfSeq, LenProperties
<1>2. PICK next : next = [p \in Rows \X (1..n) |-> Inserted(p[1], taken[p[2]])]
  OBVIOUS
<1>3. \A r \in Rows, i \in 1..n : next[<<r, i>>] = Inserted(r, taken[i]) /\ next[<<r, i>>] \in Rows
  BY <1>1, <1>2, RowsFacts
<1>4. PICK it \in [SUBSET (1..n) -> Rows] : FoldEquation(it, 1..n, base, next, Largest(n))
  <2>1. n \in Nat /\ \A r \in Rows, i \in 1..n : next[<<r, i>>] \in Rows
    BY <1>1, <1>3
  <2> QED
    BY ONLY <2>1, base \in Rows, LeftFoldRuns
<1>5. \E all : Equation(all)
  <2>1. ASSUME NEW I \in SUBSET (1..n), I # {}
        PROVE  it[I] = Inserted(it[I \ {Max(I)}], taken[Max(I)])
    <3>1. Max(I) \in 1..n /\ it[I \ {Max(I)}] \in Rows
      BY <1>1, <2>1, GreatestNatural
    <3> QED
      BY <1>3, <1>4, <2>1, <3>1 DEF FoldEquation, Largest
  <2>2. it = [I \in SUBSET (1..n) |-> it[I]]
    BY <1>4
  <2>3. \A I \in SUBSET (1..n) :
            it[I] = IF I = {} THEN base ELSE Inserted(it[I \ {Max(I)}], taken[Max(I)])
    BY <1>4, <2>1 DEF FoldEquation
  <2>4. it = [I \in SUBSET (1..n) |->
                IF I = {} THEN base ELSE Inserted(it[I \ {Max(I)}], taken[Max(I)])]
    BY <2>2, <2>3
  <2> QED
    BY <2>4
<1>6. PICK f : f = CHOOSE all : Equation(all)
  OBVIOUS
<1>7. Equation(f)
  BY <1>5, <1>6
<1>8. FoldLeft(Inserted, base, taken) = f[1..n]
  BY <1>0, <1>1, <1>6 DEF FoldLeft, MapThenFoldSet
<1> HIDE DEF Equation
<1>9. PICK h : h = [i \in 0..n |-> f[1..i]]
  OBVIOUS
<1>10. h[0] = base
  <2>1. 1..0 = {} /\ 0 \in 0..n
    BY <1>1
  <2> QED
    BY <1>7, <1>9, <2>1 DEF Equation
<1>11. ASSUME NEW i \in 1..n PROVE h[i] = Inserted(h[i - 1], taken[i])
  <2>1. /\ 1..i \in SUBSET (1..n) /\ 1..i # {} /\ i \in 0..n /\ i - 1 \in 0..n
        /\ Max(1..i) = i /\ (1..i) \ {Max(1..i)} = 1..(i - 1)
    <3>1. i \in Nat /\ i > 0 /\ i <= n
      BY <1>1
    <3>2. Max(1..i) = i /\ (1..i) \ {Max(1..i)} = 1..(i - 1)
      BY <3>1, MaxOfInterval
    <3>3. 1..i \in SUBSET (1..n) /\ 1..i # {} /\ i \in 0..n /\ i - 1 \in 0..n
      BY <1>1, <3>1, SMTT(40)
    <3> QED
      BY <3>2, <3>3
  <2>2. f[1..i] = Inserted(f[(1..i) \ {Max(1..i)}], taken[Max(1..i)])
    BY <1>7, <2>1 DEF Equation
  <2> QED
    BY <1>9, <2>1, <2>2
<1> QED
  <2>1. h[n] = FoldLeft(Inserted, base, taken)
    BY <1>1, <1>8, <1>9
  <2> QED
    BY <1>0, <1>10, <1>11, <2>1 DEF BatchSteps

(* After the first i of the batch: a row is one of before, or the first of    *)
(* its candle among them.                                                     *)
WorkedOff(new, base, taken, i) ==
    /\ new \in Rows
    /\ DOMAIN new = DOMAIN base \cup {taken[j].candle : j \in 1..i}
    /\ \A c \in DOMAIN base : new[c] = base[c]
    /\ \A c \in DOMAIN new \ DOMAIN base :
          \E j \in 1..i : taken[j].candle = c /\ taken[j].version = new[c]
    /\ \A j \in 1..i : new[taken[j].candle] <= taken[j].version

LEMMA RowAdded ==
    ASSUME NEW base \in Rows, NEW taken \in Seq(Numbered), NEW i \in 1..Len(taken), NEW old,
           \A j \in 1..Len(taken) :
               taken[j].candle \in DOMAIN base => base[taken[j].candle] <= taken[j].version,
           \A j, k \in 1..Len(taken) :
               j < k /\ taken[j].candle = taken[k].candle => taken[j].version <= taken[k].version,
           WorkedOff(old, base, taken, i - 1)
    PROVE  WorkedOff(Inserted(old, taken[i]), base, taken, i)
<1>1. PICK s : s = taken[i]
  OBVIOUS
<1>2. PICK new : new = Inserted(old, s)
  OBVIOUS
<1>3. /\ s \in Numbered /\ s.candle \in Nat /\ s.version \in Nat /\ old \in Rows
      /\ Len(taken) \in Nat
  <2>1. s \in Numbered /\ Len(taken) \in Nat
    BY <1>1, ElementOfSeq, LenProperties
  <2>2. old \in Rows
    BY DEF WorkedOff
  <2> QED
    BY <2>1, <2>2 DEF Numbered
<1>4. /\ new \in Rows /\ DOMAIN new = DOMAIN old \cup {s.candle}
      /\ \A c \in DOMAIN old : new[c] = old[c]
      /\ s.candle \notin DOMAIN old => new[s.candle] = s.version
  BY <1>2, <1>3, RowsFacts
<1>5. /\ 1..i = 1..(i - 1) \cup {i} /\ i \in Nat
      /\ \A j \in 1..(i - 1) : j \in 1..Len(taken) /\ j < i
  BY <1>3
<1>6. DOMAIN new = DOMAIN base \cup {taken[j].candle : j \in 1..i}
  <2>0. PICK m : m = i - 1
    OBVIOUS
  <2>1. {taken[j].candle : j \in 1..i} = {taken[j].candle : j \in 1..(i - 1)} \cup {s.candle}
    <3>1. 1..i = 1..m \cup {i}
      BY <1>5, <2>0
    <3>2. {taken[j].candle : j \in 1..i} = {taken[j].candle : j \in 1..m} \cup {taken[i].candle}
      BY ONLY <3>1
    <3> QED
      BY <1>1, <2>0, <3>2
  <2> QED
    BY <1>4, <2>1 DEF WorkedOff
<1>7. \A c \in DOMAIN base : new[c] = base[c]
  BY <1>4 DEF WorkedOff
<1>8. ASSUME NEW c \in DOMAIN new \ DOMAIN base
      PROVE  \E j \in 1..i : taken[j].candle = c /\ taken[j].version = new[c]
  <2>1. CASE c \in DOMAIN old
    <3>1. PICK j \in 1..(i - 1) : taken[j].candle = c /\ taken[j].version = old[c]
      BY <2>1 DEF WorkedOff
    <3> QED
      BY <1>4, <1>5, <2>1, <3>1
  <2>2. CASE c \notin DOMAIN old
    BY <1>1, <1>4, <1>5, <2>2
  <2> QED
    BY <2>1, <2>2
<1>9. ASSUME NEW j \in 1..i PROVE new[taken[j].candle] <= taken[j].version
  <2>1. CASE j \in 1..(i - 1)
    <3>1. taken[j].candle \in DOMAIN old /\ old[taken[j].candle] <= taken[j].version
      BY <2>1 DEF WorkedOff
    <3> QED
      BY <1>4, <3>1
  <2>2. CASE j = i
    <3>1. CASE s.candle \notin DOMAIN old
      BY <1>1, <1>3, <1>4, <2>2, <3>1
    <3>2. CASE s.candle \in DOMAIN base
      BY <1>1, <1>7, <2>2, <3>2
    <3>3. CASE s.candle \in DOMAIN old \ DOMAIN base
      <4>1. PICK k \in 1..(i - 1) : taken[k].candle = s.candle /\ taken[k].version = old[s.candle]
        BY <3>3 DEF WorkedOff
      <4>2. taken[k].version <= s.version
        BY <1>1, <1>5, <4>1
      <4> QED
        BY <1>1, <1>4, <2>2, <3>3, <4>1, <4>2
    <3> QED
      BY <3>1, <3>2, <3>3
  <2> QED
    BY <1>5, <2>1, <2>2
<1>10. new = Inserted(old, taken[i])
  BY <1>1, <1>2
<1> QED
  BY <1>4, <1>6, <1>7, <1>8, <1>9, <1>10 DEF WorkedOff

LEMMA FlushFacts ==
    ASSUME NEW base \in Rows, NEW taken \in Seq(Numbered),
           \A j \in 1..Len(taken) :
               taken[j].candle \in DOMAIN base => base[taken[j].candle] <= taken[j].version,
           \A j, k \in 1..Len(taken) :
               j < k /\ taken[j].candle = taken[k].candle => taken[j].version <= taken[k].version
    PROVE  WorkedOff(FoldLeft(Inserted, base, taken), base, taken, Len(taken))
<1>1. PICK n : n = Len(taken) /\ n \in Nat
  BY LenProperties
<1>2. PICK h : /\ h[0] = base /\ h[n] = FoldLeft(Inserted, base, taken)
               /\ \A i \in 1..n : h[i] = Inserted(h[i - 1], taken[i])
  <2>1. PICK h : BatchSteps(h, base, taken) /\ h[Len(taken)] = FoldLeft(Inserted, base, taken)
    BY FlushRuns
  <2> QED
    BY <1>1, <2>1 DEF BatchSteps
<1> DEFINE S == {i \in 0..n : WorkedOff(h[i], base, taken, i)}
<1>3. 0 \in S
  <2>1. 1..0 = {} /\ 0 \in 0..n
    BY <1>1
  <2>2. {taken[j].candle : j \in 1..0} = {}
    BY <2>1
  <2>3. WorkedOff(base, base, taken, 0)
    BY <2>1, <2>2 DEF WorkedOff
  <2> QED
    BY <1>2, <2>1, <2>3
<1>4. ASSUME NEW i \in 0..(n - 1), i \in S PROVE i + 1 \in S
  <2>1. i + 1 \in 1..n /\ i + 1 \in 0..n /\ (i + 1) - 1 = i /\ WorkedOff(h[i], base, taken, i)
    BY <1>1, <1>4
  <2>2. WorkedOff(Inserted(h[i], taken[i + 1]), base, taken, i + 1)
    BY <1>1, <2>1, RowAdded
  <2>3. h[i + 1] = Inserted(h[i], taken[i + 1])
    BY <1>2, <2>1
  <2> QED
    BY <2>1, <2>2, <2>3
<1>5. n \in S
  <2> HIDE DEF S
  <2>1. 0..n \subseteq S
    BY <1>1, <1>3, <1>4, Induction
  <2> QED
    BY <1>1, <2>1
<1> QED
  BY <1>1, <1>2, <1>5

(* The invariant of the rows. *)
LEMMA CandleTypes ==
    ASSUME CandleInv
    PROVE  /\ \A s \in Range(saves) : s \in Numbered
           /\ Range(candleBatch) \subseteq Range(saves) /\ flushed \subseteq Range(saves)
           /\ \A s \in flushed, t \in Range(candleBatch) : s.n < t.n
           /\ candleBatch \in Seq(Numbered) /\ Increasing(candleBatch)
<1> USE DEF CandleInv
<1>1. \A s \in Range(saves) : s \in Numbered
  BY ElementOfSeq, LenProperties DEF CandleTypeOK, Range
<1>2. Range(OnTheWay) = Range(candleBatch) \cup Range(candleBuffer)
  BY WayFacts
<1>3. Increasing(candleBatch)
  <2>1. /\ candleBatch \in Seq(Numbered) /\ candleBuffer \in Seq(Numbered)
        /\ Increasing(candleBatch \o candleBuffer)
    BY DEF CandleTypeOK, SavesInOrder, OnTheWay
  <2>2. /\ Len(candleBatch) \in Nat /\ Len(candleBuffer) \in Nat
        /\ DOMAIN candleBatch = 1..Len(candleBatch)
        /\ DOMAIN (candleBatch \o candleBuffer) = 1..Len(candleBatch) + Len(candleBuffer)
        /\ \A i \in 1..Len(candleBatch) + Len(candleBuffer) :
              (candleBatch \o candleBuffer)[i] =
                  IF i <= Len(candleBatch) THEN candleBatch[i]
                  ELSE candleBuffer[i - Len(candleBatch)]
    BY <2>1, ConcatProperties, LenProperties
  <2>3. \A i \in 1..Len(candleBatch) :
            /\ i \in DOMAIN (candleBatch \o candleBuffer)
            /\ (candleBatch \o candleBuffer)[i] = candleBatch[i]
    BY <2>2
  <2> QED
    BY <2>1, <2>2, <2>3 DEF Increasing
<1> QED
  BY <1>1, <1>2, <1>3 DEF CandleTypeOK, SavesApart, SavesInOrder

LEMMA RowsInitInv == CandleInit => RowsInv
<1> SUFFICES ASSUME CandleInit PROVE RowsInv
  OBVIOUS
<1>1. CandleInv
  BY CandleInitInv
<1>2. Range(saves) = {} /\ flushed = {} /\ candleRows = <<>>
  BY EmptyFacts DEF CandleInit
<1>3. <<>> \in Rows /\ DOMAIN <<>> = {}
  <2>1. DOMAIN <<>> = {}
    OBVIOUS
  <2>2. <<>> = [c \in {} |-> 0]
    OBVIOUS
  <2>3. [c \in {} |-> 0] \in [{} -> Nat]
    OBVIOUS
  <2> QED
    BY <2>1, <2>2, <2>3, RowsFacts
<1> QED
  BY <1>1, <1>2, <1>3 DEF RowsInv, VersionsGrow, RowsOldest

(* The update handler saves the candle being formed, or the one before it. *)
LEMMA SavesGrow ==
    ASSUME CandleInv, VersionsGrow, CandleUpdate \/ NewCandle
    PROVE  VersionsGrow'
<1>1. PICK c, v : SaveCandle(c, v) /\ c \in Nat /\ v \in Nat
                  /\ \/ c = current' /\ v = version'
                     \/ c < current'
                  /\ \/ c = current /\ v >= version
                     \/ c = current + 1
                  /\ current' \in Nat /\ version' \in Nat /\ c <= current'
                  /\ \/ current' = current /\ version' >= version
                     \/ current' > current
  BY SMTT(40) DEF CandleUpdate, NewCandle, CandleInv, CandleTypeOK
<1>2. PICK s : s = [candle |-> c, version |-> v, n |-> Len(saves) + 1]
  OBVIOUS
<1>3. Len(saves) \in Nat /\ s \in Numbered /\ saves \in Seq(Numbered)
  <2>1. Len(saves) \in Nat /\ saves \in Seq(Numbered)
    BY LenProperties DEF CandleInv, CandleTypeOK
  <2> QED
    BY <1>1, <1>2, <2>1 DEF Numbered
<1>4. Range(saves') = Range(saves) \cup {s}
  BY <1>1, <1>2, <1>3, AppendFacts DEF SaveCandle
<1>5. \A x \in Range(saves) : x \in Numbered /\ x.n < s.n
  BY <1>2, <1>3, CandleTypes DEF CandleInv, CandleTypeOK, Numbered
<1>6. s.candle = c /\ s.version = v
  BY <1>2
<1>7. current \in Nat /\ version \in Nat
  BY DEF CandleInv, CandleTypeOK
<1>8. \A x \in Range(saves') : x.candle <= current' /\ (x.candle = current' => x.version <= version')
  <2>1. ASSUME NEW x \in Range(saves)
        PROVE  x.candle <= current' /\ (x.candle = current' => x.version <= version')
    <3>1. x.candle \in Nat /\ x.version \in Nat /\ x.candle <= current
          /\ (x.candle = current => x.version <= version)
      BY <1>5 DEF VersionsGrow, Numbered
    <3> QED
      BY <1>1, <1>7, <3>1
  <2> QED
    BY <1>1, <1>4, <1>6, <2>1
<1>9. ASSUME NEW x \in Range(saves'), NEW y \in Range(saves'), x.candle = y.candle, x.n < y.n
      PROVE  x.version <= y.version
  <2>1. CASE x \in Range(saves) /\ y \in Range(saves)
    BY <1>9, <2>1 DEF VersionsGrow
  <2>2. CASE x \in Range(saves) /\ y = s
    <3>1. x.candle \in Nat /\ x.version \in Nat /\ x.candle <= current
          /\ (x.candle = current => x.version <= version)
      BY <1>5, <2>2 DEF VersionsGrow, Numbered
    <3> QED
      BY <1>1, <1>6, <1>7, <1>9, <2>2, <3>1
  <2>3. CASE x = s /\ y \in Range(saves)
    BY <1>3, <1>5, <1>9, <2>3 DEF Numbered
  <2>4. CASE x = s /\ y = s
    BY <1>1, <1>6, <2>4
  <2> QED
    BY <1>4, <2>1, <2>2, <2>3, <2>4
<1> QED
  BY <1>8, <1>9 DEF VersionsGrow

LEMMA RowsFlushed ==
    ASSUME RowsInv, FlushCandles
    PROVE  RowsOldest'
<1> USE DEF RowsInv
<1>1. /\ \A s \in Range(saves) : s \in Numbered
      /\ Range(candleBatch) \subseteq Range(saves) /\ flushed \subseteq Range(saves)
      /\ \A s \in flushed, t \in Range(candleBatch) : s.n < t.n
      /\ candleBatch \in Seq(Numbered) /\ Increasing(candleBatch)
  BY CandleTypes
<1>2. PICK n : n = Len(candleBatch) /\ n \in Nat /\ DOMAIN candleBatch = 1..n
  BY <1>1, LenProperties
<1>3. PICK T : T = Range(candleBatch)
  OBVIOUS
<1>4. /\ \A j \in 1..n : candleBatch[j] \in T
      /\ \A t \in T : \E j \in 1..n : t = candleBatch[j]
  BY <1>2, <1>3 DEF Range
<1>5. \A j \in 1..n : candleBatch[j].candle \in DOMAIN candleRows =>
                           candleRows[candleBatch[j].candle] <= candleBatch[j].version
  <2> SUFFICES ASSUME NEW j \in 1..n, candleBatch[j].candle \in DOMAIN candleRows
               PROVE  candleRows[candleBatch[j].candle] <= candleBatch[j].version
    OBVIOUS
  <2>1. PICK s \in flushed : /\ s.candle = candleBatch[j].candle
                             /\ s.version = candleRows[candleBatch[j].candle]
    BY DEF RowsOldest
  <2>2. s.n < candleBatch[j].n /\ s \in Range(saves) /\ candleBatch[j] \in Range(saves)
    BY <1>1, <1>3, <1>4
  <2> QED
    BY <2>1, <2>2 DEF VersionsGrow
<1>6. \A j, k \in 1..n : j < k /\ candleBatch[j].candle = candleBatch[k].candle
                             => candleBatch[j].version <= candleBatch[k].version
  BY <1>1, <1>2, <1>3, <1>4 DEF Increasing, VersionsGrow
<1>7. PICK new : new = FoldLeft(Inserted, candleRows, candleBatch)
  OBVIOUS
<1>8. WorkedOff(new, candleRows, candleBatch, n)
  BY <1>1, <1>2, <1>5, <1>6, <1>7, FlushFacts DEF RowsOldest
<1>9. candleRows' = new /\ flushed' = flushed \cup T
  BY <1>3, <1>7, ToSetIsRange DEF FlushCandles
<1>10. ASSUME NEW c \in DOMAIN new
       PROVE  \E s \in flushed \cup T : s.candle = c /\ s.version = new[c]
  <2>1. CASE c \in DOMAIN candleRows
    BY <1>8, <2>1 DEF WorkedOff, RowsOldest
  <2>2. CASE c \notin DOMAIN candleRows
    <3>1. PICK j \in 1..n : candleBatch[j].candle = c /\ candleBatch[j].version = new[c]
      BY <1>8, <2>2 DEF WorkedOff
    <3> QED
      BY <1>4, <3>1
  <2> QED
    BY <2>1, <2>2
<1>11. ASSUME NEW s \in flushed \cup T
       PROVE  s.candle \in DOMAIN new /\ new[s.candle] <= s.version
  <2>1. CASE s \in flushed
    <3>1. s.candle \in DOMAIN candleRows /\ candleRows[s.candle] <= s.version
      BY <2>1 DEF RowsOldest
    <3> QED
      BY <1>8, <3>1 DEF WorkedOff
  <2>2. CASE s \in T
    <3>1. PICK j \in 1..n : s = candleBatch[j]
      BY <1>4, <2>2
    <3>2. s.candle \in {candleBatch[i].candle : i \in 1..n}
      BY <3>1
    <3> QED
      BY <1>8, <3>1, <3>2 DEF WorkedOff
  <2> QED
    BY <2>1, <2>2
<1> QED
  BY <1>8, <1>9, <1>10, <1>11 DEF RowsOldest, WorkedOff

LEMMA RowsNextInv ==
    ASSUME RowsInv, [CandleNext]_candleVars
    PROVE  RowsInv'
<1> USE DEF RowsInv
<1>1. CandleInv'
  BY CandleNextInv
<1>2. VersionsGrow'
  <2>1. CASE CandleUpdate \/ NewCandle
    BY <2>1, SavesGrow
  <2>2. CASE UNCHANGED producerVars
    BY <2>2 DEF producerVars, VersionsGrow
  <2> QED
    BY <2>1, <2>2
    DEF CandleNext, Receive, FlushTimer, ContextDone, StopReceived, FlushCandles, FlushFails,
        Interrupt, CloseStore, CloseReturns, candleVars, producerVars
<1>3. RowsOldest'
  <2>1. CASE FlushCandles
    BY <2>1, RowsFlushed
  <2>2. CASE UNCHANGED <<candleRows, flushed>>
    BY <2>2 DEF RowsOldest
  <2> QED
    BY <2>1, <2>2
    DEF CandleNext, CandleUpdate, NewCandle, Receive, FlushTimer, ContextDone, StopReceived,
        FlushFails, Interrupt, CloseStore, CloseReturns, candleVars
<1> QED
  BY <1>1, <1>2, <1>3

(* Every save of TimescaleStore is accounted for, and the row of a candle is  *)
(* the oldest version that was written (ON CONFLICT DO NOTHING), for any      *)
(* number of saves, channel, batch size and failing transactions.             *)
THEOREM CandlesAreAccounted == CandleSpec => []CandlesAccounted
<1>1. CandleInit => RowsInv
  BY RowsInitInv
<1>2. RowsInv /\ [CandleNext]_candleVars => RowsInv'
  BY RowsNextInv
<1>3. RowsInv => CandlesAccounted
  <2> SUFFICES ASSUME RowsInv PROVE CandlesAccounted
    OBVIOUS
  <2>1. SavesAccounted
    BY CandleInvAccounts DEF RowsInv
  <2>2. DOMAIN candleRows = {s.candle : s \in flushed}
    BY DEF RowsInv, RowsOldest
  <2> QED
    BY <2>1, <2>2 DEF CandlesAccounted, RowsInv, RowsOldest
<1> QED
  BY <1>1, <1>2, <1>3, PTL DEF CandleSpec

-----------------------------------------------------------------------------
(* DailySnapshots: the trading day.  That every account is served needs to *)
(* know why a task is due whenever a snapshot is owed: a task sleeps until *)
(* the next reset of its session, and resets are a day apart.  That a row  *)
(* stays right needs its day to be over.                                   *)

(* The quotient of the session clock is the one that leaves a remainder    *)
(* within the day.                                                         *)
LEMMA DivideInt ==
    ASSUME NEW x \in Int, NEW d \in Nat \ {0}
    PROVE  /\ x \div d \in Int
           /\ (x \div d) * d <= x
           /\ x < (x \div d) * d + d
  OBVIOUS

(* A later day begins no earlier than the end of an earlier one. *)
LEMMA TimesGrows ==
    ASSUME NEW p \in Int, NEW q \in Int, NEW d \in Nat \ {0}, p < q
    PROVE  p * d + d <= q * d
  <1>1. PICK k \in Nat : q = p + 1 + k
    <2>1. q - p - 1 \in Nat /\ q = p + 1 + (q - p - 1)
      OBVIOUS
    <2>. QED  BY <2>1
  <1>2. q * d = p * d + d + k * d
    BY <1>1
  <1>3. k * d >= 0
    OBVIOUS
  <1>4. p * d \in Int /\ q * d \in Int /\ k * d \in Int
    OBVIOUS
  <1>. QED  BY <1>2, <1>3, <1>4

(* Only one day contains an hour. *)
LEMMA DivideUnique ==
    ASSUME NEW x \in Int, NEW d \in Nat \ {0}, NEW q \in Int, q * d <= x, x < q * d + d
    PROVE  x \div d = q
  <1>. DEFINE p == x \div d
  <1>1. p \in Int /\ p * d <= x /\ x < p * d + d
    BY DivideInt
  <1>. HIDE DEF p
  <1>2. p * d \in Int /\ q * d \in Int
    BY <1>1
  <1>3. ~(p < q)
    BY <1>1, <1>2, TimesGrows
  <1>4. ~(q < p)
    BY <1>1, <1>2, TimesGrows
  <1>5. p = q
    BY <1>1, <1>3, <1>4
  <1>. QED  BY <1>5 DEF p

-----------------------------------------------------------------------------
(* A session whose reset is an hour of its day, and the hours of its resets. *)
Proper(s) == s.offset \in Int /\ s.reset \in 0..(DayLength - 1)
IsReset(s, t) == \E k \in Int : t = ResetOn(s, k)

(* An hour lies in the day of its local date. *)
LEMMA LocalDateInt ==
    ASSUME NEW s, Proper(s), NEW t \in Int
    PROVE  /\ LocalDate(s, t) \in Int
           /\ LocalDate(s, t) * DayLength \in Int
           /\ LocalDate(s, t) * DayLength <= t + s.offset
           /\ t + s.offset < LocalDate(s, t) * DayLength + DayLength
  <1>1. t + s.offset \in Int /\ DayLength \in Nat \ {0}
    BY DayBounds DEF Proper
  <1>2. LocalDate(s, t) = (t + s.offset) \div DayLength
    BY DEF LocalDate
  <1>3. LocalDate(s, t) \in Int
    BY <1>1, <1>2, DivideInt
  <1>. QED  BY <1>1, <1>2, <1>3, DivideInt

(* Whichever day an hour lies in is its local date. *)
LEMMA LocalDateIs ==
    ASSUME NEW s, Proper(s), NEW t \in Int, NEW k \in Int,
           k * DayLength <= t + s.offset, t + s.offset < k * DayLength + DayLength
    PROVE  LocalDate(s, t) = k
  <1>1. t + s.offset \in Int /\ DayLength \in Nat \ {0}
    BY DayBounds DEF Proper
  <1>. QED  BY <1>1, DivideUnique DEF LocalDate

(* The local date never goes back. *)
LEMMA LocalDateGrows ==
    ASSUME NEW s, Proper(s), NEW t \in Int, NEW u \in Int, t <= u
    PROVE  LocalDate(s, t) <= LocalDate(s, u)
  <1>. DEFINE p == LocalDate(s, t)
              q == LocalDate(s, u)
  <1>1. p \in Int /\ q \in Int /\ p * DayLength \in Int /\ q * DayLength \in Int
    BY LocalDateInt
  <1>2. p * DayLength <= t + s.offset /\ u + s.offset < q * DayLength + DayLength
    BY LocalDateInt
  <1>3. ~(q < p)
    <2>. HIDE DEF p, q
    <2>1. q < p => q * DayLength + DayLength <= p * DayLength
      BY <1>1, TimesGrows, DayBounds
    <2>. QED  BY <1>1, <1>2, <2>1, DayBounds DEF Proper
  <1>. QED  BY <1>1, <1>3

(* get_next_reset: a reset, later than now and at most a day away. *)
LEMMA NextReset ==
    ASSUME NEW s, Proper(s), NEW t \in Int
    PROVE  /\ NextResetAt(s, t) \in Int
           /\ t < NextResetAt(s, t) /\ NextResetAt(s, t) <= t + DayLength
           /\ IsReset(s, NextResetAt(s, t))
  <1>. DEFINE d == LocalDate(s, t)
              m == d * DayLength
  <1>1. d \in Int /\ m \in Int /\ m <= t + s.offset /\ t + s.offset < m + DayLength
    BY LocalDateInt
  <1>2. ResetOn(s, d) = m + s.reset - s.offset
    BY DEF ResetOn
  <1>3. ResetOn(s, d + 1) = m + DayLength + s.reset - s.offset
    <2>1. (d + 1) * DayLength = d * DayLength + DayLength
      BY <1>1, DayBounds
    <2>. QED  BY <2>1 DEF ResetOn
  <1>4. NextResetAt(s, t) = IF ResetOn(s, d) <= t THEN ResetOn(s, d) + DayLength ELSE ResetOn(s, d)
    BY DEF NextResetAt
  <1>. HIDE DEF m
  <1>5. NextResetAt(s, t) \in Int /\ t < NextResetAt(s, t) /\ NextResetAt(s, t) <= t + DayLength
    BY <1>1, <1>2, <1>4, DayBounds DEF Proper
  <1>6. NextResetAt(s, t) \in {ResetOn(s, d), ResetOn(s, d + 1)}
    BY <1>1, <1>2, <1>3, <1>4, DayBounds DEF Proper
  <1>7. d + 1 \in Int
    BY <1>1
  <1>. QED  BY <1>1, <1>5, <1>6, <1>7 DEF IsReset

(* Two resets of a session are a day or more apart. *)
LEMMA ResetsApart ==
    ASSUME NEW s, Proper(s), NEW t \in Int, NEW u \in Int, IsReset(s, t), IsReset(s, u),
           t <= u, u < t + DayLength
    PROVE  t = u
  <1>1. PICK j \in Int : t = j * DayLength + s.reset - s.offset
    BY DEF IsReset, ResetOn
  <1>2. PICK k \in Int : u = k * DayLength + s.reset - s.offset
    BY DEF IsReset, ResetOn
  <1>3. j * DayLength \in Int /\ k * DayLength \in Int
    BY DayBounds
  <1>4. ~(j < k)
    BY <1>1, <1>2, <1>3, TimesGrows, DayBounds DEF Proper
  <1>5. ~(k < j)
    BY <1>1, <1>2, <1>3, TimesGrows, DayBounds DEF Proper
  <1>6. j = k
    BY <1>4, <1>5
  <1>. QED  BY <1>1, <1>2, <1>6

(* With the reset at midnight the query window of a date is that date. *)
LEMMA MidnightDay ==
    ASSUME NEW s, Proper(s), s.reset = 0, NEW d \in Int, NEW t \in Int
    PROVE  t \in QueryWindow(s, d) <=> LocalDate(s, t) = d
  <1>1. d * DayLength \in Int
    BY DayBounds
  <1>2. t \in QueryWindow(s, d) <=>
            d * DayLength <= t + s.offset /\ t + s.offset < d * DayLength + DayLength
    <2>. DEFINE m == d * DayLength
    <2>1. ResetOn(s, d) = m - s.offset
      BY <1>1 DEF ResetOn, Proper
    <2>2. QueryWindow(s, d) = (m - s.offset) .. (m - s.offset + DayLength - 1)
      BY <2>1 DEF QueryWindow
    <2>3. m \in Int
      BY <1>1
    <2>. HIDE DEF m
    <2>4. t \in QueryWindow(s, d) <=> m <= t + s.offset /\ t + s.offset < m + DayLength
      BY <2>2, <2>3, DayBounds DEF Proper
    <2>. QED  BY <2>4 DEF m
  <1>. QED  BY <1>2, LocalDateIs, LocalDateInt

(* The date of a snapshot taken at midnight is over by then. *)
LEMMA MidnightTarget ==
    ASSUME NEW s, Proper(s), s.reset = 0, NEW t \in Int, IsReset(s, t)
    PROVE  /\ SnapshotDate(s, t) \in Int
           /\ SnapshotDate(s, t) < LocalDate(s, t)
  <1>1. PICK k \in Int : t = k * DayLength - s.offset
    BY DayBounds DEF IsReset, ResetOn, Proper
  <1>2. k * DayLength \in Int
    BY DayBounds
  <1>3. LocalDate(s, t) = k
    BY <1>1, <1>2, LocalDateIs, DayBounds DEF Proper
  <1>4. PICK j \in Int : j = k - 1
    OBVIOUS
  <1>5. j * DayLength = k * DayLength - DayLength
    BY <1>4, DayBounds
  <1>6. t - 1 \in Int /\ j * DayLength <= t - 1 + s.offset /\ t - 1 + s.offset < j * DayLength + DayLength
    BY <1>1, <1>2, <1>5, DayBounds DEF Proper
  <1>7. LocalDate(s, t - 1) = j
    BY <1>6, LocalDateIs
  <1>. QED  BY <1>3, <1>4, <1>7 DEF SnapshotDate

(* At midnight resets, the next snapshot is of the date of now, which began   *)
(* at the previous reset.                                                     *)
LEMMA MidnightNext ==
    ASSUME NEW s, Proper(s), s.reset = 0, NEW t \in Int
    PROVE  /\ SnapshotDate(s, NextResetAt(s, t)) = LocalDate(s, t)
           /\ PreviousResetAt(s, t) = ResetOn(s, LocalDate(s, t))
  <1>. DEFINE d == LocalDate(s, t)
              m == d * DayLength
  <1>1. d \in Int /\ m \in Int /\ m <= t + s.offset /\ t + s.offset < m + DayLength
    BY LocalDateInt
  <1>2. ResetOn(s, d) = m - s.offset
    BY <1>1 DEF ResetOn, Proper
  <1>3. NextResetAt(s, t) = m - s.offset + DayLength
    <2>. HIDE DEF d
    <2>1. NextResetAt(s, t) = IF ResetOn(s, d) <= t THEN ResetOn(s, d) + DayLength ELSE ResetOn(s, d)
      BY DEF NextResetAt, d
    <2>. QED  BY <1>1, <1>2, <2>1, DayBounds DEF Proper
  <1>4. PreviousResetAt(s, t) = ResetOn(s, d)
    <2>. HIDE DEF d
    <2>1. PreviousResetAt(s, t) = IF ResetOn(s, d) > t THEN ResetOn(s, d) - DayLength ELSE ResetOn(s, d)
      BY DEF PreviousResetAt, d
    <2>. QED  BY <1>1, <1>2, <2>1, DayBounds DEF Proper
  <1>5. LocalDate(s, NextResetAt(s, t) - 1) = d
    <2>. HIDE DEF d
    <2>. QED  BY <1>1, <1>3, LocalDateIs, DayBounds DEF Proper
  <1>. QED  BY <1>4, <1>5 DEF SnapshotDate

-----------------------------------------------------------------------------
(* No trade is in the future, and a service that does not run has no task. *)
DaysShaped ==
    /\ clock \in Int
    /\ members \subseteq DayAccounts /\ noticed \subseteq members
    /\ \A e \in entries : e.entry \in Int /\ e.entry <= clock
    /\ ~taking => schedule = {} /\ noticed = {}
    /\ \A o \in owed : o = <<o[1], o[2]>>

(* A task sleeps until a reset of its session, the next one at the latest. *)
TasksAtResets ==
    \A t \in schedule :
        /\ t.session \in Sessions
        /\ t.target \in Int /\ t.target <= clock + DayLength
        /\ IsReset(t.session, t.target)

(* An account the service has noticed has the task of its session, unless its *)
(* zone is shared.                                                            *)
NoticedScheduled ==
    \A a \in noticed : ~SharesZone(a) => \E t \in schedule : t.session = SessionOf[a]

(* The snapshot o was taken, or its failure logged. *)
Written(o) == o \in lost \/ \E r \in rows : r.account = o[1] /\ r.date = o[2]

(* A snapshot that is owed and not yet taken has a task that is due. *)
OwedComing ==
    \A o \in owed :
        \/ Written(o)
        \/ /\ o[1] \in members
           /\ \E t \in Due : t.session = SessionOf[o[1]] /\ SnapshotDate(t.session, t.target) = o[2]

(* The day of a row is over. *)
RowsPast ==
    \A r \in rows :
        /\ r.account \in DayAccounts
        /\ AtMidnight(r.account) =>
            r.date \in Int /\ r.date < LocalDate(SessionOf[r.account], clock)

DayInv ==
    DaysShaped /\ TasksAtResets /\ NoticedScheduled /\ OwedComing /\ RowsPast /\ RowsCountTheirDay

(* Every session is a proper one. *)
LEMMA ProperSessions ==
    /\ \A s \in Sessions : Proper(s)
    /\ \A a \in DayAccounts : SessionOf[a] \in Sessions /\ Proper(SessionOf[a])
  <1>1. \A s \in Sessions : Proper(s)
    BY SessionsKnown DEF Proper
  <1>2. \A a \in DayAccounts : SessionOf[a] \in Sessions
    BY DEF Sessions
  <1>. QED  BY <1>1, <1>2

(* DayInv holds before the service starts. *)
LEMMA DayInitially == DayInit => DayInv
  BY DayBounds DEF DayInit, DayInv, DaysShaped, TasksAtResets, NoticedScheduled, OwedComing, RowsPast,
     RowsCountTheirDay

(* A new task sleeps until the next reset. *)
LEMMA NewTask ==
    ASSUME DaysShaped, NEW s, Proper(s)
    PROVE  /\ Task(s).session = s
           /\ Task(s).target \in Int /\ clock < Task(s).target
           /\ Task(s).target <= clock + DayLength
           /\ IsReset(s, Task(s).target)
  <1>1. clock \in Int
    BY DEF DaysShaped
  <1>2. Task(s).session = s /\ Task(s).target = NextResetAt(s, clock)
    BY DEF Task
  <1>. QED  BY <1>1, <1>2, NextReset

(* start: every active session, or else the default one, gets a task. *)
LEMMA StartDailyKeeps ==
    ASSUME DayInv, StartDaily
    PROVE  DayInv'
  <1>. USE DEF DayInv
  <1>. DEFINE begun == IF members = {} THEN {DefaultSession} ELSE ActiveSessions
  <1>1. UNCHANGED <<clock, members, entries, rows, lost, owed>> /\ ~taking /\ taking' = TRUE
        /\ noticed' = members /\ schedule' = {Task(s) : s \in begun}
    BY DEF StartDaily
  <1>2. DaysShaped'
    BY <1>1 DEF DaysShaped
  <1>3. \A s \in begun : Proper(s) /\ s \in Sessions
    <2>1. ActiveSessions \subseteq Sessions /\ DefaultSession \in Sessions
      BY DEF ActiveSessions, DaysShaped, Sessions
    <2>. QED  BY <2>1, ProperSessions
  <1>. HIDE DEF begun
  <1>4. TasksAtResets'
    <2>. SUFFICES ASSUME NEW t \in schedule'
                  PROVE  /\ t.session \in Sessions
                         /\ t.target \in Int /\ t.target <= clock + DayLength
                         /\ IsReset(t.session, t.target)
      BY <1>1 DEF TasksAtResets
    <2>1. PICK s \in begun : t = Task(s)
      BY <1>1
    <2>. QED  BY <2>1, <1>3, NewTask
  <1>5. NoticedScheduled'
    <2>. SUFFICES ASSUME NEW a \in members
                  PROVE  \E t \in schedule' : t.session = SessionOf[a]
      BY <1>1 DEF NoticedScheduled
    <2>1. SessionOf[a] \in begun
      BY DEF ActiveSessions, begun
    <2>2. Task(SessionOf[a]) \in schedule' /\ Task(SessionOf[a]).session = SessionOf[a]
      BY <1>1, <1>3, <2>1, NewTask
    <2>. QED  BY <2>2
  <1>6. OwedComing'
    <2>1. Due = {}
      BY <1>1 DEF Due, DaysShaped
    <2>2. \A o \in owed : Written(o)
      BY <2>1 DEF OwedComing
    <2>. QED  BY <1>1, <2>2 DEF OwedComing, Written
  <1>7. RowsPast' /\ RowsCountTheirDay'
    BY <1>1 DEF RowsPast, RowsCountTheirDay
  <1>. QED  BY <1>2, <1>4, <1>5, <1>6, <1>7

(* stop: what was due is not owed any more. *)
LEMMA StopDailyKeeps ==
    ASSUME DayInv, StopDaily
    PROVE  DayInv'
  <1>. USE DEF DayInv
  <1>1. UNCHANGED <<clock, members, entries, rows, lost>> /\ taking' = FALSE
        /\ noticed' = {} /\ schedule' = {}
        /\ owed' = {o \in owed : \E r \in rows : r.account = o[1] /\ r.date = o[2]}
    BY DEF StopDaily
  <1>2. DaysShaped' /\ TasksAtResets' /\ NoticedScheduled'
    BY <1>1 DEF DaysShaped, TasksAtResets, NoticedScheduled
  <1>3. OwedComing'
    BY <1>1 DEF OwedComing, Written
  <1>4. RowsPast' /\ RowsCountTheirDay'
    BY <1>1 DEF RowsPast, RowsCountTheirDay
  <1>. QED  BY <1>2, <1>3, <1>4

(* An hour passes: a task whose session has its reset now was sleeping until  *)
(* now, since there is no other reset within a day.                           *)
LEMMA TickHourKeeps ==
    ASSUME DayInv, TickHour
    PROVE  DayInv'
  <1>. USE DEF DayInv
  <1>1. UNCHANGED <<taking, schedule, members, entries, rows, lost, noticed>> /\ clock' = clock + 1
        /\ Due = {}
    BY DEF TickHour
  <1>2. clock \in Int /\ clock' \in Int
    BY <1>1 DEF DaysShaped
  <1>3. DaysShaped'
    <2>1. \A o \in owed' \ owed : o = <<o[1], o[2]>>
      BY DEF TickHour
    <2>. QED  BY <1>1, <1>2, <2>1 DEF DaysShaped
  <1>4. TasksAtResets'
    BY <1>1, <1>2, DayBounds DEF TasksAtResets
  <1>5. NoticedScheduled'
    BY <1>1 DEF NoticedScheduled
  <1>6. OwedComing'
    <2>1. \A o \in owed : Written(o)
      BY <1>1 DEF OwedComing
    <2>. SUFFICES ASSUME NEW o \in owed', o \notin owed
                  PROVE  /\ o[1] \in members
                         /\ \E t \in Due' : /\ t.session = SessionOf[o[1]]
                                            /\ SnapshotDate(t.session, t.target) = o[2]
      BY <1>1, <2>1 DEF OwedComing, Written
    <2>2. PICK a \in noticed \cap members :
              /\ ~SharesZone(a) /\ PreviousResetAt(SessionOf[a], clock') = clock'
              /\ o = <<a, SnapshotDate(SessionOf[a], clock')>>
      BY DEF TickHour
    <2>3. PICK t \in schedule : t.session = SessionOf[a]
      BY <2>2 DEF NoticedScheduled
    <2>4. t.target \in Int /\ t.target <= clock + DayLength /\ IsReset(SessionOf[a], t.target)
      BY <2>3 DEF TasksAtResets
    <2>5. clock' <= t.target
      <3>1. ~(t.target <= clock)
        BY <1>1 DEF Due
      <3>. QED  BY <1>1, <1>2, <2>4, <3>1
    <2>6. Proper(SessionOf[a])
      BY <2>2, ProperSessions DEF DaysShaped
    <2>7. IsReset(SessionOf[a], clock')
      <3>. DEFINE s == SessionOf[a]
                  d == LocalDate(s, clock')
      <3>1. d \in Int
        BY <1>2, <2>6, LocalDateInt
      <3>2. PreviousResetAt(s, clock') \in {ResetOn(s, d), ResetOn(s, d) - DayLength}
        BY DEF PreviousResetAt
      <3>3. ResetOn(s, d) - DayLength = ResetOn(s, d - 1)
        <4>. HIDE DEF d
        <4>1. PICK m \in Int : m = d * DayLength
          BY <3>1, DayBounds
        <4>2. (d - 1) * DayLength = m - DayLength
          BY <3>1, <4>1, DayBounds
        <4>. QED  BY <4>1, <4>2, <2>6, DayBounds DEF ResetOn, Proper
      <3>4. d - 1 \in Int
        BY <3>1
      <3>. QED  BY <2>2, <3>1, <3>2, <3>3, <3>4 DEF IsReset
    <2>8. clock' = t.target
      BY <1>1, <1>2, <2>4, <2>5, <2>6, <2>7, ResetsApart, DayBounds
    <2>9. t \in Due'
      BY <1>1, <1>2, <2>8 DEF Due
    <2>. QED  BY <2>2, <2>3, <2>8, <2>9
  <1>7. RowsPast'
    <2>. SUFFICES ASSUME NEW r \in rows, AtMidnight(r.account)
                  PROVE  r.date < LocalDate(SessionOf[r.account], clock')
      BY <1>1 DEF RowsPast, AtMidnight
    <2>1. Proper(SessionOf[r.account]) /\ r.date \in Int
      BY ProperSessions DEF RowsPast
    <2>2. /\ LocalDate(SessionOf[r.account], clock) \in Int
          /\ LocalDate(SessionOf[r.account], clock') \in Int
          /\ LocalDate(SessionOf[r.account], clock) <= LocalDate(SessionOf[r.account], clock')
      BY <1>1, <1>2, <2>1, LocalDateInt, LocalDateGrows
    <2>. QED  BY <2>1, <2>2 DEF RowsPast
  <1>8. RowsCountTheirDay'
    BY <1>1 DEF RowsCountTheirDay
  <1>. QED  BY <1>3, <1>4, <1>5, <1>6, <1>7, <1>8

(* A snapshot is taken: whoever it was owed to is written or logged, and every *)
(* session of an active account has a task afterwards.                         *)
LEMMA SchedulerLoopKeeps ==
    ASSUME DayInv, NEW task \in schedule, SchedulerLoop(task)
    PROVE  DayInv'
  <1>. USE DEF DayInv
  <1>. DEFINE session == task.session
              date == SnapshotDate(session, task.target)
              served == {a \in members : SessionOf[a] = session}
  <1>1. /\ UNCHANGED <<clock, taking, members, entries, owed>>
        /\ noticed' = noticed \cup members
        /\ task \in Due
        /\ schedule' = (schedule \ {task}) \cup EnsureSessionTasks(schedule) \cup {Task(session)}
    BY DEF SchedulerLoop
  <1>2. PICK failing \in SUBSET members :
            /\ rows' = {r \in rows : ~(r.account \in served \ failing /\ r.date = date)} \cup
                       {[account |-> a, date |-> date,
                         trades |-> TradeStats(a, QueryWindow(session, date))] : a \in served \ failing}
            /\ lost' = lost \cup {<<a, date>> : a \in served \cap failing}
    BY DEF SchedulerLoop, TakeSnapshots
  <1>3. task.target \in Int /\ task.target <= clock /\ IsReset(session, task.target)
    BY <1>1 DEF Due, TasksAtResets
  <1>4. Proper(session) /\ clock \in Int
    BY ProperSessions DEF TasksAtResets, DaysShaped
  <1>5. \A s \in ActiveSessions : Proper(s) /\ s \in Sessions
    BY ProperSessions DEF ActiveSessions, DaysShaped
  <1>6. DaysShaped'
    BY <1>1 DEF DaysShaped
  <1>7. TasksAtResets'
    <2>. SUFFICES ASSUME NEW t \in schedule', t \notin schedule
                  PROVE  /\ t.session \in Sessions
                         /\ t.target \in Int /\ t.target <= clock + DayLength
                         /\ IsReset(t.session, t.target)
      BY <1>1 DEF TasksAtResets
    <2>1. t \in EnsureSessionTasks(schedule) \/ t = Task(session)
      BY <1>1
    <2>2. CASE t = Task(session)
      BY <2>2, <1>4, NewTask DEF TasksAtResets
    <2>3. CASE t \in EnsureSessionTasks(schedule)
      <3>1. PICK s \in ActiveSessions : t = Task(s)
        BY <2>3 DEF EnsureSessionTasks
      <3>. QED  BY <3>1, <1>5, NewTask
    <2>. QED  BY <2>1, <2>2, <2>3
  <1>8. NoticedScheduled'
    <2>. SUFFICES ASSUME NEW a \in members, ~SharesZone(a)
                  PROVE  \E t \in schedule' : t.session = SessionOf[a]
      BY <1>1 DEF NoticedScheduled, DaysShaped, SharesZone
    <2>1. SessionOf[a] \in ActiveSessions /\ Proper(SessionOf[a])
      BY <1>5 DEF ActiveSessions
    <2>2. CASE \A t \in schedule : t.session.tz # SessionOf[a].tz
      <3>1. Task(SessionOf[a]) \in schedule'
        BY <1>1, <2>1, <2>2 DEF EnsureSessionTasks
      <3>. QED  BY <3>1, <2>1, NewTask
    <2>3. CASE \E t \in schedule : t.session.tz = SessionOf[a].tz
      <3>1. PICK t \in schedule : t.session.tz = SessionOf[a].tz
        BY <2>3
      <3>2. t.session = SessionOf[a]
        BY <3>1 DEF SharesZone, TasksAtResets
      <3>3. CASE t = task
        <4>1. Task(session) \in schedule' /\ Task(session).session = session
          BY <1>1, <1>4, NewTask
        <4>. QED  BY <3>2, <3>3, <4>1
      <3>4. CASE t # task
        BY <1>1, <3>2, <3>4
      <3>. QED  BY <3>3, <3>4
    <2>. QED  BY <2>2, <2>3
  <1>9. OwedComing'
    <2>. SUFFICES ASSUME NEW o \in owed
                  PROVE  \/ Written(o)'
                         \/ /\ o[1] \in members
                            /\ \E t \in Due' : /\ t.session = SessionOf[o[1]]
                                               /\ SnapshotDate(t.session, t.target) = o[2]
      BY <1>1 DEF OwedComing
    <2>1. CASE Written(o)
      <3>1. CASE o \in lost
        BY <1>2, <3>1 DEF Written
      <3>2. CASE \E r \in rows : r.account = o[1] /\ r.date = o[2]
        <4>1. PICK r \in rows : r.account = o[1] /\ r.date = o[2]
          BY <3>2
        <4>2. CASE r.account \in served \ failing /\ r.date = date
          <5>1. PICK n : n = [account |-> r.account, date |-> date,
                              trades |-> TradeStats(r.account, QueryWindow(session, date))]
            OBVIOUS
          <5>2. n \in rows' /\ n.account = o[1] /\ n.date = o[2]
            BY <1>2, <4>1, <4>2, <5>1
          <5>. QED  BY <5>2 DEF Written
        <4>3. CASE ~(r.account \in served \ failing /\ r.date = date)
          BY <1>2, <4>1, <4>3 DEF Written
        <4>. QED  BY <4>2, <4>3
      <3>. QED  BY <2>1, <3>1, <3>2 DEF Written
    <2>2. CASE ~Written(o)
      <3>1. PICK t \in Due : /\ o[1] \in members /\ t.session = SessionOf[o[1]]
                             /\ SnapshotDate(t.session, t.target) = o[2]
        BY <2>2 DEF OwedComing
      <3>2. CASE t # task
        <4>1. t \in Due'
          BY <1>1, <3>2 DEF Due
        <4>. QED  BY <3>1, <4>1
      <3>3. CASE t = task
        <4>1. o[1] \in served /\ o[2] = date
          BY <3>1, <3>3
        <4>2. CASE o[1] \in failing
          <5>1. o = <<o[1], o[2]>>
            BY DEF DaysShaped
          <5>. QED  BY <1>2, <4>1, <4>2, <5>1 DEF Written
        <4>3. CASE o[1] \notin failing
          <5>1. PICK n : n = [account |-> o[1], date |-> date,
                              trades |-> TradeStats(o[1], QueryWindow(session, date))]
            OBVIOUS
          <5>2. n \in rows' /\ n.account = o[1] /\ n.date = o[2]
            BY <1>2, <4>1, <4>3, <5>1
          <5>. QED  BY <5>2 DEF Written
        <4>. QED  BY <4>2, <4>3
      <3>. QED  BY <3>2, <3>3
    <2>. QED  BY <2>1, <2>2
  <1>10. \A r \in rows' : r \in rows \/
            /\ r.account \in members /\ SessionOf[r.account] = session /\ r.date = date
            /\ r.trades = TradeStats(r.account, QueryWindow(session, date))
    BY <1>2
  <1>11. RowsPast'
    <2>. SUFFICES ASSUME NEW r \in rows', r \notin rows
                  PROVE  /\ r.account \in DayAccounts
                         /\ AtMidnight(r.account) =>
                             r.date \in Int /\ r.date < LocalDate(SessionOf[r.account], clock)
      BY <1>1 DEF RowsPast, AtMidnight
    <2>1. r.account \in DayAccounts /\ SessionOf[r.account] = session /\ r.date = date
      BY <1>10 DEF DaysShaped
    <2>2. ASSUME session.reset = 0
          PROVE  date \in Int /\ date < LocalDate(session, clock)
      <3>1. date \in Int /\ date < LocalDate(session, task.target)
        BY <1>3, <1>4, <2>2, MidnightTarget
      <3>2. LocalDate(session, task.target) <= LocalDate(session, clock)
            /\ LocalDate(session, task.target) \in Int /\ LocalDate(session, clock) \in Int
        BY <1>3, <1>4, LocalDateGrows, LocalDateInt
      <3>. HIDE DEF date
      <3>. QED  BY <3>1, <3>2
    <2>. QED  BY <2>1, <2>2 DEF AtMidnight
  <1>12. RowsCountTheirDay'
    <2>. SUFFICES ASSUME NEW r \in rows', r \notin rows, AtMidnight(r.account)
                  PROVE  r.trades = Cardinality({e \in entries : e.account = r.account /\
                             LocalDate(SessionOf[r.account], e.entry) = r.date})
      BY <1>1 DEF RowsCountTheirDay, AtMidnight
    <2>1. /\ SessionOf[r.account] = session /\ r.date = date
          /\ r.trades = TradeStats(r.account, QueryWindow(session, date))
      BY <1>10
    <2>2. session.reset = 0 /\ date \in Int
      BY <1>3, <1>4, <2>1, MidnightTarget DEF AtMidnight
    <2>3. \A e \in entries : e.entry \in QueryWindow(session, date) <=> LocalDate(session, e.entry) = date
      BY <1>4, <2>2, MidnightDay DEF DaysShaped
    <2>4. {e \in entries : e.account = r.account /\ e.entry \in QueryWindow(session, date)} =
          {e \in entries : e.account = r.account /\ LocalDate(session, e.entry) = date}
      BY <2>3
    <2>. QED  BY <2>1, <2>4 DEF TradeStats
  <1>. QED  BY <1>6, <1>7, <1>8, <1>9, <1>11, <1>12

(* A trade is entered now, which is not in the day of any row. *)
LEMMA EnterTradeKeeps ==
    ASSUME DayInv, NEW a \in DayAccounts, EnterTrade(a)
    PROVE  DayInv'
  <1>. USE DEF DayInv
  <1>1. /\ UNCHANGED <<clock, taking, schedule, members, rows, lost, noticed, owed>>
        /\ entries' = entries \cup {[account |-> a, entry |-> clock]}
    BY DEF EnterTrade
  <1>2. PICK n : n = [account |-> a, entry |-> clock]
    OBVIOUS
  <1>3. entries' = entries \cup {n} /\ n.account = a /\ n.entry = clock
    BY <1>1, <1>2
  <1>4. DaysShaped'
    BY <1>1, <1>3 DEF DaysShaped
  <1>5. TasksAtResets' /\ NoticedScheduled' /\ OwedComing' /\ RowsPast'
    BY <1>1 DEF TasksAtResets, NoticedScheduled, OwedComing, Written, Due, RowsPast
  <1>6. RowsCountTheirDay'
    <2>. SUFFICES ASSUME NEW r \in rows, AtMidnight(r.account)
                  PROVE  r.trades = Cardinality({e \in entries' : e.account = r.account /\
                             LocalDate(SessionOf[r.account], e.entry) = r.date})
      BY <1>1 DEF RowsCountTheirDay, AtMidnight
    <2>1. Proper(SessionOf[r.account]) /\ clock \in Int /\ r.date \in Int
      BY ProperSessions DEF RowsPast, DaysShaped
    <2>2. LocalDate(SessionOf[r.account], clock) # r.date
      BY <2>1, LocalDateInt DEF RowsPast
    <2>3. {e \in entries' : e.account = r.account /\ LocalDate(SessionOf[r.account], e.entry) = r.date} =
          {e \in entries : e.account = r.account /\ LocalDate(SessionOf[r.account], e.entry) = r.date}
      BY <1>3, <2>2
    <2>. QED  BY <2>3 DEF RowsCountTheirDay
  <1>. QED  BY <1>4, <1>5, <1>6

(* A new account is not noticed yet. *)
LEMMA ActivateKeeps ==
    ASSUME DayInv, NEW a \in DayAccounts, Activate(a)
    PROVE  DayInv'
  <1>. USE DEF DayInv
  <1>1. /\ UNCHANGED <<clock, taking, schedule, entries, rows, lost, noticed, owed>>
        /\ members' = members \cup {a}
    BY DEF Activate
  <1>. QED  BY <1>1 DEF DaysShaped, TasksAtResets, NoticedScheduled, OwedComing, Written, Due, RowsPast,
                        RowsCountTheirDay

(* An account leaves when nothing is due. *)
LEMMA DeactivateKeeps ==
    ASSUME DayInv, NEW a \in DayAccounts, Deactivate(a)
    PROVE  DayInv'
  <1>. USE DEF DayInv
  <1>1. /\ UNCHANGED <<clock, taking, schedule, entries, rows, lost, owed>> /\ Due = {}
        /\ members' = members \ {a} /\ noticed' = noticed \ {a}
    BY DEF Deactivate
  <1>2. DaysShaped' /\ TasksAtResets' /\ NoticedScheduled' /\ RowsPast' /\ RowsCountTheirDay'
    BY <1>1 DEF DaysShaped, TasksAtResets, NoticedScheduled, RowsPast, RowsCountTheirDay
  <1>3. OwedComing'
    BY <1>1 DEF OwedComing, Written
  <1>. QED  BY <1>2, <1>3

(* Every step keeps DayInv. *)
LEMMA DayStep == DayInv /\ [DayNext]_dayVars => DayInv'
  <1>. SUFFICES ASSUME DayInv, [DayNext]_dayVars
                PROVE  DayInv'
    OBVIOUS
  <1>1. CASE UNCHANGED dayVars
    BY <1>1 DEF dayVars, DayInv, DaysShaped, TasksAtResets, NoticedScheduled, OwedComing, Written, Due,
                RowsPast, RowsCountTheirDay
  <1>2. CASE StartDaily
    BY <1>2, StartDailyKeeps
  <1>3. CASE StopDaily
    BY <1>3, StopDailyKeeps
  <1>4. CASE TickHour
    BY <1>4, TickHourKeeps
  <1>5. ASSUME NEW t \in schedule, SchedulerLoop(t)
        PROVE  DayInv'
    BY <1>5, SchedulerLoopKeeps
  <1>6. ASSUME NEW a \in DayAccounts, EnterTrade(a) \/ Activate(a) \/ Deactivate(a)
        PROVE  DayInv'
    BY <1>6, EnterTradeKeeps, ActivateKeeps, DeactivateKeeps
  <1>. QED  BY <1>1, <1>2, <1>3, <1>4, <1>5, <1>6 DEF DayNext

(* What DayInv is for.  The recalculation agrees because no trade is in the   *)
(* future: the trades since the last reset are those of the current date.     *)
LEMMA DayInvSuffices == DayInv => DaysRecorded
  <1>. SUFFICES ASSUME DayInv
                PROVE  DaysRecorded
    OBVIOUS
  <1>. USE DEF DayInv
  <1>1. AllServed
    BY DEF AllServed, OwedComing, Written
  <1>2. RecalculationAgrees
    <2>. SUFFICES ASSUME NEW a \in DayAccounts, AtMidnight(a)
                  PROVE  RecalculatedTrades(a, clock) =
                             TradeStats(a, QueryWindow(SessionOf[a],
                                 SnapshotDate(SessionOf[a], NextResetAt(SessionOf[a], clock))))
      BY DEF RecalculationAgrees
    <2>. DEFINE s == SessionOf[a]
                d == LocalDate(s, clock)
    <2>1. Proper(s) /\ s.reset = 0 /\ clock \in Int
      BY ProperSessions DEF AtMidnight, DaysShaped
    <2>2. SnapshotDate(s, NextResetAt(s, clock)) = d /\ PreviousResetAt(s, clock) = ResetOn(s, d)
      BY <2>1, MidnightNext
    <2>3. d \in Int /\ d * DayLength \in Int /\ clock + s.offset < d * DayLength + DayLength
      BY <2>1, LocalDateInt
    <2>4. \A e \in entries : e.entry >= ResetOn(s, d) <=> e.entry \in QueryWindow(s, d)
      <3>. SUFFICES ASSUME NEW e \in entries
                    PROVE  e.entry >= ResetOn(s, d) <=> e.entry \in QueryWindow(s, d)
        OBVIOUS
      <3>. HIDE DEF d
      <3>1. PICK m \in Int : m = d * DayLength
        BY <2>3
      <3>2. ResetOn(s, d) = m - s.offset /\ s.offset \in Int
        BY <2>1, <3>1 DEF ResetOn, Proper
      <3>3. e.entry \in Int /\ e.entry < m - s.offset + DayLength
        BY <2>1, <2>3, <3>1, <3>2, DayBounds DEF DaysShaped
      <3>4. QueryWindow(s, d) = (m - s.offset) .. (m - s.offset + DayLength - 1)
        BY <3>2 DEF QueryWindow
      <3>. HIDE DEF s
      <3>. QED  BY <3>2, <3>3, <3>4, DayBounds
    <2>5. {e \in entries : e.account = a /\ e.entry >= ResetOn(s, d)} =
          {e \in entries : e.account = a /\ e.entry \in QueryWindow(s, d)}
      BY <2>4
    <2>. QED  BY <2>2, <2>5 DEF RecalculatedTrades, TradeStats
  <1>. QED  BY <1>1, <1>2 DEF DaysRecorded

(* For any accounts, sessions, time zones and length of the day, while         *)
(* accounts come and go, snapshots fail and the service stops and starts:      *)
(* every account is served at its reset, and snapshots and recalculation       *)
(* count the trades of one and the same day.                                   *)
THEOREM DaysAreRecorded == DaySpec => []DaysRecorded
  <1>. QED  BY DayInitially, DayStep, DayInvSuffices, PTL DEF DaySpec
=============================================================================
