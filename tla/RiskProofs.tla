----------------------------- MODULE RiskProofs -----------------------------
(***************************************************************************)
(* Proofs about what keeps an account within its limits: the day's P&L is  *)
(* complete in memory and, at rest, in Redis; a breach is handled; the     *)
(* strategies' entries are justified and their risk only shrinks; and the  *)
(* calendar the news rule reads is sound.                                  *)
(*                                                                         *)
(* The P&L.  As long as no manager is registered, nothing is being         *)
(* written, so that what a call has loaded is what Redis holds and what    *)
(* the trades add up to.  From then on each mutation leaves its own state  *)
(* as the one to be written: the state in memory is always that of the     *)
(* last call to have begun its write, or of the last one to have ended it. *)
(***************************************************************************)
EXTENDS RiskControl, CalendarService, RuleChecks, BracketTrade, SequenceFacts, TLAPS

(* Records with the fields of RiskState and of a call, whatever their values. *)
StateFields == {"daily", "equity", "peak", "start"}
CallFields == {"kind", "todo", "at", "pnl", "equity", "seen", "owes"}
IsRecord(r, fields) == DOMAIN r = fields /\ r = [f \in fields |-> r[f]]
IsState(s) == IsRecord(s, StateFields)
IsCall(k) == IsRecord(k, CallFields)

RiskShapes ==
    /\ task = [t \in Tasks |-> task[t]]
    /\ \A t \in Tasks : IsCall(task[t])
    /\ \A t \in Tasks : task[t].at \in {"loaded", "writing"} => IsState(task[t].seen)
    /\ mem # NoState => IsState(mem)
    /\ stored # NoState => IsState(stored)

(* Before a manager is registered. *)
NothingWritten ==
    mem = NoState =>
        /\ \A t \in Tasks : task[t].at # "writing"
        /\ \A t \in Tasks : task[t].at = "loaded" => task[t].seen = FromDict(stored)
        /\ trades = FromDict(stored).daily

(* The state in memory is the one being written, or the one written last. *)
LastWriteCounts ==
    mem # NoState /\ spoiled = {} =>
        \/ \E t \in Tasks : task[t].at = "writing" /\ task[t].seen = mem
        \/ /\ \A t \in Tasks : task[t].at # "writing"
           /\ stored = mem \/ (stored = NoState /\ mem = FreshState)

RiskInv == RiskShapes /\ NothingWritten /\ TradesCounted /\ LastWriteCounts

LEMMA RiskInvKeeps == RiskInv => DailyPnlKept
BY DEF RiskInv, LastWriteCounts, DailyPnlKept, PersistedAgrees

LEMMA StateFacts ==
    ASSUME NEW s, IsState(s)
    PROVE  /\ s # NoState
           /\ \A e : IsState(UpdateEquity(s, e)) /\ UpdateEquity(s, e).daily = s.daily
           /\ \A p : IsState(RecordTrade(s, p)) /\ RecordTrade(s, p).daily = s.daily + p
           /\ \A b : IsState(ResetDaily(s, b)) /\ ResetDaily(s, b).daily = 0
<1> USE DEF IsState, IsRecord, StateFields
<1>1. s # NoState
  <2>1. "daily" \in DOMAIN s /\ "daily" \notin DOMAIN NoState
    BY DEF NoState
  <2> QED
    BY <2>1
<1>2. ASSUME NEW e PROVE IsState(UpdateEquity(s, e)) /\ UpdateEquity(s, e).daily = s.daily
  BY DEF UpdateEquity
<1>3. ASSUME NEW p PROVE IsState(RecordTrade(s, p)) /\ RecordTrade(s, p).daily = s.daily + p
  BY DEF RecordTrade
<1>4. ASSUME NEW b PROVE IsState(ResetDaily(s, b)) /\ ResetDaily(s, b).daily = 0
  BY DEF ResetDaily
<1> QED
  BY <1>1, <1>2, <1>3, <1>4

LEMMA FreshFacts == IsState(FreshState) /\ FreshState.daily = 0
BY DEF FreshState, IsState, IsRecord, StateFields

LEMMA IdleFacts == IsCall(Idle) /\ Idle.at = "idle"
BY SMTT(40) DEF Idle, IsCall, IsRecord, CallFields

(* What EXCEPT leaves of a call. *)
LEMMA CallFacts ==
    ASSUME NEW k, IsCall(k)
    PROVE  /\ \A x : IsCall([k EXCEPT !.at = x]) /\ [k EXCEPT !.at = x].at = x
                     /\ [k EXCEPT !.at = x].seen = k.seen
           /\ \A x : IsCall([k EXCEPT !.owes = x]) /\ [k EXCEPT !.owes = x].at = k.at
           /\ \A x, y : IsCall([k EXCEPT !.todo = x, !.seen = y])
           /\ \A x, y : IsCall([k EXCEPT !.todo = x, !.equity = y])
           /\ \A x, y : LET c == [k EXCEPT !.at = x, !.seen = y]
                        IN  IsCall(c) /\ c.at = x /\ c.seen = y
           /\ \A x, y : LET c == [k EXCEPT !.at = x, !.owes = y]
                        IN  IsCall(c) /\ c.at = x
           /\ \A x, y, z : LET c == [k EXCEPT !.at = x, !.seen = y, !.owes = z]
                           IN  IsCall(c) /\ c.at = x /\ c.seen = y
           /\ \A u, x, y, z : IsCall([k EXCEPT !.kind = u, !.todo = x, !.pnl = y, !.equity = z])
<1> USE DEF IsCall, IsRecord, CallFields
<1>1. ASSUME NEW x PROVE IsCall([k EXCEPT !.at = x]) /\ [k EXCEPT !.at = x].at = x
                         /\ [k EXCEPT !.at = x].seen = k.seen
  OBVIOUS
<1>2. ASSUME NEW x PROVE IsCall([k EXCEPT !.owes = x]) /\ [k EXCEPT !.owes = x].at = k.at
  OBVIOUS
<1>3. ASSUME NEW x, NEW y
      PROVE  /\ IsCall([k EXCEPT !.todo = x, !.seen = y])
             /\ IsCall([k EXCEPT !.todo = x, !.equity = y])
  OBVIOUS
<1>4. ASSUME NEW x, NEW y
      PROVE  LET c == [k EXCEPT !.at = x, !.seen = y] IN IsCall(c) /\ c.at = x /\ c.seen = y
  OBVIOUS
<1>5. ASSUME NEW x, NEW y
      PROVE  LET c == [k EXCEPT !.at = x, !.owes = y] IN IsCall(c) /\ c.at = x
  OBVIOUS
<1>6. ASSUME NEW x, NEW y, NEW z
      PROVE  LET c == [k EXCEPT !.at = x, !.seen = y, !.owes = z]
             IN  IsCall(c) /\ c.at = x /\ c.seen = y
  OBVIOUS
<1>7. ASSUME NEW u, NEW x, NEW y, NEW z
      PROVE  IsCall([k EXCEPT !.kind = u, !.todo = x, !.pnl = y, !.equity = z])
  OBVIOUS
<1> HIDE DEF IsCall, IsRecord, CallFields
<1> QED
  BY <1>1, <1>2, <1>3, <1>4, <1>5, <1>6, <1>7
-----------------------------------------------------------------------------
(* What one run of a call to its next await does.  Parked: nothing but the  *)
(* call itself moves, and it writes nothing.  Mutated: the registered state *)
(* is changed and the call is now writing the result.                       *)

OnlyTask(t) ==
    /\ task' = [u \in Tasks |-> task'[u]]
    /\ \A u \in Tasks \ {t} : task'[u] = task[u]
    /\ IsCall(task'[t])

Parked(t) ==
    /\ OnlyTask(t)
    /\ task'[t].at \notin {"loaded", "writing"}
    /\ mem' = mem /\ trades' = trades

Mutated(t) ==
    /\ OnlyTask(t)
    /\ task'[t].at = "writing" /\ task'[t].seen = mem'
    /\ mem # NoState /\ IsState(mem')
    /\ mem.daily = trades => mem'.daily = trades'

LEMMA TaskMoves ==
    ASSUME RiskShapes, NEW t \in Tasks, NEW c, IsCall(c), task' = [task EXCEPT ![t] = c]
    PROVE  OnlyTask(t) /\ task'[t] = c
BY DEF RiskShapes, OnlyTask

LEMMA AppliedFacts ==
    ASSUME NEW s, IsState(s), NEW k, NEW step
    PROVE  /\ IsState(Applied(step, k, s))
           /\ s.daily = trades => Applied(step, k, s).daily = History(step, k)
           /\ step \notin Locked \cup {"reset"} =>
                  Applied(step, k, s) = s /\ History(step, k) = trades
<1>1. CASE step = "update"
  BY <1>1, StateFacts DEF Applied, History, Locked
<1>2. CASE step = "record"
  <2>1. Applied(step, k, s) = RecordTrade(s, k.pnl) /\ History(step, k) = trades + k.pnl
    BY <1>2 DEF Applied, History
  <2>2. IsState(RecordTrade(s, k.pnl)) /\ RecordTrade(s, k.pnl).daily = s.daily + k.pnl
    BY StateFacts
  <2> QED
    BY <1>2, <2>1, <2>2 DEF Locked
<1>3. CASE step = "reset"
  <2>1. Applied(step, k, s) = ResetDaily(s, k.equity) /\ History(step, k) = 0
    BY <1>3 DEF Applied, History
  <2>2. IsState(ResetDaily(s, k.equity)) /\ ResetDaily(s, k.equity).daily = 0
    BY StateFacts
  <2> QED
    BY <1>3, <2>1, <2>2
<1>4. CASE step \notin {"update", "record", "reset"}
  BY <1>4 DEF Applied, History
<1> QED
  BY <1>1, <1>2, <1>3, <1>4

(* A call with a manager whose state is s. *)
LEMMA WithManagerFacts ==
    ASSUME RiskShapes, NEW t \in Tasks, NEW k, IsCall(k), NEW s, IsState(s),
           WithManager(t, k, s)
    PROVE  /\ OnlyTask(t) /\ IsState(mem')
           /\ s.daily = trades => mem'.daily = trades'
           /\ \/ task'[t].at = "writing" /\ task'[t].seen = mem'
              \/ /\ task'[t].at \notin {"loaded", "writing"}
                 /\ mem' = s /\ trades' = trades
<1>1. PICK step : step = Head(k.todo)
  OBVIOUS
<1>2. PICK new : new = Applied(step, k, s)
  OBVIOUS
<1>3. mem' = new /\ trades' = History(step, k)
  BY <1>1, <1>2 DEF WithManager
<1>4. /\ IsState(mem')
      /\ s.daily = trades => mem'.daily = trades'
      /\ step \notin Locked \cup {"reset"} => mem' = s /\ trades' = trades
  BY <1>2, <1>3, AppliedFacts
<1>5. CASE step \in Locked \cup {"reset"}
  <2>1. PICK due : task' = [task EXCEPT ![t] =
                         [k EXCEPT !.at = "writing", !.seen = new, !.owes = due]]
    BY <1>1, <1>2, <1>5 DEF WithManager
  <2>2. PICK c : c = [k EXCEPT !.at = "writing", !.seen = new, !.owes = due]
    OBVIOUS
  <2>3. IsCall(c) /\ c.at = "writing" /\ c.seen = new
    BY <2>2 DEF IsCall, IsRecord, CallFields
  <2>4. OnlyTask(t) /\ task'[t] = c
    BY <2>1, <2>2, <2>3, TaskMoves
  <2> QED
    BY <1>3, <1>4, <2>3, <2>4
<1>6. CASE step \notin Locked \cup {"reset"}
  <2>1. \/ task' = [task EXCEPT ![t] = [k EXCEPT !.at = "pausing"]]
        \/ \E due : task' = [task EXCEPT ![t] = [Idle EXCEPT !.owes = due]]
    BY <1>1, <1>6 DEF WithManager
  <2>2. PICK c : /\ task' = [task EXCEPT ![t] = c]
                 /\ IsCall(c) /\ c.at \in {"pausing", "idle"}
    <3>1. IsCall([k EXCEPT !.at = "pausing"]) /\ [k EXCEPT !.at = "pausing"].at = "pausing"
      BY CallFacts, ZenonT(60)
    <3>2. \A x : IsCall([Idle EXCEPT !.owes = x]) /\ [Idle EXCEPT !.owes = x].at = "idle"
      BY CallFacts, IdleFacts
    <3> QED
      BY <2>1, <3>1, <3>2
  <2>3. OnlyTask(t) /\ task'[t] = c
    BY <2>2, TaskMoves
  <2> QED
    BY <1>4, <1>6, <2>2, <2>3
<1> QED
  BY <1>5, <1>6

LEMMA GetOrCreateFacts ==
    ASSUME RiskShapes, NEW t \in Tasks, NEW k, IsCall(k), NEW q, GetOrCreate(t, k, mem, q)
    PROVE  Parked(t) \/ Mutated(t)
<1>1. CASE mem = NoState
  <2>1. /\ task' = [task EXCEPT ![t] = [k EXCEPT !.at = "loading"]]
        /\ UNCHANGED <<mem, trades>>
    BY <1>1 DEF GetOrCreate
  <2>2. IsCall([k EXCEPT !.at = "loading"]) /\ [k EXCEPT !.at = "loading"].at = "loading"
    BY CallFacts, ZenonT(60)
  <2>3. OnlyTask(t) /\ task'[t] = [k EXCEPT !.at = "loading"]
    BY <2>1, <2>2, TaskMoves
  <2> QED
    BY <2>1, <2>2, <2>3 DEF Parked
<1>2. CASE mem # NoState
  <2>1. WithManager(t, k, mem) /\ IsState(mem)
    BY <1>2 DEF GetOrCreate, RiskShapes
  <2>2. /\ OnlyTask(t) /\ IsState(mem')
        /\ mem.daily = trades => mem'.daily = trades'
        /\ \/ task'[t].at = "writing" /\ task'[t].seen = mem'
           \/ /\ task'[t].at \notin {"loaded", "writing"}
              /\ mem' = mem /\ trades' = trades
    BY <2>1, WithManagerFacts
  <2> QED
    BY <1>2, <2>2 DEF Mutated, Parked
<1> QED
  BY <1>1, <1>2
(* Continue is written for any program: what is left to do may be anything. *)
LEMMA ContinueFacts ==
    ASSUME RiskShapes, NEW t \in Tasks, NEW k, IsCall(k), NEW q, Continue(t, k, q)
    PROVE  Parked(t) \/ Mutated(t)
<1>1. ASSUME NEW c, IsCall(c), c.at \notin {"loaded", "writing"},
             task' = [task EXCEPT ![t] = c], UNCHANGED <<mem, trades>>
      PROVE  Parked(t)
  BY <1>1, TaskMoves DEF Parked
<1>2. CASE k.todo = <<>>
  <2>1. task' = [task EXCEPT ![t] = [Idle EXCEPT !.owes = k.owes]] /\ UNCHANGED <<mem, trades>>
    BY <1>2, SMTT(40) DEF Continue
  <2>2. IsCall([Idle EXCEPT !.owes = k.owes]) /\ [Idle EXCEPT !.owes = k.owes].at = "idle"
    BY CallFacts, IdleFacts
  <2> QED
    BY <1>1, <2>1, <2>2
<1>3. CASE k.todo # <<>> /\ Head(k.todo) = "save"
  <2>1. task' = [task EXCEPT ![t] = [k EXCEPT !.at = "saving"]] /\ UNCHANGED <<mem, trades>>
    BY <1>3, SMTT(40) DEF Continue, Locked
  <2>2. IsCall([k EXCEPT !.at = "saving"]) /\ [k EXCEPT !.at = "saving"].at = "saving"
    BY CallFacts, ZenonT(60)
  <2> QED
    BY <1>1, <2>1, <2>2
<1>4. CASE k.todo # <<>> /\ Head(k.todo) \in Locked
  <2>1. CASE q = <<>>
    BY <1>4, <2>1, GetOrCreateFacts DEF Continue, Locked
  <2>2. CASE q # <<>>
    <3>1. task' = [task EXCEPT ![t] = [k EXCEPT !.at = "queued"]] /\ UNCHANGED <<mem, trades>>
      BY <1>4, <2>2 DEF Continue, Locked
    <3>2. IsCall([k EXCEPT !.at = "queued"]) /\ [k EXCEPT !.at = "queued"].at = "queued"
      BY CallFacts, ZenonT(60)
    <3> QED
      BY <1>1, <3>1, <3>2
  <2> QED
    BY <2>1, <2>2
<1>5. CASE k.todo # <<>> /\ Head(k.todo) # "save" /\ Head(k.todo) \notin Locked
  BY <1>5, GetOrCreateFacts DEF Continue
<1> QED
  BY <1>2, <1>3, <1>4, <1>5

(* A call that was writing nothing runs on. *)
LEMMA RunSteps ==
    ASSUME RiskInv, NEW t \in Tasks, task[t].at # "writing",
           Parked(t) \/ Mutated(t), UNCHANGED <<stored, spoiled>>
    PROVE  RiskInv'
<1> USE DEF RiskInv
<1>1. CASE Parked(t)
  <2>1. RiskShapes'
    BY <1>1 DEF Parked, OnlyTask, RiskShapes
  <2>2. NothingWritten' /\ TradesCounted'
    BY <1>1 DEF Parked, OnlyTask, NothingWritten, TradesCounted, FromDict
  <2>3. LastWriteCounts'
    BY <1>1 DEF Parked, OnlyTask, LastWriteCounts
  <2> QED
    BY <2>1, <2>2, <2>3
<1>2. CASE Mutated(t)
  <2>1. mem' # NoState
    BY <1>2, StateFacts DEF Mutated
  <2>2. RiskShapes'
    BY <1>2 DEF Mutated, OnlyTask, RiskShapes
  <2>3. NothingWritten' /\ TradesCounted'
    BY <1>2, <2>1 DEF Mutated, NothingWritten, TradesCounted
  <2>4. LastWriteCounts'
    BY <1>2 DEF Mutated, LastWriteCounts
  <2> QED
    BY <2>2, <2>3, <2>4
<1> QED
  BY <1>1, <1>2

LEMMA StartSteps ==
    ASSUME RiskInv, NEW t \in Tasks, NEW kind, NEW pnl, NEW equity,
           Start(t, Call(kind, pnl, equity))
    PROVE  RiskInv'
<1>1. IsCall(Call(kind, pnl, equity))
  BY IdleFacts, CallFacts DEF Call
<1>2. PICK k : k = Call(kind, pnl, equity)
  OBVIOUS
<1>3. task[t].at = "idle" /\ Continue(t, k, queue) /\ UNCHANGED <<stored, spoiled>>
  BY <1>2 DEF Start
<1>4. Parked(t) \/ Mutated(t)
  BY <1>1, <1>2, <1>3, ContinueFacts DEF RiskInv
<1> QED
  BY <1>3, <1>4, RunSteps, SMTT(40)

(* A manager is registered with what was loaded. *)
LEMMA RegisterSteps ==
    ASSUME RiskInv, NEW t \in Tasks, Register(t)
    PROVE  RiskInv'
<1> USE DEF RiskInv
<1>1. PICK s : s = task[t].seen
  OBVIOUS
<1>2. /\ task[t].at = "loaded" /\ IsState(s) /\ IsCall(task[t]) /\ UNCHANGED stored
      /\ spoiled' = IF mem # NoState THEN spoiled \cup {"replaced"} ELSE spoiled
      /\ WithManager(t, task[t], s)
  BY <1>1 DEF Register, RiskShapes
<1>3. /\ OnlyTask(t) /\ IsState(mem')
      /\ s.daily = trades => mem'.daily = trades'
      /\ \/ task'[t].at = "writing" /\ task'[t].seen = mem'
         \/ /\ task'[t].at \notin {"loaded", "writing"}
            /\ mem' = s /\ trades' = trades
  BY <1>2, WithManagerFacts
<1>4. mem' # NoState
  BY <1>3, StateFacts
<1>5. RiskShapes'
  BY <1>2, <1>3 DEF RiskShapes, OnlyTask
<1>6. NothingWritten'
  BY <1>4 DEF NothingWritten
<1>7. CASE mem # NoState
  BY <1>2, <1>5, <1>6, <1>7 DEF TradesCounted, LastWriteCounts
<1>8. CASE mem = NoState
  <2>1. s = FromDict(stored) /\ trades = s.daily /\ \A u \in Tasks : task[u].at # "writing"
    BY <1>1, <1>2, <1>8 DEF NothingWritten
  <2>2. TradesCounted'
    BY <1>3, <2>1 DEF TradesCounted
  <2>3. LastWriteCounts'
    <3>1. CASE task'[t].at = "writing" /\ task'[t].seen = mem'
      BY <3>1 DEF LastWriteCounts
    <3>2. CASE task'[t].at \notin {"loaded", "writing"} /\ mem' = s
      <4>1. \A u \in Tasks : task'[u].at # "writing"
        BY <1>3, <2>1, <3>2 DEF OnlyTask
      <4>2. stored = s \/ (stored = NoState /\ s = FreshState)
        BY <2>1 DEF FromDict
      <4> QED
        BY <1>2, <3>2, <4>1, <4>2 DEF LastWriteCounts
    <3> QED
      BY <1>3, <3>1, <3>2
  <2> QED
    BY <1>5, <1>6, <2>2, <2>3
<1> QED
  BY <1>7, <1>8

(* A write arrives and the call goes on.  If another one is under way, the    *)
(* two may have crossed; otherwise this one was the last to begin.            *)
LEMMA WrittenSteps ==
    ASSUME RiskInv, NEW t \in Tasks, Written(t)
    PROVE  RiskInv'
<1> USE DEF RiskInv
<1>1. PICK k : k = [task[t] EXCEPT !.todo = Tail(@), !.seen = NoState]
  OBVIOUS
<1>2. /\ task[t].at = "writing" /\ stored' = task[t].seen /\ IsState(stored')
      /\ Continue(t, k, Release(t)) /\ IsCall(k)
  <2>1. IsCall(task[t]) /\ task[t].at = "writing" /\ stored' = task[t].seen
    BY DEF Written, RiskShapes
  <2>2. IsCall(k)
    BY <1>1, <2>1 DEF IsCall, IsRecord, CallFields
  <2>3. IsState(stored')
    BY <2>1 DEF RiskShapes
  <2> QED
    BY <1>1, <2>1, <2>2, <2>3 DEF Written
<1>3. Parked(t) \/ Mutated(t)
  BY <1>2, ContinueFacts
<1>4. mem # NoState /\ IsState(mem)
  BY <1>2 DEF NothingWritten, RiskShapes
<1>5. "replaced" \in spoiled' <=> "replaced" \in spoiled
  BY DEF Written
<1>6. CASE Parked(t)
  <2>1. RiskShapes' /\ NothingWritten' /\ TradesCounted'
    BY <1>2, <1>4, <1>5, <1>6
    DEF Parked, OnlyTask, RiskShapes, NothingWritten, TradesCounted
  <2>2. LastWriteCounts'
    <3> SUFFICES ASSUME spoiled' = {}
                 PROVE  stored' = mem /\ \A u \in Tasks : task'[u].at # "writing"
      BY <1>6 DEF LastWriteCounts, Parked
    <3>1. \A u \in Tasks \ {t} : task[u].at # "writing"
      BY DEF Written
    <3>2. mem = task[t].seen
      <4>1. CASE mem # task[t].seen
        <5>1. spoiled = {}
          BY <3>1, <4>1 DEF Written
        <5> QED
          BY <1>2, <1>4, <3>1, <4>1, <5>1 DEF LastWriteCounts
      <4> QED
        BY <4>1
    <3> QED
      BY <1>2, <1>6, <3>1, <3>2 DEF Parked, OnlyTask
  <2> QED
    BY <2>1, <2>2
<1>7. CASE Mutated(t)
  <2>1. mem' # NoState
    BY <1>7, StateFacts DEF Mutated
  <2>2. RiskShapes' /\ NothingWritten' /\ TradesCounted' /\ LastWriteCounts'
    BY <1>2, <1>5, <1>7, <2>1
    DEF Mutated, OnlyTask, RiskShapes, NothingWritten, TradesCounted, LastWriteCounts
  <2> QED
    BY <2>2
<1> QED
  BY <1>3, <1>6, <1>7

LEMMA LoadReadsSteps ==
    ASSUME RiskInv, NEW t \in Tasks, LoadReads(t)
    PROVE  RiskInv'
<1> USE DEF RiskInv
<1>1. PICK c : c = [task[t] EXCEPT !.at = "loaded", !.seen = FromDict(stored)]
  OBVIOUS
<1>2. /\ task[t].at = "loading" /\ task' = [task EXCEPT ![t] = c]
      /\ UNCHANGED <<mem, stored, trades, spoiled>> /\ IsCall(task[t])
  BY <1>1 DEF LoadReads, RiskShapes
<1>3. IsCall(c) /\ c.at = "loaded" /\ c.seen = FromDict(stored)
  BY <1>1, <1>2 DEF IsCall, IsRecord, CallFields
<1>4. OnlyTask(t) /\ task'[t] = c
  BY <1>2, <1>3, TaskMoves
<1>5. IsState(c.seen)
  BY <1>3, FreshFacts DEF FromDict, RiskShapes
<1>6. RiskShapes'
  BY <1>2, <1>3, <1>4, <1>5 DEF RiskShapes, OnlyTask
<1>7. NothingWritten' /\ TradesCounted'
  BY <1>2, <1>3, <1>4 DEF NothingWritten, TradesCounted, OnlyTask, FromDict
<1>8. LastWriteCounts'
  BY <1>2, <1>3, <1>4 DEF LastWriteCounts, OnlyTask
<1> QED
  BY <1>6, <1>7, <1>8
(* A waiter gets the lock. *)
LEMMA WokenSteps ==
    ASSUME RiskInv, NEW t \in Tasks, Woken(t)
    PROVE  RiskInv'
<1>1. /\ task[t].at = "queued" /\ IsCall(task[t]) /\ GetOrCreate(t, task[t], mem, queue)
      /\ UNCHANGED <<stored, spoiled>>
  BY DEF Woken, RiskInv, RiskShapes
<1>2. Parked(t) \/ Mutated(t)
  BY <1>1, GetOrCreateFacts DEF RiskInv
<1> QED
  BY <1>1, <1>2, RunSteps

(* The balance is saved and the operation goes on. *)
LEMMA SavedSteps ==
    ASSUME RiskInv, NEW t \in Tasks, Saved(t)
    PROVE  RiskInv'
<1>1. PICK k, e : /\ k = [task[t] EXCEPT !.todo = Tail(@), !.equity = e]
                  /\ Continue(t, k, queue)
  BY DEF Saved
<1>2. task[t].at = "saving" /\ IsCall(task[t]) /\ UNCHANGED <<stored, spoiled>>
  BY DEF Saved, RiskInv, RiskShapes
<1>3. IsCall(k)
  BY <1>1, <1>2 DEF IsCall, IsRecord, CallFields
<1>4. Parked(t) \/ Mutated(t)
  BY <1>1, <1>3, ContinueFacts DEF RiskInv
<1> QED
  BY <1>2, <1>4, RunSteps

(* The service pauses the account and records why. *)
LEMMA PauseSteps ==
    ASSUME RiskInv, NEW t \in Tasks, Pause(t) \/ RecordViolation(t)
    PROVE  RiskInv'
<1>1. /\ task[t].at \in {"pausing", "recording"} /\ IsCall(task[t])
      /\ UNCHANGED <<mem, trades, stored, spoiled>>
  BY DEF Pause, RecordViolation, RiskInv, RiskShapes
<1>2. PICK c : /\ task' = [task EXCEPT ![t] = c]
               /\ IsCall(c) /\ c.at \in {"idle", "recording"}
  <2>1. PICK d : d = [task[t] EXCEPT !.at = "recording", !.owes = FALSE]
    OBVIOUS
  <2>2. IsCall(d) /\ d.at = "recording"
    BY <1>1, <2>1 DEF IsCall, IsRecord, CallFields
  <2>3. task' = [task EXCEPT ![t] = d] \/ task' = [task EXCEPT ![t] = Idle]
    BY <2>1 DEF Pause, RecordViolation
  <2> QED
    BY <2>2, <2>3, IdleFacts
<1>3. OnlyTask(t) /\ task'[t] = c
  BY <1>2, TaskMoves DEF RiskInv
<1>4. Parked(t)
  BY <1>1, <1>2, <1>3 DEF Parked
<1> QED
  BY <1>1, <1>4, RunSteps

(* A write fails: memory may now be ahead of Redis, and this is remembered. *)
LEMMA WriteFailsSteps ==
    ASSUME RiskInv, NEW t \in Tasks, WriteFails(t)
    PROVE  RiskInv'
<1> USE DEF RiskInv
<1>1. /\ task[t].at = "writing" /\ task' = [task EXCEPT ![t] = Idle]
      /\ spoiled' = spoiled \cup {"unsaved"} /\ UNCHANGED <<mem, stored, trades>>
  BY DEF WriteFails
<1>2. OnlyTask(t) /\ task'[t] = Idle /\ IsCall(Idle) /\ Idle.at = "idle"
  BY <1>1, IdleFacts, TaskMoves
<1>3. RiskShapes'
  BY <1>1, <1>2 DEF RiskShapes, OnlyTask
<1>4. mem # NoState
  BY <1>1 DEF NothingWritten
<1>5. NothingWritten' /\ TradesCounted' /\ LastWriteCounts'
  BY <1>1, <1>4 DEF NothingWritten, TradesCounted, LastWriteCounts
<1> QED
  BY <1>3, <1>5

(* What is in memory is gone; the day goes on from what Redis holds. *)
LEMMA CrashSteps ==
    ASSUME RiskInv, Crash
    PROVE  RiskInv'
<1> USE DEF RiskInv
<1>1. /\ task' = [t \in Tasks |-> Idle] /\ mem' = NoState /\ stored' = stored
      /\ trades' = IF stored = NoState THEN 0 ELSE stored.daily
  BY DEF Crash
<1>2. \A t \in Tasks : task'[t] = Idle
  BY <1>1
<1>3. RiskShapes'
  BY <1>1, <1>2, IdleFacts DEF RiskShapes
<1>4. NothingWritten'
  BY <1>1, <1>2, IdleFacts, FreshFacts DEF NothingWritten, FromDict
<1>5. TradesCounted' /\ LastWriteCounts'
  BY <1>1 DEF TradesCounted, LastWriteCounts
<1> QED
  BY <1>3, <1>4, <1>5

LEMMA RiskInitInv == RiskInit => RiskInv
<1> SUFFICES ASSUME RiskInit PROVE RiskInv
  OBVIOUS
<1>1. /\ task = [t \in Tasks |-> Idle] /\ mem = NoState /\ trades = 0
      /\ stored = NoState \/ stored = [FreshState EXCEPT !.start = StartBalance]
  BY DEF RiskInit
<1>2. \A t \in Tasks : task[t] = Idle
  BY <1>1
<1>3. stored # NoState => IsState(stored) /\ stored.daily = 0
  BY <1>1 DEF FreshState, IsState, IsRecord, StateFields
<1>4. RiskShapes
  BY <1>1, <1>2, <1>3, IdleFacts DEF RiskShapes
<1>5. NothingWritten
  BY <1>1, <1>2, <1>3, IdleFacts, FreshFacts DEF NothingWritten, FromDict
<1>6. TradesCounted /\ LastWriteCounts
  BY <1>1 DEF TradesCounted, LastWriteCounts
<1> QED
  BY <1>4, <1>5, <1>6 DEF RiskInv

LEMMA RiskNextInv ==
    ASSUME RiskInv, [RiskNext]_riskVars
    PROVE  RiskInv'
<1>1. ASSUME NEW t \in Tasks, TradeExecuted(t) PROVE RiskInv'
  BY <1>1, StartSteps DEF TradeExecuted
<1>2. ASSUME NEW t \in Tasks, Tick(t) PROVE RiskInv'
  BY <1>2, StartSteps DEF Tick
<1>3. ASSUME NEW t \in Tasks, ClosePosition(t) PROVE RiskInv'
  BY <1>3, StartSteps DEF ClosePosition
<1>4. ASSUME NEW t \in Tasks, EquityUpdate(t) PROVE RiskInv'
  BY <1>4, StartSteps DEF EquityUpdate
<1>5. ASSUME NEW t \in Tasks, TradeCompleted(t) PROVE RiskInv'
  BY <1>5, StartSteps DEF TradeCompleted
<1>6. ASSUME NEW t \in Tasks, CheckPreTrade(t) PROVE RiskInv'
  BY <1>6, StartSteps DEF CheckPreTrade
<1>7. ASSUME NEW t \in Tasks, Mt5BalanceUpdate(t) PROVE RiskInv'
  BY <1>7, StartSteps DEF Mt5BalanceUpdate
<1>8. ASSUME NEW t \in Tasks, DailyReset(t) PROVE RiskInv'
  BY <1>8, StartSteps DEF DailyReset
<1>9. ASSUME NEW t \in Tasks, Await(t) PROVE RiskInv'
  BY <1>9, LoadReadsSteps, RegisterSteps, WokenSteps, WrittenSteps, SavedSteps, PauseSteps
  DEF Await
<1>10. ASSUME NEW t \in Tasks, WriteFails(t) PROVE RiskInv'
  BY <1>10, WriteFailsSteps
<1>11. CASE Crash
  BY <1>11, CrashSteps
<1>12. ASSUME UNCHANGED <<task, mem, stored, trades, spoiled>> PROVE RiskInv'
  BY <1>12 DEF RiskInv, RiskShapes, NothingWritten, TradesCounted, LastWriteCounts
<1>13. CASE Resume \/ UNCHANGED riskVars
  BY <1>12, <1>13 DEF Resume, riskVars
<1> QED
  BY <1>1, <1>2, <1>3, <1>4, <1>5, <1>6, <1>7, <1>8, <1>9, <1>10, <1>11, <1>13 DEF RiskNext

(* No trade is lost or counted twice in the day's P&L the loss rule reads,   *)
(* and at rest Redis holds what memory holds, however the calls of PnLTracker, *)
(* RiskStateRegistry and RiskIsolationService, the daily reset, failing      *)
(* writes and restarts overlap; the exceptions are those `spoiled` names.    *)
THEOREM DailyPnlIsKept == RiskSpec => []DailyPnlKept
<1>1. RiskInit => RiskInv
  BY RiskInitInv
<1>2. RiskInv /\ [RiskNext]_riskVars => RiskInv'
  BY RiskNextInv
<1>3. RiskInv => DailyPnlKept
  BY RiskInvKeeps
<1> QED
  BY <1>1, <1>2, <1>3, PTL DEF RiskSpec

-----------------------------------------------------------------------------
(* RuleEngine.validate: the rules in order of their priority, and the loop   *)
(* over them as the states it goes through.                                  *)

(* s is the rule set in order of priority: a rule of one is one of the other. *)
Sorted(s, rules, n) ==
    /\ DOMAIN s = 1..n
    /\ \A k \in 1..n : \E i \in 1..n : s[k] = rules[i]
    /\ \A i \in 1..n : \E k \in 1..n : s[k] = rules[i]
    /\ \A k, l \in 1..n : k < l => Priority(s[k]) <= Priority(s[l])

LEMMA ByPrioritySorts ==
    ASSUME NEW n \in Nat, NEW rules, DOMAIN rules = 1..n
    PROVE  Sorted(ByPriority(rules), rules, n)
<1>1. PICK rank : rank = [i \in 1..n |-> Priority(rules[i])]
  OBVIOUS
<1>2. \A i \in 1..n : rank[i] = Priority(rules[i]) /\ rank[i] \in Int
  BY <1>1 DEF Priority
<1>3. PICK before : before = [i \in 1..n |->
         {j \in 1..n : \/ Priority(rules[j]) < Priority(rules[i])
                       \/ Priority(rules[j]) = Priority(rules[i]) /\ j < i}]
  OBVIOUS
<1>4. PICK at : at = [k \in 1..n |-> CHOOSE i \in 1..n :
               Cardinality({j \in 1..n : \/ Priority(rules[j]) < Priority(rules[i])
                                         \/ Priority(rules[j]) = Priority(rules[i]) /\ j < i}) + 1 = k]
  OBVIOUS
<1>5. PICK s : s = ByPriority(rules)
  OBVIOUS
<1>6. DOMAIN s = 1..n /\ \A k \in 1..n : s[k] = rules[at[k]]
  BY <1>4, <1>5 DEF ByPriority
<1>7. \A i \in 1..n :
          Cardinality({j \in 1..n : \/ Priority(rules[j]) < Priority(rules[i])
                                    \/ Priority(rules[j]) = Priority(rules[i]) /\ j < i})
              = Cardinality(before[i])
  BY <1>3
<1>8. PlacedBy(n, rank, before, at)
  <2>1. \A i \in 1..n : rank[i] \in Int /\ before[i] \in SUBSET (1..n)
    BY <1>2, <1>3
  <2>2. \A i, j \in 1..n :
           j \in before[i] <=> rank[j] < rank[i] \/ (rank[j] = rank[i] /\ j < i)
    BY <1>2, <1>3
  <2>3. \A k \in 1..n : (\E i \in 1..n : Cardinality(before[i]) + 1 = k) =>
           at[k] \in 1..n /\ Cardinality(before[at[k]]) + 1 = k
    BY <1>4, <1>7
  <2> QED
    BY <2>1, <2>2, <2>3 DEF PlacedBy
<1>9. Ordered(n, rank, at)
  BY <1>8, StableSort
<1>10. \A k, l \in 1..n : k < l => Priority(s[k]) <= Priority(s[l])
  <2> SUFFICES ASSUME NEW k \in 1..n, NEW l \in 1..n, k < l PROVE Priority(s[k]) <= Priority(s[l])
    OBVIOUS
  <2>1. at[k] \in 1..n /\ at[l] \in 1..n /\ rank[at[k]] <= rank[at[l]]
    BY <1>9 DEF Ordered
  <2>2. Priority(s[k]) = rank[at[k]] /\ Priority(s[l]) = rank[at[l]]
    BY <1>2, <1>6, <2>1
  <2> QED
    BY <2>1, <2>2
<1>11. \A k \in 1..n : \E i \in 1..n : s[k] = rules[i]
  BY <1>6, <1>9 DEF Ordered
<1>12. \A i \in 1..n : \E k \in 1..n : s[k] = rules[i]
  <2> SUFFICES ASSUME NEW i \in 1..n PROVE \E k \in 1..n : s[k] = rules[i]
    OBVIOUS
  <2>1. PICK k \in 1..n : at[k] = i
    BY <1>9 DEF Ordered
  <2>2. s[k] = rules[i]
    BY <1>6, <2>1
  <2> QED
    BY <2>2
<1> QED
  BY <1>5, <1>6, <1>10, <1>11, <1>12 DEF Sorted

(* The loop of the engine over the rules s, from the left. *)
EngineStart == [blocked |-> "none", warned |-> {}, stop |-> FALSE]
EngineRun(s, ctx, strict) ==
    FoldLeft(LAMBDA a, r : EngineStep(a, r, ctx, strict, FALSE), EngineStart, s)

EngineSteps(h, s, n, ctx, strict) ==
    /\ h[0] = EngineStart
    /\ \A i \in 1..n : h[i] = EngineStep(h[i - 1], s[i], ctx, strict, FALSE)

Accumulators(T) == [blocked : T, warned : SUBSET T, stop : BOOLEAN]

Stepped(b, a, r, T, ctx, strict) ==
    /\ b \in Accumulators(T)
    /\ a.stop => b = a
    /\ ~a.stop /\ Blocks(r, ctx, strict) =>
          b = [blocked |-> r.type, warned |-> a.warned, stop |-> TRUE]
    /\ ~a.stop /\ ~Blocks(r, ctx, strict) =>
          b = [blocked |-> a.blocked, stop |-> FALSE,
               warned |-> IF Validate(r, ctx) = "warn" THEN a.warned \cup {r.type} ELSE a.warned]

LEMMA EngineStepFacts ==
    ASSUME NEW T, NEW a \in Accumulators(T), NEW r, r.type \in T, NEW ctx, NEW strict \in BOOLEAN
    PROVE  Stepped(EngineStep(a, r, ctx, strict, FALSE), a, r, T, ctx, strict)
<1>0. PICK b : b = EngineStep(a, r, ctx, strict, FALSE)
  OBVIOUS
<1> SUFFICES Stepped(b, a, r, T, ctx, strict)
  BY <1>0
<1>1. a = [blocked |-> a.blocked, warned |-> a.warned, stop |-> a.stop]
      /\ a.blocked \in T /\ a.warned \in SUBSET T /\ a.stop \in BOOLEAN
  BY DEF Accumulators
<1>9. \A x \in T, w \in SUBSET T, e \in BOOLEAN :
         [blocked |-> x, warned |-> w, stop |-> e] \in Accumulators(T)
  BY DEF Accumulators
<1>2. PICK o : o = Validate(r, ctx)
  OBVIOUS
<1>3. Blocks(r, ctx, strict) <=> o = "block" \/ (strict /\ o = "raise")
  BY <1>2 DEF Blocks
<1>4. CASE a.stop
  BY <1>0, <1>1, <1>4 DEF EngineStep, Stepped
<1>5. CASE ~a.stop /\ o = "block"
  <2>1. b = [a EXCEPT !.blocked = r.type, !.stop = TRUE]
    BY <1>0, <1>2, <1>5 DEF EngineStep
  <2>2. b
            = [blocked |-> r.type, warned |-> a.warned, stop |-> TRUE]
    BY <1>1, <2>1
  <2>3. b \in Accumulators(T)
    BY ONLY <1>1, <1>9, <2>2, r.type \in T
  <2>4. Blocks(r, ctx, strict) /\ ~a.stop
    BY <1>3, <1>5
  <2> QED
    BY ONLY <2>2, <2>3, <2>4 DEF Stepped
<1>6. CASE ~a.stop /\ o = "raise"
  <2>1. CASE strict
    <3>1. b = [a EXCEPT !.blocked = r.type, !.stop = TRUE]
      BY <1>0, <1>2, <1>6, <2>1 DEF EngineStep
    <3>2. b
              = [blocked |-> r.type, warned |-> a.warned, stop |-> TRUE]
      BY <1>1, <3>1
    <3>3. b \in Accumulators(T)
      BY ONLY <1>1, <1>9, <3>2, r.type \in T
    <3>4. Blocks(r, ctx, strict) /\ ~a.stop
      BY <1>3, <1>6, <2>1
    <3> QED
      BY ONLY <3>2, <3>3, <3>4 DEF Stepped
  <2>2. CASE ~strict
    <3>1. b = a
      BY <1>0, <1>2, <1>6, <2>2 DEF EngineStep
    <3>2. ~Blocks(r, ctx, strict) /\ ~a.stop /\ Validate(r, ctx) # "warn" /\ b \in Accumulators(T)
      BY <1>2, <1>3, <1>6, <2>2, <3>1
    <3>3. b = [blocked |-> a.blocked, stop |-> FALSE,
               warned |-> IF Validate(r, ctx) = "warn" THEN a.warned \cup {r.type} ELSE a.warned]
      BY ONLY <1>1, <3>2, <3>1
    <3> QED
      BY ONLY <3>2, <3>3 DEF Stepped
  <2> QED
    BY <2>1, <2>2
<1>7. CASE ~a.stop /\ o = "warn"
  <2>1. b = [a EXCEPT !.warned = a.warned \cup {r.type}]
    BY <1>0, <1>2, <1>7 DEF EngineStep
  <2>2. b
            = [blocked |-> a.blocked, warned |-> a.warned \cup {r.type}, stop |-> FALSE]
    BY <1>1, <1>7, <2>1
  <2>3. a.warned \cup {r.type} \in SUBSET T
    BY <1>1
  <2>4. b \in Accumulators(T)
    BY ONLY <1>1, <1>9, <2>2, <2>3
  <2>5. ~Blocks(r, ctx, strict) /\ ~a.stop /\ Validate(r, ctx) = "warn"
    BY <1>2, <1>3, <1>7
  <2>6. b = [blocked |-> a.blocked, stop |-> FALSE,
             warned |-> IF Validate(r, ctx) = "warn" THEN a.warned \cup {r.type} ELSE a.warned]
    BY ONLY <2>2, <2>5
  <2> QED
    BY ONLY <2>4, <2>5, <2>6 DEF Stepped
<1>8. CASE ~a.stop /\ o \notin {"block", "raise", "warn"}
  <2>1. b = a
    BY <1>0, <1>2, <1>8 DEF EngineStep
  <2>2. ~Blocks(r, ctx, strict) /\ ~a.stop /\ Validate(r, ctx) # "warn" /\ b \in Accumulators(T)
    BY <1>2, <1>3, <1>8, <2>1
  <2>3. b = [blocked |-> a.blocked, stop |-> FALSE,
             warned |-> IF Validate(r, ctx) = "warn" THEN a.warned \cup {r.type} ELSE a.warned]
    BY ONLY <1>1, <2>2, <2>1
  <2> QED
    BY ONLY <2>2, <2>3 DEF Stepped
<1> QED
  BY <1>0, <1>4, <1>5, <1>6, <1>7, <1>8

LEMMA EngineRuns ==
    ASSUME NEW n \in Nat, NEW s, DOMAIN s = 1..n, NEW ctx, NEW strict \in BOOLEAN
    PROVE  \E h : EngineSteps(h, s, n, ctx, strict) /\ h[n] = EngineRun(s, ctx, strict)
<1>1. PICK T : T = {s[i].type : i \in 1..n} \cup {"none"}
  OBVIOUS
<1>2. PICK A : A = Accumulators(T)
  OBVIOUS
<1>3. PICK base : base = EngineStart
  OBVIOUS
<1>4. base \in A
  BY <1>1, <1>2, <1>3 DEF EngineStart, Accumulators
<1>5. PICK next : next = [p \in A \X (1..n) |-> EngineStep(p[1], s[p[2]], ctx, strict, FALSE)]
  OBVIOUS
<1>6. \A a \in A, i \in 1..n : next[<<a, i>>] = EngineStep(a, s[i], ctx, strict, FALSE)
                               /\ next[<<a, i>>] \in A
  <2> SUFFICES ASSUME NEW a \in A, NEW i \in 1..n
               PROVE  next[<<a, i>>] = EngineStep(a, s[i], ctx, strict, FALSE)
                      /\ EngineStep(a, s[i], ctx, strict, FALSE) \in A
    OBVIOUS
  <2>1. next[<<a, i>>] = EngineStep(a, s[i], ctx, strict, FALSE)
    BY <1>5
  <2>2. s[i].type \in T
    BY <1>1
  <2>3. a \in Accumulators(T)
    BY <1>2
  <2>4. Stepped(EngineStep(a, s[i], ctx, strict, FALSE), a, s[i], T, ctx, strict)
    BY <2>2, <2>3, EngineStepFacts
  <2> QED
    BY <1>2, <2>1, <2>4 DEF Stepped
<1>7. PICK it \in [SUBSET (1..n) -> A] : FoldEquation(it, 1..n, base, next, Largest(n))
  <2>1. n \in Nat /\ \A a \in A, i \in 1..n : next[<<a, i>>] \in A
    BY <1>6
  <2> QED
    BY ONLY <2>1, <1>4, LeftFoldRuns
<1> DEFINE Equation(all) ==
              all = [I \in SUBSET (1..n) |->
                      IF I = {} THEN base
                      ELSE EngineStep(all[I \ {Max(I)}], s[Max(I)], ctx, strict, FALSE)]
<1>8. \E all : Equation(all)
  <2>1. ASSUME NEW I \in SUBSET (1..n), I # {}
        PROVE  it[I] = EngineStep(it[I \ {Max(I)}], s[Max(I)], ctx, strict, FALSE)
    <3>1. Max(I) \in 1..n /\ it[I \ {Max(I)}] \in A
      BY <1>7, <2>1, GreatestNatural
    <3>2. next[<<it[I \ {Max(I)}], Max(I)>>]
              = EngineStep(it[I \ {Max(I)}], s[Max(I)], ctx, strict, FALSE)
      BY <1>6, <3>1
    <3>3. it[I] = next[<<it[I \ {Largest(n)[I]}], Largest(n)[I]>>] /\ Largest(n)[I] = Max(I)
      BY <1>7, <2>1 DEF FoldEquation, Largest
    <3> QED
      BY <3>2, <3>3
  <2>2. it = [I \in SUBSET (1..n) |-> it[I]]
    BY <1>7
  <2>3. \A I \in SUBSET (1..n) :
            it[I] = IF I = {} THEN base
                    ELSE EngineStep(it[I \ {Max(I)}], s[Max(I)], ctx, strict, FALSE)
    BY <1>7, <2>1 DEF FoldEquation
  <2>4. it = [I \in SUBSET (1..n) |->
                IF I = {} THEN base
                ELSE EngineStep(it[I \ {Max(I)}], s[Max(I)], ctx, strict, FALSE)]
    BY <2>2, <2>3
  <2> QED
    BY <2>4
<1>9. PICK f : f = CHOOSE all : Equation(all)
  OBVIOUS
<1>10. Equation(f)
  BY <1>8, <1>9
<1>11. EngineRun(s, ctx, strict) = f[1..n]
  BY <1>3, <1>9 DEF EngineRun, FoldLeft, MapThenFoldSet
<1> HIDE DEF Equation
<1>12. PICK h : h = [i \in 0..n |-> f[1..i]]
  OBVIOUS
<1>13. h[0] = EngineStart
  <2>1. 1..0 = {} /\ 0 \in 0..n
    OBVIOUS
  <2> QED
    BY <1>3, <1>10, <1>12, <2>1 DEF Equation
<1>14. ASSUME NEW i \in 1..n PROVE h[i] = EngineStep(h[i - 1], s[i], ctx, strict, FALSE)
  <2>1. /\ 1..i \in SUBSET (1..n) /\ 1..i # {} /\ i \in 0..n /\ i - 1 \in 0..n
        /\ Max(1..i) = i /\ (1..i) \ {Max(1..i)} = 1..(i - 1)
    <3>1. i \in Nat /\ i > 0 /\ i <= n
      OBVIOUS
    <3>2. Max(1..i) = i /\ (1..i) \ {Max(1..i)} = 1..(i - 1)
      BY <3>1, MaxOfInterval
    <3>3. 1..i \in SUBSET (1..n) /\ 1..i # {} /\ i \in 0..n /\ i - 1 \in 0..n
      BY <3>1
    <3> QED
      BY <3>2, <3>3
  <2>2. f[1..i] = EngineStep(f[(1..i) \ {Max(1..i)}], s[Max(1..i)], ctx, strict, FALSE)
    BY <1>10, <2>1 DEF Equation
  <2> QED
    BY <1>12, <2>1, <2>2
<1> QED
  <2>1. h[n] = EngineRun(s, ctx, strict)
    BY <1>11, <1>12
  <2> QED
    BY <1>13, <1>14, <2>1 DEF EngineSteps

(* After i rules: the first of them that blocks has stopped the loop; without *)
(* one the warnings are gathered.                                             *)
Reached(a, s, i, ctx, strict) ==
    /\ a.stop => \E j \in 1..i : /\ Blocks(s[j], ctx, strict) /\ a.blocked = s[j].type
                                 /\ \A k \in 1..(j - 1) : ~Blocks(s[k], ctx, strict)
    /\ ~a.stop => /\ a.blocked = "none"
                  /\ \A j \in 1..i : ~Blocks(s[j], ctx, strict)
                  /\ a.warned # {} <=> \E j \in 1..i : Validate(s[j], ctx) = "warn"

LEMMA EngineReaches ==
    ASSUME NEW n \in Nat, NEW s, DOMAIN s = 1..n, NEW ctx, NEW strict \in BOOLEAN
    PROVE  /\ Reached(EngineRun(s, ctx, strict), s, n, ctx, strict)
           /\ EngineRun(s, ctx, strict).stop \in BOOLEAN
<1>1. PICK h : EngineSteps(h, s, n, ctx, strict) /\ h[n] = EngineRun(s, ctx, strict)
  BY EngineRuns
<1>2. PICK T : T = {s[i].type : i \in 1..n} \cup {"none"}
  OBVIOUS
<1>3. PICK S : S = {i \in 0..n : h[i] \in Accumulators(T) /\ Reached(h[i], s, i, ctx, strict)}
  OBVIOUS
<1>4. 0 \in S
  <2>1. h[0] = EngineStart
    BY <1>1 DEF EngineSteps
  <2>2. EngineStart \in Accumulators(T)
    BY <1>2 DEF EngineStart, Accumulators
  <2>3. Reached(EngineStart, s, 0, ctx, strict)
    BY DEF Reached, EngineStart
  <2> QED
    BY <1>3, <2>1, <2>2, <2>3
<1>5. ASSUME NEW i \in 0..(n - 1), i \in S PROVE i + 1 \in S
  <2>1. PICK a : a = h[i] /\ a \in Accumulators(T) /\ Reached(a, s, i, ctx, strict)
    BY <1>3, <1>5
  <2>2. PICK r : r = s[i + 1]
    OBVIOUS
  <2>3. PICK b : b = EngineStep(a, r, ctx, strict, FALSE)
    OBVIOUS
  <2>4. i + 1 \in 1..n /\ (i + 1) - 1 = i /\ i \in Nat
    OBVIOUS
  <2>5. h[i + 1] = b
    BY <1>1, <2>1, <2>2, <2>3, <2>4 DEF EngineSteps
  <2>6. r.type \in T
    BY <1>2, <2>2, <2>4
  <2>7. Stepped(b, a, r, T, ctx, strict)
    BY <2>1, <2>3, <2>6, EngineStepFacts
  <2>8. Reached(b, s, i + 1, ctx, strict)
    <3>1. CASE a.stop
      BY <2>1, <2>4, <2>7, <3>1 DEF Reached, Stepped
    <3>2. CASE ~a.stop /\ Blocks(r, ctx, strict)
      BY <2>1, <2>2, <2>4, <2>7, <3>2 DEF Reached, Stepped
    <3>3. CASE ~a.stop /\ ~Blocks(r, ctx, strict)
      <4>1. /\ a.blocked = "none" /\ \A j \in 1..i : ~Blocks(s[j], ctx, strict)
            /\ a.warned # {} <=> \E j \in 1..i : Validate(s[j], ctx) = "warn"
        BY <2>1, <3>3 DEF Reached
      <4>2. 1..(i + 1) = 1..i \cup {i + 1}
        BY <2>4
      <4>3. b.blocked = "none" /\ ~b.stop
        BY <2>7, <3>3, <4>1 DEF Stepped
      <4>4. \A j \in 1..(i + 1) : ~Blocks(s[j], ctx, strict)
        BY <2>2, <3>3, <4>1, <4>2
      <4>5. b.warned # {} <=> a.warned # {} \/ Validate(r, ctx) = "warn"
        <5>1. b.warned = IF Validate(r, ctx) = "warn" THEN a.warned \cup {r.type} ELSE a.warned
          <6>1. b = [blocked |-> a.blocked, stop |-> FALSE,
                     warned |-> IF Validate(r, ctx) = "warn" THEN a.warned \cup {r.type} ELSE a.warned]
            BY ONLY <2>7, <3>3 DEF Stepped
          <6> QED
            BY ONLY <6>1
        <5>2. CASE Validate(r, ctx) = "warn"
          BY <5>1, <5>2
        <5>3. CASE Validate(r, ctx) # "warn"
          BY <5>1, <5>3
        <5> QED
          BY <5>2, <5>3
      <4>6. b.warned # {} <=> \E j \in 1..(i + 1) : Validate(s[j], ctx) = "warn"
        BY <2>2, <4>1, <4>2, <4>5
      <4> QED
        BY <4>3, <4>4, <4>6 DEF Reached
    <3> QED
      BY <3>1, <3>2, <3>3
  <2>9. b \in Accumulators(T)
    BY <2>7 DEF Stepped
  <2> QED
    BY <1>3, <2>4, <2>5, <2>8, <2>9
<1>6. n \in S
  <2>1. 0..n \subseteq S
    BY <1>4, <1>5, Induction
  <2> QED
    BY <2>1
<1> QED
  BY <1>1, <1>3, <1>6 DEF Accumulators

(* What RuleEngine.validate decides, in terms of what each rule says alone.   *)
Judged(d, rules, n, ctx, strict) ==
    /\ d.action = "block" <=> \E i \in 1..n : Blocks(rules[i], ctx, strict)
    /\ d.action = "block" =>
         \E i \in 1..n : /\ Blocks(rules[i], ctx, strict) /\ d.blockedBy = rules[i].type
                         /\ \A j \in 1..n : Blocks(rules[j], ctx, strict)
                                => Priority(rules[i]) <= Priority(rules[j])
    /\ d.action # "block" =>
         (d.action = "warn" <=> \E i \in 1..n : Validate(rules[i], ctx) = "warn")

LEMMA EngineJudges ==
    ASSUME NEW n \in Nat, NEW rules, DOMAIN rules = 1..n, NEW ctx, NEW strict \in BOOLEAN,
           \A i \in 1..n : rules[i].type # "none"
    PROVE  Judged(EngineValidate(rules, ctx, strict, FALSE), rules, n, ctx, strict)
<1>1. PICK s : s = ByPriority(rules)
  OBVIOUS
<1>2. Sorted(s, rules, n)
  BY <1>1, ByPrioritySorts
<1>3. PICK a : a = EngineRun(s, ctx, strict)
  OBVIOUS
<1>4. Reached(a, s, n, ctx, strict) /\ a.stop \in BOOLEAN
  <2>1. DOMAIN s = 1..n
    BY <1>2 DEF Sorted
  <2> QED
    BY <1>3, <2>1, EngineReaches
<1>5. PICK d : d = EngineValidate(rules, ctx, strict, FALSE)
  OBVIOUS
<1>6. d = [action |-> CASE a.blocked # "none" -> "block"
                        [] a.blocked = "none" /\ a.warned # {} -> "warn"
                        [] OTHER -> "allow",
           blockedBy |-> a.blocked, warned |-> a.warned]
  BY <1>1, <1>3, <1>5 DEF EngineValidate, EngineRun, EngineStart, FoldLeft, MapThenFoldSet
<1>7. \A j \in 1..n : s[j].type # "none"
  BY <1>2 DEF Sorted
<1>8. a.stop <=> d.action = "block"
  BY <1>4, <1>6, <1>7 DEF Reached
<1>9. a.stop <=> \E i \in 1..n : Blocks(rules[i], ctx, strict)
  BY <1>2, <1>4 DEF Reached, Sorted
<1>10. CASE a.stop
  <2>1. PICK j \in 1..n : /\ Blocks(s[j], ctx, strict) /\ a.blocked = s[j].type
                          /\ \A k \in 1..(j - 1) : ~Blocks(s[k], ctx, strict)
    BY <1>4, <1>10 DEF Reached
  <2>2. PICK i \in 1..n : rules[i] = s[j]
    BY <1>2 DEF Sorted
  <2>3. ASSUME NEW k \in 1..n, Blocks(rules[k], ctx, strict)
        PROVE  Priority(rules[i]) <= Priority(rules[k])
    <3>1. PICK l \in 1..n : s[l] = rules[k]
      BY <1>2 DEF Sorted
    <3>2. l = j \/ j < l
      BY <2>1, <2>3, <3>1
    <3>3. \A r : Priority(r) \in Nat
      BY DEF Priority
    <3>4. CASE l = j
      BY <2>2, <3>1, <3>3, <3>4
    <3>5. CASE j < l
      BY <1>2, <2>2, <3>1, <3>5 DEF Sorted
    <3> QED
      BY <3>2, <3>4, <3>5
  <2>4. d.blockedBy = rules[i].type /\ Blocks(rules[i], ctx, strict)
    BY <1>6, <2>1, <2>2
  <2> QED
    BY <1>5, <1>8, <1>9, <1>10, <2>3, <2>4 DEF Judged
<1>11. CASE ~a.stop
  <2>1. a.blocked = "none" /\ (a.warned # {} <=> \E j \in 1..n : Validate(s[j], ctx) = "warn")
    BY <1>4, <1>11 DEF Reached
  <2>2. d.action = "warn" <=> \E j \in 1..n : Validate(s[j], ctx) = "warn"
    BY <1>6, <2>1
  <2>3. d.action = "warn" <=> \E i \in 1..n : Validate(rules[i], ctx) = "warn"
    BY <1>2, <2>2, ZenonT(60) DEF Sorted
  <2> QED
    BY <1>5, <1>8, <1>9, <1>11, <2>3 DEF Judged
<1> QED
  BY <1>10, <1>11, <1>4

-----------------------------------------------------------------------------
(* What a breach leads to.  Amounts: the numbers of a RiskState.            *)
Amounts == [daily : Int, equity : Int, peak : Int, start : Int]

(* What is left of a call that is in progress.  A call of the service has    *)
(* its mutation and its check before it, or the check alone.                 *)
Checks == {"check_daily", "check_drawdown"}
DueTodos == {<<"update", "check_drawdown">>, <<"record", "check_daily">>}
CheckTodos == {<<"check_drawdown">>, <<"check_daily">>}
SaveTodos ==
    {<<"save">>, <<"update", "save">>, <<"save", "update">>, <<"record", "save", "update">>}
Todos == DueTodos \cup CheckTodos \cup SaveTodos \cup {<<>>, <<"update">>, <<"reset">>}

Amounted(k) ==
    /\ IsCall(k)
    /\ k.pnl \in Int /\ k.equity \in Int
    /\ k.at \in {"loaded", "writing"} => k.seen \in Amounts
    /\ k.todo \in Todos /\ (k.at # "idle" => k.todo # <<>>)
    /\ Service(k) => /\ k.todo \in DueTodos \cup CheckTodos
                     /\ k.at = "writing" => k.todo \in DueTodos
    /\ k.at = "saving" => k.todo \in SaveTodos
    /\ k.todo \in SaveTodos => k.kind \in {"fill", "close", "mt5"}

(* A call owes the account a pause only from its mutation to its own check.   *)
Owing(k) ==
    k.owes => /\ Service(k)
              /\ k.at = "pausing" \/ (k.at = "writing" /\ k.todo \in DueTodos)

Trackers(tr) ==
    /\ IsRecord(tr, {"bal", "day", "eq", "pos"})
    /\ tr.bal \in Int /\ tr.eq \in Int
    /\ IsFiniteSet(DOMAIN tr.pos) /\ DOMAIN tr.pos \subseteq Positions
    /\ tr.pos \in [DOMAIN tr.pos -> Int]

BreachInv ==
    /\ \A t \in Tasks : Amounted(task[t]) /\ Owing(task[t])
    /\ \A t \in Tasks : task[t].kind \in {"fill", "close"} => tracker # NoTracker
    /\ tracker # NoTracker => Trackers(tracker)
    /\ mem # NoState => mem \in Amounts
    /\ stored # NoState => stored \in Amounts
    /\ balance \in Int

LEMMA BreachMeasures ==
    ASSUME NEW s \in Amounts
    PROVE  /\ LossBreached(s) =>
                /\ s.daily < 0 /\ s.start > 0
                /\ DailyPnlPercent(s) = Ratio(s.daily * 100, s.start)
                /\ Abs(s.daily * 100) = -s.daily * 100
                /\ Abs(s.daily * 100) >= LossLimit * s.start
           /\ DrawdownBreached(s) =>
                /\ s.peak > 0 /\ (s.peak - s.equity) * 100 > 0
                /\ DrawdownFromPeak(s) = Ratio((s.peak - s.equity) * 100, s.peak)
                /\ (s.peak - s.equity) * 100 >= DrawdownLimit * s.peak
<1>1. s.daily \in Int /\ s.start \in Int /\ s.peak \in Int /\ s.equity \in Int
  BY DEF Amounts
<1>2. LossLimit \in Int /\ LossLimit > 0 /\ DrawdownLimit \in Int /\ DrawdownLimit > 0
  BY RiskLimits
<1>3. \A a, b \in Int : a > 0 /\ b > 0 => a * b > 0 /\ a * b \in Int
  OBVIOUS
<1>4. ASSUME LossBreached(s)
      PROVE  /\ s.daily < 0 /\ s.start > 0
             /\ DailyPnlPercent(s) = Ratio(s.daily * 100, s.start)
             /\ Abs(s.daily * 100) = -s.daily * 100
             /\ Abs(s.daily * 100) >= LossLimit * s.start
  <2>1. s.start > 0 /\ -s.daily * 100 >= LossLimit * s.start
    BY <1>4 DEF LossBreached
  <2>2. PICK x \in Int : x = LossLimit * s.start /\ x > 0
    BY <1>1, <1>2, <1>3, <2>1
  <2>3. s.daily < 0 /\ s.daily * 100 \in Int /\ s.daily * 100 < 0
    BY <1>1, <2>1, <2>2
  <2>4. Abs(s.daily * 100) = -s.daily * 100
    BY <1>1, <2>3 DEF Abs
  <2> QED
    BY <2>1, <2>3, <2>4 DEF DailyPnlPercent
<1>5. ASSUME DrawdownBreached(s)
      PROVE  /\ s.peak > 0 /\ (s.peak - s.equity) * 100 > 0
             /\ DrawdownFromPeak(s) = Ratio((s.peak - s.equity) * 100, s.peak)
             /\ (s.peak - s.equity) * 100 >= DrawdownLimit * s.peak
  <2>1. s.peak > 0 /\ (s.peak - s.equity) * 100 >= DrawdownLimit * s.peak
    BY <1>5 DEF DrawdownBreached
  <2>2. PICK x \in Int : x = DrawdownLimit * s.peak /\ x > 0
    BY <1>1, <1>2, <1>3, <2>1
  <2>3. (s.peak - s.equity) * 100 > 0
    BY <1>1, <2>1, <2>2
  <2>4. ~(s.peak <= 0)
    BY <1>1, <2>1
  <2> QED
    BY <2>1, <2>3, <2>4 DEF DrawdownFromPeak
<1> QED
  BY <1>4, <1>5

(* The risk manager's checks see a breach of either limit. *)
LEMMA BreachIsViolation ==
    ASSUME NEW s \in Amounts, NEW step, Breached(step, s)
    PROVE  Violated(step, s)
<1>1. CASE step = "check_daily" /\ LossBreached(s)
  <2>1. /\ s.daily < 0 /\ DailyPnlPercent(s) = Ratio(s.daily * 100, s.start)
        /\ Abs(s.daily * 100) >= LossLimit * s.start
    BY <1>1, BreachMeasures
  <2>2. CheckDailyLossLimit(s)
    BY <2>1 DEF CheckDailyLossLimit, AtLeast, Ratio
  <2> QED
    BY <1>1, <2>2 DEF Violated
<1>2. CASE step = "check_drawdown" /\ DrawdownBreached(s)
  <2>1. /\ DrawdownFromPeak(s) = Ratio((s.peak - s.equity) * 100, s.peak)
        /\ (s.peak - s.equity) * 100 >= DrawdownLimit * s.peak
    BY <1>2, BreachMeasures
  <2>2. CheckMaxDrawdown(s)
    BY <2>1 DEF CheckMaxDrawdown, AtLeast, Ratio
  <2> QED
    BY <1>2, <2>2 DEF Violated
<1> QED
  BY <1>1, <1>2 DEF Breached

(* The two rules of an account. *)
LEMMA LossRulesFacts ==
    /\ DOMAIN LossRules = 1..2
    /\ LossRules[1] = [type |-> "max_drawdown", method |-> "equity_peak",
                       threshold |-> DrawdownLimit, warnAt |-> {50, 70, 85}]
    /\ LossRules[2] = [type |-> "daily_loss_limit", threshold |-> LossLimit,
                       warnAt |-> {70, 80, 90}]
<1>1. PICK a : a = [type |-> "max_drawdown", threshold_percent |-> DrawdownLimit]
  OBVIOUS
<1>2. PICK b : b = [type |-> "daily_loss_limit", threshold_percent |-> LossLimit]
  OBVIOUS
<1>3. LossRules = [i \in DOMAIN <<a, b>> |-> ParseSingleRule(<<a, b>>[i])]
  BY <1>1, <1>2 DEF LossRules, ParseRules
<1>4. DOMAIN LossRules = 1..2 /\ LossRules[1] = ParseSingleRule(a) /\ LossRules[2] = ParseSingleRule(b)
  BY <1>3
<1>5. ParseSingleRule(a) = NewMaxDrawdown(a)
  BY <1>1 DEF ParseSingleRule, NewRule, Get
<1>6. ParseSingleRule(b) = NewDailyLossLimit(b)
  BY <1>2 DEF ParseSingleRule, NewRule, Get
<1>7. NewMaxDrawdown(a) = [type |-> "max_drawdown", method |-> "equity_peak",
                           threshold |-> DrawdownLimit, warnAt |-> {50, 70, 85}]
  BY <1>1 DEF NewMaxDrawdown, Get
<1>8. NewDailyLossLimit(b) = [type |-> "daily_loss_limit", threshold |-> LossLimit,
                              warnAt |-> {70, 80, 90}]
  BY <1>2 DEF NewDailyLossLimit, Get
<1> QED
  BY <1>4, <1>5, <1>6, <1>7, <1>8

LEMMA BreachIsBlocked ==
    ASSUME mem \in Amounts, LossBreached(mem) \/ DrawdownBreached(mem)
    PROVE  Decision = "block"
<1>1. PICK ctx : ctx = BuildAccountState(mem)
  OBVIOUS
<1>2. mem # NoState
  <2>1. "daily" \in DOMAIN mem /\ "daily" \notin DOMAIN NoState
    BY DEF Amounts, NoState
  <2> QED
    BY <2>1
<1>3. /\ Get(ctx, "daily_pnl_percent", Zero) = DailyPnlPercent(mem)
      /\ Get(ctx, "total_drawdown_percent", Zero) = DrawdownFromPeak(mem)
  BY <1>1, <1>2 DEF BuildAccountState, Get
<1>4. \A i \in 1..2 : LossRules[i].type # "none"
  <2>1. LossRules[1].type = "max_drawdown" /\ LossRules[2].type = "daily_loss_limit"
    BY LossRulesFacts
  <2>2. \A i \in 1..2 : i = 1 \/ i = 2
    OBVIOUS
  <2> QED
    BY <2>1, <2>2
<1>5. \E i \in 1..2 : Blocks(LossRules[i], ctx, TRUE)
  <2>1. CASE LossBreached(mem)
    <3>1. PICK r : r = LossRules[2]
      OBVIOUS
    <3>2. r.type = "daily_loss_limit" /\ r.threshold = LossLimit
      BY <3>1, LossRulesFacts
    <3>3. PICK pnl : pnl = Ratio(mem.daily * 100, mem.start)
      OBVIOUS
    <3>4. Get(ctx, "daily_pnl_percent", Zero) = pnl
      BY <1>3, <2>1, <3>3, BreachMeasures
    <3>5. pnl.num = mem.daily * 100 /\ pnl.den = mem.start
      BY <3>3 DEF Ratio
    <3>6. pnl.num < 0 /\ pnl.num \in Int /\ Abs(pnl.num) >= LossLimit * pnl.den
      <4>1. mem.daily \in Int /\ mem.daily < 0 /\ Abs(mem.daily * 100) >= LossLimit * mem.start
        BY <2>1, BreachMeasures DEF Amounts
      <4>2. mem.daily * 100 < 0 /\ mem.daily * 100 \in Int
        BY <4>1
      <4> QED
        BY <3>5, <4>1, <4>2
    <3>7. PICK loss : loss = Ratio(Abs(pnl.num), pnl.den)
      OBVIOUS
    <3>8. AtLeast(loss, LossLimit)
      BY <3>6, <3>7 DEF AtLeast, Ratio
    <3>9. ~(pnl.num >= 0)
      BY <3>6
    <3>10. DailyLossLimit(r, ctx) = "block"
      BY <3>2, <3>4, <3>6, <3>7, <3>8, <3>9 DEF DailyLossLimit
    <3> QED
      BY <3>1, <3>2, <3>10 DEF Blocks, Validate
  <2>2. CASE DrawdownBreached(mem)
    <3>1. PICK r : r = LossRules[1]
      OBVIOUS
    <3>2. r.type = "max_drawdown" /\ r.threshold = DrawdownLimit /\ r.method = "equity_peak"
      BY <3>1, LossRulesFacts
    <3>3. PICK dd : dd = Ratio((mem.peak - mem.equity) * 100, mem.peak)
      OBVIOUS
    <3>4. DrawdownPercent(r, ctx) = dd
      BY <1>3, <2>2, <3>2, <3>3, BreachMeasures DEF DrawdownPercent
    <3>5. dd.num = (mem.peak - mem.equity) * 100 /\ dd.den = mem.peak
      BY <3>3 DEF Ratio
    <3>6. dd.num > 0 /\ dd.num \in Int /\ dd.num >= DrawdownLimit * dd.den
      <4>1. /\ mem.peak \in Int /\ mem.equity \in Int /\ (mem.peak - mem.equity) * 100 > 0
            /\ (mem.peak - mem.equity) * 100 >= DrawdownLimit * mem.peak
        BY <2>2, BreachMeasures DEF Amounts
      <4>2. (mem.peak - mem.equity) * 100 \in Int
        BY <4>1
      <4> QED
        BY <3>5, <4>1, <4>2
    <3>7. AtLeast(dd, DrawdownLimit)
      BY <3>6 DEF AtLeast
    <3>8. ~(dd.num <= 0)
      BY <3>6
    <3>9. MaxDrawdown(r, ctx) = "block"
      BY <3>2, <3>4, <3>6, <3>7, <3>8 DEF MaxDrawdown
    <3> QED
      BY <3>1, <3>2, <3>9 DEF Blocks, Validate
  <2> QED
    BY <2>1, <2>2
<1>6. Judged(EngineValidate(LossRules, ctx, TRUE, FALSE), LossRules, 2, ctx, TRUE)
  BY <1>4, LossRulesFacts, EngineJudges
<1> QED
  BY <1>1, <1>5, <1>6 DEF Judged, Decision

LEMMA UnrealizedIsInt ==
    ASSUME NEW tr, IsFiniteSet(DOMAIN tr.pos), tr.pos \in [DOMAIN tr.pos -> Int]
    PROVE  Unrealized(tr) \in Int
<1>1. PICK pos : pos = tr.pos
  OBVIOUS
<1>2. PICK N : N = DOMAIN pos /\ IsFiniteSet(N) /\ \A i \in N : pos[i] \in Int
  BY <1>1
<1>3. PICK c : c = [I \in SUBSET N |-> CHOOSE x \in I : TRUE]
  OBVIOUS
<1>4. \A I \in SUBSET N : c[I] = (CHOOSE x \in I : TRUE) /\ (I # {} => c[I] \in I)
  <2> SUFFICES ASSUME NEW I \in SUBSET N
               PROVE  c[I] = (CHOOSE x \in I : TRUE) /\ (I # {} => c[I] \in I)
    OBVIOUS
  <2>1. c[I] = CHOOSE x \in I : TRUE
    BY <1>3
  <2>2. I # {} => (CHOOSE x \in I : TRUE) \in I
    OBVIOUS
  <2> QED
    BY <2>1, <2>2
<1>5. PICK next : next = [p \in Int \X N |-> pos[p[2]] + p[1]]
  OBVIOUS
<1>6. \A a \in Int, i \in N : next[<<a, i>>] = pos[i] + a /\ next[<<a, i>>] \in Int
  BY <1>2, <1>5
<1>7. PICK it \in [SUBSET N -> Int] : FoldEquation(it, N, 0, next, c)
  <2>1. IsFiniteSet(N) /\ 0 \in Int /\ (\A I \in SUBSET N : I # {} => c[I] \in I)
        /\ \A a \in Int, i \in N : next[<<a, i>>] \in Int
    BY <1>2, <1>4, <1>6
  <2> QED
    BY ONLY <2>1, FoldExists
<1> DEFINE Equation(all) ==
              all = [I \in SUBSET N |->
                      IF I = {} THEN 0
                      ELSE pos[CHOOSE x \in I : TRUE] + all[I \ {CHOOSE x \in I : TRUE}]]
<1>8. \E all : Equation(all)
  <2>1. ASSUME NEW I \in SUBSET N, I # {}
        PROVE  it[I] = pos[CHOOSE x \in I : TRUE] + it[I \ {CHOOSE x \in I : TRUE}]
    <3>1. c[I] \in N /\ it[I \ {c[I]}] \in Int /\ c[I] = CHOOSE x \in I : TRUE
      BY <1>4, <1>7, <2>1
    <3>2. it[I] = next[<<it[I \ {c[I]}], c[I]>>]
      BY <1>7, <2>1 DEF FoldEquation
    <3>3. it[I] = pos[c[I]] + it[I \ {c[I]}]
      BY <1>6, <3>1, <3>2
    <3> QED
      BY <3>1, <3>3
  <2>2. it = [I \in SUBSET N |-> it[I]]
    BY <1>7
  <2>3. \A I \in SUBSET N :
            it[I] = IF I = {} THEN 0
                    ELSE pos[CHOOSE x \in I : TRUE] + it[I \ {CHOOSE x \in I : TRUE}]
    BY <1>7, <2>1 DEF FoldEquation
  <2>4. it = [I \in SUBSET N |->
                IF I = {} THEN 0
                ELSE pos[CHOOSE x \in I : TRUE] + it[I \ {CHOOSE x \in I : TRUE}]]
    BY <2>2, <2>3
  <2> QED
    BY <2>4
<1>9. PICK f : f = CHOOSE all : Equation(all)
  OBVIOUS
<1>10. Equation(f)
  BY <1>8, <1>9
<1>11. Unrealized(tr) = f[N]
  BY <1>1, <1>2, <1>9 DEF Unrealized, FoldFunction, FoldFunctionOnSet, MapThenFoldSet
<1>12. \A I \in SUBSET N :
          f[I] = IF I = {} THEN 0
                 ELSE pos[CHOOSE x \in I : TRUE] + f[I \ {CHOOSE x \in I : TRUE}]
  BY <1>10
<1> HIDE DEF Equation
(* Any sum over positions is an integer. *)
<1>13. PICK Good : Good = {I \in SUBSET N : f[I] \in Int}
  OBVIOUS
<1>14. {} \in Good
  <2>1. {} \in SUBSET N /\ \A I \in SUBSET N : I = {} => f[I] = 0
    BY <1>12
  <2> QED
    BY <1>13, <2>1
<1>15. \A I \in SUBSET N : I # {} => c[I] \in I /\ (I \ {c[I]} \in Good => I \in Good)
  <2> SUFFICES ASSUME NEW I \in SUBSET N, I # {}, I \ {c[I]} \in Good PROVE I \in Good
    BY <1>4
  <2>1. PICK x \in I : x = c[I] /\ x = CHOOSE y \in I : TRUE
    BY <1>4
  <2>2. f[I] = pos[x] + f[I \ {x}]
    BY <1>12, <2>1
  <2>3. f[I \ {x}] \in Int
    BY <1>13, <2>1
  <2> QED
    BY <1>2, <1>13, <2>2, <2>3
<1>16. N \in Good
  BY <1>2, <1>14, <1>15, SubsetInduction
<1> QED
  BY <1>11, <1>13, <1>16

LEMMA RecalculatedFacts ==
    ASSUME NEW tr, IsRecord(tr, {"bal", "day", "eq", "pos"}), tr.bal \in Int,
           IsFiniteSet(DOMAIN tr.pos), DOMAIN tr.pos \subseteq Positions,
           tr.pos \in [DOMAIN tr.pos -> Int]
    PROVE  Trackers(RecalculateEquity(tr))
<1>1. PICK e : e = tr.bal + Unrealized(tr) /\ e \in Int
  <2>1. Unrealized(tr) \in Int
    BY UnrealizedIsInt
  <2> QED
    BY <2>1
<1>2. PICK r : r = [tr EXCEPT !.eq = e]
  OBVIOUS
<1>3. r = RecalculateEquity(tr)
  BY <1>1, <1>2 DEF RecalculateEquity
<1>4. r.bal = tr.bal /\ r.eq = e /\ r.pos = tr.pos /\ IsRecord(r, {"bal", "day", "eq", "pos"})
  BY <1>2 DEF IsRecord
<1> QED
  BY <1>1, <1>3, <1>4 DEF Trackers

LEMMA TrackerFacts ==
    ASSUME NEW tr, Trackers(tr)
    PROVE  /\ tr # NoTracker
           /\ Trackers(RecalculateEquity(tr))
           /\ \A p \in Positions : Trackers(OnTradeExecuted(tr, p))
           /\ \A mark \in [Positions -> Marks] : Trackers(OnTick(tr, mark))
           /\ \A p : \A pnl \in Int : Trackers(OnPositionClosed(tr, p, pnl))
           /\ \A b \in Int : Trackers([tr EXCEPT !.day = 0, !.bal = b])
<1>1. /\ tr = [x \in {"bal", "day", "eq", "pos"} |-> tr[x]] /\ tr.bal \in Int /\ tr.eq \in Int
      /\ IsFiniteSet(DOMAIN tr.pos) /\ DOMAIN tr.pos \subseteq Positions
      /\ tr.pos \in [DOMAIN tr.pos -> Int]
  BY DEF Trackers, IsRecord
<1>2. tr # NoTracker
  <2>1. "eq" \in DOMAIN tr /\ "eq" \notin DOMAIN NoTracker
    BY <1>1 DEF NoTracker
  <2> QED
    BY <2>1
<1>3. Trackers(RecalculateEquity(tr))
  BY RecalculatedFacts DEF Trackers
<1>4. ASSUME NEW p \in Positions PROVE Trackers(OnTradeExecuted(tr, p))
  <2>0. PICK E : E = DOMAIN tr.pos /\ IsFiniteSet(E) /\ E \subseteq Positions
    BY <1>1
  <2>9. IsFiniteSet(E \cup {p})
    BY <2>0, FS_AddElement
  <2>1. PICK D : D = DOMAIN tr.pos \cup {p} /\ IsFiniteSet(D) /\ D \subseteq Positions
    BY <2>0, <2>9
  <2>2. PICK q : q = [o \in D |-> Get(tr.pos, o, 0)]
    OBVIOUS
  <2>3. q \in [D -> Int] /\ DOMAIN q = D
    BY <1>1, <2>2 DEF Get
  <2>4. PICK r : r = [tr EXCEPT !.pos = q]
    OBVIOUS
  <2>5. r.bal = tr.bal /\ r.pos = q /\ IsRecord(r, {"bal", "day", "eq", "pos"})
    BY <1>1, <2>4 DEF IsRecord
  <2>6. Trackers(RecalculateEquity(r))
    BY <1>1, <2>1, <2>3, <2>5, RecalculatedFacts
  <2>7. OnTradeExecuted(tr, p) = RecalculateEquity(r)
    BY <2>1, <2>2, <2>4 DEF OnTradeExecuted
  <2> QED
    BY <2>6, <2>7
<1>5. ASSUME NEW mark \in [Positions -> Marks] PROVE Trackers(OnTick(tr, mark))
  <2>1. PICK q : q = [p \in DOMAIN tr.pos |-> mark[p]]
    OBVIOUS
  <2>2. q \in [DOMAIN tr.pos -> Int] /\ DOMAIN q = DOMAIN tr.pos
    BY <1>1, <2>1, RiskAmounts
  <2>3. PICK r : r = [tr EXCEPT !.pos = q]
    OBVIOUS
  <2>4. r.bal = tr.bal /\ r.pos = q /\ IsRecord(r, {"bal", "day", "eq", "pos"})
    BY <1>1, <2>3 DEF IsRecord
  <2>5. Trackers(RecalculateEquity(r))
    BY <1>1, <2>2, <2>4, RecalculatedFacts
  <2>6. OnTick(tr, mark) = RecalculateEquity(r)
    BY <2>1, <2>3 DEF OnTick
  <2> QED
    BY <2>5, <2>6
<1>6. ASSUME NEW p, NEW pnl \in Int PROVE Trackers(OnPositionClosed(tr, p, pnl))
  <2>0. PICK E : E = DOMAIN tr.pos /\ IsFiniteSet(E) /\ E \subseteq Positions
    BY <1>1
  <2>9. IsFiniteSet(E \ {p})
    BY <2>0, FS_Subset
  <2>1. PICK D : D = DOMAIN tr.pos \ {p} /\ IsFiniteSet(D) /\ D \subseteq Positions
    BY <2>0, <2>9
  <2>2. PICK q : q = [o \in D |-> tr.pos[o]]
    OBVIOUS
  <2>3. q \in [D -> Int] /\ DOMAIN q = D
    BY <1>1, <2>1, <2>2
  <2>4. PICK day : day = tr.day + pnl
    OBVIOUS
  <2>5. PICK bal \in Int : bal = tr.bal + pnl
    BY <1>1
  <2>6. PICK r : r = [tr EXCEPT !.pos = q, !.day = day, !.bal = bal]
    OBVIOUS
  <2>7. r.bal = bal /\ r.eq = tr.eq /\ r.pos = q /\ IsRecord(r, {"bal", "day", "eq", "pos"})
    BY <1>1, <2>6 DEF IsRecord
  <2>8. OnPositionClosed(tr, p, pnl) = r
    BY <2>1, <2>2, <2>4, <2>5, <2>6 DEF OnPositionClosed
  <2> QED
    BY <1>1, <2>1, <2>3, <2>7, <2>8 DEF Trackers
<1>7. ASSUME NEW b \in Int PROVE Trackers([tr EXCEPT !.day = 0, !.bal = b])
  <2>1. PICK r : r = [tr EXCEPT !.day = 0, !.bal = b]
    OBVIOUS
  <2>2. r.bal = b /\ r.eq = tr.eq /\ r.pos = tr.pos /\ IsRecord(r, {"bal", "day", "eq", "pos"})
    BY <1>1, <2>1 DEF IsRecord
  <2> QED
    BY <1>1, <2>1, <2>2 DEF Trackers
<1> QED
  BY <1>2, <1>3, <1>4, <1>5, <1>6, <1>7

LEMMA FirstTrackerFacts ==
    ASSUME balance \in Int, tracker # NoTracker => Trackers(tracker)
    PROVE  Trackers(GetOrCreateTracker)
<1>1. CASE tracker = NoTracker
  <2>1. PICK tr : tr = [bal |-> balance, day |-> 0, eq |-> balance, pos |-> <<>>]
    OBVIOUS
  <2>2. IsRecord(tr, {"bal", "day", "eq", "pos"}) /\ tr.bal = balance /\ tr.eq = balance
        /\ tr.pos = <<>>
    BY <2>1 DEF IsRecord
  <2>3. DOMAIN tr.pos = {} /\ tr.pos \in [DOMAIN tr.pos -> Int]
    BY <2>2
  <2>4. Trackers(tr)
    BY <2>2, <2>3, FS_EmptySet DEF Trackers
  <2> QED
    BY <1>1, <2>1, <2>4 DEF GetOrCreateTracker
<1>2. CASE tracker # NoTracker
  BY <1>2 DEF GetOrCreateTracker
<1> QED
  BY <1>1, <1>2

(* A call about to run on to its next await. *)
Ready(k) ==
    /\ IsCall(k)
    /\ k.pnl \in Int /\ k.equity \in Int
    /\ k.todo \in Todos
    /\ Service(k) => k.todo \in DueTodos \cup CheckTodos
    /\ k.todo \in SaveTodos => k.kind \in {"fill", "close", "mt5"}
    /\ k.owes => Service(k) /\ k.todo \in CheckTodos /\ mem # NoState

(* What it leaves behind. *)
Rests(t, k) ==
    /\ OnlyTask(t)
    /\ Amounted(task'[t]) /\ Owing(task'[t]) /\ task'[t].kind \in {k.kind, "none"}
    /\ mem' # NoState => mem' \in Amounts

LEMMA IdleRests ==
    ASSUME NEW x, ~x
    PROVE  LET c == [Idle EXCEPT !.owes = x] IN Amounted(c) /\ Owing(c) /\ c.kind = "none"
<1>1. PICK c : c = [Idle EXCEPT !.owes = x]
  OBVIOUS
<1>2. /\ IsCall(c) /\ c.kind = "none" /\ c.todo = <<>> /\ c.at = "idle" /\ c.pnl = 0
      /\ c.equity = 0 /\ c.owes = x
  BY <1>1 DEF Idle, IsCall, IsRecord, CallFields
<1>3. ~Service(c) /\ c.todo \in Todos \ SaveTodos
  BY <1>2 DEF Service, Todos, SaveTodos
<1>4. Amounted(c)
  BY <1>2, <1>3 DEF Amounted
<1>5. ~c.owes
  BY <1>2
<1> QED
  BY <1>1, <1>2, <1>4, <1>5 DEF Owing

LEMMA IdleAmounted == Amounted(Idle) /\ Owing(Idle) /\ Idle.kind = "none"
<1>1. /\ IsCall(Idle) /\ Idle.kind = "none" /\ Idle.todo = <<>> /\ Idle.at = "idle"
      /\ Idle.pnl = 0 /\ Idle.equity = 0 /\ ~Idle.owes
  BY DEF Idle, IsCall, IsRecord, CallFields
<1>2. ~Service(Idle) /\ Idle.todo \in Todos \ SaveTodos
  BY <1>1 DEF Service, Todos, SaveTodos
<1> QED
  BY <1>1, <1>2 DEF Amounted, Owing

LEMMA TodoFacts ==
    /\ \A todo \in Todos : todo # <<>> =>
          /\ Head(todo) \in {"update", "record", "save", "reset"} \cup Checks
          /\ Tail(todo) \in Todos
          /\ Head(todo) = "save" \/ Tail(todo) \in SaveTodos => todo \in SaveTodos
    /\ \A todo \in DueTodos : todo # <<>> /\ Head(todo) \in Locked /\ Tail(todo) \in CheckTodos
    /\ \A todo \in CheckTodos : todo # <<>> /\ Head(todo) \in Checks
BY DEF Todos, DueTodos, CheckTodos, SaveTodos, Checks, Locked

LEMMA AppliedAmounts ==
    ASSUME NEW s \in Amounts, NEW k, k.pnl \in Int, k.equity \in Int, NEW step
    PROVE  Applied(step, k, s) \in Amounts
<1>1. s.daily \in Int /\ s.equity \in Int /\ s.peak \in Int /\ s.start \in Int
      /\ s = [daily |-> s.daily, equity |-> s.equity, peak |-> s.peak, start |-> s.start]
  BY DEF Amounts
<1>2. UpdateEquity(s, k.equity) \in Amounts
  <2>1. PICK p \in Int : p = IF k.equity > s.peak THEN k.equity ELSE s.peak
    BY <1>1
  <2>2. UpdateEquity(s, k.equity) = [s EXCEPT !.equity = k.equity, !.peak = p]
    BY <2>1 DEF UpdateEquity
  <2> QED
    BY <1>1, <2>1, <2>2 DEF Amounts
<1>3. RecordTrade(s, k.pnl) \in Amounts
  <2>1. PICK d \in Int : d = s.daily + k.pnl
    BY <1>1
  <2> QED
    BY <1>1, <2>1 DEF RecordTrade, Amounts
<1>4. ResetDaily(s, k.equity) \in Amounts
  <2>1. PICK e \in Int : e = k.equity
    OBVIOUS
  <2>2. PICK r : r = [s EXCEPT !.daily = 0, !.start = e]
    OBVIOUS
  <2>3. r = [daily |-> 0, equity |-> s.equity, peak |-> s.peak, start |-> e]
    BY <1>1, <2>2
  <2>4. r \in Amounts
    BY <1>1, <2>3 DEF Amounts
  <2> QED
    BY <2>1, <2>2, <2>4 DEF ResetDaily
<1> QED
  BY <1>2, <1>3, <1>4 DEF Applied

LEMMA WithManagerRests ==
    ASSUME RiskShapes, NEW t \in Tasks, NEW k, Ready(k), k.todo # <<>>,
           NEW s \in Amounts, WithManager(t, k, s)
    PROVE  Rests(t, k) /\ mem' \in Amounts
<1>1. PICK step : step = Head(k.todo)
  OBVIOUS
<1>2. PICK new : new = Applied(step, k, s) /\ new \in Amounts
  BY AppliedAmounts DEF Ready
<1>3. mem' = new /\ mem' \in Amounts
  BY <1>1, <1>2 DEF WithManager
<1>4. ASSUME NEW c, task' = [task EXCEPT ![t] = c], Amounted(c), Owing(c), c.kind \in {k.kind, "none"}
      PROVE  Rests(t, k)
  <2>1. IsCall(c)
    BY <1>4 DEF Amounted
  <2>2. OnlyTask(t) /\ task'[t] = c
    BY <1>4, <2>1, TaskMoves
  <2> QED
    BY <1>3, <1>4, <2>2 DEF Rests
<1>5. IsCall(k) /\ k.pnl \in Int /\ k.equity \in Int /\ k.todo \in Todos
      /\ (Service(k) => k.todo \in DueTodos \cup CheckTodos)
      /\ (k.todo \in SaveTodos => k.kind \in {"fill", "close", "mt5"})
  BY DEF Ready
<1>6. CASE step \in Locked \cup {"reset"}
  <2>1. PICK due : due = (Service(k) /\ Len(k.todo) = 2 /\ Breached(k.todo[2], new))
    OBVIOUS
  <2>2. PICK c : c = [k EXCEPT !.at = "writing", !.seen = new, !.owes = due]
    OBVIOUS
  <2>3. task' = [task EXCEPT ![t] = c]
    BY <1>1, <1>2, <1>6, <2>1, <2>2 DEF WithManager
  <2>4. /\ IsCall(c) /\ c.at = "writing" /\ c.seen = new /\ c.owes = due
        /\ c.kind = k.kind /\ c.todo = k.todo /\ c.pnl = k.pnl /\ c.equity = k.equity
    BY <1>5, <2>2 DEF IsCall, IsRecord, CallFields
  <2>5. Service(c) <=> Service(k)
    BY <2>4 DEF Service
  <2>6. Service(k) => k.todo \in DueTodos
    <3>1. k.todo \in CheckTodos => step \in Checks
      BY <1>1, TodoFacts
    <3> QED
      BY <1>5, <1>6, <3>1 DEF Checks, Locked
  <2>7. Amounted(c)
    BY <1>2, <1>5, <2>4, <2>5, <2>6 DEF Amounted
  <2>8. Owing(c)
    <3>1. c.owes => Service(k)
      BY <2>1, <2>4
    <3> QED
      BY <2>4, <2>5, <2>6, <3>1 DEF Owing
  <2> QED
    BY <1>3, <1>4, <2>3, <2>4, <2>7, <2>8
<1>7. CASE step \notin Locked \cup {"reset"} /\ Service(k) /\ Violated(step, s)
  <2>1. PICK c : c = [k EXCEPT !.at = "pausing"]
    OBVIOUS
  <2>2. task' = [task EXCEPT ![t] = c]
    BY <1>1, <1>7, <2>1 DEF WithManager
  <2>3. /\ IsCall(c) /\ c.at = "pausing" /\ c.owes = k.owes
        /\ c.kind = k.kind /\ c.todo = k.todo /\ c.pnl = k.pnl /\ c.equity = k.equity
    BY <1>5, <2>1 DEF IsCall, IsRecord, CallFields
  <2>4. Service(c) <=> Service(k)
    BY <2>3 DEF Service
  <2>5. Amounted(c)
    BY <1>5, <2>3, <2>4 DEF Amounted
  <2>6. Owing(c)
    BY <1>7, <2>3, <2>4 DEF Owing
  <2> QED
    BY <1>3, <1>4, <2>2, <2>3, <2>5, <2>6
<1>8. CASE step \notin Locked \cup {"reset"} /\ ~(Service(k) /\ Violated(step, s))
  <2>1. ~(k.owes /\ Breached(step, s))
    <3>1. k.owes => Service(k)
      BY DEF Ready
    <3>2. Breached(step, s) => Violated(step, s)
      BY BreachIsViolation
    <3> QED
      BY <1>8, <3>1, <3>2
  <2>2. PICK x : x = (k.owes /\ Breached(step, s)) /\ ~x
    BY <2>1
  <2>3. task' = [task EXCEPT ![t] = [Idle EXCEPT !.owes = x]]
    BY <1>1, <1>8, <2>2 DEF WithManager
  <2>4. PICK c : c = [Idle EXCEPT !.owes = x]
    OBVIOUS
  <2>5. Amounted(c) /\ Owing(c) /\ c.kind = "none"
    BY <2>2, <2>4, IdleRests
  <2> QED
    BY <1>3, <1>4, <2>3, <2>4, <2>5
<1> QED
  BY <1>6, <1>7, <1>8

(* A call that is parked with nothing owed. *)
LEMMA ParkedRests ==
    ASSUME RiskShapes, NEW t \in Tasks, NEW k, Ready(k), k.todo # <<>>, ~k.owes,
           mem # NoState => mem \in Amounts, mem' = mem,
           NEW x \in {"queued", "loading", "saving"}, x = "saving" => Head(k.todo) = "save",
           task' = [task EXCEPT ![t] = [k EXCEPT !.at = x]]
    PROVE  Rests(t, k)
<1>1. PICK c : c = [k EXCEPT !.at = x]
  OBVIOUS
<1>2. IsCall(k) /\ k.pnl \in Int /\ k.equity \in Int /\ k.todo \in Todos
      /\ (Service(k) => k.todo \in DueTodos \cup CheckTodos)
      /\ (k.todo \in SaveTodos => k.kind \in {"fill", "close", "mt5"})
  BY DEF Ready
<1>3. /\ IsCall(c) /\ c.at = x /\ c.owes = k.owes
      /\ c.kind = k.kind /\ c.todo = k.todo /\ c.pnl = k.pnl /\ c.equity = k.equity
  BY <1>1, <1>2 DEF IsCall, IsRecord, CallFields
<1>4. Service(c) <=> Service(k)
  BY <1>3 DEF Service
<1>7. x = "saving" => k.todo \in SaveTodos
  BY <1>2, TodoFacts
<1>5. Amounted(c) /\ Owing(c)
  BY <1>2, <1>3, <1>4, <1>7 DEF Amounted, Owing
<1>6. OnlyTask(t) /\ task'[t] = c
  BY <1>1, <1>3, TaskMoves
<1> QED
  BY <1>3, <1>5, <1>6 DEF Rests

LEMMA GetOrCreateRests ==
    ASSUME RiskShapes, NEW t \in Tasks, NEW k, Ready(k), k.todo # <<>>,
           mem # NoState => mem \in Amounts, NEW q, GetOrCreate(t, k, mem, q)
    PROVE  Rests(t, k)
<1>1. CASE mem = NoState
  <2>1. task' = [task EXCEPT ![t] = [k EXCEPT !.at = "loading"]] /\ mem' = mem
    BY <1>1 DEF GetOrCreate
  <2>2. ~k.owes
    BY <1>1 DEF Ready
  <2> QED
    BY <2>1, <2>2, ParkedRests
<1>2. CASE mem # NoState
  BY <1>2, WithManagerRests DEF GetOrCreate
<1> QED
  BY <1>1, <1>2

LEMMA ContinueRests ==
    ASSUME RiskShapes, NEW t \in Tasks, NEW k, Ready(k),
           mem # NoState => mem \in Amounts, NEW q, Continue(t, k, q)
    PROVE  Rests(t, k)
<1>1. k.todo = <<>> \/ Head(k.todo) \in Locked \cup {"save"} => ~k.owes
  BY TodoFacts DEF Ready, Checks, Locked
<1>2. CASE k.todo = <<>>
  <2>1. task' = [task EXCEPT ![t] = [Idle EXCEPT !.owes = k.owes]] /\ mem' = mem
    BY <1>2 DEF Continue
  <2>2. PICK c : c = [Idle EXCEPT !.owes = k.owes]
    OBVIOUS
  <2>3. Amounted(c) /\ Owing(c) /\ c.kind = "none"
    BY <1>1, <1>2, <2>2, IdleRests
  <2>4. OnlyTask(t) /\ task'[t] = c
    BY <2>1, <2>2, <2>3, TaskMoves DEF Amounted
  <2> QED
    BY <2>1, <2>3, <2>4 DEF Rests
<1>3. CASE k.todo # <<>> /\ Head(k.todo) = "save"
  <2>1. task' = [task EXCEPT ![t] = [k EXCEPT !.at = "saving"]] /\ mem' = mem
    BY <1>3 DEF Continue, Locked
  <2> QED
    BY <1>1, <1>3, <2>1, ParkedRests
<1>4. CASE k.todo # <<>> /\ Head(k.todo) \in Locked
  <2>1. CASE q = <<>>
    BY <1>4, <2>1, GetOrCreateRests DEF Continue, Locked
  <2>2. CASE q # <<>>
    <3>1. task' = [task EXCEPT ![t] = [k EXCEPT !.at = "queued"]] /\ mem' = mem
      BY <1>4, <2>2 DEF Continue, Locked
    <3> QED
      BY <1>1, <1>4, <3>1, ParkedRests
  <2> QED
    BY <2>1, <2>2
<1>5. CASE k.todo # <<>> /\ Head(k.todo) # "save" /\ Head(k.todo) \notin Locked
  BY <1>5, GetOrCreateRests DEF Continue
<1> QED
  BY <1>2, <1>3, <1>4, <1>5

LEMMA BreachMoves ==
    ASSUME RiskShapes, BreachInv, NEW t \in Tasks, NEW k, Rests(t, k),
           tracker # NoTracker => tracker' # NoTracker,
           k.kind \in {"fill", "close"} => tracker' # NoTracker,
           tracker' # NoTracker => Trackers(tracker'),
           stored' # NoState => stored' \in Amounts, balance' \in Int
    PROVE  BreachInv'
<1>1. \A u \in Tasks : u = t \/ task'[u] = task[u]
  BY DEF Rests, OnlyTask
<1>2. \A u \in Tasks : Amounted(task'[u]) /\ Owing(task'[u])
  BY <1>1 DEF Rests, BreachInv
<1>3. \A u \in Tasks : task'[u].kind \in {"fill", "close"} => tracker' # NoTracker
  BY <1>1 DEF Rests, BreachInv
<1>4. mem' # NoState => mem' \in Amounts
  BY DEF Rests
<1> QED
  BY <1>2, <1>3, <1>4 DEF BreachInv

CallKinds == {"tick", "fill", "close", "equity", "trade", "mt5", "reset", "pre"}

LEMMA CallReady ==
    ASSUME NEW kind \in CallKinds, NEW pnl \in Int, NEW equity \in Int
    PROVE  Ready(Call(kind, pnl, equity)) /\ Call(kind, pnl, equity).kind = kind
<1>1. PICK c : c = Call(kind, pnl, equity)
  OBVIOUS
<1>2. /\ IsCall(c) /\ c.kind = kind /\ c.todo = Program(kind) /\ c.pnl = pnl
      /\ c.equity = equity /\ ~c.owes
  BY <1>1 DEF Call, Idle, IsCall, IsRecord, CallFields
<1>3. Program(kind) \in Todos
  BY DEF Program, Todos, DueTodos, CheckTodos, SaveTodos, CallKinds
<1>5. Program(kind) \in SaveTodos => kind \in {"fill", "close", "mt5"}
  BY DEF Program, SaveTodos, CallKinds
<1>4. Service(c) => Program(kind) \in DueTodos
  BY <1>2 DEF Service, Program, DueTodos, CallKinds
<1> QED
  BY <1>1, <1>2, <1>3, <1>4, <1>5 DEF Ready

LEMMA StartBreach ==
    ASSUME RiskShapes, BreachInv, NEW t \in Tasks, NEW kind \in CallKinds,
           NEW pnl \in Int, NEW equity \in Int, Start(t, Call(kind, pnl, equity)),
           tracker # NoTracker => tracker' # NoTracker,
           kind \in {"fill", "close"} => tracker' # NoTracker,
           tracker' # NoTracker => Trackers(tracker')
    PROVE  BreachInv'
<1>1. PICK k : k = Call(kind, pnl, equity)
  OBVIOUS
<1>2. Ready(k) /\ k.kind = kind
  BY <1>1, CallReady
<1>3. Continue(t, k, queue) /\ UNCHANGED <<stored, balance>>
  BY <1>1 DEF Start
<1>4. Rests(t, k)
  BY <1>2, <1>3, ContinueRests DEF BreachInv
<1> QED
  BY <1>2, <1>3, <1>4, BreachMoves DEF BreachInv

(* The calls that begin. *)
LEMMA StartsBreach ==
    ASSUME RiskShapes, BreachInv, NEW t \in Tasks,
           \/ TradeExecuted(t) \/ Tick(t) \/ ClosePosition(t) \/ EquityUpdate(t)
           \/ TradeCompleted(t) \/ CheckPreTrade(t) \/ Mt5BalanceUpdate(t) \/ DailyReset(t)
    PROVE  BreachInv'
<1>1. /\ balance \in Int /\ (tracker # NoTracker => Trackers(tracker)) /\ 0 \in Int
      /\ StartBalance \in Int
  BY RiskBounds DEF BreachInv
<1>2. CASE TradeExecuted(t)
  <2>1. PICK p \in Positions :
           /\ tracker' = OnTradeExecuted(GetOrCreateTracker, p)
           /\ Start(t, Call("fill", 0, tracker'.eq))
    BY <1>2 DEF TradeExecuted
  <2>2. Trackers(tracker')
    BY <1>1, <2>1, FirstTrackerFacts, TrackerFacts
  <2>3. tracker' # NoTracker /\ tracker'.eq \in Int /\ "fill" \in CallKinds
    BY <2>2, TrackerFacts DEF Trackers, CallKinds
  <2> QED
    BY <1>1, <2>1, <2>2, <2>3, StartBreach
<1>3. CASE Tick(t)
  <2>1. PICK mark \in [Positions -> Marks] :
           /\ tracker # NoTracker /\ tracker' = OnTick(tracker, mark)
           /\ Start(t, Call("tick", 0, tracker'.eq))
    BY <1>3 DEF Tick
  <2>2. Trackers(tracker')
    BY <1>1, <2>1, TrackerFacts
  <2>3. tracker' # NoTracker /\ tracker'.eq \in Int /\ "tick" \in CallKinds
    BY <2>2, TrackerFacts DEF Trackers, CallKinds
  <2> QED
    BY <1>1, <2>1, <2>2, <2>3, StartBreach
<1>4. CASE ClosePosition(t)
  <2>1. PICK p \in DOMAIN tracker.pos, pnl \in Results :
           /\ tracker # NoTracker /\ tracker' = OnPositionClosed(tracker, p, pnl)
           /\ Start(t, Call("close", pnl, 0))
    BY <1>4 DEF ClosePosition
  <2>2. pnl \in Int
    BY RiskAmounts
  <2>3. Trackers(tracker')
    BY <1>1, <2>1, <2>2, TrackerFacts
  <2>4. tracker' # NoTracker /\ "close" \in CallKinds
    BY <2>3, TrackerFacts DEF CallKinds
  <2> QED
    BY <1>1, <2>1, <2>2, <2>3, <2>4, StartBreach
<1>5. CASE EquityUpdate(t)
  <2>1. PICK e \in Equities : Start(t, Call("equity", 0, e)) /\ tracker' = tracker
    BY <1>5 DEF EquityUpdate
  <2>2. e \in Int /\ "equity" \in CallKinds
    BY RiskAmounts DEF CallKinds
  <2> QED
    BY <1>1, <2>1, <2>2, StartBreach
<1>6. CASE TradeCompleted(t)
  <2>1. PICK r \in Results : Start(t, Call("trade", r, 0)) /\ tracker' = tracker
    BY <1>6 DEF TradeCompleted
  <2>2. r \in Int /\ "trade" \in CallKinds
    BY RiskAmounts DEF CallKinds
  <2> QED
    BY <1>1, <2>1, <2>2, StartBreach
<1>7. CASE CheckPreTrade(t)
  <2>1. Start(t, Call("pre", 0, 0)) /\ tracker' = tracker
    BY <1>7 DEF CheckPreTrade
  <2>2. "pre" \in CallKinds
    BY DEF CallKinds
  <2> QED
    BY <1>1, <2>1, <2>2, StartBreach
<1>8. CASE Mt5BalanceUpdate(t)
  <2>1. PICK e \in Equities : Start(t, Call("mt5", 0, e)) /\ tracker' = tracker
    BY <1>8 DEF Mt5BalanceUpdate
  <2>2. e \in Int /\ "mt5" \in CallKinds
    BY RiskAmounts DEF CallKinds
  <2> QED
    BY <1>1, <2>1, <2>2, StartBreach
<1>9. CASE DailyReset(t)
  <2>1. /\ tracker' = IF tracker = NoTracker THEN tracker
                      ELSE [tracker EXCEPT !.day = 0, !.bal = StartBalance]
        /\ Start(t, Call("reset", 0, StartBalance))
    BY <1>9 DEF DailyReset
  <2>2. tracker # NoTracker => Trackers(tracker')
    BY <1>1, <2>1, TrackerFacts
  <2>3. tracker # NoTracker => tracker' # NoTracker
    BY <2>2, TrackerFacts
  <2>4. tracker' # NoTracker => Trackers(tracker')
    BY <2>1, <2>2
  <2>5. "reset" \in CallKinds /\ "reset" \notin {"fill", "close"}
    BY DEF CallKinds
  <2> QED
    BY <1>1, <2>1, <2>3, <2>4, <2>5, StartBreach
<1> QED
  BY <1>2, <1>3, <1>4, <1>5, <1>6, <1>7, <1>8, <1>9

(* A call in progress that runs on from an await other than a write. *)
LEMMA InProgressReady ==
    ASSUME BreachInv, NEW t \in Tasks, task[t].at \in {"loaded", "queued", "saving"}
    PROVE  Ready(task[t]) /\ ~task[t].owes /\ task[t].todo # <<>>
BY DEF BreachInv, Amounted, Owing, Ready

LEMMA AwaitsBreach ==
    ASSUME RiskInv, BreachInv, NEW t \in Tasks, Await(t) \/ WriteFails(t)
    PROVE  BreachInv'
<1>0. RiskShapes /\ IsCall(task[t]) /\ Amounted(task[t]) /\ Owing(task[t])
      /\ balance \in Int /\ (tracker # NoTracker => Trackers(tracker))
      /\ (mem # NoState => mem \in Amounts) /\ (stored # NoState => stored \in Amounts)
  BY DEF BreachInv, RiskInv, Amounted
<1>1. ASSUME NEW c, IsCall(c), task' = [task EXCEPT ![t] = c], Amounted(c), Owing(c),
             c.kind \in {task[t].kind, "none"}, mem' = mem
      PROVE  Rests(t, task[t])
  <2>1. OnlyTask(t) /\ task'[t] = c
    BY <1>0, <1>1, TaskMoves
  <2> QED
    BY <1>0, <1>1, <2>1 DEF Rests
<1>2. ASSUME Rests(t, task[t]), UNCHANGED <<tracker, stored, balance>> PROVE BreachInv'
  BY <1>0, <1>2, BreachMoves DEF BreachInv
<1>3. CASE LoadReads(t)
  <2>0. FreshState \in Amounts
    BY DEF FreshState, Amounts
  <2>1. PICK s : s = FromDict(stored) /\ s \in Amounts
    BY <1>0, <2>0 DEF FromDict
  <2>2. PICK c : c = [task[t] EXCEPT !.at = "loaded", !.seen = s]
    OBVIOUS
  <2>3. task' = [task EXCEPT ![t] = c] /\ UNCHANGED <<mem, tracker, stored, balance>>
        /\ task[t].at = "loading"
    BY <1>3, <2>1, <2>2 DEF LoadReads
  <2>4. /\ IsCall(c) /\ c.at = "loaded" /\ c.seen = s /\ c.owes = task[t].owes
        /\ c.kind = task[t].kind /\ c.todo = task[t].todo /\ c.pnl = task[t].pnl
        /\ c.equity = task[t].equity
    BY <1>0, <2>2 DEF IsCall, IsRecord, CallFields
  <2>5. Service(c) <=> Service(task[t])
    BY <2>4 DEF Service
  <2>6. Amounted(c) /\ Owing(c)
    BY <1>0, <2>1, <2>3, <2>4, <2>5 DEF Amounted, Owing
  <2> QED
    BY <1>1, <1>2, <2>3, <2>4, <2>6
<1>4. CASE Register(t)
  <2>1. /\ WithManager(t, task[t], task[t].seen) /\ UNCHANGED <<tracker, stored, balance>>
        /\ task[t].at = "loaded"
    BY <1>4 DEF Register
  <2>2. task[t].seen \in Amounts /\ Ready(task[t]) /\ task[t].todo # <<>>
    BY <1>0, <2>1, InProgressReady DEF Amounted
  <2> QED
    BY <1>0, <1>2, <2>1, <2>2, WithManagerRests
<1>5. CASE Woken(t)
  <2>1. /\ GetOrCreate(t, task[t], mem, queue) /\ UNCHANGED <<tracker, stored, balance>>
        /\ task[t].at = "queued"
    BY <1>5 DEF Woken, Start
  <2> QED
    BY <1>0, <1>2, <2>1, InProgressReady, GetOrCreateRests
<1>6. CASE Written(t)
  <2>1. PICK k : k = [task[t] EXCEPT !.todo = Tail(task[t].todo), !.seen = NoState]
    OBVIOUS
  <2>2. /\ task[t].at = "writing" /\ stored' = task[t].seen
        /\ Continue(t, k, Release(t)) /\ UNCHANGED <<tracker, balance>>
    BY <1>6, <2>1 DEF Written
  <2>3. /\ IsCall(k) /\ k.owes = task[t].owes /\ k.kind = task[t].kind
        /\ k.todo = Tail(task[t].todo) /\ k.pnl = task[t].pnl /\ k.equity = task[t].equity
    BY <1>0, <2>1 DEF IsCall, IsRecord, CallFields
  <2>4. Service(k) <=> Service(task[t])
    BY <2>3 DEF Service
  <2>5. k.todo \in Todos /\ (Service(k) => k.todo \in CheckTodos)
    BY <1>0, <2>2, <2>3, <2>4, TodoFacts DEF Amounted
  <2>6. k.owes => Service(k)
    BY <1>0, <2>3, <2>4 DEF Owing
  <2>12. k.todo \in SaveTodos => k.kind \in {"fill", "close", "mt5"}
    BY <1>0, <2>2, <2>3, TodoFacts DEF Amounted
  <2>7. mem # NoState
    BY <2>2 DEF RiskInv, NothingWritten
  <2>8. Ready(k)
    BY <1>0, <2>3, <2>5, <2>6, <2>7, <2>12 DEF Ready, Amounted
  <2>9. Rests(t, k)
    BY <1>0, <2>2, <2>8, ContinueRests
  <2>10. Rests(t, task[t])
    BY <2>3, <2>9 DEF Rests
  <2>11. stored' \in Amounts
    BY <1>0, <2>2 DEF Amounted
  <2> QED
    BY <1>0, <2>2, <2>10, <2>11, BreachMoves DEF BreachInv
<1>7. CASE WriteFails(t)
  <2>1. task' = [task EXCEPT ![t] = Idle] /\ UNCHANGED <<mem, tracker, stored, balance>>
    BY <1>7 DEF WriteFails
  <2> QED
    BY <1>1, <1>2, <2>1, IdleFacts, IdleAmounted
<1>8. CASE Saved(t)
  <2>1. PICK tr : tr = IF task[t].kind = "close" THEN RecalculateEquity(tracker) ELSE tracker
    OBVIOUS
  <2>2. PICK e : e = IF task[t].kind = "close" THEN tr.eq ELSE task[t].equity
    OBVIOUS
  <2>3. PICK k : k = [task[t] EXCEPT !.todo = Tail(task[t].todo), !.equity = e]
    OBVIOUS
  <2>4. /\ task[t].at = "saving" /\ tracker' = tr /\ UNCHANGED stored
        /\ balance' = IF task[t].kind = "mt5" THEN task[t].equity ELSE tracker.bal
        /\ Continue(t, k, queue)
    BY <1>8, <2>1, <2>2, <2>3 DEF Saved
  <2>5. /\ task[t].kind \in {"fill", "close", "mt5"} /\ Ready(task[t]) /\ ~task[t].owes
        /\ task[t].todo \in SaveTodos /\ task[t].todo # <<>>
    BY <1>0, <2>4, InProgressReady DEF Amounted
  <2>6. task[t].kind \in {"fill", "close"} => tracker # NoTracker /\ Trackers(tracker)
    BY <1>0 DEF BreachInv
  <2>7. tracker # NoTracker => Trackers(tr) /\ tr # NoTracker
    BY <1>0, <2>1, TrackerFacts
  <2>8. e \in Int /\ balance' \in Int
    BY <1>0, <2>2, <2>4, <2>5, <2>6, <2>7 DEF Trackers, Ready
  <2>9. tracker' # NoTracker => Trackers(tracker')
    BY <2>1, <2>4, <2>6, <2>7
  <2>10. /\ IsCall(k) /\ k.owes = task[t].owes /\ k.kind = task[t].kind
         /\ k.todo = Tail(task[t].todo) /\ k.pnl = task[t].pnl /\ k.equity = e
    BY <1>0, <2>3 DEF IsCall, IsRecord, CallFields
  <2>11. ~Service(k)
    BY <2>5, <2>10 DEF Service
  <2>12. Ready(k)
    <3>1. k.todo \in Todos
      BY <1>0, <2>5, <2>10, TodoFacts DEF Amounted
    <3> QED
      BY <2>5, <2>8, <2>10, <2>11, <3>1 DEF Ready
  <2>13. Rests(t, k)
    BY <1>0, <2>4, <2>12, ContinueRests
  <2> QED
    BY <1>0, <2>4, <2>6, <2>7, <2>8, <2>9, <2>10, <2>13, BreachMoves DEF BreachInv
<1>9. CASE Pause(t)
  <2>1. PICK c : c = [task[t] EXCEPT !.at = "recording", !.owes = FALSE]
    OBVIOUS
  <2>2. /\ task' = [task EXCEPT ![t] = c] \/ task' = [task EXCEPT ![t] = Idle]
        /\ UNCHANGED <<mem, tracker, stored, balance>> /\ task[t].at = "pausing"
    BY <1>9, <2>1 DEF Pause
  <2>3. /\ IsCall(c) /\ c.at = "recording" /\ ~c.owes
        /\ c.kind = task[t].kind /\ c.todo = task[t].todo /\ c.pnl = task[t].pnl
        /\ c.equity = task[t].equity
    BY <1>0, <2>1 DEF IsCall, IsRecord, CallFields
  <2>4. Service(c) <=> Service(task[t])
    BY <2>3 DEF Service
  <2>5. Amounted(c) /\ Owing(c)
    BY <1>0, <2>2, <2>3, <2>4 DEF Amounted, Owing
  <2> QED
    BY <1>1, <1>2, <2>2, <2>3, <2>5, IdleFacts, IdleAmounted
<1>10. CASE RecordViolation(t)
  <2>1. task' = [task EXCEPT ![t] = Idle] /\ UNCHANGED <<mem, tracker, stored, balance>>
    BY <1>10 DEF RecordViolation
  <2> QED
    BY <1>1, <1>2, <2>1, IdleFacts, IdleAmounted
<1> QED
  BY <1>3, <1>4, <1>5, <1>6, <1>7, <1>8, <1>9, <1>10 DEF Await

LEMMA BreachInitInv == RiskInit => BreachInv
<1> SUFFICES ASSUME RiskInit PROVE BreachInv
  OBVIOUS
<1>1. \A t \in Tasks : task[t] = Idle
  BY DEF RiskInit
<1>2. [FreshState EXCEPT !.start = StartBalance] \in Amounts
  BY RiskBounds DEF FreshState, Amounts
<1>3. mem = NoState /\ tracker = NoTracker /\ balance \in Int
      /\ stored \in {NoState, [FreshState EXCEPT !.start = StartBalance]}
  BY RiskBounds DEF RiskInit
<1> QED
  BY <1>1, <1>2, <1>3, IdleAmounted DEF BreachInv

LEMMA BreachNextInv == RiskInv /\ BreachInv /\ [RiskNext]_riskVars => BreachInv'
<1> SUFFICES ASSUME RiskInv, BreachInv, [RiskNext]_riskVars PROVE BreachInv'
  OBVIOUS
<1>1. RiskShapes
  BY DEF RiskInv
<1>2. ASSUME UNCHANGED <<task, mem, stored, tracker, balance>> PROVE BreachInv'
  BY <1>2 DEF BreachInv
<1>3. CASE Resume \/ UNCHANGED riskVars
  BY <1>2, <1>3 DEF Resume, riskVars
<1>4. CASE Crash
  <2>1. /\ \A t \in Tasks : task'[t] = Idle
        /\ mem' = NoState /\ tracker' = NoTracker /\ UNCHANGED <<stored, balance>>
    BY <1>4 DEF Crash
  <2> QED
    BY <2>1, IdleAmounted DEF BreachInv
<1>5. ASSUME NEW t \in Tasks,
             \/ TradeExecuted(t) \/ Tick(t) \/ ClosePosition(t) \/ EquityUpdate(t)
             \/ TradeCompleted(t) \/ CheckPreTrade(t) \/ Mt5BalanceUpdate(t) \/ DailyReset(t)
      PROVE  BreachInv'
  BY <1>1, <1>5, StartsBreach
<1>6. ASSUME NEW t \in Tasks, Await(t) \/ WriteFails(t) PROVE BreachInv'
  BY <1>6, AwaitsBreach
<1> QED
  BY <1>3, <1>4, <1>5, <1>6 DEF RiskNext

LEMMA BreachInvHandles == BreachInv => BreachHandled
<1> SUFFICES ASSUME BreachInv PROVE BreachNoticed /\ BreachBlocks
  BY DEF BreachHandled
<1>1. BreachNoticed
  BY DEF BreachInv, Owing, BreachNoticed
<1>2. BreachBlocks
  BY BreachIsBlocked DEF BreachInv, BreachBlocks
<1> QED
  BY <1>1, <1>2

(* A breach of the daily loss limit or of the drawdown limit is acted on by   *)
(* the call of RiskIsolationService that brings it about, and while it lasts  *)
(* every order that is validated is blocked, whatever the limits, the trades, *)
(* the marks and the calls that overlap.                                      *)
THEOREM BreachIsHandled == RiskSpec => []BreachHandled
<1>1. RiskInit => RiskInv /\ BreachInv
  BY RiskInitInv, BreachInitInv
<1>2. RiskInv /\ BreachInv /\ [RiskNext]_riskVars => RiskInv' /\ BreachInv'
  BY RiskNextInv, BreachNextInv
<1>3. BreachInv => BreachHandled
  BY BreachInvHandles
<1> QED
  BY <1>1, <1>2, <1>3, PTL DEF RiskSpec

-----------------------------------------------------------------------------
(* What the rules decide.  The engine's part is above.  The calendar's:     *)
(* sorted by start, the events before a bound are an initial segment of the *)
(* index, which is what the binary searches count.  The overrides': of each *)
(* type with a guarded field, what blocks at a limit blocks at a lower one. *)

(* The index holds the events it is given, in order of their start. *)
InOrder(index, events, n) ==
    /\ DOMAIN index = 1..n
    /\ \A k \in 1..n : \E i \in 1..n : index[k] = events[i]
    /\ \A i \in 1..n : \E k \in 1..n : index[k] = events[i]
    /\ \A k, l \in 1..n : k < l => index[k].start <= index[l].start

LEMMA EventIndexSorts ==
    ASSUME NEW n \in Nat, NEW events, DOMAIN events = 1..n, \A i \in 1..n : events[i].start \in Int
    PROVE  InOrder(EventIndex(events), events, n)
<1>1. PICK rank : rank = [i \in 1..n |-> events[i].start]
  OBVIOUS
<1>2. \A i \in 1..n : rank[i] = events[i].start /\ rank[i] \in Int
  BY <1>1
<1>3. PICK before : before = [i \in 1..n |->
         {j \in 1..n : \/ events[j].start < events[i].start
                       \/ events[j].start = events[i].start /\ j < i}]
  OBVIOUS
<1>4. PICK at : at = [k \in 1..n |-> CHOOSE i \in 1..n :
               Cardinality({j \in 1..n : \/ events[j].start < events[i].start
                                         \/ events[j].start = events[i].start /\ j < i}) + 1 = k]
  OBVIOUS
<1>5. PICK s : s = EventIndex(events)
  OBVIOUS
<1>6. DOMAIN s = 1..n /\ \A k \in 1..n : s[k] = events[at[k]]
  BY <1>4, <1>5 DEF EventIndex
<1>7. \A i \in 1..n :
          Cardinality({j \in 1..n : \/ events[j].start < events[i].start
                                    \/ events[j].start = events[i].start /\ j < i})
              = Cardinality(before[i])
  BY <1>3
<1>8. PlacedBy(n, rank, before, at)
  <2>1. \A i \in 1..n : rank[i] \in Int /\ before[i] \in SUBSET (1..n)
    BY <1>2, <1>3
  <2>2. \A i, j \in 1..n :
           j \in before[i] <=> rank[j] < rank[i] \/ (rank[j] = rank[i] /\ j < i)
    BY <1>2, <1>3
  <2>3. \A k \in 1..n : (\E i \in 1..n : Cardinality(before[i]) + 1 = k) =>
           at[k] \in 1..n /\ Cardinality(before[at[k]]) + 1 = k
    BY <1>4, <1>7
  <2> QED
    BY <2>1, <2>2, <2>3 DEF PlacedBy
<1>9. Ordered(n, rank, at)
  BY <1>8, StableSort
<1>10. \A k, l \in 1..n : k < l => s[k].start <= s[l].start
  <2> SUFFICES ASSUME NEW k \in 1..n, NEW l \in 1..n, k < l PROVE s[k].start <= s[l].start
    OBVIOUS
  <2>1. at[k] \in 1..n /\ at[l] \in 1..n /\ rank[at[k]] <= rank[at[l]]
    BY <1>9 DEF Ordered
  <2>2. s[k].start = rank[at[k]] /\ s[l].start = rank[at[l]]
    BY <1>2, <1>6, <2>1
  <2> QED
    BY <2>1, <2>2
<1>11. \A k \in 1..n : \E i \in 1..n : s[k] = events[i]
  BY <1>6, <1>9 DEF Ordered
<1>12. \A i \in 1..n : \E k \in 1..n : s[k] = events[i]
  <2> SUFFICES ASSUME NEW i \in 1..n PROVE \E k \in 1..n : s[k] = events[i]
    OBVIOUS
  <2>1. PICK k \in 1..n : at[k] = i
    BY <1>9 DEF Ordered
  <2>2. s[k] = events[i]
    BY <1>6, <2>1
  <2> QED
    BY <2>2
<1> QED
  BY <1>5, <1>6, <1>10, <1>11, <1>12 DEF InOrder

(* A down-closed set of places is an initial segment.                         *)
LEMMA InitialSegment ==
    ASSUME NEW n \in Nat, NEW S \in SUBSET (1..n),
           \A i, j \in 1..n : j \in S /\ i < j => i \in S
    PROVE  Cardinality(S) \in 0..n /\ \A i \in 1..n : i \in S <=> i <= Cardinality(S)
<1>1. CASE S = {}
  <2>1. Cardinality(S) = 0
    BY <1>1, FS_EmptySet
  <2> QED
    BY <1>1, <2>1
<1>2. CASE S # {}
  <2>1. PICK m : m = Max(S)
    OBVIOUS
  <2>2. m \in S /\ \A i \in S : i <= m
    BY <1>2, <2>1, GreatestNatural
  <2>3. S = 1..m /\ m \in 1..n
    <3>1. m \in 1..n
      BY <2>2
    <3>2. \A i \in S : i \in 1..m
      BY <2>2, <3>1
    <3>3. \A i \in 1..m : i \in S
      BY <2>2, <3>1
    <3> QED
      BY <3>1, <3>2, <3>3
  <2>4. 1 \in Int /\ m \in Int /\ ~(1 > m)
    BY <2>3
  <2>5. Cardinality(S) = m
    <3>1. Cardinality(1..m) = IF 1 > m THEN 0 ELSE m - 1 + 1
      BY ONLY <2>4, FS_Interval
    <3> QED
      BY <2>3, <2>4, <3>1
  <2> QED
    BY <2>3, <2>5
<1> QED
  BY <1>1, <1>2

(* The two binary searches cut out of the index what starts in the window.    *)
LEMMA BisectCuts ==
    ASSUME NEW n \in Nat, NEW index, NEW events, InOrder(index, events, n),
           \A i \in 1..n : events[i].start \in Int,
           NEW a \in Int, NEW b \in Int
    PROVE  /\ BisectLeft(index, a) \in 0..n /\ BisectRight(index, b) \in 0..n
           /\ \A i \in 1..n :
                /\ i > BisectLeft(index, a) <=> a <= index[i].start
                /\ i <= BisectRight(index, b) <=> index[i].start <= b
<1>1. DOMAIN index = 1..n /\ \A i \in 1..n : index[i].start \in Int
  BY DEF InOrder
<1>2. \A i, j \in 1..n : i < j => index[i].start <= index[j].start
  BY DEF InOrder
<1>3. PICK L : L = {i \in 1..n : index[i].start < a}
  OBVIOUS
<1>4. PICK R : R = {i \in 1..n : index[i].start <= b}
  OBVIOUS
<1>5. Cardinality(L) = BisectLeft(index, a) /\ Cardinality(R) = BisectRight(index, b)
  BY <1>1, <1>3, <1>4 DEF BisectLeft, BisectRight
<1>6. Cardinality(L) \in 0..n /\ \A i \in 1..n : i \in L <=> i <= Cardinality(L)
  <2>1. L \in SUBSET (1..n)
    BY <1>3
  <2>2. \A i, j \in 1..n : j \in L /\ i < j => i \in L
    BY <1>1, <1>2, <1>3
  <2> QED
    BY ONLY n \in Nat, <2>1, <2>2, InitialSegment
<1>7. Cardinality(R) \in 0..n /\ \A i \in 1..n : i \in R <=> i <= Cardinality(R)
  <2>1. R \in SUBSET (1..n)
    BY <1>4
  <2>2. \A i, j \in 1..n : j \in R /\ i < j => i \in R
    BY <1>1, <1>2, <1>4
  <2> QED
    BY ONLY n \in Nat, <2>1, <2>2, InitialSegment
<1>8. ASSUME NEW i \in 1..n
      PROVE  /\ i > BisectLeft(index, a) <=> a <= index[i].start
             /\ i <= BisectRight(index, b) <=> index[i].start <= b
  <2>1. PICK x \in Int : x = index[i].start
    BY <1>1
  <2>2. PICK p \in Int, q \in Int : p = Cardinality(L) /\ q = Cardinality(R)
    BY <1>6, <1>7
  <2>3. i <= p <=> x < a
    BY <1>3, <1>6, <2>1, <2>2
  <2>4. i <= q <=> x <= b
    BY <1>4, <1>7, <2>1, <2>2
  <2>5. i \in Int /\ (i > p <=> a <= x)
    BY ONLY i \in 1..n, n \in Nat, p \in Int, x \in Int, a \in Int, <2>3
  <2> QED
    BY <1>5, <2>1, <2>2, <2>4, <2>5
<1> QED
  BY <1>5, <1>6, <1>7, <1>8

(* The window in the index is the window among the events.                    *)
InWindow(events, now, before, after, levels, symbol) ==
    {e \in ToSet(events) : /\ e.start - before <= now /\ now <= e.start + after
                           /\ e.impact \in levels
                           /\ symbol = <<>> \/ AffectsSymbol(e, symbol)}

LEMMA WindowIsExact ==
    ASSUME NEW n \in Nat, NEW events, DOMAIN events = 1..n,
           \A i \in 1..n : events[i].start \in Int,
           NEW now \in Int, NEW before \in Int, NEW after \in Int, NEW levels, NEW symbol
    PROVE  ActiveEventsAt(EventIndex(events), now, before, after, levels, symbol)
               = InWindow(events, now, before, after, levels, symbol)
<1>1. PICK index : index = EventIndex(events)
  OBVIOUS
<1>2. InOrder(index, events, n)
  BY <1>1, EventIndexSorts
<1>3. PICK lo, hi : lo = BisectLeft(index, now - after) /\ hi = BisectRight(index, now + before)
  OBVIOUS
<1>4. /\ lo \in 0..n /\ hi \in 0..n
      /\ \A i \in 1..n : /\ i > lo <=> now - after <= index[i].start
                         /\ i <= hi <=> index[i].start <= now + before
  <2>1. PICK a \in Int, b \in Int : a = now - after /\ b = now + before
    OBVIOUS
  <2>2. /\ BisectLeft(index, a) \in 0..n /\ BisectRight(index, b) \in 0..n
        /\ \A i \in 1..n :
             /\ i > BisectLeft(index, a) <=> a <= index[i].start
             /\ i <= BisectRight(index, b) <=> index[i].start <= b
    BY <1>2, BisectCuts
  <2> QED
    BY <1>3, <2>1, <2>2
<1>5. PICK W : W = {index[i] : i \in lo + 1..hi}
  OBVIOUS
<1>6. PICK E : E = {events[i] : i \in 1..n}
  OBVIOUS
<1>7. \A e \in E : e.start \in Int
  BY <1>6
<1>8. \A e \in W : e \in E /\ e.start - before <= now /\ now <= e.start + after
  <2> SUFFICES ASSUME NEW i \in lo + 1..hi
               PROVE  /\ index[i] \in E /\ index[i].start - before <= now
                      /\ now <= index[i].start + after
    BY <1>5
  <2>1. i \in 1..n /\ i > lo /\ i <= hi
    BY <1>4
  <2>2. index[i] \in E
    BY <1>2, <1>6, <2>1 DEF InOrder
  <2>3. index[i].start \in Int /\ now - after <= index[i].start /\ index[i].start <= now + before
    BY <1>4, <1>7, <2>1, <2>2
  <2> QED
    BY <2>2, <2>3
<1>9. ASSUME NEW e \in E, e.start - before <= now, now <= e.start + after PROVE e \in W
  <2>1. PICK k \in 1..n : index[k] = e
    BY <1>2, <1>6 DEF InOrder
  <2>2. now - after <= e.start /\ e.start <= now + before
    BY <1>7, <1>9
  <2>3. k > lo /\ k <= hi
    BY <1>4, <2>1, <2>2
  <2>4. k \in lo + 1..hi
    BY <1>4, <2>3
  <2> QED
    BY <1>5, <2>1, <2>4
<1>10. ActiveEventsAt(index, now, before, after, levels, symbol)
           = {e \in W : e.impact \in levels /\ (symbol = <<>> \/ AffectsSymbol(e, symbol))}
  BY <1>3, <1>5 DEF ActiveEventsAt
<1>11. ToSet(events) = E
  BY <1>6 DEF ToSet
<1> QED
  BY <1>1, <1>8, <1>9, <1>10, <1>11 DEF InWindow

LEMMA BlackoutIsExact == input \in Inputs => BlackoutExact
<1> SUFFICES ASSUME input \in Inputs, input.what = "calendar" PROVE BlackoutExact
  BY DEF BlackoutExact
<1>1. /\ input.events \in [1..2 -> SampleEvents]
      /\ input.now \in Times /\ input.before \in Times /\ input.after \in Times
  BY DEF Inputs
<1>2. PICK events : events = input.events
  OBVIOUS
<1>3. PICK now \in Int, before \in Int, after \in Int :
          now = input.now /\ before = input.before /\ after = input.after
  BY <1>1, RuleSamples
<1>4. DOMAIN events = 1..2 /\ \A i \in 1..2 : events[i].start \in Int
  BY <1>1, <1>2, RuleSamples
<1>5. PICK symbol : symbol = input.symbol
  OBVIOUS
<1>6. ActiveEventsAt(EventIndex(events), now, before, after, {"high"}, symbol)
          = {e \in ToSet(events) : /\ e.start - before <= now /\ now <= e.start + after
                                   /\ e.impact \in {"high"}
                                   /\ symbol = <<>> \/ AffectsSymbol(e, symbol)}
  <2>1. PICK n \in Nat : n = 2
    OBVIOUS
  <2>4. DOMAIN events = 1..n /\ \A i \in 1..n : events[i].start \in Int
    BY <1>4, <2>1
  <2>2. PICK levels : levels = {"high"}
    OBVIOUS
  <2>3. ActiveEventsAt(EventIndex(events), now, before, after, levels, symbol)
            = InWindow(events, now, before, after, levels, symbol)
    BY ONLY <2>4, n \in Nat, now \in Int, before \in Int, after \in Int, WindowIsExact
  <2> QED
    BY <2>2, <2>3 DEF InWindow
<1>7. \A e : AffectsSymbol(e, symbol) <=>
               \/ e.symbols = {} /\ e.country \in ToSet(symbol)
               \/ symbol \in e.symbols
  BY DEF AffectsSymbol, ToSet
<1> QED
  BY <1>2, <1>3, <1>5, <1>6, <1>7 DEF BlackoutExact

LEMMA EngineIsSound == input \in Inputs => EngineSound
<1> SUFFICES ASSUME input \in Inputs, input.what = "engine" PROVE EngineSound
  BY DEF EngineSound
<1>1. input.rules \in [1..3 -> SampleRules] /\ input.strict \in BOOLEAN
  BY DEF Inputs
<1>2. PICK rules : rules = input.rules
  OBVIOUS
<1>3. PICK strict \in BOOLEAN : strict = input.strict
  BY <1>1
<1>4. PICK ctx : ctx = input.ctx
  OBVIOUS
<1>5. DOMAIN rules = 1..3 /\ \A i \in 1..3 : rules[i].type # "none"
  BY <1>1, <1>2, RuleSamples
<1>6. PICK d : d = EngineValidate(rules, ctx, strict, FALSE)
  OBVIOUS
<1>7. Judged(d, rules, 3, ctx, strict)
  BY <1>5, <1>6, EngineJudges
<1>8. PICK T : T = ToSet(rules)
  OBVIOUS
<1>9. \A r : r \in T <=> \E i \in 1..3 : r = rules[i]
  BY <1>5, <1>8 DEF ToSet
<1>10. PICK blockers : blockers = {r \in T : Blocks(r, ctx, strict)}
  OBVIOUS
<1>11. d.action = "block" <=> blockers # {}
  BY <1>7, <1>9, <1>10 DEF Judged
<1>12. blockers # {} => \E r \in blockers :
          d.blockedBy = r.type /\ \A s \in blockers : Priority(r) <= Priority(s)
  BY <1>7, <1>9, <1>10, <1>11 DEF Judged
<1>13. blockers = {} => (d.action = "warn" <=> \E r \in T : Validate(r, ctx) = "warn")
  BY <1>7, <1>9, <1>11 DEF Judged
<1> QED
  BY <1>2, <1>3, <1>4, <1>6, <1>8, <1>10, <1>11, <1>12, <1>13 DEF EngineSound

(* The sum of the profitable days. *)
Prior(profits) == FoldSeq(AddProfit, 0, profits)

LEMMA PriorIsInt ==
    ASSUME NEW profits \in Seq(Int)
    PROVE  Prior(profits) \in Int
<1>1. PICK N : N = DOMAIN profits
  OBVIOUS
<1>2. IsFiniteSet(N) /\ \A i \in N : profits[i] \in Int
  <2>1. PICK n \in Nat : N = 1..n /\ \A i \in 1..n : profits[i] \in Int
    BY <1>1
  <2>2. 1 \in Int /\ n \in Int
    OBVIOUS
  <2>3. IsFiniteSet(1..n)
    BY ONLY <2>2, FS_Interval
  <2> QED
    BY <2>1, <2>3
<1>3. PICK c : c = [I \in SUBSET N |-> CHOOSE x \in I : TRUE]
  OBVIOUS
<1>4. \A I \in SUBSET N : c[I] = (CHOOSE x \in I : TRUE) /\ (I # {} => c[I] \in I)
  <2> SUFFICES ASSUME NEW I \in SUBSET N
               PROVE  c[I] = (CHOOSE x \in I : TRUE) /\ (I # {} => c[I] \in I)
    OBVIOUS
  <2>1. c[I] = CHOOSE x \in I : TRUE
    BY <1>3
  <2>2. I # {} => (CHOOSE x \in I : TRUE) \in I
    OBVIOUS
  <2> QED
    BY <2>1, <2>2
<1>5. PICK next : next = [p \in Int \X N |-> AddProfit(profits[p[2]], p[1])]
  OBVIOUS
<1>6. \A a \in Int, i \in N : next[<<a, i>>] = AddProfit(profits[i], a) /\ next[<<a, i>>] \in Int
  BY <1>2, <1>5 DEF AddProfit
<1>7. PICK it \in [SUBSET N -> Int] : FoldEquation(it, N, 0, next, c)
  <2>1. IsFiniteSet(N) /\ 0 \in Int /\ (\A I \in SUBSET N : I # {} => c[I] \in I)
        /\ \A a \in Int, i \in N : next[<<a, i>>] \in Int
    BY <1>2, <1>4, <1>6
  <2> QED
    BY ONLY <2>1, FoldExists
<1> DEFINE Equation(all) ==
              all = [I \in SUBSET N |->
                      IF I = {} THEN 0
                      ELSE AddProfit(profits[CHOOSE x \in I : TRUE], all[I \ {CHOOSE x \in I : TRUE}])]
<1>8. \E all : Equation(all)
  <2>1. ASSUME NEW I \in SUBSET N, I # {}
        PROVE  it[I] = AddProfit(profits[CHOOSE x \in I : TRUE], it[I \ {CHOOSE x \in I : TRUE}])
    <3>1. c[I] \in N /\ it[I \ {c[I]}] \in Int /\ c[I] = CHOOSE x \in I : TRUE
      BY <1>4, <1>7, <2>1
    <3>2. it[I] = next[<<it[I \ {c[I]}], c[I]>>]
      BY <1>7, <2>1 DEF FoldEquation
    <3>3. it[I] = AddProfit(profits[c[I]], it[I \ {c[I]}])
      BY <1>6, <3>1, <3>2
    <3> QED
      BY <3>1, <3>3
  <2>2. it = [I \in SUBSET N |-> it[I]]
    BY <1>7
  <2>3. \A I \in SUBSET N :
            it[I] = IF I = {} THEN 0
                    ELSE AddProfit(profits[CHOOSE x \in I : TRUE], it[I \ {CHOOSE x \in I : TRUE}])
    BY <1>7, <2>1 DEF FoldEquation
  <2>4. it = [I \in SUBSET N |->
                IF I = {} THEN 0
                ELSE AddProfit(profits[CHOOSE x \in I : TRUE], it[I \ {CHOOSE x \in I : TRUE}])]
    BY <2>2, <2>3
  <2> QED
    BY <2>4
<1>9. PICK f : f = CHOOSE all : Equation(all)
  OBVIOUS
<1>10. Equation(f)
  BY <1>8, <1>9
<1>11. Prior(profits) = f[N]
  BY <1>1, <1>2, <1>9 DEF Prior, FoldSeq, FoldFunction, FoldFunctionOnSet, MapThenFoldSet
<1>12. \A I \in SUBSET N :
          f[I] = IF I = {} THEN 0
                 ELSE AddProfit(profits[CHOOSE x \in I : TRUE], f[I \ {CHOOSE x \in I : TRUE}])
  BY <1>10
<1> HIDE DEF Equation
(* Any sum over days is an integer. *)
<1>13. PICK Good : Good = {I \in SUBSET N : f[I] \in Int}
  OBVIOUS
<1>14. {} \in Good
  <2>1. {} \in SUBSET N /\ \A I \in SUBSET N : I = {} => f[I] = 0
    BY <1>12
  <2> QED
    BY <1>13, <2>1
<1>15. \A I \in SUBSET N : I # {} => c[I] \in I /\ (I \ {c[I]} \in Good => I \in Good)
  <2> SUFFICES ASSUME NEW I \in SUBSET N, I # {}, I \ {c[I]} \in Good PROVE I \in Good
    BY <1>4
  <2>1. PICK x \in I : x = c[I] /\ x = CHOOSE y \in I : TRUE
    BY <1>4
  <2>2. f[I] = AddProfit(profits[x], f[I \ {x}])
    BY <1>12, <2>1
  <2>3. f[I \ {x}] \in Int
    BY <1>13, <2>1
  <2> QED
    BY <1>2, <1>13, <2>2, <2>3 DEF AddProfit
<1>16. N \in Good
  BY <1>2, <1>14, <1>15, SubsetInduction
<1> QED
  BY <1>11, <1>13, <1>16

(* What an accepted override of a guarded field makes of a specification.     *)
Tightened(new, old, guard) ==
    /\ DOMAIN new = DOMAIN old /\ guard \in DOMAIN old
    /\ \A f \in DOMAIN old : f # guard => new[f] = old[f]
    /\ new[guard] \in Int /\ old[guard] \in Int /\ new[guard] <= old[guard]

LEMMA OverrideTightens ==
    ASSUME NEW spec, "type" \in DOMAIN spec, spec["type"] \in DOMAIN TightnessGuards,
           NEW guard, guard = TightnessGuards[spec["type"]],
           guard \in DOMAIN spec => spec[guard] \in Int,
           NEW value \in Int,
           NEW override,
           override = [t \in {spec["type"]} |-> [f \in {guard} |-> value]],
           MergeAccepted(<<spec>>, <<>>, override)
    PROVE  /\ guard # "type"
           /\ Tightened(MergeRuleOverrides(<<spec>>, <<>>, override)[1], spec, guard)
<1>1. PICK type : type = spec["type"]
  OBVIOUS
<1>2. PICK one : one = [f \in DOMAIN spec |-> spec[f]]
  OBVIOUS
<1>3. PICK none : none = <<>>
  OBVIOUS
<1>4. DOMAIN none = {}
  BY <1>3
<1>5. PICK specs : specs = <<spec>>
  OBVIOUS
<1>6. DOMAIN specs = {1} /\ specs[1] = spec
  BY <1>5
<1>7. PICK phased : phased = ApplyLayer(specs, none)
  OBVIOUS
<1>8. DOMAIN phased = {1} /\ phased[1] = one
  <2>1. phased = [i \in {1} |-> [f \in DOMAIN specs[i] |-> specs[i][f]]]
    BY <1>4, <1>6, <1>7 DEF ApplyLayer
  <2> QED
    BY <1>2, <1>6, <2>1
<1>9. LayerAccepted(phased, override, TRUE)
  BY <1>3, <1>5, <1>7 DEF MergeAccepted
<1>10. /\ DOMAIN override = {type} /\ DOMAIN override[type] = {guard}
       /\ override[type][guard] = value
  BY <1>1
<1>11. /\ one["type"] = type /\ guard # "type" /\ guard \in DOMAIN one
       /\ ~Loosens(type, guard, one[guard], value)
  BY <1>8, <1>9, <1>10 DEF LayerAccepted
<1>12. /\ guard \in DOMAIN spec /\ one[guard] = spec[guard] /\ spec[guard] \in Int
       /\ value <= spec[guard]
  <2>1. guard \in DOMAIN spec /\ one[guard] = spec[guard] /\ spec[guard] \in Int
    BY <1>2, <1>11
  <2>2. ~(value > spec[guard])
    BY <1>1, <1>11, <2>1 DEF Loosens
  <2> QED
    BY <2>1, <2>2
<1>13. PICK new : new = MergeRuleOverrides(specs, none, override)[1]
  OBVIOUS
<1>14. new = [f \in DOMAIN one |-> IF f = guard THEN value ELSE one[f]]
  <2>1. ApplyLayer(phased, override)[1]
            = [f \in DOMAIN one |-> IF type \in DOMAIN override /\ f \in DOMAIN override[type]
                                    THEN override[type][f] ELSE one[f]]
    BY <1>8, <1>11 DEF ApplyLayer
  <2>2. \A f : f \in DOMAIN override[type] <=> f = guard
    BY <1>10
  <2> QED
    BY <1>7, <1>10, <1>13, <2>1, <2>2 DEF MergeRuleOverrides
<1>15. /\ DOMAIN new = DOMAIN spec /\ new[guard] = value
       /\ \A f \in DOMAIN spec : f # guard => new[f] = spec[f]
  BY <1>2, <1>12, <1>14
<1> QED
  BY <1>3, <1>5, <1>11, <1>12, <1>13, <1>15 DEF Tightened

(* Fields other than the guarded one are read alike, the guarded one lower.   *)
LEMMA TightenedGets ==
    ASSUME NEW new, NEW old, NEW guard, Tightened(new, old, guard)
    PROVE  /\ \A f, d : f # guard => Get(new, f, d) = Get(old, f, d)
           /\ \A d : /\ Get(new, guard, d) \in Int /\ Get(old, guard, d) \in Int
                     /\ Get(new, guard, d) <= Get(old, guard, d)
BY DEF Tightened, Get

(* A share that reaches a limit reaches a lower one. *)
LEMMA LowerLimit ==
    ASSUME NEW p, p.num \in Int, p.den \in Int, p.den > 0,
           NEW x \in Int, NEW y \in Int, y <= x, AtLeast(p, x)
    PROVE  AtLeast(p, y)
<1>1. PICK n \in Int, d \in Int : n = p.num /\ d = p.den /\ d > 0 /\ n >= x * d
  BY DEF AtLeast
<1>2. y * d <= x * d
  BY <1>1
<1> QED
  BY <1>1, <1>2 DEF AtLeast

LEMMA TighterDailyLoss ==
    ASSUME NEW new, NEW old, Tightened(new, old, "threshold_percent"),
           NEW ctx, Measured(ctx),
           DailyLossLimit(NewDailyLossLimit(old), ctx) = "block"
    PROVE  DailyLossLimit(NewDailyLossLimit(new), ctx) = "block"
<1>1. PICK x \in Int, y \in Int : /\ x = Get(old, "threshold_percent", 5)
                                  /\ y = Get(new, "threshold_percent", 5) /\ y <= x
  BY TightenedGets
<1>2. PICK a : a = NewDailyLossLimit(old)
  OBVIOUS
<1>3. PICK b : b = NewDailyLossLimit(new)
  OBVIOUS
<1>4. a.threshold = x /\ b.threshold = y
  BY <1>1, <1>2, <1>3 DEF NewDailyLossLimit
<1>5. PICK pnl \in Ratios : pnl = Get(ctx, "daily_pnl_percent", Zero)
  BY DEF Measured
<1>6. PICK loss : loss = Ratio(Abs(pnl.num), pnl.den)
  OBVIOUS
<1>7. loss.num \in Int /\ loss.den \in Int /\ loss.den > 0 /\ pnl.num \in Int
  BY <1>5, <1>6 DEF Ratio, Ratios, Abs
<1>8. pnl.num < 0 /\ AtLeast(loss, x)
  BY <1>2, <1>4, <1>5, <1>6, <1>7 DEF DailyLossLimit
<1>9. AtLeast(loss, y)
  BY <1>1, <1>7, <1>8, LowerLimit
<1> QED
  BY <1>3, <1>4, <1>5, <1>6, <1>7, <1>8, <1>9 DEF DailyLossLimit

LEMMA TighterDrawdown ==
    ASSUME NEW new, NEW old, Tightened(new, old, "threshold_percent"),
           NEW ctx, Measured(ctx), IsRule(NewMaxDrawdown(old)),
           MaxDrawdown(NewMaxDrawdown(old), ctx) = "block"
    PROVE  MaxDrawdown(NewMaxDrawdown(new), ctx) = "block"
<1>1. PICK x \in Int, y \in Int : /\ x = Get(old, "threshold_percent", 10)
                                  /\ y = Get(new, "threshold_percent", 10) /\ y <= x
  BY TightenedGets
<1>2. PICK a : a = NewMaxDrawdown(old)
  OBVIOUS
<1>3. PICK b : b = NewMaxDrawdown(new)
  OBVIOUS
<1>4. PICK method : method = Get(old, "method", "equity_peak")
  OBVIOUS
<1>5. method = Get(new, "method", "equity_peak")
  BY <1>4, TightenedGets
<1>6. method \in {"equity_peak", "balance_based"}
  BY <1>2, <1>4 DEF NewMaxDrawdown, IsRule, Invalid
<1>7. /\ a.threshold = x /\ b.threshold = y /\ a.method = method /\ b.method = method
  BY <1>1, <1>2, <1>3, <1>4, <1>5, <1>6 DEF NewMaxDrawdown
<1>8. PICK dd : dd = DrawdownPercent(a, ctx)
  OBVIOUS
<1>9. dd = DrawdownPercent(b, ctx)
  BY <1>7, <1>8 DEF DrawdownPercent
<1>10. dd.num \in Int /\ dd.den \in Int /\ dd.den > 0
  <2>1. Get(ctx, "total_drawdown_percent", Zero) \in Ratios
    BY DEF Measured
  <2>2. PICK i \in Int, e \in Int :
            i = Get(ctx, "initial_balance", 0) /\ e = Get(ctx, "current_equity", 0)
    BY DEF Measured
  <2>3. CASE method = "equity_peak"
    <3>1. dd = Get(ctx, "total_drawdown_percent", Zero)
      BY <1>7, <1>8, <2>3 DEF DrawdownPercent
    <3> QED
      BY <2>1, <3>1 DEF Ratios
  <2>4. CASE method = "balance_based"
    <3>1. dd = IF i <= 0 \/ e >= i THEN Zero ELSE Ratio((i - e) * 100, i)
      BY <1>7, <1>8, <2>2, <2>4 DEF DrawdownPercent
    <3> QED
      BY <3>1 DEF Ratio, Zero
  <2> QED
    BY <1>6, <2>3, <2>4
<1>11. dd.num > 0 /\ AtLeast(dd, x)
  BY <1>2, <1>7, <1>8, <1>10 DEF MaxDrawdown
<1>12. AtLeast(dd, y)
  BY <1>1, <1>10, <1>11, LowerLimit
<1> QED
  BY <1>3, <1>7, <1>9, <1>10, <1>11, <1>12 DEF MaxDrawdown

LEMMA TighterPosition ==
    ASSUME NEW new, NEW old, Tightened(new, old, "max_lots"),
           NEW ctx, Measured(ctx),
           MaxPositionSize(NewMaxPositionSize(old), ctx) = "block"
    PROVE  MaxPositionSize(NewMaxPositionSize(new), ctx) = "block"
<1>1. PICK x \in Int, y \in Int : /\ x = Get(old, "max_lots", 1)
                                  /\ y = Get(new, "max_lots", 1) /\ y <= x
  BY TightenedGets
<1>2. PICK a : a = NewMaxPositionSize(old)
  OBVIOUS
<1>3. PICK b : b = NewMaxPositionSize(new)
  OBVIOUS
<1>4. Get(new, "scaling", "fixed") = Get(old, "scaling", "fixed")
  BY TightenedGets
<1>5. a.maxLots = x /\ b.maxLots = y /\ a.scaled = b.scaled
  BY <1>1, <1>2, <1>3, <1>4 DEF NewMaxPositionSize
<1>6. PICK funds \in Int, requested \in Int, carried \in Int :
          /\ funds = Get(ctx, "account_balance", 0)
          /\ requested = Get(ctx, "requested_lots", 0)
          /\ carried = Get(ctx, "current_position_lots", 0)
  BY DEF Measured
<1>7. PICK total \in Int : total = Abs(carried) + Abs(requested)
  BY DEF Abs
<1>8. PICK m : m = EffectiveMax(a, ctx)
  OBVIOUS
<1>9. PICK l : l = EffectiveMax(b, ctx)
  OBVIOUS
<1>10. /\ m.num \in Int /\ l.num \in Int /\ m.den \in Int /\ l.den = m.den
       /\ l.num <= m.num
  <2>1. PICK unit \in Int : unit = BalanceUnit
    BY BalanceUnitPositive
  <2>2. CASE a.scaled /\ funds > 0
    <3>1. m = Ratio(funds * x, unit) /\ l = Ratio(funds * y, unit)
      BY <1>5, <1>6, <1>8, <1>9, <2>1, <2>2 DEF EffectiveMax
    <3>2. funds * y <= funds * x
      BY <1>1, <2>2
    <3> QED
      BY <3>1, <3>2 DEF Ratio
  <2>3. CASE ~(a.scaled /\ funds > 0)
    <3>1. m = Ratio(x, 1) /\ l = Ratio(y, 1)
      BY <1>5, <1>6, <1>8, <1>9, <2>3 DEF EffectiveMax
    <3> QED
      BY <1>1, <3>1 DEF Ratio
  <2> QED
    BY <2>2, <2>3
<1>11. \A lots \in Int : lots * m.den > m.num => lots * l.den > l.num
  BY <1>10
<1>12. requested > 0 /\ (requested * m.den > m.num \/ total * m.den > m.num)
  BY <1>2, <1>6, <1>7, <1>8 DEF MaxPositionSize
<1>13. requested * l.den > l.num \/ total * l.den > l.num
  BY <1>11, <1>12
<1> QED
  BY <1>3, <1>6, <1>7, <1>9, <1>12, <1>13 DEF MaxPositionSize

LEMMA TighterConsistency ==
    ASSUME NEW new, NEW old, Tightened(new, old, "block_at"),
           NEW ctx, Measured(ctx), IsRule(NewConsistency(old)), IsRule(NewConsistency(new)),
           Consistency(NewConsistency(old), ctx) = "block"
    PROVE  Consistency(NewConsistency(new), ctx) = "block"
<1>1. PICK x \in Int, y \in Int : /\ x = Get(old, "block_at", 50)
                                  /\ y = Get(new, "block_at", 50) /\ y <= x
  BY TightenedGets
<1>2. PICK a : a = NewConsistency(old)
  OBVIOUS
<1>3. PICK b : b = NewConsistency(new)
  OBVIOUS
<1>4. a.blockAt = x /\ b.blockAt = y
  BY <1>1, <1>2, <1>3 DEF NewConsistency, IsRule, Invalid
<1>5. PICK share : share = ShareOfProfits(ctx)
  OBVIOUS
<1>6. share.num \in Int /\ share.den \in Int /\ share.den > 0
  <2>1. PICK today \in Int : today = Get(ctx, "current_day_pnl", 0)
    BY DEF Measured
  <2>2. PICK prior \in Int : prior = Prior(Get(ctx, "daily_profits_history", <<>>))
    BY PriorIsInt DEF Measured
  <2>3. share = IF today <= 0 \/ prior <= 0 THEN Zero ELSE Ratio(today * 100, today + prior)
    BY <1>5, <2>1, <2>2 DEF ShareOfProfits, Prior
  <2> QED
    BY <2>3 DEF Ratio, Zero
<1>7. share.num > 0 /\ AtLeast(share, x)
  BY <1>2, <1>4, <1>5, <1>6 DEF Consistency
<1>8. AtLeast(share, y)
  BY <1>1, <1>6, <1>7, LowerLimit
<1> QED
  BY <1>3, <1>4, <1>5, <1>6, <1>7, <1>8 DEF Consistency

LEMMA OverridesOnlyTighten == input \in Inputs => TightenOnly
<1> SUFFICES ASSUME input \in Inputs, input.what = "override" PROVE TightenOnly
  BY DEF TightenOnly
<1>1. input.spec \in SampleSpecs /\ input.value \in SampleOverrides /\ input.ctx \in SampleContexts
  BY DEF Inputs
<1>2. PICK spec : spec = input.spec
  OBVIOUS
<1>3. PICK ctx : ctx = input.ctx /\ Measured(ctx)
  BY <1>1, RuleSamples
<1>4. PICK value \in Int : value = input.value
  BY <1>1, RuleSamples
<1>5. PICK type : type = spec["type"]
  OBVIOUS
<1>6. PICK guard : guard = TightnessGuards[type]
  OBVIOUS
<1>7. PICK override : override = [t \in {type} |-> [f \in {guard} |-> value]]
  OBVIOUS
<1>8. PICK new : new = MergeRuleOverrides(<<spec>>, <<>>, override)[1]
  OBVIOUS
<1>9. SUFFICES ASSUME MergeAccepted(<<spec>>, <<>>, override),
                      IsRule(ParseSingleRule(spec)), IsRule(ParseSingleRule(new)),
                      Validate(ParseSingleRule(spec), ctx) = "block"
               PROVE  Validate(ParseSingleRule(new), ctx) = "block"
  BY <1>2, <1>3, <1>4, <1>5, <1>6, <1>7, <1>8 DEF TightenOnly
<1>10. "type" \in DOMAIN spec /\ type \in DOMAIN TightnessGuards
       /\ (guard \in DOMAIN spec => spec[guard] \in Int)
  BY <1>1, <1>2, <1>5, <1>6, RuleSamples
<1>11. guard # "type" /\ Tightened(new, spec, guard)
  BY <1>5, <1>6, <1>7, <1>8, <1>9, <1>10, OverrideTightens
<1>12. Get(spec, "type", "none") = type /\ Get(new, "type", "none") = type
  BY <1>5, <1>10, <1>11 DEF Get, Tightened
<1>13. type \in {"daily_loss_limit", "max_drawdown", "max_position_size", "consistency"}
  BY <1>10 DEF TightnessGuards
<1>14. CASE type = "daily_loss_limit"
  <2>1. guard = "threshold_percent"
    BY <1>6, <1>14 DEF TightnessGuards
  <2>2. \A s : NewDailyLossLimit(s).type = type
    BY <1>14 DEF NewDailyLossLimit
  <2>3. /\ ParseSingleRule(spec) = NewDailyLossLimit(spec)
        /\ ParseSingleRule(new) = NewDailyLossLimit(new)
    BY <1>12, <1>14 DEF ParseSingleRule, NewRule
  <2>4. DailyLossLimit(NewDailyLossLimit(spec), ctx) = "block"
    BY <1>9, <1>14, <2>2, <2>3 DEF Validate
  <2>5. DailyLossLimit(NewDailyLossLimit(new), ctx) = "block"
    BY <1>3, <1>11, <2>1, <2>4, TighterDailyLoss
  <2> QED
    BY <1>14, <2>2, <2>3, <2>5 DEF Validate
<1>15. CASE type = "max_drawdown"
  <2>1. guard = "threshold_percent"
    BY <1>6, <1>15 DEF TightnessGuards
  <2>2. \A s : IsRule(NewMaxDrawdown(s)) => NewMaxDrawdown(s).type = type
    BY <1>15 DEF NewMaxDrawdown, IsRule, Invalid
  <2>3. /\ ParseSingleRule(spec) = NewMaxDrawdown(spec)
        /\ ParseSingleRule(new) = NewMaxDrawdown(new)
    BY <1>12, <1>15 DEF ParseSingleRule, NewRule
  <2>4. MaxDrawdown(NewMaxDrawdown(spec), ctx) = "block"
    BY <1>9, <1>15, <2>2, <2>3 DEF Validate
  <2>5. MaxDrawdown(NewMaxDrawdown(new), ctx) = "block"
    BY <1>3, <1>9, <1>11, <2>1, <2>3, <2>4, TighterDrawdown
  <2> QED
    BY <1>9, <1>15, <2>2, <2>3, <2>5 DEF Validate
<1>16. CASE type = "max_position_size"
  <2>1. guard = "max_lots"
    BY <1>6, <1>16 DEF TightnessGuards
  <2>2. \A s : NewMaxPositionSize(s).type = type
    BY <1>16 DEF NewMaxPositionSize
  <2>3. /\ ParseSingleRule(spec) = NewMaxPositionSize(spec)
        /\ ParseSingleRule(new) = NewMaxPositionSize(new)
    BY <1>12, <1>16 DEF ParseSingleRule, NewRule
  <2>4. MaxPositionSize(NewMaxPositionSize(spec), ctx) = "block"
    BY <1>9, <1>16, <2>2, <2>3 DEF Validate
  <2>5. MaxPositionSize(NewMaxPositionSize(new), ctx) = "block"
    BY <1>3, <1>11, <2>1, <2>4, TighterPosition
  <2> QED
    BY <1>16, <2>2, <2>3, <2>5 DEF Validate
<1>17. CASE type = "consistency"
  <2>1. guard = "block_at"
    BY <1>6, <1>17 DEF TightnessGuards
  <2>2. \A s : IsRule(NewConsistency(s)) => NewConsistency(s).type = type
    BY <1>17 DEF NewConsistency, IsRule, Invalid
  <2>3. /\ ParseSingleRule(spec) = NewConsistency(spec)
        /\ ParseSingleRule(new) = NewConsistency(new)
    BY <1>12, <1>17 DEF ParseSingleRule, NewRule
  <2>4. Consistency(NewConsistency(spec), ctx) = "block"
    BY <1>9, <1>17, <2>2, <2>3 DEF Validate
  <2>5. Consistency(NewConsistency(new), ctx) = "block"
    BY <1>3, <1>9, <1>11, <2>1, <2>3, <2>4, TighterConsistency
  <2> QED
    BY <1>9, <1>17, <2>2, <2>3, <2>5 DEF Validate
<1> QED
  BY <1>13, <1>14, <1>15, <1>16, <1>17

(* Of any rules, contexts, account overrides and calendars: the engine blocks *)
(* exactly when one of its rules does and names one of the first in priority, *)
(* an accepted override of a guarded field never lets pass what the phase's   *)
(* rules block, and the binary searches find exactly the events whose         *)
(* blackout window holds the instant.                                         *)
THEOREM RulesAreSound == RulesSpec => []RulesSound
<1>1. RulesInit => RulesSound
  <2> SUFFICES ASSUME RulesInit PROVE RulesSound
    OBVIOUS
  <2>1. CASE input \in Inputs
    BY <2>1, EngineIsSound, OverridesOnlyTighten, BlackoutIsExact DEF RulesSound
  <2>2. CASE input = NoInput
    BY <2>2 DEF NoInput, RulesSound, EngineSound, TightenOnly, BlackoutExact
  <2> QED
    BY <2>1, <2>2 DEF RulesInit
<1>2. RulesSound /\ [FALSE]_input => RulesSound'
  BY DEF RulesSound, EngineSound, TightenOnly, BlackoutExact
<1> QED
  BY <1>1, <1>2, PTL DEF RulesSpec

-----------------------------------------------------------------------------
(* The strategies' trades.  An entry is justified when the regime filter,   *)
(* counting equal raw states, admits it, in the session of its day and      *)
(* alone.  The invariant follows each handler of a bar: the filter's        *)
(* pending count is the run of states at the end of the list; the regime    *)
(* actor has seen as many bars as it has handled; the opening range         *)
(* remembers the day it entered on; a bar that forces a close leaves no     *)
(* bracket; a bracket comes alone, sized within the budget; and the         *)
(* commands of a bar move the stop one way, from where it stands to where   *)
(* the scale-out means it to be, and reduce the position once at most.      *)

(* The regime filter: what it confirms of a list of raw states. *)
Runs(raw, n) ==
    {i \in ConfirmationBars..n : \A j \in (i - ConfirmationBars + 1)..i : raw[j] = raw[i]}
ConfirmedIn(raw, n) == IF Runs(raw, n) = {} THEN "unknown" ELSE raw[Max(Runs(raw, n))]

(* Where the filter stands: the raw states since the last one that agreed     *)
(* with the current state are counted as far as they are equal.               *)
Pending(raw, n, now, waiting, count) ==
    /\ waiting = NoRegime <=> count = 0
    /\ waiting # now
    /\ count \in 0..n /\ count < ConfirmationBars
    /\ count = 0 /\ n > 0 => raw[n] = now
    /\ \A j \in n - count + 1..n : raw[j] = waiting
    /\ count > 0 /\ count < n => raw[n - count] # waiting

RegimeKept ==
    /\ barsSeen \in 0..WarmupBars
    /\ rawStates \in Seq(RegimeStates) /\ current \in RegimeStates
    /\ current = ConfirmedIn(rawStates, Len(rawStates))
    /\ published = IF rawStates = <<>> THEN NoRegime ELSE current
    /\ Pending(rawStates, Len(rawStates), current, pendingState, barsInPending)

(* The bars the regime actor has handled, and what it knows after as many. *)
Handled == IF "actor" \in toRun THEN bars - 1 ELSE bars

ActorKept ==
    HasRegime(cfg) =>
        /\ Handled \in Nat
        /\ barsSeen = IF Handled < WarmupBars THEN Handled ELSE WarmupBars
        /\ Len(rawStates) = IF Handled < WarmupBars THEN 0 ELSE Handled - WarmupBars + 1

(* The values of the trade's state. *)
OrbSessions == [day : Int, open : Int, complete : BOOLEAN, entered : BOOLEAN]
Memories == [last : -2..2 \cup {NoReading}, session : OrbSessions]
PositionRecords == [side : {"flat", "long", "short"}, entry : Int, lots : Int, initial : Int]
ScaleStates ==
    [on : {TRUE}, risk : Int, bePrice : Int, sl : Int, scaledOut : BOOLEAN, beMoved : BOOLEAN,
     trailing : BOOLEAN]
BracketCommands ==
    [do : {"bracket"}, side : {"long", "short"}, lots : Int, stop : Int, target : Int,
     budget : Int]
Commands ==
    BracketCommands \cup [do : {"close"}] \cup [do : {"reduce"}, lots : Int] \cup
    [do : {"modify"}, stop : Int]

TradeTyped ==
    /\ cfg \in Configs /\ cfg.kind \in Kinds /\ ValidConfig(cfg)
    /\ clock \in Nat /\ bars \in Nat
    /\ bar = NoBar \/ bar \in Bars
    /\ toRun \subseteq HandlersOf(cfg)
    /\ memory \in Memories
    /\ position \in PositionRecords /\ (position = NoPosition \/ position.side # "flat")
    /\ stop \in Int
    /\ scaleState = NoScale \/ scaleState \in ScaleStates
    /\ commands \in Seq(Commands)
    /\ entries \subseteq [time : Nat, bar : Nat]
    /\ bar = NoBar => toRun = {}
    /\ commands # <<>> => bar # NoBar /\ "strategy" \notin toRun

NoneIs(cs, what) == \A i \in 1..Len(cs) : cs[i].do # what

(* The opening range: the day's entry is remembered. *)
OrbKept ==
    cfg.kind = "orb" =>
        /\ \A d, e \in entries : d # e => Day(d.time) # Day(e.time)
        /\ \A e \in entries :
            /\ e.time <= clock /\ InSession(e.time)
            /\ Day(e.time) = Day(clock) =>
                    memory.session.day = Day(clock) /\ memory.session.entered

(* The channel has been seen before anything is held. *)
ChannelKept ==
    cfg.kind = "donchian_breakout" /\ memory.last = NoReading =>
        position = NoPosition /\ NoneIs(commands, "bracket")

(* A bar outside the session whose signal closes what is held. *)
ForcedBy(c, b, t) ==
    /\ b.ready /\ ~InSession(t)
    /\ \/ c.kind = "orb"
       \/ c.session = "flatten" /\ Filtered(c.kind) /\ ~b.noWidth
Forced == ForcedBy(cfg, bar, clock)

ForcedKept ==
    bar # NoBar /\ "strategy" \notin toRun /\ Forced =>
        /\ NoneIs(commands, "bracket")
        /\ position = NoPosition \/ (commands # <<>> /\ Head(commands).do = "close")

(* A bracket comes alone, sized within the budget. *)
Sized(c, price) ==
    /\ c.lots > 0 /\ Sign(c.side) * (price - c.stop) > 0
    /\ 100 * (c.lots * Sign(c.side) * (price - c.stop)) <= c.budget

BracketsKept ==
    \A i \in 1..Len(commands) : commands[i].do = "bracket" =>
        Len(commands) = 1 /\ position = NoPosition /\ Sized(commands[i], bar.price)

(* The modifications move from one stop to another in the direction of profit. *)
Climbs(cs, from, to, dir) ==
    /\ dir * (to - from) >= 0
    /\ \A i \in 1..Len(cs) : cs[i].do = "modify" =>
        dir * (cs[i].stop - from) >= 0 /\ dir * (to - cs[i].stop) >= 0
    /\ \A i, j \in 1..Len(cs) : i < j /\ cs[i].do = "modify" /\ cs[j].do = "modify" =>
        dir * (cs[j].stop - cs[i].stop) >= 0

(* One partial close, of an untouched position, that leaves some of it. *)
ReducesOnce(cs, pos) ==
    /\ \A i \in 1..Len(cs) : cs[i].do = "reduce" =>
        pos.lots = pos.initial /\ cs[i].lots \in 1..pos.lots - 1
    /\ \A i, j \in 1..Len(cs) : cs[i].do = "reduce" /\ cs[j].do = "reduce" => i = j

ScaleKept(s, pos) ==
    /\ Sign(pos.side) * (s.bePrice - pos.entry) >= 0
    /\ s.scaledOut => cfg.scaleOut
    /\ ~s.scaledOut => pos.lots = pos.initial
    /\ cfg.scaleOut /\ cfg.breakevenAt # NoBreakeven /\ ~s.beMoved =>
        ~s.trailing /\ Sign(pos.side) * (pos.entry - s.sl) >= 0

PositionKept ==
    position # NoPosition =>
        /\ position.lots >= 1
        /\ scaleState = NoScale =>
            /\ position.lots = position.initial
            /\ Sign(position.side) * (position.entry - stop) >= 0
            /\ NoneIs(commands, "modify") /\ NoneIs(commands, "reduce")
        /\ scaleState # NoScale =>
            /\ ScaleKept(scaleState, position)
            /\ Climbs(commands, stop, scaleState.sl, Sign(position.side))
            /\ ReducesOnce(commands, position)
            /\ ~NoneIs(commands, "reduce") => scaleState.scaledOut

TradeInv ==
    /\ RegimeKept /\ TradeTyped /\ ActorKept /\ EntriesAdmitted /\ OrbKept /\ ChannelKept
    /\ ForcedKept /\ BracketsKept /\ PositionKept

LEMMA GreatestIsMax ==
    ASSUME NEW S \in SUBSET Int, NEW m \in S, \A y \in S : m >= y
    PROVE  Max(S) = m
<1>1. \A x \in S : (\A y \in S : x >= y) => x = m
  <2> SUFFICES ASSUME NEW x \in S, \A y \in S : x >= y PROVE x = m
    OBVIOUS
  <2>1. x >= m /\ m >= x /\ x \in Int /\ m \in Int
    OBVIOUS
  <2> QED
    BY <2>1
<1> QED
  BY <1>1 DEF Max

LEMMA MaxOfTwo ==
    ASSUME NEW a \in Int, NEW b \in Int
    PROVE  Max({a, b}) = IF a >= b THEN a ELSE b
<1>1. CASE a >= b
  <2>1. {a, b} \in SUBSET Int /\ a \in {a, b} /\ \A y \in {a, b} : a >= y
    BY <1>1
  <2> QED
    BY <1>1, <2>1, GreatestIsMax
<1>2. CASE ~(a >= b)
  <2>1. {a, b} \in SUBSET Int /\ b \in {a, b} /\ \A y \in {a, b} : b >= y
    BY <1>2
  <2> QED
    BY <1>2, <2>1, GreatestIsMax
<1> QED
  BY <1>1, <1>2

(* A run is told from the raw states up to its end. *)
LEMMA RunFacts ==
    ASSUME NEW raw \in Seq(RegimeStates), NEW x \in RegimeStates, NEW m \in 0..Len(raw)
    PROVE  /\ Runs(raw, m) \subseteq 1..m
           /\ Runs(Append(raw, x), m) = Runs(raw, m)
           /\ ConfirmedIn(Append(raw, x), m) = ConfirmedIn(raw, m)
<1> DEFINE longer == Append(raw, x)
<1>1. /\ Len(raw) \in Nat /\ ConfirmationBars \in Nat \ {0}
      /\ \A i \in 1..Len(raw) : longer[i] = raw[i]
  BY AppendProperties, LenProperties, RegimeBounds
<1> HIDE DEF longer
<1>2. Runs(raw, m) \subseteq 1..m
  BY <1>1 DEF Runs
<1>3. Runs(longer, m) = Runs(raw, m)
  <2>1. ASSUME NEW i \in ConfirmationBars..m, NEW j \in (i - ConfirmationBars + 1)..i
        PROVE  longer[j] = raw[j] /\ longer[i] = raw[i]
    <3>1. i \in 1..Len(raw) /\ j \in 1..Len(raw)
      BY <1>1
    <3> QED
      BY <1>1, <3>1
  <2> QED
    BY <2>1 DEF Runs
<1>4. ConfirmedIn(longer, m) = ConfirmedIn(raw, m)
  <2>1. CASE Runs(raw, m) = {}
    BY <1>3, <2>1 DEF ConfirmedIn
  <2>2. CASE Runs(raw, m) # {}
    <3>1. m \in Nat /\ Runs(raw, m) \subseteq 1..m
      BY <1>1, <1>2
    <3>2. PICK r \in Runs(raw, m) : r = Max(Runs(raw, m))
      BY <2>2, <3>1, GreatestNatural
    <3>3. r \in 1..Len(raw)
      BY <1>1, <3>1
    <3>4. longer[r] = raw[r]
      BY <1>1, <3>3
    <3> QED
      BY <1>3, <2>2, <3>2, <3>4 DEF ConfirmedIn
  <2> QED
    BY <2>1, <2>2
<1> QED
  BY <1>2, <1>3, <1>4 DEF longer

(* HysteresisFilter.apply keeps the count of the pending state and confirms   *)
(* what the reference confirms.                                               *)
FilterStep(raw, x, now, waiting, count) ==
    LET n == Len(raw) + 1
        longer == Append(raw, x)
        run == IF x = waiting THEN count + 1 ELSE 1
        confirmed == x # now /\ run >= ConfirmationBars
        waits == x # now /\ ~confirmed
        then == IF confirmed THEN x ELSE now
    IN  /\ ConfirmedIn(longer, n) = then
        /\ Pending(longer, n, then, IF waits THEN x ELSE NoRegime, IF waits THEN run ELSE 0)

LEMMA FilterSteps ==
    ASSUME NEW raw \in Seq(RegimeStates), NEW x \in RegimeStates, NEW now \in RegimeStates,
           NEW waiting, NEW count,
           now = ConfirmedIn(raw, Len(raw)), Pending(raw, Len(raw), now, waiting, count)
    PROVE  FilterStep(raw, x, now, waiting, count)
<1> DEFINE longer == Append(raw, x)
           run == IF x = waiting THEN count + 1 ELSE 1
<1> SUFFICES
      /\ ConfirmedIn(longer, Len(raw) + 1) = IF x # now /\ run >= ConfirmationBars THEN x ELSE now
      /\ Pending(longer, Len(raw) + 1, IF x # now /\ run >= ConfirmationBars THEN x ELSE now,
                 IF x # now /\ ~(run >= ConfirmationBars) THEN x ELSE NoRegime,
                 IF x # now /\ ~(run >= ConfirmationBars) THEN run ELSE 0)
  BY DEF FilterStep
<1>0. PICK n \in Nat : n = Len(raw)
  BY LenProperties
<1>1. /\ ConfirmationBars \in Nat \ {0}
      /\ longer \in Seq(RegimeStates) /\ Len(longer) = n + 1
      /\ longer[n + 1] = x
      /\ \A i \in 1..n : longer[i] = raw[i]
  BY <1>0, AppendProperties, RegimeBounds
<1>2. /\ waiting = NoRegime <=> count = 0
      /\ waiting # now
      /\ count \in 0..n /\ count < ConfirmationBars
      /\ count = 0 /\ n > 0 => raw[n] = now
      /\ \A j \in n - count + 1..n : raw[j] = waiting
      /\ count > 0 /\ count < n => raw[n - count] # waiting
  BY <1>0 DEF Pending
<1>3. x # NoRegime
  BY DEF RegimeStates, NoRegime
<1>4. /\ Runs(longer, n) = Runs(raw, n) /\ Runs(raw, n) \subseteq 1..n
      /\ now = ConfirmedIn(longer, n)
  <2>1. n \in 0..Len(raw)
    BY <1>0
  <2> QED
    BY <1>0, <2>1, RunFacts
<1> HIDE DEF longer
<1>5. run \in 1..n + 1
  BY <1>2
<1>6. \A j \in n + 1 - run + 1..n + 1 : longer[j] = x
  <2>1. CASE x = waiting
    <3> SUFFICES ASSUME NEW j \in n - count + 1..n + 1 PROVE longer[j] = x
      BY <1>2, <2>1
    <3>1. j = n + 1 \/ (j \in 1..n /\ j \in n - count + 1..n)
      BY <1>2
    <3> QED
      BY <1>1, <1>2, <2>1, <3>1
  <2>2. CASE x # waiting
    BY <1>1, <2>2
  <2> QED
    BY <2>1, <2>2
<1>7. x # now /\ run < n + 1 => longer[n + 1 - run] # x
  <2> SUFFICES ASSUME x # now, run < n + 1 PROVE longer[n + 1 - run] # x
    OBVIOUS
  <2>1. CASE x = waiting
    <3>1. run = count + 1 /\ count > 0 /\ count < n /\ n + 1 - run = n - count /\ n - count \in 1..n
      BY <1>2, <1>3, <2>1
    <3> QED
      BY <1>1, <1>2, <2>1, <3>1
  <2>2. CASE x # waiting
    <3>1. n + 1 - run = n /\ n \in 1..n
      BY <2>2
    <3>2. raw[n] # x
      <4>1. CASE count = 0
        BY <1>2, <3>1, <4>1
      <4>2. CASE count # 0
        <5>1. n \in n - count + 1..n
          BY <1>2, <4>2
        <5> QED
          BY <1>2, <2>2, <5>1
      <4> QED
        BY <4>1, <4>2
    <3> QED
      BY <1>1, <3>1, <3>2
  <2> QED
    BY <2>1, <2>2
<1>8. n + 1 \in Runs(longer, n + 1) => ConfirmedIn(longer, n + 1) = x
  <2> SUFFICES ASSUME n + 1 \in Runs(longer, n + 1) PROVE ConfirmedIn(longer, n + 1) = x
    OBVIOUS
  <2>1. Runs(longer, n + 1) \in SUBSET Int /\ \A y \in Runs(longer, n + 1) : n + 1 >= y
    BY <1>1 DEF Runs
  <2>2. Max(Runs(longer, n + 1)) = n + 1
    BY <2>1, GreatestIsMax
  <2> QED
    BY <1>1, <2>2 DEF ConfirmedIn
<1>9. n + 1 \notin Runs(longer, n + 1) => ConfirmedIn(longer, n + 1) = now
  <2> SUFFICES ASSUME n + 1 \notin Runs(longer, n + 1) PROVE ConfirmedIn(longer, n + 1) = now
    OBVIOUS
  <2>1. Runs(longer, n + 1) = Runs(longer, n)
    <3>1. \A i \in ConfirmationBars..n + 1 : i \in ConfirmationBars..n \/ i = n + 1
      BY <1>1
    <3>2. \A i \in ConfirmationBars..n : i \in ConfirmationBars..n + 1
      BY <1>1
    <3> QED
      BY <3>1, <3>2 DEF Runs
  <2> QED
    BY <1>4, <2>1 DEF ConfirmedIn
<1>10. CASE x # now /\ run >= ConfirmationBars
  <2>1. n + 1 \in Runs(longer, n + 1)
    <3>1. \A j \in (n + 1 - ConfirmationBars + 1)..n + 1 : j \in n + 1 - run + 1..n + 1
      BY <1>1, <1>5, <1>10
    <3>2. n + 1 \in ConfirmationBars..n + 1
      BY <1>1, <1>5, <1>10
    <3> QED
      BY <1>1, <1>6, <3>1, <3>2 DEF Runs
  <2>2. ConfirmedIn(longer, n + 1) = x
    BY <1>8, <2>1
  <2>3. Pending(longer, n + 1, x, NoRegime, 0)
    BY <1>1, <1>3 DEF Pending
  <2> QED
    BY <1>0, <1>10, <2>2, <2>3
<1>11. CASE x = now
  <2>1. ConfirmedIn(longer, n + 1) = now
    BY <1>8, <1>9, <1>11
  <2>2. Pending(longer, n + 1, now, NoRegime, 0)
    BY <1>1, <1>3, <1>11 DEF Pending
  <2> QED
    BY <1>0, <1>11, <2>1, <2>2
<1>12. CASE x # now /\ ~(run >= ConfirmationBars)
  <2>1. run < ConfirmationBars
    BY <1>1, <1>5, <1>12
  <2>2. n + 1 \notin Runs(longer, n + 1)
    <3> SUFFICES ASSUME n + 1 \in Runs(longer, n + 1) PROVE FALSE
      OBVIOUS
    <3>1. /\ n + 1 \in ConfirmationBars..n + 1
          /\ \A j \in (n + 1 - ConfirmationBars + 1)..n + 1 : longer[j] = longer[n + 1]
      BY <1>1 DEF Runs
    <3>2. n + 1 - run \in (n + 1 - ConfirmationBars + 1)..n + 1 /\ run < n + 1
      BY <1>1, <1>5, <2>1, <3>1
    <3> QED
      BY <1>1, <1>7, <1>12, <3>1, <3>2
  <2>3. ConfirmedIn(longer, n + 1) = now
    BY <1>9, <2>2
  <2>4. Pending(longer, n + 1, now, x, run)
    <3>1. run # 0 /\ run \in 0..n + 1 /\ (n + 1) - run = n + 1 - run
      BY <1>5
    <3> QED
      BY <1>1, <1>3, <1>5, <1>6, <1>7, <1>12, <2>1, <3>1 DEF Pending
  <2> QED
    BY <1>0, <1>12, <2>3, <2>4
<1> QED
  BY <1>10, <1>11, <1>12

(* Days follow one another, and a day begins outside the session. *)
LEMMA DayFacts ==
    ASSUME NEW t \in Nat, NEW u \in Nat, t <= u
    PROVE  /\ Day(t) \in Nat /\ Day(t) <= Day(u)
           /\ InSession(t) /\ ~InSession(u) => Day(t) # Day(u)
<1>1. PICK s \in Nat : s = SlotsPerDay /\ s > 1
  BY SessionBounds
<1>2. \A n \in Nat : /\ n \div s \in Nat /\ n % s \in 0..s - 1
                     /\ n = s * (n \div s) + (n % s)
  BY <1>1
<1>3. PICK q \in Nat : q = t \div s
  BY <1>2
<1>4. PICK r \in Nat : r = u \div s
  BY <1>2
<1>5. PICK a \in 0..s - 1 : a = t % s
  BY <1>2
<1>6. PICK b \in 0..s - 1 : b = u % s
  BY <1>2
<1>7. t = s * q + a /\ u = s * r + b
  BY <1>2, <1>3, <1>4, <1>5, <1>6
<1>8. q <= r
  <2> SUFFICES ASSUME r + 1 <= q PROVE FALSE
    OBVIOUS
  <2>1. s * (r + 1) <= s * q
    BY <1>1
  <2>2. s * (r + 1) = s * r + s
    BY <1>1
  <2>3. PICK x \in Int : x = s * r
    BY <1>1
  <2>4. PICK y \in Int : y = s * q
    BY <1>1
  <2> QED
    BY <1>1, <1>5, <1>6, <1>7, <2>1, <2>2, <2>3, <2>4
<1>9. a # 0 /\ b = 0 => q # r
  <2> SUFFICES ASSUME a # 0, b = 0, q = r PROVE FALSE
    OBVIOUS
  <2>1. PICK x \in Int : x = s * r
    BY <1>1
  <2> QED
    BY <1>5, <1>6, <1>7, <2>1
<1> QED
  BY <1>1, <1>3, <1>4, <1>5, <1>6, <1>8, <1>9 DEF Day, InSession

(* EntriesAdmitted, as a relation between the raw states and the entries. *)
AdmittedIn(raw, c, es) ==
    HasRegime(c) => \A e \in es : \E i \in {e.bar - 1, e.bar} :
        /\ i - WarmupBars + 1 \in 1..Len(raw)
        /\ ConfirmedIn(raw, i - WarmupBars + 1) \in AllowedRegimes(c.kind)

LEMMA EntriesAdmittedIs ==
    /\ EntriesAdmitted <=> AdmittedIn(rawStates, cfg, entries)
    /\ EntriesAdmitted' <=> AdmittedIn(rawStates', cfg', entries')
<1>1. \A n : ConfirmedAfter(n) = ConfirmedIn(rawStates, n)
  BY DEF ConfirmedAfter, ConfirmedIn, Runs
<1>2. \A n : ConfirmedAfter(n)' = ConfirmedIn(rawStates', n)
  BY DEF ConfirmedAfter, ConfirmedIn, Runs
<1>3. EntriesAdmitted <=> AdmittedIn(rawStates, cfg, entries)
  BY <1>1 DEF EntriesAdmitted, AdmittedIn
<1>4. EntriesAdmitted' <=> AdmittedIn(rawStates', cfg', entries')
  BY <1>2 DEF EntriesAdmitted, AdmittedIn
<1> QED
  BY <1>3, <1>4

LEMMA HandlerFacts ==
    /\ \A c : "strategy" \in HandlersOf(c) /\ HandlersOf(c) \subseteq {"actor", "strategy"}
    /\ \A c : HasRegime(c) <=> "actor" \in HandlersOf(c)
BY DEF HandlersOf, AttachRegime

LEMMA BarFacts == \A b \in Bars : b # NoBar
<1> SUFFICES ASSUME NEW b \in Bars PROVE b # NoBar
  OBVIOUS
<1>1. "price" \in DOMAIN b /\ "price" \notin DOMAIN NoBar
  BY DEF Bars, NoBar
<1> QED
  BY <1>1

LEMMA TradeInitInv == StrategyInit => TradeInv
<1> SUFFICES ASSUME StrategyInit PROVE TradeInv
  OBVIOUS
<1>1. /\ rawStates = <<>> /\ commands = <<>> /\ entries = {} /\ toRun = {} /\ bar = NoBar
      /\ position = NoPosition /\ bars = 0 /\ clock = 0
      /\ Len(rawStates) = 0 /\ Len(commands) = 0
  BY DEF StrategyInit, RegimeInit
<1>2. RegimeKept
  <2>1. Runs(<<>>, 0) = {}
    BY RegimeBounds DEF Runs
  <2>2. ConfirmedIn(rawStates, Len(rawStates)) = "unknown" /\ "unknown" # NoRegime
    BY <1>1, <2>1 DEF ConfirmedIn, NoRegime
  <2> QED
    BY <1>1, <2>2, RegimeBounds DEF RegimeKept, Pending, StrategyInit, RegimeInit, RegimeStates
<1>3. TradeTyped
  <2>1. cfg \in Configs /\ cfg.kind \in Kinds /\ ValidConfig(cfg)
    BY TradeSamples DEF StrategyInit, Buildable
  <2>2. memory \in Memories
    BY DEF StrategyInit, FreshMemory, Memories, OrbSessions, NoSession, NoReading
  <2>3. position \in PositionRecords
    BY <1>1 DEF NoPosition, PositionRecords
  <2>4. stop \in Int /\ scaleState = NoScale
    BY DEF StrategyInit, NoPrice
  <2> QED
    BY <1>1, <2>1, <2>2, <2>3, <2>4 DEF TradeTyped
<1>4. ActorKept
  BY <1>1, RegimeBounds DEF ActorKept, Handled, StrategyInit, RegimeInit
<1>5. EntriesAdmitted /\ OrbKept
  BY <1>1 DEF EntriesAdmitted, OrbKept
<1>6. ChannelKept /\ ForcedKept /\ BracketsKept /\ PositionKept
  BY <1>1 DEF ChannelKept, NoneIs, ForcedKept, BracketsKept, PositionKept
<1> QED
  BY <1>2, <1>3, <1>4, <1>5, <1>6 DEF TradeInv

LEMMA NextBarKeeps == TradeInv /\ NextBar => TradeInv'
<1> SUFFICES ASSUME TradeInv, NextBar PROVE TradeInv'
  OBVIOUS
<1>1. TradeTyped
  BY DEF TradeInv
<1>2. /\ bar = NoBar /\ toRun = {} /\ commands = <<>> /\ Len(commands) = 0
      /\ toRun' = HandlersOf(cfg) /\ bars' = bars + 1
      /\ UNCHANGED <<cfg, memory, commands, entries>>
      /\ UNCHANGED regimeVars
  BY <1>1 DEF NextBar, TradeTyped
<1>3. clock' \in Nat /\ clock' > clock /\ clock \in Nat
  BY <1>1 DEF NextBar, TradeTyped
<1>4. bar' \in Bars
  BY DEF NextBar
<1>5. \/ position' = NoPosition /\ stop' = NoPrice /\ scaleState' = NoScale
      \/ UNCHANGED <<position, stop, scaleState>>
  BY DEF NextBar, PositionClosed
<1>6. RegimeKept'
  BY <1>2 DEF TradeInv, RegimeKept, regimeVars
<1>7. TradeTyped'
  <2>1. position' \in PositionRecords /\ (position' = NoPosition \/ position'.side # "flat")
    BY <1>1, <1>5 DEF TradeTyped, NoPosition, PositionRecords
  <2>2. stop' \in Int /\ (scaleState' = NoScale \/ scaleState' \in ScaleStates)
    BY <1>1, <1>5 DEF TradeTyped, NoPrice
  <2> QED
    BY <1>1, <1>2, <1>3, <1>4, <2>1, <2>2, BarFacts DEF TradeTyped
<1>8. ActorKept'
  <2>1. HasRegime(cfg) => Handled' = Handled
    BY <1>1, <1>2, HandlerFacts DEF Handled, TradeTyped
  <2> QED
    BY <1>2, <2>1 DEF TradeInv, ActorKept, regimeVars
<1>9. EntriesAdmitted'
  BY <1>2, EntriesAdmittedIs DEF TradeInv, regimeVars
<1>10. OrbKept'
  <2> SUFFICES ASSUME cfg.kind = "orb",
                      NEW e \in entries
               PROVE  /\ e.time <= clock' /\ InSession(e.time)
                      /\ Day(e.time) = Day(clock') =>
                            memory.session.day = Day(clock') /\ memory.session.entered
    BY <1>2 DEF TradeInv, OrbKept
  <2>1. /\ e.time <= clock /\ InSession(e.time)
        /\ Day(e.time) = Day(clock) =>
              memory.session.day = Day(clock) /\ memory.session.entered
    BY DEF TradeInv, OrbKept
  <2>2. e.time \in Nat
    BY <1>1 DEF TradeTyped
  <2>3. Day(e.time) <= Day(clock) /\ Day(clock) <= Day(clock')
    BY <1>3, <2>1, <2>2, DayFacts
  <2>4. Day(e.time) \in Nat /\ Day(clock) \in Nat /\ Day(clock') \in Nat
    BY <1>3, <2>2, DayFacts
  <2> QED
    BY <1>3, <2>1, <2>2, <2>3, <2>4
<1>11. ChannelKept'
  BY <1>2, <1>5 DEF TradeInv, ChannelKept, NoneIs
<1>12. ForcedKept' /\ BracketsKept'
  BY <1>2, HandlerFacts DEF ForcedKept, BracketsKept
<1>13. PositionKept'
  BY <1>2, <1>5 DEF TradeInv, PositionKept, ScaleKept
<1> QED
  BY <1>6, <1>7, <1>8, <1>9, <1>10, <1>11, <1>12, <1>13 DEF TradeInv

LEMMA ActorRunsKeeps == TradeInv /\ ActorRuns => TradeInv'
<1> SUFFICES ASSUME TradeInv, ActorRuns PROVE TradeInv'
  OBVIOUS
<1>1. TradeTyped /\ RegimeKept /\ ActorKept
  BY DEF TradeInv
<1>2. /\ "actor" \in toRun /\ toRun' = toRun \ {"actor"} /\ ActorOnBar(bar.features)
      /\ UNCHANGED <<cfg, clock, bar, memory, position, stop, scaleState, commands, bars,
                     entries>>
  BY DEF ActorRuns
<1>3. bar \in Bars /\ HasRegime(cfg)
  BY <1>1, <1>2, HandlerFacts DEF TradeTyped
<1>4. PICK raw \in RegimeStates : raw = Decide(bar.features)
  BY DEF Decide, RegimeStates
<1>5. /\ barsSeen \in 0..WarmupBars /\ barsSeen' \in 0..WarmupBars
      /\ barsSeen' = IF barsSeen < WarmupBars THEN barsSeen + 1 ELSE barsSeen
  BY <1>1, <1>2, RegimeBounds DEF RegimeKept, ActorOnBar, UpdateExtractor
<1>6. barsSeen' < WarmupBars =>
        UNCHANGED <<current, pendingState, barsInPending, published, rawStates>>
  BY <1>2 DEF ActorOnBar
<1>7. ~(barsSeen' < WarmupBars) =>
        /\ rawStates' = Append(rawStates, raw) /\ published' = current'
        /\ rawStates' \in Seq(RegimeStates) /\ Len(rawStates') = Len(rawStates) + 1
        /\ Apply(raw)
  BY <1>1, <1>2, <1>4, AppendProperties DEF ActorOnBar, Publish, RegimeKept
<1>8. RegimeKept'
  <2>1. CASE barsSeen' < WarmupBars
    BY <1>1, <1>5, <1>6, <2>1 DEF RegimeKept
  <2>2. CASE ~(barsSeen' < WarmupBars)
    <3>1. FilterStep(rawStates, raw, current, pendingState, barsInPending)
      BY <1>1, FilterSteps DEF RegimeKept
    <3>2. /\ ConfirmedIn(rawStates', Len(rawStates')) = current'
          /\ Pending(rawStates', Len(rawStates'), current', pendingState', barsInPending')
      BY <1>7, <2>2, <3>1 DEF FilterStep, Apply
    <3>3. current' \in RegimeStates /\ rawStates' # <<>>
      BY <1>1, <1>7, <2>2 DEF Apply, RegimeKept
    <3> QED
      BY <1>5, <1>7, <2>2, <3>2, <3>3 DEF RegimeKept
  <2> QED
    BY <2>1, <2>2
<1>9. ActorKept'
  <2>1. Handled \in Nat /\ Handled' = Handled + 1
    BY <1>1, <1>2, <1>3 DEF ActorKept, Handled, TradeTyped
  <2>2. PICK k \in Nat : k = Handled
    BY <2>1
  <2>3. /\ barsSeen = IF k < WarmupBars THEN k ELSE WarmupBars
        /\ Len(rawStates) = IF k < WarmupBars THEN 0 ELSE k - WarmupBars + 1
    BY <1>1, <1>3, <2>2 DEF ActorKept
  <2>4. /\ barsSeen' = IF k + 1 < WarmupBars THEN k + 1 ELSE WarmupBars
        /\ Len(rawStates') = IF k + 1 < WarmupBars THEN 0 ELSE (k + 1) - WarmupBars + 1
    BY <1>5, <1>6, <1>7, <2>3, RegimeBounds
  <2> QED
    BY <2>1, <2>2, <2>4 DEF ActorKept
<1>10. EntriesAdmitted'
  <2>1. \A n \in 1..Len(rawStates) :
            n \in 1..Len(rawStates') /\ ConfirmedIn(rawStates', n) = ConfirmedIn(rawStates, n)
    <3>1. CASE barsSeen' < WarmupBars
      BY <1>6, <3>1
    <3>2. CASE ~(barsSeen' < WarmupBars)
      <4> SUFFICES ASSUME NEW n \in 1..Len(rawStates)
                   PROVE  /\ n \in 1..Len(rawStates')
                          /\ ConfirmedIn(rawStates', n) = ConfirmedIn(rawStates, n)
        OBVIOUS
      <4>1. n \in 0..Len(rawStates) /\ rawStates \in Seq(RegimeStates) /\ Len(rawStates) \in Nat
        BY <1>1, LenProperties DEF RegimeKept
      <4>2. ConfirmedIn(Append(rawStates, raw), n) = ConfirmedIn(rawStates, n)
        BY <4>1, RunFacts
      <4>3. rawStates' = Append(rawStates, raw) /\ Len(rawStates') = Len(rawStates) + 1
        BY <1>7, <3>2
      <4>4. n \in 1..Len(rawStates')
        BY <4>1, <4>3
      <4> QED
        BY <4>2, <4>3, <4>4
    <3> QED
      BY <3>1, <3>2
  <2>2. AdmittedIn(rawStates', cfg, entries)
    <3>1. AdmittedIn(rawStates, cfg, entries)
      BY EntriesAdmittedIs DEF TradeInv
    <3> QED
      BY <2>1, <3>1 DEF AdmittedIn
  <2> QED
    BY <1>2, <2>2, EntriesAdmittedIs
<1>11. TradeTyped'
  BY <1>1, <1>2, <1>3, BarFacts DEF TradeTyped
<1>12. OrbKept' /\ ChannelKept' /\ BracketsKept'
  BY <1>2 DEF TradeInv, OrbKept, ChannelKept, NoneIs, BracketsKept, Sized
<1>13. ForcedKept' /\ PositionKept'
  BY <1>2 DEF TradeInv, ForcedKept, Forced, ForcedBy, NoneIs, PositionKept, ScaleKept, Climbs, ReducesOnce
<1> QED
  BY <1>8, <1>9, <1>10, <1>11, <1>12, <1>13 DEF TradeInv

LEMMA BarDoneKeeps == TradeInv /\ BarDone => TradeInv'
<1> SUFFICES ASSUME TradeInv, BarDone PROVE TradeInv'
  OBVIOUS
<1>1. TradeTyped
  BY DEF TradeInv
<1>2. /\ toRun = {} /\ commands = <<>> /\ bar' = NoBar /\ Len(commands) = 0
      /\ UNCHANGED <<cfg, clock, toRun, memory, position, stop, scaleState, commands, bars,
                     entries>>
      /\ UNCHANGED regimeVars
  BY DEF BarDone
<1>3. RegimeKept' /\ ActorKept' /\ EntriesAdmitted'
  BY <1>2, EntriesAdmittedIs DEF TradeInv, RegimeKept, ActorKept, Handled, regimeVars
<1>4. TradeTyped'
  BY <1>1, <1>2 DEF TradeTyped
<1>5. OrbKept' /\ ChannelKept' /\ PositionKept'
  BY <1>2 DEF TradeInv, OrbKept, ChannelKept, NoneIs, PositionKept, ScaleKept, Climbs,
              ReducesOnce
<1>6. ForcedKept' /\ BracketsKept'
  BY <1>2 DEF ForcedKept, BracketsKept
<1> QED
  BY <1>3, <1>4, <1>5, <1>6 DEF TradeInv

LEMMA SignFacts == \A side : Sign(side) \in {1, -1}
BY DEF Sign

LEMMA NoCommands ==
    ASSUME NEW cs, Len(cs) = 0
    PROVE  /\ \A what : NoneIs(cs, what)
           /\ \A pos : ReducesOnce(cs, pos)
           /\ \A from, to, dir : dir * (to - from) >= 0 => Climbs(cs, from, to, dir)
<1>1. 1..Len(cs) = {}
  OBVIOUS
<1> QED
  BY <1>1 DEF NoneIs, ReducesOnce, Climbs

LEMMA ClosingOnly ==
    /\ <<>> \in Seq(Commands) /\ CloseAll \in Seq(Commands)
    /\ Len(CloseAll) = 1 /\ CloseAll[1].do = "close"
    /\ \A cs \in {<<>>, CloseAll} :
        /\ \A what \in {"bracket", "reduce", "modify"} : NoneIs(cs, what)
        /\ \A pos : ReducesOnce(cs, pos)
        /\ \A from, to, dir : dir * (to - from) >= 0 => Climbs(cs, from, to, dir)
<1>1. /\ <<>> \in Seq(Commands) /\ CloseAll \in Seq(Commands)
      /\ Len(CloseAll) = 1 /\ CloseAll[1].do = "close"
  <2>1. [do |-> "close"] \in Commands
    BY DEF Commands
  <2> QED
    BY <2>1 DEF CloseAll
<1>2. \A i \in 1..Len(CloseAll) : CloseAll[i].do = "close"
  BY <1>1
<1>3. /\ \A what \in {"bracket", "reduce", "modify"} : NoneIs(CloseAll, what)
      /\ \A pos : ReducesOnce(CloseAll, pos)
      /\ \A from, to, dir : dir * (to - from) >= 0 => Climbs(CloseAll, from, to, dir)
  BY <1>2 DEF NoneIs, ReducesOnce, Climbs
<1>4. Len(<<>>) = 0
  OBVIOUS
<1> QED
  BY <1>1, <1>3, <1>4, NoCommands

(* What is left of the commands when the first has been executed. *)
LEMMA RestOfCommands ==
    ASSUME NEW cs \in Seq(Commands), cs # <<>>
    PROVE  /\ Tail(cs) \in Seq(Commands) /\ Head(cs) \in Commands
           /\ Len(cs) \in Nat /\ Len(Tail(cs)) = Len(cs) - 1
           /\ 1 \in 1..Len(cs) /\ Head(cs) = cs[1]
           /\ \A i \in 1..Len(Tail(cs)) : i + 1 \in 1..Len(cs) /\ Tail(cs)[i] = cs[i + 1]
<1>1. /\ Tail(cs) \in Seq(Commands) /\ Head(cs) \in Commands
      /\ Len(cs) \in Nat \ {0} /\ Len(Tail(cs)) = Len(cs) - 1
      /\ Head(cs) = cs[1]
      /\ \A i \in 1..Len(cs) - 1 : Tail(cs)[i] = cs[i + 1]
  BY HeadTailProperties, LenProperties, EmptySeq
<1> QED
  BY <1>1

LEMMA RestKeeps ==
    ASSUME NEW cs \in Seq(Commands), cs # <<>>
    PROVE  /\ \A what : NoneIs(cs, what) => NoneIs(Tail(cs), what)
           /\ \A from, to, dir : Climbs(cs, from, to, dir) =>
                /\ Climbs(Tail(cs), from, to, dir)
                /\ Head(cs).do = "modify" => Climbs(Tail(cs), Head(cs).stop, to, dir)
           /\ \A pos : ReducesOnce(cs, pos) =>
                /\ ReducesOnce(Tail(cs), pos)
                /\ Head(cs).do = "reduce" => NoneIs(Tail(cs), "reduce")
<1>1. /\ 1 \in 1..Len(cs) /\ Head(cs) = cs[1] /\ Len(cs) \in Nat
      /\ Len(Tail(cs)) = Len(cs) - 1
      /\ \A i \in 1..Len(Tail(cs)) : i + 1 \in 1..Len(cs) /\ Tail(cs)[i] = cs[i + 1]
  BY RestOfCommands
<1>2. PICK rest : rest = Tail(cs)
  OBVIOUS
<1>3. ASSUME NEW what, NoneIs(cs, what) PROVE NoneIs(rest, what)
  BY <1>1, <1>2, <1>3 DEF NoneIs
<1>4. ASSUME NEW from, NEW to, NEW dir, Climbs(cs, from, to, dir)
      PROVE  /\ Climbs(rest, from, to, dir)
             /\ Head(cs).do = "modify" => Climbs(rest, Head(cs).stop, to, dir)
  <2>1. \A i, j \in 1..Len(rest) :
            i < j /\ rest[i].do = "modify" /\ rest[j].do = "modify" =>
                dir * (rest[j].stop - rest[i].stop) >= 0
    <3> SUFFICES ASSUME NEW i \in 1..Len(rest), NEW j \in 1..Len(rest), i < j,
                        rest[i].do = "modify", rest[j].do = "modify"
                 PROVE  dir * (rest[j].stop - rest[i].stop) >= 0
      OBVIOUS
    <3>1. i + 1 < j + 1 /\ i + 1 \in 1..Len(cs) /\ j + 1 \in 1..Len(cs)
      BY <1>1, <1>2
    <3> QED
      BY <1>1, <1>2, <1>4, <3>1 DEF Climbs
  <2>2. \A i \in 1..Len(rest) : rest[i].do = "modify" =>
            dir * (rest[i].stop - from) >= 0 /\ dir * (to - rest[i].stop) >= 0
    BY <1>1, <1>2, <1>4 DEF Climbs
  <2>3. Head(cs).do = "modify" =>
            /\ dir * (to - Head(cs).stop) >= 0
            /\ \A i \in 1..Len(rest) : rest[i].do = "modify" =>
                    dir * (rest[i].stop - Head(cs).stop) >= 0
    <3>1. Head(cs).do = "modify" => dir * (to - Head(cs).stop) >= 0
      BY <1>1, <1>4 DEF Climbs
    <3>2. ASSUME Head(cs).do = "modify", NEW i \in 1..Len(rest), rest[i].do = "modify"
          PROVE  dir * (rest[i].stop - Head(cs).stop) >= 0
      <4>1. 1 < i + 1 /\ i + 1 \in 1..Len(cs) /\ rest[i] = cs[i + 1]
        BY <1>1, <1>2
      <4> QED
        BY <1>1, <1>4, <3>2, <4>1 DEF Climbs
    <3> QED
      BY <3>1, <3>2
  <2> QED
    BY <1>4, <2>1, <2>2, <2>3 DEF Climbs
<1>5. ASSUME NEW pos, ReducesOnce(cs, pos)
      PROVE  /\ ReducesOnce(rest, pos)
             /\ Head(cs).do = "reduce" => NoneIs(rest, "reduce")
  <2>1. ASSUME NEW i \in 1..Len(rest), NEW j \in 1..Len(rest),
               rest[i].do = "reduce", rest[j].do = "reduce"
        PROVE  i = j
    <3>1. i + 1 = j + 1
      BY <1>1, <1>2, <1>5, <2>1 DEF ReducesOnce
    <3> QED
      BY <1>1, <1>2, <3>1
  <2>2. ASSUME Head(cs).do = "reduce", NEW i \in 1..Len(rest) PROVE rest[i].do # "reduce"
    <3>1. i + 1 # 1 /\ i + 1 \in 1..Len(cs) /\ rest[i] = cs[i + 1]
      BY <1>1, <1>2
    <3> QED
      BY <1>1, <1>5, <2>2, <3>1 DEF ReducesOnce
  <2> QED
    BY <1>1, <1>2, <1>5, <2>1, <2>2 DEF ReducesOnce, NoneIs
<1> QED
  BY <1>2, <1>3, <1>4, <1>5

(* The scale-out of a position starts untouched, from the stop it was given. *)
LEMMA InitScaleFacts ==
    ASSUME NEW pos \in PositionRecords, NEW sl \in Int, pos.lots = pos.initial,
           Sign(pos.side) * (pos.entry - sl) >= 0, cfg \in Configs, ValidConfig(cfg)
    PROVE  LET s == InitScaleState(pos, sl)
           IN  s \in ScaleStates /\ ScaleKept(s, pos) /\ s.sl = sl /\ ~s.scaledOut
<1>1. pos.entry \in Int /\ Sign(pos.side) \in {1, -1}
  BY SignFacts DEF PositionRecords
<1>2. PICK risk \in Int : risk = Max({pos.entry - sl, sl - pos.entry})
  BY <1>1, MaxOfTwo
<1>3. PICK be \in Int : /\ be = BreakevenPrice(pos.side, pos.entry, risk)
                        /\ Sign(pos.side) * (be - pos.entry) >= 0
  <2>1. cfg.offset \in Int /\ cfg.offset >= 0
    BY DEF Configs, ValidConfig
  <2>2. CASE BreakevenPrice(pos.side, pos.entry, risk) = pos.entry
    <3>1. Sign(pos.side) * (pos.entry - pos.entry) >= 0
      BY <1>1
    <3> QED
      BY <1>1, <2>2, <3>1
  <2>3. CASE BreakevenPrice(pos.side, pos.entry, risk) = pos.entry + Sign(pos.side) * cfg.offset
    <3>1. PICK be \in Int : be = pos.entry + Sign(pos.side) * cfg.offset
      BY <1>1, <2>1
    <3>2. Sign(pos.side) * (be - pos.entry) >= 0
      BY <1>1, <2>1, <3>1
    <3> QED
      BY <2>3, <3>1, <3>2
  <2> QED
    BY <2>2, <2>3 DEF BreakevenPrice
<1>4. PICK s : /\ s = InitScaleState(pos, sl)
               /\ s = [on |-> TRUE, risk |-> risk, bePrice |-> be, sl |-> sl,
                       scaledOut |-> FALSE, beMoved |-> FALSE, trailing |-> FALSE]
  BY <1>2, <1>3 DEF InitScaleState
<1>5. s \in ScaleStates
  BY <1>4 DEF ScaleStates
<1>6. ScaleKept(s, pos)
  BY <1>3, <1>4 DEF ScaleKept
<1> QED
  BY <1>4, <1>5, <1>6

LEMMA CommandFacts ==
    ASSUME NEW c \in Commands
    PROVE  /\ c.do \in {"bracket", "close", "reduce", "modify"}
           /\ c.do = "bracket" => /\ c.side \in {"long", "short"} /\ c.lots \in Int
                                  /\ c.stop \in Int /\ c.budget \in Int
           /\ c.do = "reduce" => c.lots \in Int
           /\ c.do = "modify" => c.stop \in Int
<1>1. CASE c \in BracketCommands
  BY <1>1 DEF BracketCommands
<1>2. CASE c \in [do : {"close"}]
  BY <1>2
<1>3. CASE c \in [do : {"reduce"}, lots : Int]
  BY <1>3
<1>4. CASE c \in [do : {"modify"}, stop : Int]
  BY <1>4
<1> QED
  BY <1>1, <1>2, <1>3, <1>4 DEF Commands

(* The venue executes a command of each kind. *)
LEMMA FillBracketKeeps ==
    ASSUME TradeInv, commands # <<>>, NEW c, c = Head(commands), c.do = "bracket",
           FillBracket(c), commands' = Tail(commands), bar # NoBar, UNCHANGED cfg
    PROVE  /\ position' \in PositionRecords /\ position'.side # "flat"
           /\ stop' \in Int
           /\ scaleState' = NoScale \/ scaleState' \in ScaleStates
           /\ PositionKept'
           /\ Len(commands') = 0 /\ position = NoPosition
           /\ 100 * LossAtStop(position', stop') <= c.budget
<1>1. TradeTyped /\ BracketsKept
  BY DEF TradeInv
<1>2. /\ c \in Commands /\ 1 \in 1..Len(commands) /\ c = commands[1]
      /\ Len(commands') = Len(commands) - 1
  BY <1>1, RestOfCommands DEF TradeTyped
<1>3. /\ c.side \in {"long", "short"} /\ c.lots \in Int /\ c.stop \in Int /\ c.budget \in Int
  BY <1>2, CommandFacts
<1>4. Len(commands) = 1 /\ position = NoPosition /\ Sized(c, bar.price)
  BY <1>1, <1>2 DEF BracketsKept
<1>5. PICK price \in Int : price = bar.price
  BY <1>1 DEF TradeTyped, Bars
<1>6. PICK pos : /\ pos = [side |-> c.side, entry |-> price, lots |-> c.lots, initial |-> c.lots]
                 /\ position' = pos /\ stop' = c.stop
                 /\ scaleState' = NoScale \/ scaleState' = InitScaleState(pos, c.stop)
  BY <1>5 DEF FillBracket
<1>7. /\ pos.side = c.side /\ pos.entry = price /\ pos.lots = c.lots /\ pos.initial = c.lots
      /\ pos \in PositionRecords /\ pos.side # "flat"
  BY <1>3, <1>6 DEF PositionRecords
<1>8. c.lots > 0 /\ Sign(pos.side) * (pos.entry - c.stop) >= 0
  <2>1. c.lots > 0 /\ Sign(c.side) * (price - c.stop) > 0
    BY <1>4, <1>5 DEF Sized
  <2>2. PICK x \in Int : x = Sign(c.side) * (price - c.stop)
    BY <1>3, SignFacts
  <2> QED
    BY <1>7, <2>1, <2>2
<1>9. PICK s : /\ s = InitScaleState(pos, c.stop)
               /\ s \in ScaleStates /\ ScaleKept(s, pos) /\ s.sl = c.stop /\ ~s.scaledOut
  BY <1>1, <1>3, <1>7, <1>8, InitScaleFacts DEF TradeTyped
<1>10. ScaleKept(s, pos)'
  <2>1. ScaleKept(s, pos) /\ cfg' = cfg
    BY <1>9
  <2> QED
    BY <2>1 DEF ScaleKept
<1>11. Len(commands') = 0
  BY <1>2, <1>4
<1>12. PositionKept'
  <2>1. pos.lots >= 1
    BY <1>3, <1>7, <1>8
  <2>2. NoneIs(commands', "modify") /\ NoneIs(commands', "reduce")
    BY <1>11, NoCommands
  <2>3. CASE scaleState' = NoScale
    BY <1>6, <1>7, <1>8, <2>1, <2>2, <2>3 DEF PositionKept, NoneIs
  <2>4. CASE scaleState' = s
    <3>1. Climbs(commands', stop', s.sl, Sign(pos.side))
      <4>1. Sign(pos.side) * (c.stop - c.stop) >= 0
        BY <1>3, SignFacts
      <4> QED
        BY <1>6, <1>9, <1>11, <4>1, NoCommands
    <3>2. ReducesOnce(commands', pos)
      BY <1>11, NoCommands
    <3>3. s # NoScale
      <4>1. s.on /\ ~NoScale.on
        BY <1>9 DEF ScaleStates, NoScale
      <4> QED
        BY <4>1
    <3> QED
      BY <1>6, <1>10, <2>1, <2>2, <2>4, <3>1, <3>2, <3>3 DEF PositionKept, NoneIs, ScaleKept, Climbs, ReducesOnce
  <2> QED
    BY <1>6, <1>9, <2>3, <2>4
<1>13. 100 * LossAtStop(position', stop') <= c.budget
  BY <1>4, <1>5, <1>6, <1>7 DEF LossAtStop, Sized
<1> QED
  BY <1>3, <1>4, <1>6, <1>7, <1>9, <1>11, <1>12, <1>13

LEMMA FillReduceKeeps ==
    ASSUME TradeInv, commands # <<>>, NEW c, c = Head(commands), c.do = "reduce",
           FillReduce(c), commands' = Tail(commands), UNCHANGED cfg
    PROVE  /\ position' \in PositionRecords
           /\ position' = NoPosition \/ position'.side # "flat"
           /\ position = NoPosition => position' = NoPosition
           /\ position # NoPosition =>
                /\ position'.side = position.side /\ position'.entry = position.entry
                /\ position.lots = position.initial /\ position'.lots \in 1..position.initial - 1
           /\ PositionKept'
<1>1. TradeTyped /\ PositionKept /\ UNCHANGED <<stop, scaleState>>
  BY DEF TradeInv, FillReduce
<1>2. /\ commands \in Seq(Commands) /\ position \in PositionRecords
      /\ position = NoPosition \/ position.side # "flat"
  BY <1>1 DEF TradeTyped
<1>3. /\ c \in Commands /\ 1 \in 1..Len(commands) /\ c = commands[1] /\ c.lots \in Int
      /\ NoneIs(commands, "reduce") = FALSE
  BY <1>2, RestOfCommands, CommandFacts DEF NoneIs
<1>4. CASE position = NoPosition
  BY <1>1, <1>2, <1>4 DEF FillReduce, PositionKept
<1>5. CASE position # NoPosition
  <2>1. /\ scaleState # NoScale /\ ScaleKept(scaleState, position)
        /\ Climbs(commands, stop, scaleState.sl, Sign(position.side))
        /\ ReducesOnce(commands, position) /\ scaleState.scaledOut
    BY <1>1, <1>3, <1>5 DEF PositionKept
  <2>2. position.lots = position.initial /\ c.lots \in 1..position.lots - 1
    BY <1>3, <2>1 DEF ReducesOnce
  <2>3. PICK pos : pos = [position EXCEPT !.lots = @ - c.lots]
    OBVIOUS
  <2>4. /\ pos \in PositionRecords /\ pos.side = position.side /\ pos.entry = position.entry
        /\ pos.initial = position.initial /\ pos.lots = position.lots - c.lots
    BY <1>2, <1>3, <2>3 DEF PositionRecords
  <2>5. pos.lots \in 1..position.initial - 1 /\ position' = pos /\ pos.side # "flat"
    <3>1. position.lots \in Int /\ position.initial = position.lots /\ pos.lots = position.lots - c.lots
      BY <1>2, <2>2, <2>4 DEF PositionRecords
    <3>2. pos.lots \in 1..position.initial - 1
      BY <1>3, <2>2, <3>1
    <3>3. position' = pos
      BY <1>5, <2>3 DEF FillReduce
    <3> QED
      BY <1>2, <1>5, <2>4, <3>2, <3>3
  <2>6. /\ Climbs(commands', stop, scaleState.sl, Sign(pos.side))
        /\ NoneIs(commands', "reduce")
    BY <1>2, <2>1, <2>4, RestKeeps
  <2>7. ScaleKept(scaleState, pos)'
    BY <1>1, <2>1, <2>4, <2>5 DEF ScaleKept
  <2>8. ReducesOnce(commands', pos)
    BY <2>6 DEF ReducesOnce, NoneIs
  <2>9. PositionKept'
    BY <1>1, <2>1, <2>5, <2>6, <2>7, <2>8
       DEF PositionKept, NoneIs, ScaleKept, Climbs, ReducesOnce
  <2> QED
    BY <1>5, <2>2, <2>4, <2>5, <2>9
<1> QED
  BY <1>4, <1>5

LEMMA ModifyKeeps ==
    ASSUME TradeInv, commands # <<>>, NEW c, c = Head(commands), c.do = "modify",
           stop' = IF stop = NoPrice THEN NoPrice ELSE c.stop,
           commands' = Tail(commands), UNCHANGED <<cfg, position, scaleState>>
    PROVE  /\ stop' \in Int
           /\ position # NoPosition => Sign(position.side) * (stop' - stop) >= 0
           /\ PositionKept'
<1>1. TradeTyped /\ PositionKept
  BY DEF TradeInv
<1>2. commands \in Seq(Commands) /\ position \in PositionRecords /\ stop \in Int
  BY <1>1 DEF TradeTyped
<1>3. /\ c \in Commands /\ 1 \in 1..Len(commands) /\ c = commands[1] /\ c.stop \in Int
      /\ NoneIs(commands, "modify") = FALSE
  BY <1>2, RestOfCommands, CommandFacts DEF NoneIs
<1>4. CASE position = NoPosition
  BY <1>2, <1>3, <1>4 DEF PositionKept, NoPrice
<1>5. CASE position # NoPosition
  <2>1. /\ scaleState # NoScale /\ ScaleKept(scaleState, position)
        /\ Climbs(commands, stop, scaleState.sl, Sign(position.side))
        /\ ReducesOnce(commands, position)
        /\ ~NoneIs(commands, "reduce") => scaleState.scaledOut
        /\ position.lots >= 1
    BY <1>1, <1>3, <1>5 DEF PositionKept
  <2>2. /\ Climbs(commands', stop, scaleState.sl, Sign(position.side))
        /\ Climbs(commands', c.stop, scaleState.sl, Sign(position.side))
        /\ ReducesOnce(commands', position)
        /\ NoneIs(commands, "reduce") => NoneIs(commands', "reduce")
    BY <1>2, <2>1, RestKeeps
  <2>3. Climbs(commands', stop', scaleState.sl, Sign(position.side))
    BY <2>2
  <2>4. Sign(position.side) * (stop' - stop) >= 0
    <3>1. Sign(position.side) * (c.stop - stop) >= 0
      BY <1>3, <2>1 DEF Climbs
    <3>2. Sign(position.side) * (stop - stop) >= 0
      BY <1>2, SignFacts
    <3> QED
      BY <3>1, <3>2
  <2>5. PositionKept'
    BY <2>1, <2>2, <2>3 DEF PositionKept, NoneIs, ScaleKept, Climbs, ReducesOnce
  <2> QED
    BY <1>2, <1>3, <2>4, <2>5 DEF NoPrice
<1> QED
  BY <1>4, <1>5

LEMMA ExecuteKeeps == TradeInv /\ Execute => TradeInv'
<1> SUFFICES ASSUME TradeInv, Execute PROVE TradeInv'
  OBVIOUS
<1>1. TradeTyped /\ PositionKept /\ ForcedKept /\ BracketsKept /\ ChannelKept
  BY DEF TradeInv
<1>2. /\ bar # NoBar /\ toRun = {} /\ commands # <<>> /\ commands' = Tail(commands)
      /\ UNCHANGED <<cfg, clock, bar, toRun, memory, bars, entries>>
      /\ UNCHANGED regimeVars
  BY DEF Execute
<1>3. PICK c \in Commands : c = Head(commands)
  BY <1>1, <1>2, RestOfCommands DEF TradeTyped
<1>4. commands \in Seq(Commands) /\ commands' \in Seq(Commands)
  BY <1>1, <1>2, RestOfCommands DEF TradeTyped
<1>5. c = commands[1] /\ 1 \in 1..Len(commands) /\ c.do \in {"bracket", "close", "reduce", "modify"}
  BY <1>2, <1>3, <1>4, RestOfCommands, CommandFacts
<1>6. /\ c.do = "bracket" => FillBracket(c)
      /\ c.do = "close" => PositionClosed
      /\ c.do = "reduce" => FillReduce(c)
      /\ c.do = "modify" => /\ stop' = IF stop = NoPrice THEN NoPrice ELSE c.stop
                            /\ UNCHANGED <<position, target, scaleState>>
  BY <1>3, <1>5 DEF Execute
<1>7. /\ position' \in PositionRecords /\ (position' = NoPosition \/ position'.side # "flat")
      /\ stop' \in Int
      /\ scaleState' = NoScale \/ scaleState' \in ScaleStates
      /\ PositionKept'
  <2>1. CASE c.do = "bracket"
    BY <1>2, <1>3, <1>6, <2>1, FillBracketKeeps
  <2>2. CASE c.do = "close"
    BY <1>6, <2>2 DEF PositionClosed, NoPosition, PositionRecords, NoPrice, PositionKept
  <2>3. CASE c.do = "reduce"
    <3>1. stop' \in Int /\ (scaleState' = NoScale \/ scaleState' \in ScaleStates)
      BY <1>1, <1>6, <2>3 DEF FillReduce, TradeTyped
    <3> QED
      BY <1>2, <1>3, <1>6, <2>3, <3>1, FillReduceKeeps
  <2>4. CASE c.do = "modify"
    <3>1. /\ position' \in PositionRecords /\ (position' = NoPosition \/ position'.side # "flat")
          /\ scaleState' = NoScale \/ scaleState' \in ScaleStates
      BY <1>1, <1>6, <2>4 DEF TradeTyped
    <3> QED
      BY <1>2, <1>3, <1>6, <2>4, <3>1, ModifyKeeps
  <2> QED
    BY <1>5, <2>1, <2>2, <2>3, <2>4
<1>8. \A what : NoneIs(commands, what) => NoneIs(commands', what)
  BY <1>2, <1>4, RestKeeps
<1>9. position = NoPosition => position' = NoPosition \/ c.do = "bracket"
  <2>1. CASE c.do = "close"
    BY <1>6, <2>1 DEF PositionClosed
  <2>2. CASE c.do = "reduce"
    BY <1>6, <2>2 DEF FillReduce
  <2>3. CASE c.do = "modify"
    BY <1>6, <2>3
  <2> QED
    BY <1>5, <2>1, <2>2, <2>3
<1>10. RegimeKept' /\ ActorKept' /\ EntriesAdmitted'
  BY <1>2, EntriesAdmittedIs DEF TradeInv, RegimeKept, ActorKept, Handled, regimeVars
<1>11. TradeTyped'
  BY <1>1, <1>2, <1>4, <1>7 DEF TradeTyped
<1>12. OrbKept'
  BY <1>2 DEF TradeInv, OrbKept
<1>13. ChannelKept'
  <2> SUFFICES ASSUME cfg.kind = "donchian_breakout", memory.last = NoReading
               PROVE  position' = NoPosition /\ NoneIs(commands', "bracket")
    BY <1>2 DEF ChannelKept, NoneIs
  <2>1. position = NoPosition /\ NoneIs(commands, "bracket")
    BY <1>1 DEF ChannelKept
  <2>2. c.do # "bracket"
    BY <1>5, <2>1 DEF NoneIs
  <2> QED
    BY <1>8, <1>9, <2>1, <2>2
<1>14. ForcedKept'
  <2> SUFFICES ASSUME Forced
               PROVE  /\ NoneIs(commands', "bracket")
                      /\ position' = NoPosition
    BY <1>2 DEF ForcedKept, Forced, ForcedBy, NoneIs
  <2>1. NoneIs(commands, "bracket") /\ (position = NoPosition \/ c.do = "close")
    BY <1>1, <1>2, <1>3 DEF ForcedKept
  <2>2. c.do # "bracket"
    BY <1>5, <2>1 DEF NoneIs
  <2>3. c.do = "close" => position' = NoPosition
    BY <1>6 DEF PositionClosed
  <2> QED
    BY <1>8, <1>9, <2>1, <2>2, <2>3
<1>15. BracketsKept'
  <2> SUFFICES ASSUME NEW i \in 1..Len(commands'), commands'[i].do = "bracket"
               PROVE  FALSE
    BY DEF BracketsKept
  <2>1. i + 1 \in 1..Len(commands) /\ commands'[i] = commands[i + 1] /\ i + 1 # 1
    BY <1>2, <1>4, RestOfCommands
  <2>2. Len(commands) = 1
    BY <1>1, <2>1 DEF BracketsKept
  <2> QED
    BY <2>1, <2>2
<1> QED
  BY <1>7, <1>10, <1>11, <1>12, <1>13, <1>14, <1>15 DEF TradeInv

(* Lists of commands are joined one after the other. *)
LEMMA CommandsJoin ==
    \A a, b, c \in Seq(Commands) :
        a \o b \in Seq(Commands) /\ a \o (b \o c) = (a \o b) \o c
<1>1. ASSUME NEW C, NEW a \in Seq(C), NEW b \in Seq(C), NEW c \in Seq(C)
      PROVE  a \o b \in Seq(C) /\ a \o (b \o c) = (a \o b) \o c
  <2>1. (a \o b) \o c = a \o (b \o c)
    BY ConcatAssociative
  <2>2. a \o b \in Seq(C)
    BY ConcatProperties
  <2> QED
    BY <2>1, <2>2
<1> QED
  BY <1>1, SMTT(40)

(* One more command at the end of the bar's list. *)
LEMMA OneMore ==
    ASSUME NEW cs \in Seq(Commands), NEW c \in Commands
    PROVE  /\ cs \o <<c>> \in Seq(Commands)
           /\ \A what : NoneIs(cs, what) /\ c.do # what => NoneIs(cs \o <<c>>, what)
           /\ \A from, to, dir :
                Climbs(cs, from, to, dir) /\ c.do # "modify" => Climbs(cs \o <<c>>, from, to, dir)
           /\ \A from, to \in Int : \A dir \in {1, -1} :
                /\ Climbs(cs, from, to, dir) /\ c.do = "modify" /\ dir * (c.stop - to) >= 0
                => Climbs(cs \o <<c>>, from, c.stop, dir)
           /\ \A pos :
                /\ ReducesOnce(cs, pos) /\ c.do # "reduce" => ReducesOnce(cs \o <<c>>, pos)
                /\ /\ NoneIs(cs, "reduce") /\ pos.lots = pos.initial
                   /\ c.do = "reduce" /\ c.lots \in 1..pos.lots - 1
                   => ReducesOnce(cs \o <<c>>, pos)
<1>1. PICK more \in Seq(Commands) :
        /\ more = cs \o <<c>> /\ Len(more) = Len(cs) + 1
        /\ more[Len(cs) + 1] = c /\ \A i \in 1..Len(cs) : more[i] = cs[i]
  <2>1. PICK more : more = Append(cs, c)
    OBVIOUS
  <2>2. /\ more \in Seq(Commands) /\ Len(more) = Len(cs) + 1
        /\ more[Len(cs) + 1] = c /\ \A i \in 1..Len(cs) : more[i] = cs[i]
    BY <2>1, AppendProperties
  <2>3. more = cs \o <<c>>
    BY <2>1, AppendIsConcat
  <2> QED
    BY <2>2, <2>3
<1>2. PICK n \in Nat : n = Len(cs)
  BY LenProperties
<1>3. \A i \in 1..n : i \in 1..n + 1 /\ more[i] = cs[i] /\ more[i] \in Commands
  BY <1>1, <1>2, ElementOfSeq
<1>4. Len(more) = n + 1 /\ more[n + 1] = c /\ \A i \in 1..n + 1 : i \in 1..n \/ i = n + 1
  BY <1>1, <1>2
<1>5. ASSUME NEW what, NoneIs(cs, what), c.do # what PROVE NoneIs(more, what)
  BY <1>2, <1>3, <1>4, <1>5 DEF NoneIs
<1>6. ASSUME NEW from, NEW to, NEW dir, Climbs(cs, from, to, dir), c.do # "modify"
      PROVE  Climbs(more, from, to, dir)
  BY <1>2, <1>3, <1>4, <1>6 DEF Climbs
<1>7. ASSUME NEW from \in Int, NEW to \in Int, NEW dir \in {1, -1}, Climbs(cs, from, to, dir),
             c.do = "modify", dir * (c.stop - to) >= 0
      PROVE  Climbs(more, from, c.stop, dir)
  <2>1. c.stop \in Int
    BY <1>7, CommandFacts
  <2>2. ASSUME NEW i \in 1..n, more[i].do = "modify"
        PROVE  dir * (more[i].stop - from) >= 0 /\ dir * (c.stop - more[i].stop) >= 0
    <3>1. more[i].stop \in Int
      BY <1>3, <2>2, CommandFacts
    <3>2. dir * (more[i].stop - from) >= 0 /\ dir * (to - more[i].stop) >= 0
      BY <1>2, <1>3, <1>7, <2>2 DEF Climbs
    <3>3. PICK m \in Int : m = more[i].stop
      BY <3>1
    <3>4. PICK p \in Int : p = c.stop
      BY <2>1
    <3>5. dir * (to - m) >= 0 /\ dir * (p - to) >= 0
      BY <1>7, <3>2, <3>3, <3>4
    <3>6. dir * (p - m) >= 0
      BY <3>5
    <3> QED
      BY <3>2, <3>3, <3>4, <3>6
  <2>3. dir * (c.stop - from) >= 0 /\ dir * (c.stop - c.stop) >= 0
    <3>1. dir * (to - from) >= 0
      BY <1>7 DEF Climbs
    <3> QED
      BY <1>7, <2>1, <3>1
  <2>4. ASSUME NEW i \in 1..n + 1, NEW j \in 1..n + 1, i < j,
               more[i].do = "modify", more[j].do = "modify"
        PROVE  dir * (more[j].stop - more[i].stop) >= 0
    <3>1. i \in 1..n
      BY <2>4
    <3>2. CASE j = n + 1
      BY <1>4, <2>2, <2>4, <3>1, <3>2
    <3>3. CASE j \in 1..n
      BY <1>2, <1>3, <1>7, <2>4, <3>1, <3>3 DEF Climbs
    <3> QED
      BY <1>4, <3>2, <3>3
  <2>5. \A i \in 1..n + 1 : more[i].do = "modify" =>
            dir * (more[i].stop - from) >= 0 /\ dir * (c.stop - more[i].stop) >= 0
    BY <1>4, <2>2, <2>3
  <2> QED
    BY <1>4, <2>3, <2>4, <2>5 DEF Climbs
<1>8. ASSUME NEW pos, ReducesOnce(cs, pos), c.do # "reduce" PROVE ReducesOnce(more, pos)
  BY <1>2, <1>3, <1>4, <1>8 DEF ReducesOnce
<1>9. ASSUME NEW pos, NoneIs(cs, "reduce"), pos.lots = pos.initial, c.do = "reduce",
             c.lots \in 1..pos.lots - 1
      PROVE  ReducesOnce(more, pos)
  BY <1>2, <1>3, <1>4, <1>9 DEF ReducesOnce, NoneIs
<1> QED
  BY <1>1, <1>5, <1>6, <1>7, <1>8, <1>9

(* What the list of a bar's commands says when the scale-out has brought it   *)
(* to a state s of the position.                                              *)
Managed(cs, s, from, pos) ==
    /\ cs \in Seq(Commands) /\ NoneIs(cs, "bracket")
    /\ s \in ScaleStates /\ ScaleKept(s, pos)
    /\ Climbs(cs, from, s.sl, Sign(pos.side))
    /\ ReducesOnce(cs, pos)
    /\ ~NoneIs(cs, "reduce") => s.scaledOut

LEMMA ScaleOutKeeps ==
    ASSUME cfg \in Configs, ValidConfig(cfg), bar \in Bars,
           NEW pos \in PositionRecords, pos = position, pos.lots >= 1,
           NEW s \in ScaleStates, NEW q \in PartialLots(pos.lots),
           NEW first \in Seq(Commands), NoneIs(first, "reduce"), stop \in Int,
           Managed(first, s, stop, pos)
    PROVE  LET r == EvaluateScaleOut(s, q)
           IN  /\ r.commands \in Seq(Commands)
               /\ Managed(first \o r.commands, r.state, stop, pos)
<1> DEFINE dir == Sign(pos.side)
           gain == dir * (bar.price - pos.entry)
           scales == cfg.scaleOut /\ ~s.scaledOut /\ gain >= cfg.trigger * s.risk
           s1 == [s EXCEPT !.scaledOut = @ \/ scales]
           breaks == /\ s1.scaledOut /\ ~s1.beMoved /\ cfg.breakevenAt # NoBreakeven
                     /\ gain >= cfg.breakevenAt * s.risk /\ StopWorking
           s2 == [s1 EXCEPT !.beMoved = @ \/ breaks, !.sl = IF breaks THEN s.bePrice ELSE @]
           trails == cfg.trailing /\ \/ s2.trailing \/ s2.beMoved \/ ~cfg.scaleOut
                                     \/ s2.scaledOut /\ cfg.breakevenAt = NoBreakeven
           moves == trails /\ StopWorking /\ TrailMoves(s2)
           s3 == [s2 EXCEPT !.trailing = trails, !.sl = IF moves THEN bar.trail.line ELSE @]
           R == IF scales THEN ReduceOnly(q) ELSE <<>>
           B == IF breaks THEN ModifyStop(s.bePrice) ELSE <<>>
           M == IF moves THEN ModifyStop(bar.trail.line) ELSE <<>>
<1>1. EvaluateScaleOut(s, q) = [state |-> s3, commands |-> (R \o B) \o M]
  BY DEF EvaluateScaleOut
<1>2. /\ cfg.scaleOut \in BOOLEAN /\ cfg.trailing \in BOOLEAN
      /\ dir \in {1, -1} /\ pos.entry \in Int /\ pos.lots \in Int
      /\ bar.price \in Int /\ bar.trail.line \in Int
      /\ s.on = TRUE /\ s.risk \in Int /\ s.bePrice \in Int /\ s.sl \in Int
      /\ s.scaledOut \in BOOLEAN /\ s.beMoved \in BOOLEAN /\ s.trailing \in BOOLEAN
  BY SignFacts DEF Configs, PositionRecords, Bars, ScaleStates
<1>3. /\ NoneIs(first, "bracket") /\ ScaleKept(s, pos)
      /\ Climbs(first, stop, s.sl, dir) /\ ReducesOnce(first, pos)
  BY DEF Managed
<1>4. /\ dir * (s.bePrice - pos.entry) >= 0
      /\ s.scaledOut => cfg.scaleOut
      /\ ~s.scaledOut => pos.lots = pos.initial
      /\ cfg.scaleOut /\ cfg.breakevenAt # NoBreakeven /\ ~s.beMoved =>
            ~s.trailing /\ dir * (pos.entry - s.sl) >= 0
  BY <1>3 DEF ScaleKept
<1>5. scales \in BOOLEAN
  BY <1>2
<1>6. /\ s1 \in ScaleStates /\ s1.scaledOut = (s.scaledOut \/ scales)
      /\ s1.bePrice = s.bePrice /\ s1.sl = s.sl /\ s1.beMoved = s.beMoved
      /\ s1.trailing = s.trailing
  BY <1>2, <1>5 DEF ScaleStates
<1>7. Managed(first \o R, s1, stop, pos)
  <2>1. ScaleKept(s1, pos)
    BY <1>2, <1>4, <1>6 DEF ScaleKept
  <2>2. CASE R = <<>>
    <3>1. first \o R = first
      BY <2>2, ConcatEmptySeq
    <3> QED
      BY <1>3, <1>6, <2>1, <3>1 DEF Managed
  <2>3. CASE R # <<>>
    <3>1. scales /\ q # 0 /\ R = <<[do |-> "reduce", lots |-> q]>>
      BY <2>3 DEF ReduceOnly
    <3>2. q \in 1..pos.lots - 1
      BY <1>2, <3>1 DEF PartialLots
    <3>3. PICK c \in Commands : c = [do |-> "reduce", lots |-> q]
      <4>1. q \in Int
        BY <1>2, <3>2
      <4>2. [do |-> "reduce", lots |-> q] \in [do : {"reduce"}, lots : Int]
        BY <4>1
      <4> QED
        BY <4>2 DEF Commands
    <3>4. c.do = "reduce" /\ c.lots = q /\ R = <<c>>
      BY <3>1, <3>3
    <3>5. pos.lots = pos.initial /\ s1.scaledOut
      BY <1>2, <1>4, <1>6, <3>1
    <3>6. /\ first \o R \in Seq(Commands) /\ NoneIs(first \o R, "bracket")
          /\ Climbs(first \o R, stop, s1.sl, dir) /\ ReducesOnce(first \o R, pos)
      BY <1>3, <1>6, <3>2, <3>4, <3>5, OneMore
    <3> QED
      BY <1>6, <2>1, <3>5, <3>6 DEF Managed
  <2> QED
    BY <2>2, <2>3
<1>8. breaks \in BOOLEAN /\ s2 \in ScaleStates
  BY <1>2, <1>6, ZenonT(60) DEF ScaleStates
<1>9. /\ s2.scaledOut = s1.scaledOut /\ s2.bePrice = s.bePrice /\ s2.trailing = s.trailing
      /\ s2.beMoved = (s.beMoved \/ breaks)
      /\ s2.sl = IF breaks THEN s.bePrice ELSE s.sl
  BY <1>2, <1>6, <1>8 DEF ScaleStates
<1>10. breaks => dir * (s.bePrice - s.sl) >= 0
  <2> SUFFICES ASSUME breaks PROVE dir * (s.bePrice - s.sl) >= 0
    OBVIOUS
  <2>1. cfg.scaleOut /\ cfg.breakevenAt # NoBreakeven /\ ~s.beMoved
    BY <1>2, <1>4, <1>6
  <2>2. PICK e \in Int : e = pos.entry
    BY <1>2
  <2>3. PICK l \in Int : l = s.sl
    BY <1>2
  <2>4. PICK b \in Int : b = s.bePrice
    BY <1>2
  <2>5. dir * (b - e) >= 0 /\ dir * (e - l) >= 0
    BY <1>4, <2>1, <2>2, <2>3, <2>4
  <2>6. dir * (b - l) >= 0
    BY <1>2, <2>5, SMTT(40)
  <2> QED
    BY <2>3, <2>4, <2>6
<1> HIDE DEF R, s1
<1>11. Managed((first \o R) \o B, s2, stop, pos)
  <2>1. ScaleKept(s2, pos)
    BY <1>4, <1>6, <1>9 DEF ScaleKept
  <2>2. /\ first \o R \in Seq(Commands) /\ NoneIs(first \o R, "bracket")
        /\ Climbs(first \o R, stop, s.sl, dir) /\ ReducesOnce(first \o R, pos)
        /\ ~NoneIs(first \o R, "reduce") => s2.scaledOut
    BY <1>6, <1>7, <1>9 DEF Managed
  <2>3. CASE ~breaks
    <3>1. (first \o R) \o B = first \o R
      BY <2>2, <2>3, ConcatEmptySeq
    <3> QED
      BY <1>8, <1>9, <2>1, <2>2, <2>3, <3>1 DEF Managed
  <2>4. CASE breaks
    <3>1. PICK c \in Commands : c = [do |-> "modify", stop |-> s.bePrice]
      <4>1. [do |-> "modify", stop |-> s.bePrice] \in [do : {"modify"}, stop : Int]
        BY <1>2
      <4> QED
        BY <4>1 DEF Commands
    <3>2. c.do = "modify" /\ c.stop = s.bePrice /\ B = <<c>>
      BY <2>4, <3>1 DEF ModifyStop
    <3>3. PICK cs \in Seq(Commands) : cs = first \o R
      BY <2>2
    <3>4. cs \o <<c>> \in Seq(Commands) /\ NoneIs(cs \o <<c>>, "bracket")
      BY <2>2, <3>2, <3>3, OneMore
    <3>5. Climbs(cs \o <<c>>, stop, c.stop, dir)
      <4>1. PICK to \in Int : to = s.sl
        BY <1>2
      <4>2. Climbs(cs, stop, to, dir) /\ c.do = "modify" /\ dir * (c.stop - to) >= 0
        BY <1>10, <2>2, <2>4, <3>2, <3>3, <4>1
      <4> QED
        BY ONLY <4>2, <1>2, OneMore, stop \in Int, cs \in Seq(Commands), c \in Commands,
                to \in Int
    <3>6. ReducesOnce(cs \o <<c>>, pos)
      BY <2>2, <3>2, <3>3, OneMore
    <3>7. NoneIs(cs, "reduce") => NoneIs(cs \o <<c>>, "reduce")
      BY <3>2, OneMore
    <3> QED
      BY <1>8, <1>9, <2>1, <2>2, <2>4, <3>2, <3>3, <3>4, <3>5, <3>6, <3>7 DEF Managed
  <2> QED
    BY <2>3, <2>4
<1> HIDE DEF s2
<1>12. trails \in BOOLEAN /\ s3 \in ScaleStates
  <2>1. /\ s2.beMoved \in BOOLEAN /\ s2.trailing \in BOOLEAN /\ s2.scaledOut \in BOOLEAN
        /\ s2.sl \in Int
    BY <1>8 DEF ScaleStates
  <2>2. trails \in BOOLEAN
    BY <1>2, <2>1
  <2>3. PICK sl \in Int : sl = IF moves THEN bar.trail.line ELSE s2.sl
    BY <1>2, <2>1
  <2>4. s3 = [s2 EXCEPT !.trailing = trails, !.sl = sl]
    BY <2>3
  <2> HIDE DEF trails, s3
  <2> QED
    BY <1>8, <2>2, <2>4 DEF ScaleStates
<1>13. /\ s3.scaledOut = s2.scaledOut /\ s3.bePrice = s2.bePrice /\ s3.beMoved = s2.beMoved
       /\ s3.trailing = trails
       /\ s3.sl = IF moves THEN bar.trail.line ELSE s2.sl
  BY <1>2, <1>8, <1>9, <1>12 DEF ScaleStates
<1>14. moves => dir * (bar.trail.line - s2.sl) >= 0
  <2> SUFFICES ASSUME moves PROVE dir * (bar.trail.line - s2.sl) >= 0
    OBVIOUS
  <2>1. dir * (bar.trail.line - s2.sl) > 0
    BY DEF TrailMoves
  <2>2. PICK l \in Int : l = bar.trail.line
    BY <1>2
  <2>3. PICK b \in Int : b = s2.sl
    BY <1>8 DEF ScaleStates
  <2>4. PICK x \in Int : x = dir * (l - b)
    BY <1>2
  <2> QED
    BY <2>1, <2>2, <2>3, <2>4
<1>15. ScaleKept(s3, pos)
  <2>1. ScaleKept(s2, pos)
    BY <1>11 DEF Managed
  <2>2. cfg.scaleOut /\ cfg.breakevenAt # NoBreakeven /\ ~s2.beMoved => ~trails
    BY <2>1 DEF ScaleKept
  <2> QED
    BY <1>13, <2>1, <2>2 DEF ScaleKept
<1> HIDE DEF B
<1>16. Managed(((first \o R) \o B) \o M, s3, stop, pos)
  <2>1. PICK cs \in Seq(Commands) : cs = (first \o R) \o B
    BY <1>11 DEF Managed
  <2>2. /\ NoneIs(cs, "bracket") /\ Climbs(cs, stop, s2.sl, dir) /\ ReducesOnce(cs, pos)
        /\ ~NoneIs(cs, "reduce") => s3.scaledOut
    BY <1>11, <1>13, <2>1 DEF Managed
  <2>3. CASE ~moves
    <3>1. cs \o M = cs
      BY <2>3, ConcatEmptySeq
    <3> QED
      BY <1>12, <1>13, <1>15, <2>1, <2>2, <2>3, <3>1 DEF Managed
  <2>4. CASE moves
    <3>1. PICK c \in Commands : c = [do |-> "modify", stop |-> bar.trail.line]
      <4>1. [do |-> "modify", stop |-> bar.trail.line] \in [do : {"modify"}, stop : Int]
        BY <1>2
      <4> QED
        BY <4>1 DEF Commands
    <3>2. c.do = "modify" /\ c.stop = bar.trail.line /\ M = <<c>>
      BY <2>4, <3>1 DEF ModifyStop
    <3>3. s2.sl \in Int
      BY <1>8 DEF ScaleStates
    <3>4. cs \o <<c>> \in Seq(Commands) /\ NoneIs(cs \o <<c>>, "bracket")
      BY <2>2, <3>2, OneMore
    <3>5. Climbs(cs \o <<c>>, stop, c.stop, dir)
      <4>1. PICK to \in Int : to = s2.sl
        BY <3>3
      <4>2. Climbs(cs, stop, to, dir) /\ c.do = "modify" /\ dir * (c.stop - to) >= 0
        BY <1>14, <2>2, <2>4, <3>2, <4>1
      <4> QED
        BY ONLY <4>2, <1>2, OneMore, stop \in Int, cs \in Seq(Commands), c \in Commands,
                to \in Int
    <3>6. ReducesOnce(cs \o <<c>>, pos)
      BY <2>2, <3>2, OneMore
    <3>7. NoneIs(cs, "reduce") => NoneIs(cs \o <<c>>, "reduce")
      BY <3>2, OneMore
    <3> QED
      BY <1>12, <1>13, <1>15, <2>1, <2>2, <2>4, <3>2, <3>4, <3>5, <3>6, <3>7 DEF Managed
  <2> QED
    BY <2>3, <2>4
<1>17. /\ (R \o B) \o M \in Seq(Commands)
       /\ first \o ((R \o B) \o M) = ((first \o R) \o B) \o M
  <2>1. q \in Int /\ bar.trail.line \in Int /\ s.bePrice \in Int
    BY <1>2 DEF PartialLots
  <2>2. /\ [do |-> "reduce", lots |-> q] \in Commands
        /\ \A p \in Int : [do |-> "modify", stop |-> p] \in Commands
    BY <2>1 DEF Commands
  <2>3. R \in Seq(Commands)
    BY <2>2 DEF R, ReduceOnly
  <2>4. B \in Seq(Commands)
    BY <2>1, <2>2 DEF B, ModifyStop
  <2>5. M \in Seq(Commands)
    BY <2>1, <2>2 DEF ModifyStop
  <2> HIDE DEF M
  <2>6. first \o (R \o B) = (first \o R) \o B /\ R \o B \in Seq(Commands)
    BY <2>3, <2>4, CommandsJoin, SMTT(40)
  <2>7. PICK rb \in Seq(Commands) : rb = R \o B
    BY <2>6
  <2>8. PICK m \in Seq(Commands) : m = M
    BY <2>5
  <2>9. first \o (rb \o m) = (first \o rb) \o m
    BY CommandsJoin, SMTT(40)
  <2>10. rb \o m \in Seq(Commands)
    BY CommandsJoin
  <2> QED
    BY <2>6, <2>7, <2>8, <2>9, <2>10
<1> HIDE DEF M, s3
<1>18. PICK r : r = EvaluateScaleOut(s, q)
  OBVIOUS
<1>19. PICK cs : cs = (R \o B) \o M
  OBVIOUS
<1>20. r = [state |-> s3, commands |-> cs]
  BY <1>1, <1>18, <1>19
<1>21. r.state = s3 /\ r.commands = cs
  BY <1>20
<1> QED
  BY <1>16, <1>17, <1>18, <1>19, <1>21

(* What a bar's signal owes to the session and to what is remembered. *)
SignalKept(c, b, t, m, held, a) ==
    /\ a.memory \in Memories
    /\ c.kind = "donchian_breakout" /\ a.memory.last = NoReading =>
        m.last = NoReading /\ a.signal \notin {"BUY", "SELL"}
    /\ ForcedBy(c, b, t) =>
        /\ held = "flat" => a.signal \notin {"BUY", "SELL"}
        /\ held # "flat" /\ (c.kind = "donchian_breakout" => m.last # NoReading) =>
            a.signal = "CLOSE"
    /\ c.kind = "orb" =>
        /\ InSession(t) /\ m.session.day = Day(t) /\ m.session.entered =>
            a.memory.session.day = Day(t) /\ a.memory.session.entered
        /\ a.signal \in {"BUY", "SELL"} =>
            /\ InSession(t) /\ ~(m.session.day = Day(t) /\ m.session.entered)
            /\ a.memory.session.day = Day(t) /\ a.memory.session.entered

LEMMA GateFacts ==
    ASSUME NEW c \in Configs, NEW t \in Nat, NEW held,
           c.session = "flatten", ~InSession(t)
    PROVE  SessionGate(c, t, held) = IF held = "flat" THEN "NONE" ELSE "CLOSE"
BY DEF SessionGate

LEMMA GateOutcomes ==
    ASSUME NEW c \in Configs, ValidConfig(c), NEW t \in Nat, NEW held
    PROVE  SessionGate(c, t, held) \in {"pass", "NONE", "CLOSE"}
BY DEF SessionGate, ValidConfig

LEMMA SignalFacts ==
    ASSUME NEW c \in Configs, c.kind \in Kinds, ValidConfig(c), NEW b \in Bars, NEW t \in Nat,
           NEW m \in Memories, NEW held \in {"flat", "long", "short"}
    PROVE  SignalKept(c, b, t, m, held, GenerateSignal(c, b, t, m, held))
<1>1. PICK a : a = GenerateSignal(c, b, t, m, held)
  OBVIOUS
<1>2. /\ b.reading \in -2..2 /\ b.reading # NoReading
      /\ m.last \in -2..2 \cup {NoReading}
      /\ m.session \in OrbSessions
      /\ Day(t) \in Nat
  BY DayFacts DEF Bars, Memories, NoReading
<1>3. PICK seen \in Memories : /\ seen = [m EXCEPT !.last = b.reading]
                               /\ seen.last = b.reading /\ seen.session = m.session
  <2>1. [m EXCEPT !.last = b.reading] \in Memories
    BY <1>2 DEF Memories
  <2> QED
    BY <1>2, <2>1 DEF Memories
<1>4. \A signal, recalled : /\ Answer(signal, recalled).signal = signal
                              /\ Answer(signal, recalled).memory = recalled
  BY DEF Answer
<1>5. SessionGate(c, t, held) \in {"pass", "NONE", "CLOSE"}
  BY GateOutcomes
<1>6. ForcedBy(c, b, t) /\ c.kind # "orb" =>
        SessionGate(c, t, held) = IF held = "flat" THEN "NONE" ELSE "CLOSE"
  BY GateFacts DEF ForcedBy
<1>7. CASE ~b.ready
  <2>1. PICK signal : a = Answer(signal, m) /\ signal \notin {"BUY", "SELL"}
    <3>1. CASE c.kind = "supertrend"
      BY <1>1, <1>5, <1>7, <3>1 DEF GenerateSignal
    <3>2. CASE c.kind # "supertrend"
      BY <1>1, <1>7, <3>2 DEF GenerateSignal
    <3> QED
      BY <3>1, <3>2
  <2>2. a.signal \notin {"BUY", "SELL"} /\ a.memory = m
    BY <1>4, <2>1
  <2> QED
    BY <1>1, <1>7, <2>2 DEF SignalKept, ForcedBy
<1>8. CASE b.ready /\ c.kind = "supertrend"
  <2>1. PICK signal : /\ a = Answer(signal, m) \/ a = Answer(signal, seen)
                      /\ SessionGate(c, t, held) # "pass" => signal = SessionGate(c, t, held)
    <3>1. a = Supertrend(c, b, t, m, held)
      BY <1>1, <1>8 DEF GenerateSignal
    <3> QED
      BY <1>3, <3>1 DEF Supertrend
  <2>2. a.signal = signal /\ a.memory \in Memories
    BY <1>3, <1>4, <2>1
  <2> QED
    BY <1>1, <1>6, <1>8, <2>1, <2>2 DEF SignalKept
<1>9. CASE b.ready /\ c.kind = "donchian_breakout"
  <2>1. a = Donchian(c, b, t, m, held)
    BY <1>1, <1>9 DEF GenerateSignal
  <2>2. CASE m.last = NoReading
    <3>1. PICK seeded : seeded = [m EXCEPT !.last = 0]
      OBVIOUS
    <3>2. seeded \in Memories /\ seeded.last = 0 /\ 0 # NoReading
      BY <1>2, <3>1 DEF Memories, NoReading
    <3>3. a = Answer("NONE", seeded)
      BY <2>1, <2>2, <3>1 DEF Donchian
    <3>4. a.signal = "NONE" /\ a.memory = seeded
      BY <1>4, <3>3
    <3> QED
      BY <1>1, <1>9, <2>2, <3>2, <3>4 DEF SignalKept
  <2>3. CASE m.last # NoReading
    <3>1. PICK signal : /\ a = Answer(signal, seen)
                        /\ SessionGate(c, t, held) # "pass" => signal = SessionGate(c, t, held)
      BY <1>3, <2>1, <2>3 DEF Donchian
    <3>2. a.signal = signal /\ a.memory = seen
      BY <1>4, <3>1
    <3> QED
      BY <1>1, <1>2, <1>3, <1>6, <1>9, <3>1, <3>2 DEF SignalKept
  <2> QED
    BY <2>2, <2>3
<1>10. CASE b.ready /\ c.kind = "mean_reversion"
  <2>1. PICK signal : /\ a = Answer(signal, m) \/ a = Answer(signal, seen)
                      /\ ~b.noWidth /\ SessionGate(c, t, held) # "pass" =>
                            signal = SessionGate(c, t, held)
    <3>1. a = MeanReversion(c, b, t, m, held)
      BY <1>1, <1>10 DEF GenerateSignal
    <3> QED
      BY <1>3, <3>1 DEF MeanReversion
  <2>2. a.signal = signal /\ a.memory \in Memories
    BY <1>3, <1>4, <2>1
  <2> QED
    BY <1>1, <1>6, <1>10, <2>1, <2>2 DEF SignalKept, ForcedBy
<1>11. CASE b.ready /\ c.kind \in {"bollinger_mean_reversion", "ma_crossover", "rsi_mean_reversion"}
  <2>1. PICK signal : a = Answer(signal, m) \/ a = Answer(signal, seen)
    <3>1. CASE c.kind = "bollinger_mean_reversion"
      BY <1>1, <1>11, <3>1 DEF GenerateSignal, Bollinger
    <3>2. CASE c.kind = "ma_crossover"
      BY <1>1, <1>3, <1>11, <3>2 DEF GenerateSignal, MaCrossover
    <3>3. CASE c.kind = "rsi_mean_reversion"
      BY <1>1, <1>3, <1>11, <3>3 DEF GenerateSignal, RsiMeanReversion
    <3> QED
      BY <1>11, <3>1, <3>2, <3>3
  <2>2. a.memory \in Memories
    BY <1>3, <1>4, <2>1
  <2>3. ~ForcedBy(c, b, t)
    BY <1>11 DEF ForcedBy, Filtered
  <2> QED
    BY <1>1, <1>11, <2>2, <2>3 DEF SignalKept
<1>12. CASE b.ready /\ c.kind = "orb"
  <2>1. a = Orb(c.params, b, t, m, held)
    BY <1>1, <1>12 DEF GenerateSignal
  <2>2. CASE ~InSession(t) /\ held # "flat"
    <3>1. a = Answer("CLOSE", m)
      BY <2>1, <2>2 DEF Orb
    <3>2. a.signal = "CLOSE" /\ a.memory = m
      BY <1>4, <3>1
    <3> QED
      BY <1>1, <1>12, <2>2, <3>2 DEF SignalKept
  <2>3. CASE ~InSession(t) /\ held = "flat"
    <3>1. PICK fresh : fresh = [m EXCEPT !.session = NoSession]
      OBVIOUS
    <3>2. fresh \in Memories
      <4>1. NoSession \in OrbSessions
        BY DEF NoSession, OrbSessions
      <4> QED
        BY <3>1, <4>1 DEF Memories
    <3>3. a = Answer("NONE", fresh)
      BY <2>1, <2>3, <3>1 DEF Orb
    <3>4. a.signal = "NONE" /\ a.memory = fresh
      BY <1>4, <3>3
    <3> QED
      BY <1>1, <1>12, <2>3, <3>2, <3>4 DEF SignalKept
  <2>4. CASE InSession(t)
    <3>1. PICK s \in OrbSessions :
            /\ s = IF m.session.day = Day(t) THEN m.session
                   ELSE [NoSession EXCEPT !.day = Day(t), !.open = t]
            /\ s.day = Day(t)
            /\ s.entered <=> m.session.day = Day(t) /\ m.session.entered
      <4>1. CASE m.session.day = Day(t)
        BY <1>2, <4>1
      <4>2. CASE m.session.day # Day(t)
        <5>1. PICK n : n = NoSession
          OBVIOUS
        <5>2. n \in OrbSessions /\ ~n.entered
          <6>1. n = [day |-> -1, open |-> 0, complete |-> FALSE, entered |-> FALSE]
            BY <5>1 DEF NoSession
          <6>2. -1 \in Int /\ 0 \in Int
            OBVIOUS
          <6> QED
            BY <6>1, <6>2 DEF OrbSessions
        <5>3. PICK d \in Int : d = Day(t)
          BY <1>2
        <5>4. PICK s : s = [n EXCEPT !.day = d, !.open = t]
          OBVIOUS
        <5>5. s \in OrbSessions /\ s.day = d /\ s.entered = n.entered
          <6>1. PICK u \in Int : u = t
            OBVIOUS
          <6>2. s = [day |-> d, open |-> u, complete |-> n.complete, entered |-> n.entered]
            BY <5>2, <5>4, <6>1 DEF OrbSessions
          <6>3. n.complete \in BOOLEAN /\ n.entered \in BOOLEAN
            BY <5>2 DEF OrbSessions
          <6> QED
            BY <6>2, <6>3 DEF OrbSessions
        <5> QED
          BY <4>2, <5>1, <5>2, <5>3, <5>4, <5>5
      <4> QED
        BY <4>1, <4>2
    <3> DEFINE complete == s.complete \/ t - s.open >= c.params.openingRange
               entry == complete /\ ~s.entered /\ held = "flat" /\ b.reading # 0
    <3>2. PICK after : after = [s EXCEPT !.complete = complete, !.entered = s.entered \/ entry]
      OBVIOUS
    <3>3. complete \in BOOLEAN /\ entry \in BOOLEAN
      BY <3>1 DEF OrbSessions
    <3>4. /\ after \in OrbSessions
          /\ after.day = Day(t) /\ after.entered = (s.entered \/ entry)
      BY <3>1, <3>2, <3>3 DEF OrbSessions
    <3>5. PICK recalled \in Memories : recalled = [m EXCEPT !.session = after] /\ recalled.session = after
      <4>1. [m EXCEPT !.session = after] \in Memories
        BY <3>4 DEF Memories
      <4> QED
        BY <4>1 DEF Memories
    <3>6. a = Answer(CASE entry -> IF b.reading = 1 THEN "BUY" ELSE "SELL" [] ~entry -> "NONE",
                     recalled)
      BY <2>1, <2>4, <3>1, <3>2, <3>5 DEF Orb
    <3>7. a.memory = recalled /\ (a.signal \in {"BUY", "SELL"} => entry)
      BY <1>4, <3>3, <3>6
    <3>8. entry => ~s.entered
      OBVIOUS
    <3>9. ~ForcedBy(c, b, t)
      BY <2>4 DEF ForcedBy
    <3> HIDE DEF entry
    <3> QED
      BY <1>1, <1>12, <2>4, <3>1, <3>4, <3>5, <3>7, <3>8, <3>9 DEF SignalKept
  <2> QED
    BY <2>2, <2>3, <2>4
<1> QED
  BY <1>7, <1>8, <1>9, <1>10, <1>11, <1>12 DEF Kinds

(* The size of a bracket: what is lost at the stop stays within the budget. *)
LEMMA LotFacts ==
    ASSUME NEW lots \in Int, NEW dist \in Int, NEW budget \in Int, dist > 0, lots > 0,
           lots <= budget \div (100 * dist)
    PROVE  100 * (lots * dist) <= budget
<1>1. PICK d \in Int : d = 100 * dist /\ d > 0
  OBVIOUS
<1>2. PICK n \in Int : n = budget \div d /\ lots <= n
  BY <1>1
<1>3. PICK r \in Int : r = budget % d /\ 0 <= r
  BY <1>1
<1>4. budget = d * n + r
  BY <1>1, <1>2, <1>3
<1>5. d * lots <= d * n
  <2>1. PICK x \in Nat : n = lots + x
    BY <1>2
  <2>2. PICK y \in Int : y = d * x
    OBVIOUS
  <2>3. y >= 0
    BY <1>1, <2>1, <2>2
  <2>4. d * n = d * lots + y
    BY <1>1, <2>1, <2>2
  <2> QED
    BY <1>1, <2>3, <2>4
<1>6. 100 * (lots * dist) = d * lots
  BY <1>1
<1> QED
  BY <1>3, <1>4, <1>5, <1>6

(* What the signal of a bar comes to: nothing, a close of what is held, or a  *)
(* bracket from a flat position that the regime admits.                       *)
LEMMA SignalledFacts ==
    ASSUME cfg \in Configs, ValidConfig(cfg), bar \in Bars, NEW signal, NEW funds \in Int
    PROVE  LET cs == ExecuteSignal(signal, funds)
           IN  /\ \/ cs = <<>>
                  \/ Held # "flat" /\ cs = CloseAll
                  \/ /\ signal \in {"BUY", "SELL"} /\ Held = "flat" /\ RegimeAdmits(cfg)
                     /\ \E c \in BracketCommands : cs = <<c>> /\ Sized(c, bar.price)
               /\ Held # "flat" /\ signal = "CLOSE" => cs = CloseAll
<1>1. CASE Held # "flat" /\ (signal = "CLOSE" \/ Reverses(signal))
  BY <1>1 DEF ExecuteSignal, Enters
<1>2. CASE ~(Held # "flat" /\ (signal = "CLOSE" \/ Reverses(signal))) /\ ~Enters(signal)
  BY <1>2 DEF ExecuteSignal
<1>3. CASE ~(Held # "flat" /\ (signal = "CLOSE" \/ Reverses(signal))) /\ Enters(signal)
  <2>1. /\ signal \in {"BUY", "SELL"} /\ Held = "flat" /\ RegimeAdmits(cfg) /\ bar.atr > 0
        /\ ExecuteSignal(signal, funds) = Bracket(signal, funds)
    BY <1>3 DEF ExecuteSignal, Enters, IsAtrUnsafe, Bars
  <2>2. PICK side \in {"long", "short"} : side = IF signal = "BUY" THEN "long" ELSE "short"
    OBVIOUS
  <2>3. PICK price \in Int : price = bar.price
    BY DEF Bars
  <2>4. PICK dist \in Int : dist = cfg.slMult * bar.atr /\ dist > 0
    <3>1. PICK k \in Int : k = cfg.slMult /\ k > 0
      BY DEF Configs, ValidConfig
    <3>2. PICK a \in Int : a = bar.atr /\ a > 0
      BY <2>1 DEF Bars
    <3>3. PICK x \in Int : x = k * a
      OBVIOUS
    <3>4. x > 0
      BY <3>1, <3>2, <3>3
    <3> QED
      BY <3>1, <3>2, <3>3, <3>4
  <2>5. PICK sl \in Int : /\ sl = AtrStop(side, price, bar.atr)
                          /\ sl = IF side = "long" THEN price - dist ELSE price + dist
    <3>1. PICK k \in Int : k = cfg.slMult
      BY DEF Configs
    <3>2. PICK a \in Int : a = bar.atr
      BY DEF Bars
    <3>3. AtrStop(side, price, a) = price - Sign(side) * k * a
      BY <3>1 DEF AtrStop
    <3>4. dist = k * a
      BY <2>4, <3>1, <3>2
    <3>5. CASE side = "long"
      <4>1. Sign(side) = 1
        BY <3>5 DEF Sign
      <4>2. 1 * k * a = k * a
        OBVIOUS
      <4> QED
        BY <3>2, <3>3, <3>4, <3>5, <4>1, <4>2
    <3>6. CASE side = "short"
      <4>1. Sign(side) = -1
        BY <3>6 DEF Sign
      <4>2. (-1) * k * a = -(k * a)
        OBVIOUS
      <4> QED
        BY <3>2, <3>3, <3>4, <3>6, <4>1, <4>2
    <3> QED
      BY <3>5, <3>6
  <2>6. PICK budget \in Int : budget = funds * cfg.riskPercent
    BY DEF Configs
  <2>7. PICK lots \in Int : /\ lots = SizeFromRisk(funds, price, sl)
                            /\ lots <= budget \div (100 * dist)
    <3>1. Max({price - sl, sl - price}) = dist
      BY <2>4, <2>5, MaxOfTwo
    <3>2. PICK n \in Int : n = budget \div (100 * dist)
      BY <2>4
    <3>3. PICK most \in Nat : most = MaxLots
      BY TradeSamples
    <3>4. SizeFromRisk(funds, price, sl) = IF n > most THEN most ELSE n
      BY <2>4, <2>6, <3>1, <3>2, <3>3 DEF SizeFromRisk, LotSize
    <3> QED
      BY <3>2, <3>4
  <2>8. PICK tp \in Int : tp = AtrTakeProfit(side, price, bar.atr)
    <3>1. cfg.tpMult \in Int /\ bar.atr \in Int /\ Sign(side) \in Int
      BY SignFacts DEF Configs, Bars
    <3>2. Sign(side) * cfg.tpMult * bar.atr \in Int
      BY <3>1
    <3> QED
      BY <3>2 DEF AtrTakeProfit
  <2>9. Bracket(signal, funds) = SubmitBracketOrder(side, lots, sl, tp, budget)
    BY <2>2, <2>3, <2>5, <2>6, <2>7, <2>8 DEF Bracket
  <2>10. CASE lots <= 0
    BY <1>3, <2>1, <2>9, <2>10 DEF SubmitBracketOrder, Enters
  <2>11. CASE lots > 0
    <3>1. PICK c : c = [do |-> "bracket", side |-> side, lots |-> lots, stop |-> sl,
                        target |-> tp, budget |-> budget]
      OBVIOUS
    <3>2. /\ c \in BracketCommands /\ c.lots = lots /\ c.side = side /\ c.stop = sl
          /\ c.budget = budget
      BY <3>1 DEF BracketCommands
    <3>3. Bracket(signal, funds) = <<c>>
      BY <2>9, <2>11, <3>1 DEF SubmitBracketOrder
    <3>4. Sign(side) * (price - sl) = dist
      BY <2>5 DEF Sign
    <3>5. lots * Sign(side) * (price - sl) = lots * dist
      <4>1. CASE side = "long"
        <5>1. Sign(side) = 1 /\ price - sl = dist
          BY <2>5, <4>1 DEF Sign
        <5> QED
          BY <5>1
      <4>2. CASE side = "short"
        <5>1. Sign(side) = -1 /\ price - sl = -dist
          BY <2>5, <4>2 DEF Sign
        <5>2. lots * (-1) * (-dist) = lots * dist
          OBVIOUS
        <5> QED
          BY <5>1, <5>2
      <4> QED
        BY <4>1, <4>2
    <3>6. 100 * (lots * dist) <= budget
      BY <2>4, <2>7, <2>11, LotFacts
    <3>7. Sized(c, price)
      BY <2>4, <2>11, <3>2, <3>4, <3>5, <3>6 DEF Sized
    <3> QED
      BY <1>3, <2>1, <2>3, <3>2, <3>3, <3>7
  <2> QED
    BY <2>10, <2>11
<1> QED
  BY <1>1, <1>2, <1>3

LEMMA StrategyOnBarKeeps == TradeInv /\ StrategyOnBar => TradeInv'
<1> SUFFICES ASSUME TradeInv, StrategyOnBar PROVE TradeInv'
  OBVIOUS
<1>1. TradeTyped /\ PositionKept /\ OrbKept /\ ChannelKept /\ RegimeKept /\ ActorKept
  BY DEF TradeInv
<1>2. /\ "strategy" \in toRun /\ toRun' = toRun \ {"strategy"}
      /\ UNCHANGED <<cfg, clock, bar, position, stop, bars>> /\ UNCHANGED regimeVars
  BY DEF StrategyOnBar
<1>3. /\ cfg \in Configs /\ cfg.kind \in Kinds /\ ValidConfig(cfg) /\ clock \in Nat /\ bars \in Nat
      /\ bar \in Bars /\ commands = <<>> /\ Len(commands) = 0 /\ memory \in Memories
      /\ position \in PositionRecords /\ (position = NoPosition \/ position.side # "flat")
      /\ stop \in Int /\ (scaleState = NoScale \/ scaleState \in ScaleStates)
      /\ entries \subseteq [time : Nat, bar : Nat]
      /\ Held \in {"flat", "long", "short"} /\ (Held = "flat" <=> position = NoPosition)
  BY <1>1, <1>2 DEF TradeTyped, Held, NoPosition, PositionRecords
<1>4. PICK answer : /\ answer = GenerateSignal(cfg, bar, clock, memory, Held)
                    /\ memory' = answer.memory
                    /\ SignalKept(cfg, bar, clock, memory, Held, answer)
  BY <1>3, SignalFacts DEF StrategyOnBar
<1>5. PICK s : s = IF scaleState.on THEN scaleState ELSE InitScaleState(position, stop)
  OBVIOUS
<1>6. PICK manages \in BOOLEAN :
        manages <=> Manages /\ position # NoPosition /\ StopWorking /\ s.risk > 0
  OBVIOUS
<1>7. PICK funds \in ReadAccountBalance, q \in PartialLots(position.lots) :
        LET signalled == ExecuteSignal(answer.signal, funds)
            managed == EvaluateScaleOut(s, q)
        IN  /\ commands' = signalled \o (IF manages THEN managed.commands ELSE <<>>)
            /\ scaleState' = IF manages THEN managed.state ELSE scaleState
            /\ entries' = IF \E i \in 1..Len(signalled) : signalled[i].do = "bracket"
                          THEN entries \cup {[time |-> clock, bar |-> bars]} ELSE entries
  BY <1>4, <1>5, <1>6 DEF StrategyOnBar
<1>8. PICK cs : cs = ExecuteSignal(answer.signal, funds)
  OBVIOUS
<1>9. PICK r : r = EvaluateScaleOut(s, q)
  OBVIOUS
<1>10. /\ commands' = cs \o (IF manages THEN r.commands ELSE <<>>)
       /\ scaleState' = IF manages THEN r.state ELSE scaleState
       /\ entries' = IF \E i \in 1..Len(cs) : cs[i].do = "bracket"
                     THEN entries \cup {[time |-> clock, bar |-> bars]} ELSE entries
  BY <1>7, <1>8, <1>9
<1>11. /\ \/ cs = <<>>
          \/ Held # "flat" /\ cs = CloseAll
          \/ /\ answer.signal \in {"BUY", "SELL"} /\ Held = "flat" /\ RegimeAdmits(cfg)
             /\ \E c \in BracketCommands : cs = <<c>> /\ Sized(c, bar.price)
       /\ Held # "flat" /\ answer.signal = "CLOSE" => cs = CloseAll
  <2>1. funds \in Int
    BY TradeSamples DEF ReadAccountBalance
  <2> QED
    BY <1>3, <1>8, <2>1, SignalledFacts
<1>12. ~(\E i \in 1..Len(cs) : cs[i].do = "bracket") \/ Held = "flat"
  <2>1. CASE cs = <<>>
    <3>1. 1..Len(cs) = {}
      BY <2>1
    <3> QED
      BY <3>1
  <2>2. CASE cs = CloseAll
    <3>1. Len(cs) = 1 /\ cs[1].do = "close"
      BY <2>2 DEF CloseAll
    <3> QED
      BY <3>1
  <2> QED
    BY <1>11, <2>1, <2>2
(* A bracket is submitted, and nothing else; or no entry is made. *)
<1>13. \/ /\ Held = "flat" /\ answer.signal \in {"BUY", "SELL"} /\ RegimeAdmits(cfg)
          /\ \E c \in BracketCommands : commands' = <<c>> /\ Sized(c, bar.price)
          /\ entries' = entries \cup {[time |-> clock, bar |-> bars]}
          /\ scaleState' = scaleState
       \/ /\ entries' = entries /\ Held = "flat" /\ commands' = <<>>
          /\ scaleState' = scaleState
       \/ /\ entries' = entries /\ Held # "flat"
          /\ cs = <<>> \/ cs = CloseAll
  <2>1. CASE Held # "flat"
    BY <1>10, <1>11, <1>12, <2>1
  <2>2. CASE Held = "flat" /\ cs = <<>>
    <3>1. ~manages /\ 1..Len(cs) = {}
      BY <1>3, <1>6, <2>2
    <3>2. <<>> \o <<>> = <<>>
      OBVIOUS
    <3> QED
      BY <1>10, <2>2, <3>1, <3>2
  <2>3. CASE Held = "flat" /\ cs # <<>>
    <3>1. PICK c \in BracketCommands : cs = <<c>> /\ Sized(c, bar.price)
      BY <1>11, <2>3
    <3>2. ~manages /\ c.do = "bracket"
      BY <1>3, <1>6, <2>3 DEF BracketCommands
    <3>3. Len(cs) = 1 /\ cs[1] = c /\ 1 \in 1..1
      BY <3>1
    <3>4. \E i \in 1..Len(cs) : cs[i].do = "bracket"
      BY <3>2, <3>3
    <3>5. <<c>> \o <<>> = <<c>>
      OBVIOUS
    <3> QED
      BY <1>10, <1>11, <2>3, <3>1, <3>2, <3>4, <3>5
  <2> QED
    BY <2>1, <2>2, <2>3
(* What is held is managed, closed or both. *)
<1>14. Held # "flat" =>
        /\ commands' \in Seq(Commands) /\ NoneIs(commands', "bracket")
        /\ cs = CloseAll => commands' # <<>> /\ Head(commands').do = "close"
        /\ scaleState' = NoScale \/ scaleState' \in ScaleStates
        /\ PositionKept'
  <2> SUFFICES ASSUME Held # "flat"
               PROVE  /\ commands' \in Seq(Commands) /\ NoneIs(commands', "bracket")
                      /\ cs = CloseAll => commands' # <<>> /\ Head(commands').do = "close"
                      /\ scaleState' = NoScale \/ scaleState' \in ScaleStates
                      /\ PositionKept'
    OBVIOUS
  <2>1. position # NoPosition /\ cs \in {<<>>, CloseAll} /\ cs \in Seq(Commands)
    BY <1>3, <1>13, ClosingOnly
  <2>2. /\ NoneIs(cs, "bracket") /\ NoneIs(cs, "reduce") /\ NoneIs(cs, "modify")
        /\ \A pos : ReducesOnce(cs, pos)
        /\ \A from, to, dir : dir * (to - from) >= 0 => Climbs(cs, from, to, dir)
    BY <2>1, ClosingOnly
  <2>3. /\ position.lots >= 1
        /\ scaleState = NoScale =>
            /\ position.lots = position.initial
            /\ Sign(position.side) * (position.entry - stop) >= 0
        /\ scaleState # NoScale =>
            /\ ScaleKept(scaleState, position)
            /\ Sign(position.side) * (scaleState.sl - stop) >= 0
    BY <1>1, <2>1 DEF PositionKept, Climbs
  <2>4. CASE ~manages
    <3>1. commands' = cs /\ scaleState' = scaleState
      BY <1>10, <2>1, <2>4, ConcatEmptySeq
    <3>2. cs = CloseAll => cs # <<>> /\ Head(cs).do = "close"
      <4> SUFFICES ASSUME cs = CloseAll
                   PROVE  cs # <<>> /\ Head(cs).do = "close"
        OBVIOUS
      <4>1. cs \in Seq(Commands) /\ Len(cs) = 1 /\ cs[1].do = "close"
        BY <2>1, ClosingOnly
      <4>2. cs # <<>>
        BY ONLY <4>1, EmptySeq
      <4> QED
        BY <4>1, <4>2, RestOfCommands
    <3>3. PositionKept'
      <4>1. CASE scaleState = NoScale
        BY <1>2, <2>2, <2>3, <3>1, <4>1 DEF PositionKept, NoneIs
      <4>2. CASE scaleState # NoScale
        <5>1. /\ Climbs(cs, stop, scaleState.sl, Sign(position.side))
              /\ ReducesOnce(cs, position)
              /\ ScaleKept(scaleState, position)
          BY <2>2, <2>3, <4>2
        <5> QED
          BY <1>2, <2>2, <2>3, <3>1, <4>2, <5>1
             DEF PositionKept, NoneIs, ScaleKept, Climbs, ReducesOnce
      <4> QED
        BY <4>1, <4>2
    <3> QED
      BY <1>3, <2>1, <2>2, <3>1, <3>2, <3>3
  <2>5. CASE manages
    <3>1. s \in ScaleStates /\ ScaleKept(s, position) /\ Sign(position.side) * (s.sl - stop) >= 0
      <4>1. CASE scaleState = NoScale
        <5>1. s = InitScaleState(position, stop)
          BY <1>5, <4>1 DEF NoScale
        <5>2. s \in ScaleStates /\ ScaleKept(s, position) /\ s.sl = stop
          BY <1>3, <2>3, <4>1, <5>1, InitScaleFacts
        <5>3. Sign(position.side) * (stop - stop) >= 0
          BY <1>3, SignFacts
        <5> QED
          BY <5>2, <5>3
      <4>2. CASE scaleState # NoScale
        <5>1. scaleState \in ScaleStates /\ s = scaleState
          BY <1>3, <1>5, <4>2 DEF ScaleStates
        <5> QED
          BY <2>3, <4>2, <5>1
      <4> QED
        BY <4>1, <4>2
    <3>2. Managed(cs, s, stop, position)
      BY <2>1, <2>2, <3>1 DEF Managed
    <3>3. r.commands \in Seq(Commands) /\ Managed(cs \o r.commands, r.state, stop, position)
      BY <1>3, <1>9, <2>1, <2>2, <2>3, <3>1, <3>2, ScaleOutKeeps
    <3>4. commands' = cs \o r.commands /\ scaleState' = r.state
      BY <1>10, <2>5
    <3>5. cs = CloseAll => commands' # <<>> /\ Head(commands').do = "close"
      <4> SUFFICES ASSUME cs = CloseAll
                   PROVE  commands' # <<>> /\ Head(commands').do = "close"
        OBVIOUS
      <4>1. /\ commands' \in Seq(Commands) /\ Len(commands') = Len(cs) + Len(r.commands)
            /\ \A i \in 1..Len(cs) + Len(r.commands) :
                    commands'[i] = IF i <= Len(cs) THEN cs[i] ELSE r.commands[i - Len(cs)]
        BY <2>1, <3>3, <3>4, ConcatProperties
      <4>2. Len(cs) = 1 /\ cs[1].do = "close" /\ Len(r.commands) \in Nat
        BY <3>3, ClosingOnly, LenProperties
      <4>3. Len(commands') # 0 /\ commands'[1] = cs[1]
        BY <4>1, <4>2
      <4>4. commands' # <<>>
        BY <4>3, EmptySeq
      <4> QED
        BY <4>1, <4>2, <4>3, <4>4, RestOfCommands
    <3>6. PositionKept'
      <4>1. /\ scaleState' \in ScaleStates /\ ScaleKept(scaleState', position)
            /\ Climbs(commands', stop, scaleState'.sl, Sign(position.side))
            /\ ReducesOnce(commands', position)
            /\ ~NoneIs(commands', "reduce") => scaleState'.scaledOut
        BY <3>3, <3>4 DEF Managed
      <4>2. scaleState' # NoScale
        <5>1. scaleState'.on /\ ~NoScale.on
          BY <4>1 DEF ScaleStates, NoScale
        <5> QED
          BY <5>1
      <4>3. ScaleKept(scaleState, position)'
        BY <1>2, <4>1 DEF ScaleKept
      <4> QED
        BY <1>2, <2>3, <4>1, <4>2, <4>3 DEF PositionKept, NoneIs, Climbs, ReducesOnce, ScaleKept
    <3> QED
      BY <3>3, <3>4, <3>5, <3>6 DEF Managed
  <2> QED
    BY <2>4, <2>5
<1>15. RegimeKept' /\ ActorKept'
  BY <1>1, <1>2 DEF RegimeKept, ActorKept, Handled, regimeVars
<1>16. EntriesAdmitted'
  <2>1. UNCHANGED <<rawStates, cfg>> /\ AdmittedIn(rawStates, cfg, entries)
    BY <1>2, EntriesAdmittedIs DEF TradeInv, regimeVars
  <2>2. CASE entries' = entries
    BY <2>1, <2>2, EntriesAdmittedIs
  <2>3. CASE RegimeAdmits(cfg) /\ entries' = entries \cup {[time |-> clock, bar |-> bars]}
    <3>1. PICK e : e = [time |-> clock, bar |-> bars]
      OBVIOUS
    <3>2. e.bar = bars /\ entries' = entries \cup {e}
      BY <2>3, <3>1
    <3>3. ASSUME HasRegime(cfg)
          PROVE  \E i \in {e.bar - 1, e.bar} :
                    /\ i - WarmupBars + 1 \in 1..Len(rawStates)
                    /\ ConfirmedIn(rawStates, i - WarmupBars + 1) \in AllowedRegimes(cfg.kind)
      <4>1. published \in AllowedRegimes(cfg.kind)
        BY <2>3, <3>3 DEF RegimeAdmits
      <4>2. NoRegime \notin AllowedRegimes(cfg.kind)
        BY DEF AllowedRegimes, NoRegime
      <4>3. /\ rawStates # <<>> /\ rawStates \in Seq(RegimeStates)
            /\ ConfirmedIn(rawStates, Len(rawStates)) \in AllowedRegimes(cfg.kind)
        BY <1>1, <4>1, <4>2 DEF RegimeKept
      <4>4. PICK k \in Nat : k = Handled /\ k \in {bars - 1, bars}
        BY <1>1, <3>3 DEF ActorKept, Handled
      <4>5. Len(rawStates) = IF k < WarmupBars THEN 0 ELSE k - WarmupBars + 1
        BY <1>1, <3>3, <4>4 DEF ActorKept
      <4>6. Len(rawStates) \in Nat \ {0}
        BY <4>3, EmptySeq
      <4>7. k - WarmupBars + 1 = Len(rawStates) /\ k - WarmupBars + 1 \in 1..Len(rawStates)
        BY <4>5, <4>6, RegimeBounds
      <4> QED
        BY <3>2, <4>3, <4>4, <4>7
    <3>4. AdmittedIn(rawStates, cfg, entries \cup {e})
      BY <2>1, <3>3 DEF AdmittedIn
    <3> QED
      BY <2>1, <3>2, <3>4, EntriesAdmittedIs
  <2> QED
    BY <1>13, <2>2, <2>3
<1>17. TradeTyped'
  <2>1. commands' \in Seq(Commands)
    <3>1. \A c \in BracketCommands : <<c>> \in Seq(Commands)
      BY DEF Commands
    <3> QED
      BY <1>13, <1>14, <3>1, ClosingOnly
  <2>2. scaleState' = NoScale \/ scaleState' \in ScaleStates
    BY <1>3, <1>13, <1>14
  <2>3. entries' \subseteq [time : Nat, bar : Nat]
    BY <1>3, <1>13
  <2>4. memory' \in Memories
    BY <1>4 DEF SignalKept
  <2>5. bar # NoBar /\ "strategy" \notin toRun'
    BY <1>2, <1>3, BarFacts
  <2> QED
    BY <1>1, <1>2, <2>1, <2>2, <2>3, <2>4, <2>5 DEF TradeTyped
<1>18. OrbKept'
  <2> SUFFICES ASSUME cfg.kind = "orb"
               PROVE  /\ \A d, e \in entries' : d # e => Day(d.time) # Day(e.time)
                      /\ \A e \in entries' :
                            /\ e.time <= clock /\ InSession(e.time)
                            /\ Day(e.time) = Day(clock) =>
                                memory'.session.day = Day(clock) /\ memory'.session.entered
    BY <1>2 DEF OrbKept
  <2>1. /\ \A d, e \in entries : d # e => Day(d.time) # Day(e.time)
        /\ \A e \in entries :
            /\ e.time <= clock /\ InSession(e.time) /\ e.time \in Nat
            /\ Day(e.time) = Day(clock) =>
                    memory.session.day = Day(clock) /\ memory.session.entered
    BY <1>1, <1>3 DEF OrbKept
  <2>2. /\ InSession(clock) /\ memory.session.day = Day(clock) /\ memory.session.entered =>
            memory'.session.day = Day(clock) /\ memory'.session.entered
        /\ answer.signal \in {"BUY", "SELL"} =>
            /\ InSession(clock) /\ ~(memory.session.day = Day(clock) /\ memory.session.entered)
            /\ memory'.session.day = Day(clock) /\ memory'.session.entered
    BY <1>4 DEF SignalKept
  <2>3. ASSUME NEW e \in entries, Day(e.time) = Day(clock)
        PROVE  memory'.session.day = Day(clock) /\ memory'.session.entered
    <3>1. InSession(clock)
      BY <1>3, <2>1, <2>3, DayFacts
    <3> QED
      BY <2>1, <2>2, <2>3, <3>1
  <2>4. CASE entries' = entries
    BY <2>1, <2>3, <2>4
  <2>5. CASE answer.signal \in {"BUY", "SELL"}
             /\ entries' = entries \cup {[time |-> clock, bar |-> bars]}
    <3>1. PICK n : n = [time |-> clock, bar |-> bars]
      OBVIOUS
    <3>2. n.time = clock /\ entries' = entries \cup {n}
      BY <2>5, <3>1
    <3>3. \A e \in entries : Day(e.time) # Day(clock)
      BY <2>1, <2>2, <2>5
    <3>4. clock <= clock
      BY <1>3
    <3> QED
      BY <2>1, <2>2, <2>3, <2>5, <3>2, <3>3, <3>4
  <2> QED
    BY <1>13, <2>4, <2>5
<1>19. ChannelKept' /\ ForcedKept'
  <2>1. ChannelKept'
    <3> SUFFICES ASSUME cfg.kind = "donchian_breakout", memory'.last = NoReading
                 PROVE  position = NoPosition /\ NoneIs(commands', "bracket")
      BY <1>2 DEF ChannelKept, NoneIs
    <3>1. memory.last = NoReading /\ answer.signal \notin {"BUY", "SELL"}
      BY <1>4 DEF SignalKept
    <3>2. position = NoPosition
      BY <1>1, <3>1 DEF ChannelKept
    <3>3. commands' = <<>>
      BY <1>3, <1>13, <3>1, <3>2
    <3> QED
      BY <3>2, <3>3, ClosingOnly
  <2>2. ForcedKept'
    <3> SUFFICES ASSUME ForcedBy(cfg, bar, clock)
                 PROVE  /\ NoneIs(commands', "bracket")
                        /\ position = NoPosition
                           \/ (commands' # <<>> /\ Head(commands').do = "close")
      BY <1>2 DEF ForcedKept, Forced, ForcedBy, NoneIs
    <3>1. CASE Held = "flat"
      <4>1. commands' = <<>> /\ position = NoPosition
        BY <1>3, <1>4, <1>13, <3>1 DEF SignalKept
      <4> QED
        BY <4>1, ClosingOnly
    <3>2. CASE Held # "flat"
      <4>1. answer.signal = "CLOSE"
        BY <1>1, <1>3, <1>4, <3>2 DEF SignalKept, ChannelKept
      <4> QED
        BY <1>11, <1>14, <3>2, <4>1
    <3> QED
      BY <3>1, <3>2
  <2> QED
    BY <2>1, <2>2
<1>20. BracketsKept'
  <2>1. CASE \E c \in BracketCommands : commands' = <<c>> /\ Sized(c, bar.price)
    <3>1. PICK c \in BracketCommands : commands' = <<c>> /\ Sized(c, bar.price)
      BY <2>1
    <3>2. Len(commands') = 1 /\ commands'[1] = c
      BY <3>1
    <3>3. \A i \in 1..Len(commands') : commands'[i] = c
      BY <3>2
    <3>4. position' = NoPosition
      <4>1. commands' # <<>> /\ commands'[1].do = "bracket" /\ 1 \in 1..Len(commands')
        BY <3>1, <3>2 DEF BracketCommands
      <4>2. ~NoneIs(commands', "bracket")
        BY <4>1 DEF NoneIs
      <4> QED
        BY <1>2, <1>3, <1>14, <4>2
    <3>5. bar' = bar
      BY <1>2
    <3> QED
      BY <3>1, <3>2, <3>3, <3>4, <3>5 DEF BracketsKept, Sized
  <2>2. CASE NoneIs(commands', "bracket")
    BY <2>2 DEF BracketsKept, NoneIs
  <2> QED
    BY <1>13, <1>14, <2>1, <2>2, ClosingOnly
<1>21. PositionKept'
  <2>1. CASE Held # "flat"
    BY <1>14, <2>1
  <2>2. CASE Held = "flat"
    BY <1>2, <1>3, <2>2 DEF PositionKept
  <2> QED
    BY <2>1, <2>2
<1> QED
  BY <1>15, <1>16, <1>17, <1>18, <1>19, <1>20, <1>21 DEF TradeInv

LEMMA TradeNextInv == TradeInv /\ [StrategyNext]_strategyVars => TradeInv'
<1> SUFFICES ASSUME TradeInv, [StrategyNext]_strategyVars PROVE TradeInv'
  OBVIOUS
<1>1. CASE NextBar
  BY <1>1, NextBarKeeps
<1>2. CASE ActorRuns
  BY <1>2, ActorRunsKeeps
<1>3. CASE StrategyOnBar
  BY <1>3, StrategyOnBarKeeps
<1>4. CASE Execute
  BY <1>4, ExecuteKeeps
<1>5. CASE BarDone
  BY <1>5, BarDoneKeeps
<1>6. CASE UNCHANGED strategyVars
  <2>1. /\ UNCHANGED <<cfg, clock, bar, toRun, memory, position, stop, scaleState, commands, bars,
                       entries>>
        /\ UNCHANGED regimeVars
    BY <1>6 DEF strategyVars, tradeVars
  <2>2. RegimeKept' /\ ActorKept' /\ EntriesAdmitted'
    BY <2>1, EntriesAdmittedIs DEF TradeInv, RegimeKept, ActorKept, Handled, regimeVars
  <2>3. TradeTyped' /\ OrbKept' /\ ChannelKept'
    BY <2>1 DEF TradeInv, TradeTyped, OrbKept, ChannelKept, NoneIs
  <2>4. ForcedKept' /\ BracketsKept' /\ PositionKept'
    BY <2>1 DEF TradeInv, ForcedKept, Forced, ForcedBy, NoneIs, BracketsKept, Sized,
                PositionKept, ScaleKept, Climbs, ReducesOnce
  <2> QED
    BY <2>2, <2>3, <2>4 DEF TradeInv
<1> QED
  BY <1>1, <1>2, <1>3, <1>4, <1>5, <1>6 DEF StrategyNext

LEMMA TradeInvJustifies == TradeInv => EntriesJustified
<1> SUFFICES ASSUME TradeInv PROVE EntriesJustified
  OBVIOUS
<1>1. RegimeExact
  <2>1. ConfirmedAfter(Len(rawStates)) = ConfirmedIn(rawStates, Len(rawStates))
    BY DEF ConfirmedAfter, ConfirmedIn, Runs
  <2> QED
    BY <2>1 DEF TradeInv, RegimeKept, Pending, RegimeExact, ValidDecision
<1>2. EntriesAdmitted /\ OrbKept
  BY DEF TradeInv
<1>3. ASSUME bar # NoBar, toRun = {}, commands = <<>>, Forced PROVE position = NoPosition
  BY <1>3 DEF TradeInv, ForcedKept
<1> QED
  BY <1>1, <1>2, <1>3 DEF EntriesJustified, OrbKept, Forced, ForcedBy

(* Every entry of a strategy is justified, for every configuration and every  *)
(* sequence of bars: the hysteresis filter confirms exactly the runs of its   *)
(* reference and the regime-gated strategies enter on nothing else, the       *)
(* opening-range strategy enters once a session, and a strategy that is to be *)
(* flat outside its session is, as soon as a bar from outside is handled.     *)
THEOREM EntriesAreJustified == StrategySpec => []EntriesJustified
<1>1. StrategyInit => TradeInv
  BY TradeInitInv
<1>2. TradeInv /\ [StrategyNext]_strategyVars => TradeInv'
  BY TradeNextInv
<1>3. TradeInv => EntriesJustified
  BY TradeInvJustifies
<1> QED
  BY <1>1, <1>2, <1>3, PTL DEF StrategySpec

LEMMA TradeStepShrinks ==
    TradeInv /\ [StrategyNext]_strategyVars =>
       [/\ (position = NoPosition /\ position' # NoPosition) =>
            /\ commands # <<>> /\ Head(commands).do = "bracket"
            /\ 100 * LossAtStop(position', stop') <= Head(commands).budget
        /\ (position # NoPosition /\ position' # NoPosition) =>
            /\ position'.side = position.side /\ position'.entry = position.entry
            /\ position'.lots # position.lots =>
                    position.lots = position.initial /\ position'.lots \in 1..position.initial - 1
            /\ Sign(position.side) * (stop' - stop) >= 0]_strategyVars
<1> SUFFICES ASSUME TradeInv, StrategyNext
             PROVE
       /\ (position = NoPosition /\ position' # NoPosition) =>
            /\ commands # <<>> /\ Head(commands).do = "bracket"
            /\ 100 * LossAtStop(position', stop') <= Head(commands).budget
       /\ (position # NoPosition /\ position' # NoPosition) =>
            /\ position'.side = position.side /\ position'.entry = position.entry
            /\ position'.lots # position.lots =>
                    position.lots = position.initial /\ position'.lots \in 1..position.initial - 1
            /\ Sign(position.side) * (stop' - stop) >= 0
  OBVIOUS
<1>1. stop \in Int /\ Sign(position.side) * (stop - stop) >= 0
  BY SignFacts DEF TradeInv, TradeTyped
<1>2. CASE UNCHANGED <<position, stop>>
  BY <1>1, <1>2
<1>3. CASE PositionClosed
  BY <1>3 DEF PositionClosed
<1>4. CASE Execute
  <2>1. /\ bar # NoBar /\ toRun = {} /\ commands # <<>> /\ commands' = Tail(commands)
        /\ UNCHANGED cfg
    BY <1>4 DEF Execute
  <2>2. PICK c \in Commands : c = Head(commands)
    BY <2>1, RestOfCommands DEF TradeInv, TradeTyped
  <2>3. c.do \in {"bracket", "close", "reduce", "modify"}
    BY CommandFacts
  <2>4. /\ c.do = "bracket" => FillBracket(c)
        /\ c.do = "close" => PositionClosed
        /\ c.do = "reduce" => FillReduce(c)
        /\ c.do = "modify" => /\ stop' = IF stop = NoPrice THEN NoPrice ELSE c.stop
                              /\ UNCHANGED <<position, target, scaleState>>
    BY <1>4, <2>2, <2>3 DEF Execute
  <2>5. CASE c.do = "bracket"
    <3>1. position = NoPosition /\ 100 * LossAtStop(position', stop') <= c.budget
      BY <2>1, <2>2, <2>4, <2>5, FillBracketKeeps
    <3> QED
      BY <2>1, <2>2, <2>5, <3>1
  <2>6. CASE c.do = "close"
    BY <1>3, <2>4, <2>6
  <2>7. CASE c.do = "reduce"
    <3>1. UNCHANGED stop
      BY <2>4, <2>7 DEF FillReduce
    <3>2. /\ position = NoPosition => position' = NoPosition
          /\ position # NoPosition =>
                /\ position'.side = position.side /\ position'.entry = position.entry
                /\ position.lots = position.initial /\ position'.lots \in 1..position.initial - 1
      BY <2>1, <2>2, <2>4, <2>7, FillReduceKeeps
    <3> QED
      BY <1>1, <3>1, <3>2
  <2>8. CASE c.do = "modify"
    <3>1. UNCHANGED <<position, scaleState>>
      BY <2>4, <2>8
    <3>2. position # NoPosition => Sign(position.side) * (stop' - stop) >= 0
      BY <2>1, <2>2, <2>4, <2>8, <3>1, ModifyKeeps
    <3> QED
      BY <3>1, <3>2
  <2> QED
    BY <2>3, <2>5, <2>6, <2>7, <2>8
<1>5. CASE NextBar
  BY <1>2, <1>3, <1>5 DEF NextBar
<1>6. CASE ActorRuns \/ StrategyOnBar \/ BarDone
  BY <1>2, <1>6 DEF ActorRuns, StrategyOnBar, BarDone
<1> QED
  BY <1>4, <1>5, <1>6 DEF StrategyNext

(* What a trade can lose at its stop never exceeds the budget it was sized    *)
(* for, whatever the signals, the scale-out, the breakeven move and the trail *)
(* do: a position is opened by a bracket alone, within the risk percentage of *)
(* the funds, loses lots only to one partial close, and its stop only moves *)
(* towards profit.                                                            *)
THEOREM RiskOnlyShrinks == StrategySpec => RiskShrinks
<1>1. StrategyInit => TradeInv
  BY TradeInitInv
<1>2. TradeInv /\ [StrategyNext]_strategyVars => TradeInv'
  BY TradeNextInv
<1> QED
  BY <1>1, <1>2, TradeStepShrinks, PTL DEF StrategySpec, RiskShrinks

-----------------------------------------------------------------------------
(* CalendarService.  That a stopped service is quiet needs to know which    *)
(* loop stop() waits for: without an overlap of start() and stop() only one *)
(* process refreshes at a time, and it is the loop the service knows of     *)
(* once it has one.                                                         *)

Stations == {"new", "fetch", "readCache", "writeCache", "sleep", "done"}
Active(p) == At(p) \in Refreshing \cup {"sleep"}

CalTypeOK ==
    /\ proc \in [Starts -> [at : Stations, loop : BOOLEAN]]
    /\ running \in BOOLEAN /\ overtaken \in BOOLEAN
    /\ loopTask \in Starts \cup {0} /\ stopping \in Starts \cup {0}

LoopKnown ==
    /\ \A p \in Starts : At(p) = "new" => ~proc[p].loop
    /\ \A p \in Starts : At(p) = "sleep" => proc[p].loop
    /\ ~overtaken =>
        /\ running => stopping = 0
        /\ \A p, q \in Starts : Active(p) /\ Active(q) => p = q
        /\ \A p \in Starts : Active(p) => running \/ p = stopping
        /\ \A p \in Starts : Active(p) /\ proc[p].loop => p = loopTask

CalInv == CalTypeOK /\ LoopKnown

LEMMA NoStartZero == 0 \notin Starts
BY CalendarBounds

(* A process that goes to a place, and nothing else changes. *)
LEMMA GoFacts ==
    ASSUME CalTypeOK, NEW p \in Starts, NEW place \in Stations, Go(p, place)
    PROVE  /\ proc' \in [Starts -> [at : Stations, loop : BOOLEAN]]
           /\ At(p)' = place /\ proc'[p].loop = proc[p].loop
           /\ \A q \in Starts \ {p} : proc'[q] = proc[q] /\ At(q)' = At(q)
<1>1. PICK r : r = [proc[p] EXCEPT !.at = place]
  OBVIOUS
<1>2. proc[p] \in [at : Stations, loop : BOOLEAN]
  BY DEF CalTypeOK
<1>3. r \in [at : Stations, loop : BOOLEAN] /\ r.at = place /\ r.loop = proc[p].loop
  BY <1>1, <1>2
<1>4. proc' = [proc EXCEPT ![p] = r]
  BY <1>1 DEF Go
<1> QED
  BY <1>3, <1>4 DEF CalTypeOK, At

(* A refresh that ends: the process is the loop now. *)
LEMMA RefreshedFacts ==
    ASSUME CalTypeOK, NEW p \in Starts, Refreshed(p)
    PROVE  /\ proc' \in [Starts -> [at : Stations, loop : BOOLEAN]]
           /\ loopTask' \in Starts \cup {0}
           /\ At(p)' = "sleep" /\ proc'[p].loop
           /\ loopTask' = IF proc[p].loop THEN loopTask ELSE p
           /\ \A q \in Starts \ {p} : proc'[q] = proc[q] /\ At(q)' = At(q)
BY DEF Refreshed, CalTypeOK, At, Stations

LEMMA CalInitInv == CalInit => CalInv
<1> SUFFICES ASSUME CalInit PROVE CalInv
  OBVIOUS
<1>1. proc = [p \in Starts |-> [at |-> "new", loop |-> FALSE]]
  BY DEF CalInit
<1>2. \A p \in Starts : At(p) = "new" /\ ~proc[p].loop /\ ~Active(p)
  BY <1>1 DEF At, Active, Refreshing
<1>3. CalTypeOK
  <2>1. "new" \in Stations
    BY DEF Stations
  <2>2. [at |-> "new", loop |-> FALSE] \in [at : Stations, loop : BOOLEAN]
    BY <2>1
  <2>3. proc \in [Starts -> [at : Stations, loop : BOOLEAN]]
    BY <1>1, <2>2
  <2>4. running = FALSE /\ overtaken = FALSE /\ loopTask = 0 /\ stopping = 0
    BY DEF CalInit
  <2> QED
    BY <2>3, <2>4 DEF CalTypeOK
<1>4. LoopKnown
  BY <1>2 DEF CalInit, LoopKnown
<1> QED
  BY <1>3, <1>4 DEF CalInv

LEMMA CalStartKeeps ==
    ASSUME CalInv, NEW p \in Starts, CalStart(p)
    PROVE  CalInv'
<1> USE DEF CalInv
<1>1. /\ At(p) = "new" /\ ~proc[p].loop
      /\ overtaken' = (overtaken \/ (~running /\ stopping # 0))
      /\ loopTask' = loopTask /\ stopping' = stopping
  BY DEF CalStart, LoopKnown
<1>2. CASE running /\ Go(p, "done") /\ running' = running
  <2>1. /\ proc' \in [Starts -> [at : Stations, loop : BOOLEAN]]
        /\ At(p)' = "done" /\ proc'[p].loop = proc[p].loop
        /\ \A q \in Starts \ {p} : proc'[q] = proc[q] /\ At(q)' = At(q)
    BY <1>2, GoFacts DEF Stations
  <2>2. overtaken' = overtaken
    BY <1>1, <1>2 DEF CalTypeOK
  <2>3. CalTypeOK'
    BY <1>1, <1>2, <2>1, <2>2 DEF CalTypeOK
  <2>4. ~Active(p)' /\ \A q \in Starts \ {p} : Active(q)' = Active(q)
    BY <2>1 DEF Active, Refreshing
  <2>5. LoopKnown'
    BY <1>1, <1>2, <2>1, <2>2, <2>4 DEF LoopKnown
  <2> QED
    BY <2>3, <2>5
<1>3. CASE ~running /\ Go(p, "fetch") /\ running' = TRUE
  <2>1. /\ proc' \in [Starts -> [at : Stations, loop : BOOLEAN]]
        /\ At(p)' = "fetch" /\ proc'[p].loop = proc[p].loop
        /\ \A q \in Starts \ {p} : proc'[q] = proc[q] /\ At(q)' = At(q)
    BY <1>3, GoFacts DEF Stations
  <2>2. CalTypeOK'
    BY <1>1, <1>3, <2>1 DEF CalTypeOK
  <2>3. \A q \in Starts \ {p} : Active(q)' = Active(q)
    BY <2>1 DEF Active
  <2>4. ~overtaken' => ~overtaken /\ stopping = 0
    BY <1>1, <1>3
  <2>5. ~overtaken' => \A q \in Starts : ~Active(q)
    BY <1>3, <2>4, NoStartZero DEF LoopKnown
  <2>6. LoopKnown'
    BY <1>1, <1>3, <2>1, <2>3, <2>4, <2>5 DEF LoopKnown
  <2> QED
    BY <2>2, <2>6
<1> QED
  BY <1>2, <1>3 DEF CalStart

(* A step of a refresh that goes on, or the waking of a loop. *)
LEMMA RefreshGoesOn ==
    ASSUME CalInv, NEW p \in Starts, Active(p), NEW place \in Refreshing, Go(p, place),
           UNCHANGED <<running, loopTask, stopping, overtaken>>
    PROVE  CalInv'
<1> USE DEF CalInv
<1>1. /\ proc' \in [Starts -> [at : Stations, loop : BOOLEAN]]
      /\ At(p)' = place /\ proc'[p].loop = proc[p].loop
      /\ \A q \in Starts \ {p} : proc'[q] = proc[q] /\ At(q)' = At(q)
  BY GoFacts DEF Stations, Refreshing
<1>2. \A q \in Starts : Active(q)' = Active(q)
  BY <1>1 DEF Active
<1>3. CalTypeOK'
  BY <1>1 DEF CalTypeOK
<1>4. LoopKnown'
  BY <1>1, <1>2 DEF LoopKnown, Refreshing
<1> QED
  BY <1>3, <1>4

LEMMA RefreshEnds ==
    ASSUME CalInv, NEW p \in Starts, Active(p), Refreshed(p),
           UNCHANGED <<running, stopping, overtaken>>
    PROVE  CalInv'
<1> USE DEF CalInv
<1>1. /\ proc' \in [Starts -> [at : Stations, loop : BOOLEAN]]
      /\ loopTask' \in Starts \cup {0}
      /\ At(p)' = "sleep" /\ proc'[p].loop
      /\ loopTask' = IF proc[p].loop THEN loopTask ELSE p
      /\ \A q \in Starts \ {p} : proc'[q] = proc[q] /\ At(q)' = At(q)
  BY RefreshedFacts
<1>2. \A q \in Starts : Active(q)' = Active(q)
  BY <1>1 DEF Active
<1>3. CalTypeOK'
  BY <1>1 DEF CalTypeOK
<1>4. LoopKnown'
  BY <1>1, <1>2 DEF LoopKnown
<1> QED
  BY <1>3, <1>4

LEMMA CalStopKeeps ==
    ASSUME CalInv, CalStop
    PROVE  CalInv'
<1> USE DEF CalInv
<1>1. /\ running' = FALSE /\ stopping' = loopTask
      /\ overtaken' = (overtaken \/ \E p \in Starts : ~proc[p].loop /\ At(p) \in Refreshing)
      /\ UNCHANGED <<proc, loopTask>>
  BY DEF CalStop
<1>2. CalTypeOK'
  BY <1>1 DEF CalTypeOK
<1>3. ~overtaken' => \A p \in Starts : Active(p) => p = loopTask
  BY <1>1 DEF LoopKnown, Active
<1>4. \A p \in Starts : At(p)' = At(p) /\ Active(p)' = Active(p)
  BY <1>1 DEF At, Active
<1>5. LoopKnown'
  BY <1>1, <1>3, <1>4 DEF LoopKnown
<1> QED
  BY <1>2, <1>5

LEMMA LoopCancelledKeeps ==
    ASSUME CalInv, LoopCancelled
    PROVE  CalInv'
<1> USE DEF CalInv
<1>1. /\ stopping \in Starts /\ Go(stopping, "done") /\ stopping' = 0 /\ loopTask' = 0
      /\ UNCHANGED <<running, overtaken>>
  BY DEF LoopCancelled, CalTypeOK
<1>2. /\ proc' \in [Starts -> [at : Stations, loop : BOOLEAN]]
      /\ proc'[stopping].at = "done" /\ proc'[stopping].loop = proc[stopping].loop
      /\ \A q \in Starts \ {stopping} : proc'[q] = proc[q] /\ At(q)' = At(q)
  <2>1. PICK p \in Starts : p = stopping
    BY <1>1
  <2>2. /\ proc' \in [Starts -> [at : Stations, loop : BOOLEAN]]
        /\ At(p)' = "done" /\ proc'[p].loop = proc[p].loop
        /\ \A q \in Starts \ {p} : proc'[q] = proc[q] /\ At(q)' = At(q)
    BY <1>1, <2>1, GoFacts DEF Stations
  <2> QED
    BY <2>1, <2>2 DEF At
<1>3. CalTypeOK'
  BY <1>1, <1>2 DEF CalTypeOK
<1>4. ~overtaken' => \A q \in Starts : ~Active(q)'
  <2> SUFFICES ASSUME ~overtaken', NEW q \in Starts PROVE ~Active(q)'
    OBVIOUS
  <2>1. ~running
    BY <1>1, NoStartZero DEF LoopKnown
  <2>2. CASE q = stopping
    BY <1>2, <2>2 DEF Active, At, Refreshing
  <2>3. CASE q # stopping
    <3>1. ~Active(q)
      BY <1>1, <2>1, <2>3 DEF LoopKnown
    <3> QED
      BY <1>2, <2>3, <3>1 DEF Active
  <2> QED
    BY <2>2, <2>3
<1>5. \A q \in Starts : (At(q)' = "new" => ~proc'[q].loop) /\ (At(q)' = "sleep" => proc'[q].loop)
  <2> SUFFICES ASSUME NEW q \in Starts
               PROVE  (At(q)' = "new" => ~proc'[q].loop) /\ (At(q)' = "sleep" => proc'[q].loop)
    OBVIOUS
  <2>1. CASE q = stopping
    BY <1>2, <2>1 DEF At
  <2>2. CASE q # stopping
    BY <1>2, <2>2 DEF LoopKnown
  <2> QED
    BY <2>1, <2>2
<1>6. LoopKnown'
  BY <1>1, <1>4, <1>5 DEF LoopKnown
<1> QED
  BY <1>3, <1>6

LEMMA CalNextInv ==
    ASSUME CalInv, [CalNext]_calVars
    PROVE  CalInv'
<1>1. ASSUME NEW p \in Starts, WakeUp(p) \/ FetchAndParse(p)
      PROVE  CalInv'
  <2>1. PICK place \in Refreshing : Go(p, place)
    BY <1>1 DEF WakeUp, FetchAndParse, Refreshing
  <2>2. Active(p) /\ UNCHANGED <<running, loopTask, stopping, overtaken>>
    BY <1>1 DEF WakeUp, FetchAndParse, Active, Refreshing
  <2> QED
    BY <2>1, <2>2, RefreshGoesOn
<1>2. ASSUME NEW p \in Starts, CacheToRedis(p) \/ ReadCacheOrFile(p)
      PROVE  CalInv'
  <2>1. Refreshed(p) /\ Active(p) /\ UNCHANGED <<running, stopping, overtaken>>
    BY <1>2 DEF CacheToRedis, ReadCacheOrFile, Swap, Active, Refreshing
  <2> QED
    BY <2>1, RefreshEnds
<1>3. CASE UNCHANGED <<running, loopTask, proc, stopping, overtaken>>
  <2>1. \A p \in Starts : At(p)' = At(p) /\ Active(p)' = Active(p)
    BY <1>3 DEF At, Active
  <2> QED
    BY <1>3, <2>1 DEF CalInv, CalTypeOK, LoopKnown
<1>4. CASE Midnight \/ CacheExpires
  BY <1>3, <1>4 DEF Midnight, CacheExpires
<1>5. CASE UNCHANGED calVars
  BY <1>3, <1>5 DEF calVars
<1> QED
  BY <1>1, <1>2, <1>4, <1>5, CalStartKeeps, CalStopKeeps, LoopCancelledKeeps DEF CalNext

LEMMA CalInvQuiet == CalInv => QuietAfterStop
<1> SUFFICES ASSUME CalInv, ~running, stopping = 0, ~overtaken, NEW p \in Starts
             PROVE  At(p) \in {"new", "done"}
  BY DEF QuietAfterStop
<1>1. ~Active(p)
  BY NoStartZero DEF CalInv, LoopKnown
<1>2. At(p) \in Stations
  BY DEF CalInv, CalTypeOK, At
<1> QED
  BY <1>1, <1>2 DEF Active, Stations, Refreshing

(* An index has an entry for each event. *)
LEMMA IndexKept ==
    ASSUME NEW events, DOMAIN events # {}
    PROVE  EventIndex(events) # <<>>
<1>1. DOMAIN EventIndex(events) = DOMAIN events
  BY DEF EventIndex
<1>2. DOMAIN <<>> = {}
  OBVIOUS
<1> QED
  BY <1>1, <1>2

LEMMA SwapKeepsEvents ==
    ASSUME NEW p \in Starts, NEW events, Swap(p, events)
    PROVE  KnownEventsKept
BY IndexKept DEF Swap, KnownEventsKept

LEMMA EventsStepKept == [CalNext]_calVars => KnownEventsKept
<1> SUFFICES ASSUME [CalNext]_calVars PROVE KnownEventsKept
  OBVIOUS
<1>1. CASE snapshot' = snapshot
  BY <1>1 DEF KnownEventsKept
<1>2. ASSUME NEW p \in Starts, CacheToRedis(p) PROVE KnownEventsKept
  BY <1>2, SwapKeepsEvents DEF CacheToRedis
<1>3. ASSUME NEW p \in Starts, ReadCacheOrFile(p) PROVE KnownEventsKept
  BY <1>1, <1>3, SwapKeepsEvents DEF ReadCacheOrFile
<1>4. CASE UNCHANGED calVars
  BY <1>1, <1>4 DEF calVars
<1>5. ASSUME NEW p \in Starts, CalStart(p) \/ WakeUp(p) \/ FetchAndParse(p)
      PROVE  KnownEventsKept
  BY <1>1, <1>5 DEF CalStart, WakeUp, FetchAndParse
<1>6. CASE CalStop \/ LoopCancelled \/ Midnight \/ CacheExpires
  BY <1>1, <1>6 DEF CalStop, LoopCancelled, Midnight, CacheExpires
<1> QED
  BY <1>2, <1>3, <1>4, <1>5, <1>6 DEF CalNext

(* No step empties the snapshot of the calendar as long as no source has      *)
(* answered with no event at all, and a stopped service refreshes no more,    *)
(* unless a start() and a stop() overlapped; for any number of starts, any    *)
(* feeds and any fallback.                                                    *)
THEOREM CalendarIsSound == CalSpec => CalendarSound
<1>1. CalInit => CalInv
  BY CalInitInv
<1>2. CalInv /\ [CalNext]_calVars => CalInv'
  BY CalNextInv
<1>3. CalInv' /\ [CalNext]_calVars => KnownEventsKept /\ QuietAfterStop'
  <2>1. CalInv' => QuietAfterStop'
    BY CalInvQuiet, PTL
  <2> QED
    BY <2>1, EventsStepKept
<1> QED
  BY <1>1, <1>2, <1>3, PTL DEF CalSpec, CalendarSound
=============================================================================
