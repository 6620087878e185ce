----------------------- MODULE AccountLifecycleProofs -----------------------
(***************************************************************************)
(* Proofs about AccountLifecycle, for any number of commands under way,    *)
(* and about CrashRecovery, for any number of accounts and any lists of    *)
(* positions.                                                              *)
(*                                                                         *)
(* OneLateSignal is not inductive: a second late call would be possible if *)
(* the loop were about to call the handler again.  It never is, because it *)
(* gets there only past a status check, and the check that follows a late  *)
(* call still reads a halted status.  LateInv says so.                     *)
(***************************************************************************)
EXTENDS AccountLifecycle, CrashRecovery, SequenceFacts, FiniteSetTheorems, TLAPS

(* The count is of calls since the halt: without one it is zero, and a loop   *)
(* that is about to call the handler of a halted account passed its check     *)
(* before the halt.                                                           *)
LateInv ==
    /\ TypeOK
    /\ ~Halted(status) => late = 0
    /\ Halted(status) /\ task = "handler" => late = 0
    /\ late <= 1

LEMMA TargetType == \A op \in AllOps : Target(op) \in States
BY DEF AllOps, Target, States

(* A write of the status restarts the count unless it goes from one halt to   *)
(* the other.                                                                 *)
LEMMA SaveStatusLate ==
    ASSUME LateInv, NEW s \in States, SaveStatus(s)
    PROVE  /\ status' \in States \cup {"none"}
           /\ late' \in 0..LateCap
           /\ ~Halted(status') => late' = 0
           /\ Halted(status') /\ task = "handler" => late' = 0
           /\ late' <= 1
BY DEF LateInv, TypeOK, SaveStatus, Halted, States, LateCap

LEMMA InitLateInv == Init => LateInv
BY DEF Init, LateInv, TypeOK, Halted, States, EngineStates, TaskStates, LateCap

LEMMA NextLateInv == LateInv /\ [Next]_vars => LateInv'
<1> SUFFICES ASSUME LateInv, [Next]_vars PROVE LateInv'
  OBVIOUS
<1> USE DEF LateInv, TypeOK, EngineStates, TaskStates
<1>1. ASSUME NEW c \in Clients, NEW op \in Ops, Read(c, op) PROVE LateInv'
  BY <1>1, OpsKnown DEF Read, Halted
<1>2. ASSUME NEW c \in Clients, Write(c) PROVE LateInv'
  <2>1. Target(cmd[c]) \in States
    BY <1>2, TargetType DEF Write
  <2>2. SaveStatus(Target(cmd[c])) /\ UNCHANGED <<engine, task>>
    BY <1>2 DEF Write
  <2>3. cmd' \in [Clients -> AllOps \cup {"idle"}]
    BY <1>2 DEF Write
  <2> QED
    BY <2>1, <2>2, <2>3, SaveStatusLate DEF Halted
<1>3. ASSUME SpawnWrites PROVE LateInv'
  <2>1. SaveStatus("active") /\ UNCHANGED <<cmd, task>> /\ engine' = "up"
    BY <1>3 DEF SpawnWrites
  <2> QED
    BY <2>1, SaveStatusLate DEF States, Halted
<1>4. ASSUME HandleError PROVE LateInv'
  <2>1. SaveStatus("error") /\ UNCHANGED <<cmd, engine>> /\ task' = "clear"
    BY <1>4 DEF HandleError, SetError
  <2> QED
    BY <2>1, SaveStatusLate DEF States, Halted
<1>5. ASSUME HandleSignal PROVE LateInv'
  BY <1>5 DEF HandleSignal, Halted, LateCap
<1>6. ASSUME CheckStatus PROVE LateInv'
  BY <1>6 DEF CheckStatus, Halted
<1>7. ASSUME Launch \/ ReadActive \/ Skip \/ Blocked \/ Spawn \/ Crash PROVE LateInv'
  BY <1>7 DEF Launch, ReadActive, Skip, Blocked, Spawn, Crash, Halted
<1>8. ASSUME UpdateHealth \/ ClearHealth \/ HandlerRaises PROVE LateInv'
  BY <1>8 DEF UpdateHealth, ClearHealth, HandlerRaises, Halted
<1>9. CASE UNCHANGED vars
  BY <1>9 DEF vars, Halted
<1> QED
  BY <1>1, <1>2, <1>3, <1>4, <1>5, <1>6, <1>7, <1>8, <1>9
  DEF Next, Resumption, Loop

THEOREM LateInvHolds == Spec => []LateInv
BY InitLateInv, NextLateInv, PTL DEF Spec

(* After a pause or a stop is in Redis the account loop calls the signal      *)
(* handler at most once more, whatever commands, crashes and recoveries come  *)
(* between, with any number of commands under way.                            *)
THEOREM AtMostOneLateSignal == Spec => []OneLateSignal
BY LateInvHolds, PTL DEF LateInv, OneLateSignal

-----------------------------------------------------------------------------
(* CrashRecovery.  The loops are spawned in the phase "resume" only, which a *)
(* recovery reaches past AllSucceeded; no outcome changes after that, and    *)
(* the accounts it goes through are those that have one.                     *)

ResumeInv ==
    /\ phase \in Phases
    /\ outcome = [a \in Accounts |-> outcome[a]]
    /\ loops \subseteq Accounts
    /\ phase \in {"down", "reconcile"} => loops = {}
    /\ phase \in {"pnl", "resume"} => AllSucceeded
    /\ phase = "resume" => todo \subseteq Results
    /\ loops # {} => AllSucceeded /\ loops \subseteq Results

LEMMA ResumeInvTogether == ResumeInv => ResumedTogether
BY DEF ResumeInv, ResumedTogether, AllSucceeded, Results, Success

LEMMA ResumeInitInv == RecInit => ResumeInv
BY DEF RecInit, ResumeInv, Phases

LEMMA VisitedKeeps ==
    ASSUME ResumeInv, NEW a \in Accounts, NEW r, Visited(a, r),
           phase = "reconcile", UNCHANGED <<phase, loops>>
    PROVE  ResumeInv'
BY DEF ResumeInv, Visited, Phases

LEMMA ResumeNextInv ==
    ASSUME ResumeInv, [RecNext]_recVars
    PROVE  ResumeInv'
<1>1. CASE StartRecovery
  BY <1>1 DEF StartRecovery, ResumeInv, Phases, Results, AllSucceeded, Success
<1>2. CASE EndReconciliation
  BY <1>2 DEF EndReconciliation, ResumeInv, Phases, Results, AllSucceeded, Success
<1>3. CASE EndRecalculation
  BY <1>3 DEF EndRecalculation, ResumeInv, Phases, Results, AllSucceeded, Success
<1>4. CASE EndRecovery
  BY <1>4 DEF EndRecovery, ResumeInv, Phases, Results, AllSucceeded, Success
<1>5. ASSUME NEW a \in Accounts, SkipReconciliation(a) \/ QueryPositionsFails(a)
      PROVE  ResumeInv'
  <2>1. PICK r : Visited(a, r)
    BY <1>5 DEF SkipReconciliation, QueryPositionsFails
  <2> QED
    BY <1>5, <2>1, VisitedKeeps DEF SkipReconciliation, QueryPositionsFails
<1>6. ASSUME NEW a \in Accounts, ReconcileAccount(a) PROVE ResumeInv'
  <2>1. phase = "reconcile" /\ UNCHANGED <<phase, loops>> /\ \E r : Visited(a, r)
    BY <1>6 DEF ReconcileAccount
  <2> QED
    BY <2>1, VisitedKeeps
<1>7. ASSUME NEW a \in Accounts, RecalculatePnl(a) PROVE ResumeInv'
  BY <1>7 DEF RecalculatePnl, ResumeInv, Phases, Results, AllSucceeded, Success
<1>8. ASSUME NEW a \in Accounts, ResumeAccount(a) PROVE ResumeInv'
  BY <1>8 DEF ResumeAccount, ResumeInv, Phases, Results, AllSucceeded, Success
<1>9. ASSUME NEW a \in Accounts, ResumeFails(a) PROVE ResumeInv'
  BY <1>9 DEF ResumeFails, ResumeInv, Phases, Results, AllSucceeded, Success
<1>10. CASE ProcessEnds
  BY <1>10 DEF ProcessEnds, ResumeInv, Phases, Results, AllSucceeded, Success
<1>11. ASSUME UNCHANGED <<phase, todo, outcome, loops>> PROVE ResumeInv'
  BY <1>11 DEF ResumeInv, Results, AllSucceeded, Success
<1>12. CASE SnapshotAll \/ WriteColdSnapshots
  BY <1>11, <1>12 DEF SnapshotAll, WriteColdSnapshots
<1>13. ASSUME NEW a \in Accounts,
              Trades(a) \/ BrokerMoves(a) \/ LoseSnapshot(a) \/ ChangeStatus(a)
       PROVE  ResumeInv'
  BY <1>11, <1>13 DEF Trades, BrokerMoves, LoseSnapshot, ChangeStatus
<1>14. CASE UNCHANGED recVars
  BY <1>11, <1>14 DEF recVars
<1>15. ASSUME NEW a \in Accounts, RedisRaises(a) PROVE ResumeInv'
  BY <1>10, <1>15 DEF RedisRaises
<1>16. CASE EngineCrash
  BY <1>10, <1>16 DEF EngineCrash
<1> QED
  BY <1>1, <1>2, <1>3, <1>4, <1>5, <1>6, <1>7, <1>8, <1>9, <1>12, <1>13, <1>14, <1>15, <1>16
  DEF RecNext, OwnStep

(* RecoveryOrchestrator.run resumes all accounts or none: a loop runs only   *)
(* after a recovery in which no account was left for a human, and its own    *)
(* account was among those gone through, whatever crashes, commands, broker  *)
(* moves and lost snapshots come between.                                    *)
THEOREM AccountsResumeTogether == RecSpec => []ResumedTogether
<1>1. RecInit => ResumeInv
  BY ResumeInitInv
<1>2. ResumeInv /\ [RecNext]_recVars => ResumeInv'
  BY ResumeNextInv
<1>3. ResumeInv => ResumedTogether
  BY ResumeInvTogether
<1> QED
  BY <1>1, <1>2, <1>3, PTL DEF RecSpec, RecFairness

-----------------------------------------------------------------------------
(* PositionReconciler.  The list that is saved comes of two loops: the        *)
(* pairing of the snapshot with the positions at MT5 (MatchPositions), and    *)
(* the corrections of what it found (Reconciled).  Followed together, one     *)
(* position of the snapshot after the other, they keep a one-to-one           *)
(* assignment: every entry the corrections are done with has an MT5 position  *)
(* of its own, and the rest of these are the ones not yet paired, which the   *)
(* corrections add at the end (Stage).                                        *)

Kinds == {"orphan", "unknown", "side_mismatch", "volume_mismatch"}
Discrepancies == [kind : Kinds, sym : STRING, side : {"buy", "sell"}, vol : Nat]
Matchings == [unmatched : Seq(Positions), found : Seq(Discrepancies)]

LEMMA DiscrepancyType ==
    ASSUME NEW kind \in Kinds, NEW p \in Positions
    PROVE  /\ Discrepancy(kind, p) \in Discrepancies
           /\ Discrepancy(kind, p).kind = kind /\ Discrepancy(kind, p).sym = p.sym
           /\ Discrepancy(kind, p).side = p.side /\ Discrepancy(kind, p).vol = p.vol
<1>1. PICK d : d = [kind |-> kind, sym |-> p.sym, side |-> p.side, vol |-> p.vol]
  OBVIOUS
<1>2. p.sym \in STRING /\ p.side \in {"buy", "sell"} /\ p.vol \in Nat
  BY DEF Positions
<1>3. d \in Discrepancies
  BY <1>1, <1>2 DEF Discrepancies
<1>4. d.kind = kind /\ d.sym = p.sym /\ d.side = p.side /\ d.vol = p.vol
  BY <1>1
<1> QED
  BY <1>1, <1>3, <1>4 DEF Discrepancy

(* One position of the snapshot is an orphan, or it takes one of the MT5      *)
(* positions of its symbol.                                                   *)
Paired(u, found, p, k, r) ==
    /\ k \in 1..Len(u) /\ u[k].sym = p.sym
    /\ r.unmatched = RemoveAt(u, k)
    /\ \/ u[k].side # p.side /\ r.found = Append(found, Discrepancy("side_mismatch", u[k]))
       \/ u[k].side = p.side /\ Abs(u[k].vol, p.vol) <= VolumeTolerance /\ r.found = found
       \/ u[k].side = p.side /\ r.found = Append(found, Discrepancy("volume_mismatch", u[k]))
Orphaned(u, found, p, r) ==
    r.unmatched = u /\ r.found = Append(found, Discrepancy("orphan", p))

LEMMA MatchCases ==
    ASSUME NEW acc \in Matchings, NEW p \in Positions
    PROVE  LET r == MatchPosition(acc, p)
           IN  /\ r \in Matchings
               /\ \/ Orphaned(acc.unmatched, acc.found, p, r)
                  \/ \E k : Paired(acc.unmatched, acc.found, p, k, r)
<1>1. PICK u \in Seq(Positions), fs \in Seq(Discrepancies) : u = acc.unmatched /\ fs = acc.found
  BY DEF Matchings
<1>2. PICK i : i = SelectInSeq(u, LAMBDA q : q.sym = p.sym)
  OBVIOUS
<1>3. i # 0 => i \in 1..Len(u) /\ u[i].sym = p.sym
  <2>1. PICK I : I = {j \in 1..Len(u) : u[j].sym = p.sym}
    OBVIOUS
  <2>2. i = IF I # {} THEN Min(I) ELSE 0
    BY <1>2, <2>1 DEF SelectInSeq
  <2>3. I # {} => Min(I) \in I
    <3>1. Len(u) \in Nat
      BY <1>1, LenProperties
    <3>2. I \subseteq Nat
      BY <2>1, <3>1
    <3>3. I # {} => \E m \in I : \A x \in I : m <= x
      BY <3>2, LeastNatural
    <3> QED
      BY <3>3 DEF Min
  <2> QED
    BY <2>1, <2>2, <2>3
<1>4. PICK r : r = MatchPosition(acc, p)
  OBVIOUS
<1>5. CASE i = 0
  <2>1. r = [acc EXCEPT !.found = Append(fs, Discrepancy("orphan", p))]
    BY <1>1, <1>2, <1>4, <1>5 DEF MatchPosition
  <2>2. r.unmatched = u /\ r.found = Append(fs, Discrepancy("orphan", p))
    BY <1>1, <2>1 DEF Matchings
  <2>3. Append(fs, Discrepancy("orphan", p)) \in Seq(Discrepancies)
    BY <1>1, DiscrepancyType, AppendProperties DEF Kinds
  <2>4. r \in Matchings
    BY <1>1, <2>1, <2>3 DEF Matchings
  <2> QED
    BY <1>1, <1>4, <2>2, <2>4 DEF Orphaned
<1>6. CASE i # 0
  <2>1. PICK q \in Positions : q = u[i]
    BY <1>1, <1>3, <1>6, ElementOfSeq
  <2>2. PICK more : more = IF q.side # p.side THEN <<Discrepancy("side_mismatch", q)>>
                           ELSE IF Abs(q.vol, p.vol) <= VolumeTolerance THEN <<>>
                           ELSE <<Discrepancy("volume_mismatch", q)>>
    OBVIOUS
  <2>3. r = [unmatched |-> RemoveAt(u, i), found |-> fs \o more]
    BY <1>1, <1>2, <1>4, <1>6, <2>1, <2>2 DEF MatchPosition
  <2>4. r.unmatched = RemoveAt(u, i) /\ r.found = fs \o more
    BY <2>3
  <2>5. RemoveAt(u, i) \in Seq(Positions)
    BY <1>1, <1>3, <1>6, RemoveAtFacts
  <2>6. ASSUME NEW d \in Discrepancies
        PROVE  fs \o <<d>> = Append(fs, d) /\ fs \o <<d>> \in Seq(Discrepancies)
    BY <1>1, <2>6
  <2>7. fs \o <<>> = fs
    BY <1>1
  <2>8. /\ Discrepancy("side_mismatch", q) \in Discrepancies
        /\ Discrepancy("volume_mismatch", q) \in Discrepancies
    BY DiscrepancyType DEF Kinds
  <2>9. /\ fs \o more \in Seq(Discrepancies)
        /\ \/ q.side # p.side /\ fs \o more = Append(fs, Discrepancy("side_mismatch", q))
           \/ q.side = p.side /\ Abs(q.vol, p.vol) <= VolumeTolerance /\ fs \o more = fs
           \/ q.side = p.side /\ fs \o more = Append(fs, Discrepancy("volume_mismatch", q))
    <3>1. CASE q.side # p.side
      BY <2>2, <2>6, <2>8, <3>1
    <3>2. CASE q.side = p.side /\ Abs(q.vol, p.vol) <= VolumeTolerance
      BY <1>1, <2>2, <2>7, <3>2
    <3>3. CASE q.side = p.side /\ ~(Abs(q.vol, p.vol) <= VolumeTolerance)
      BY <2>2, <2>6, <2>8, <3>3
    <3> QED
      BY <3>1, <3>2, <3>3
  <2>10. r \in Matchings
    BY <2>3, <2>5, <2>9 DEF Matchings
  <2>11. Paired(u, fs, p, i, r)
    BY <1>3, <1>6, <2>1, <2>4, <2>9 DEF Paired
  <2> QED
    BY <1>1, <1>4, <2>10, <2>11
<1> QED
  BY <1>5, <1>6

Pairing(s, answer) == FoldLeft(MatchPosition, [unmatched |-> answer, found |-> <<>>], s)
Correction(start, ds) == FoldLeft(ApplyDiscrepancy, start, ds)

Matching(h, S, answer) ==
    /\ h \in [0..Len(S) -> Matchings]
    /\ h[0] = [unmatched |-> answer, found |-> <<>>]
    /\ \A i \in 1..Len(S) : h[i] = MatchPosition(h[i - 1], S[i])
Correcting(h, start, ds) ==
    /\ h \in [0..Len(ds) -> Seq(Positions)]
    /\ h[0] = start
    /\ \A k \in 1..Len(ds) : h[k] = ApplyDiscrepancy(h[k - 1], ds[k])

(* The pairing, one position of the snapshot after the other.                  *)
LEMMA MatchRuns ==
    ASSUME NEW s \in Seq(Positions), NEW answer \in Seq(Positions)
    PROVE  \E h : Matching(h, s, answer) /\ h[Len(s)] = Pairing(s, answer)
<1>1. PICK n \in Nat : n = Len(s) /\ DOMAIN s = 1..n /\ \A i \in 1..n : s[i] \in Positions
  BY LenProperties, ElementOfSeq
<1>2. PICK base : base = [unmatched |-> answer, found |-> <<>>]
  OBVIOUS
<1>3. base \in Matchings
  BY <1>2 DEF Matchings
<1>4. \A a \in Matchings, i \in 1..n : MatchPosition(a, s[i]) \in Matchings
  BY <1>1, MatchCases
<1>5. PICK next : next = [p \in Matchings \X (1..n) |-> MatchPosition(p[1], s[p[2]])]
  OBVIOUS
<1>6. \A a \in Matchings, i \in 1..n : /\ next[<<a, i>>] = MatchPosition(a, s[i])
                                       /\ next[<<a, i>>] \in Matchings
  BY <1>4, <1>5
<1>7. PICK it \in [SUBSET (1..n) -> Matchings] : FoldEquation(it, 1..n, base, next, Largest(n))
  <2>1. n \in Nat /\ \A a \in Matchings, i \in 1..n : next[<<a, i>>] \in Matchings
    BY <1>6
  <2> QED
    BY ONLY <2>1, <1>3, LeftFoldRuns
<1> DEFINE Equation(all) ==
              all = [I \in SUBSET (1..n) |->
                      IF I = {} THEN base
                      ELSE MatchPosition(all[I \ {Max(I)}], s[Max(I)])]
<1>8. \E all : Equation(all)
  <2>1. ASSUME NEW I \in SUBSET (1..n), I # {}
        PROVE  it[I] = MatchPosition(it[I \ {Max(I)}], s[Max(I)])
    <3>1. Max(I) \in 1..n /\ it[I \ {Max(I)}] \in Matchings
      BY <1>7, <2>1, GreatestNatural
    <3>2. it[I] = next[<<it[I \ {Largest(n)[I]}], Largest(n)[I]>>] /\ Largest(n)[I] = Max(I)
      BY <1>7, <2>1 DEF FoldEquation, Largest
    <3> QED
      BY <1>6, <3>1, <3>2
  <2>2. it = [I \in SUBSET (1..n) |-> it[I]]
    BY <1>7
  <2>3. \A I \in SUBSET (1..n) :
            it[I] = IF I = {} THEN base
                    ELSE MatchPosition(it[I \ {Max(I)}], s[Max(I)])
    BY <1>7, <2>1 DEF FoldEquation
  <2>4. it = [I \in SUBSET (1..n) |->
                IF I = {} THEN base ELSE MatchPosition(it[I \ {Max(I)}], s[Max(I)])]
    BY <2>2, <2>3
  <2> QED
    BY <2>4
<1>9. PICK f : f = CHOOSE all : Equation(all)
  OBVIOUS
<1>10. Equation(f)
  BY <1>8, <1>9
<1>11. Pairing(s, answer) = f[1..n]
  BY <1>1, <1>2, <1>9 DEF Pairing, FoldLeft, MapThenFoldSet
<1> HIDE DEF Equation
<1>12. f[{}] = base
  <2>1. {} \in SUBSET (1..n) /\ \A I \in SUBSET (1..n) : I = {} => f[I] = base
    BY <1>10 DEF Equation
  <2> QED
    BY <2>1
<1>13. ASSUME NEW I \in SUBSET (1..n), I # {}, f[I \ {Max(I)}] \in Matchings
       PROVE  f[I] = next[<<f[I \ {Max(I)}], Max(I)>>]
  <2>1. Max(I) \in 1..n
    BY <1>13, GreatestNatural
  <2>2. f[I] = MatchPosition(f[I \ {Max(I)}], s[Max(I)])
    BY <1>10, <1>13 DEF Equation
  <2> QED
    BY <1>6, <1>13, <2>1, <2>2
<1>14. PICK h : RunOf(h, n, Matchings, base, next) /\ h[n] = f[1..n]
  <2>1. FoldsTo(f, n, Matchings, base, next)
    BY <1>6, <1>12, <1>13 DEF FoldsTo
  <2> QED
    BY ONLY <1>3, <2>1, n \in Nat, FoldSteps
<1>15. \A i \in 1..n : h[i] = MatchPosition(h[i - 1], s[i])
  <2> SUFFICES ASSUME NEW i \in 1..n PROVE h[i] = MatchPosition(h[i - 1], s[i])
    OBVIOUS
  <2>1. i - 1 \in 0..n
    OBVIOUS
  <2>2. h[i - 1] \in Matchings /\ h[i] = next[<<h[i - 1], i>>]
    BY <1>14, <2>1 DEF RunOf
  <2> QED
    BY <1>6, <2>2
<1> QED
  BY <1>1, <1>2, <1>11, <1>14, <1>15 DEF RunOf, Matching

(* An orphan is dropped, every other position kept.                           *)
Keeping(kept, p, d) ==
    IF p.sym = d.sym /\ p.side = d.side /\ p.vol = d.vol THEN kept ELSE Append(kept, p)

(* The list comprehension of _remove_orphan_from_state.                        *)
LEMMA RemovalRuns ==
    ASSUME NEW s \in Seq(Positions), NEW d
    PROVE  \E h : /\ h \in [0..Len(s) -> Seq(Positions)] /\ h[0] = <<>>
                  /\ \A i \in 1..Len(s) : h[i] = Keeping(h[i - 1], s[i], d)
                  /\ h[Len(s)] = RemoveOrphan(s, d)
<1>1. PICK n \in Nat : n = Len(s) /\ DOMAIN s = 1..n /\ \A i \in 1..n : s[i] \in Positions
  BY LenProperties, ElementOfSeq
<1>2. PICK base : base = <<>>
  OBVIOUS
<1>3. base \in Seq(Positions)
  BY <1>2
<1>4. \A a \in Seq(Positions), i \in 1..n : Keeping(a, s[i], d) \in Seq(Positions)
  BY <1>1, AppendProperties DEF Keeping
<1>5. PICK next : next = [p \in Seq(Positions) \X (1..n) |-> Keeping(p[1], s[p[2]], d)]
  OBVIOUS
<1>6. \A a \in Seq(Positions), i \in 1..n : /\ next[<<a, i>>] = Keeping(a, s[i], d)
                                    /\ next[<<a, i>>] \in Seq(Positions)
  BY <1>4, <1>5
<1>7. PICK it \in [SUBSET (1..n) -> Seq(Positions)] : FoldEquation(it, 1..n, base, next, Largest(n))
  <2>1. n \in Nat /\ \A a \in Seq(Positions), i \in 1..n : next[<<a, i>>] \in Seq(Positions)
    BY <1>6
  <2> QED
    BY ONLY <2>1, <1>3, LeftFoldRuns
<1> DEFINE Equation(all) ==
              all = [I \in SUBSET (1..n) |->
                      IF I = {} THEN base
                      ELSE Keeping(all[I \ {Max(I)}], s[Max(I)], d)]
<1>8. \E all : Equation(all)
  <2>1. ASSUME NEW I \in SUBSET (1..n), I # {}
        PROVE  it[I] = Keeping(it[I \ {Max(I)}], s[Max(I)], d)
    <3>1. Max(I) \in 1..n /\ it[I \ {Max(I)}] \in Seq(Positions)
      BY <1>7, <2>1, GreatestNatural
    <3>2. it[I] = next[<<it[I \ {Largest(n)[I]}], Largest(n)[I]>>] /\ Largest(n)[I] = Max(I)
      BY <1>7, <2>1 DEF FoldEquation, Largest
    <3> QED
      BY <1>6, <3>1, <3>2
  <2>2. it = [I \in SUBSET (1..n) |-> it[I]]
    BY <1>7
  <2>3. \A I \in SUBSET (1..n) :
            it[I] = IF I = {} THEN base
                    ELSE Keeping(it[I \ {Max(I)}], s[Max(I)], d)
    BY <1>7, <2>1 DEF FoldEquation
  <2>4. it = [I \in SUBSET (1..n) |->
                IF I = {} THEN base ELSE Keeping(it[I \ {Max(I)}], s[Max(I)], d)]
    BY <2>2, <2>3
  <2> QED
    BY <2>4
<1>9. PICK f : f = CHOOSE all : Equation(all)
  OBVIOUS
<1>10. Equation(f)
  BY <1>8, <1>9
<1>11. RemoveOrphan(s, d) = f[1..n]
  BY <1>1, <1>2, <1>9 DEF RemoveOrphan, Keeping, FoldLeft, MapThenFoldSet
<1> HIDE DEF Equation
<1>12. f[{}] = base
  <2>1. {} \in SUBSET (1..n) /\ \A I \in SUBSET (1..n) : I = {} => f[I] = base
    BY <1>10 DEF Equation
  <2> QED
    BY <2>1
<1>13. ASSUME NEW I \in SUBSET (1..n), I # {}, f[I \ {Max(I)}] \in Seq(Positions)
       PROVE  f[I] = next[<<f[I \ {Max(I)}], Max(I)>>]
  <2>1. Max(I) \in 1..n
    BY <1>13, GreatestNatural
  <2>2. f[I] = Keeping(f[I \ {Max(I)}], s[Max(I)], d)
    BY <1>10, <1>13 DEF Equation
  <2> QED
    BY <1>6, <1>13, <2>1, <2>2
<1>14. PICK h : RunOf(h, n, Seq(Positions), base, next) /\ h[n] = f[1..n]
  <2>1. FoldsTo(f, n, Seq(Positions), base, next)
    BY <1>6, <1>12, <1>13 DEF FoldsTo
  <2> QED
    BY ONLY <1>3, <2>1, n \in Nat, FoldSteps
<1>15. \A i \in 1..n : h[i] = Keeping(h[i - 1], s[i], d)
  <2> SUFFICES ASSUME NEW i \in 1..n PROVE h[i] = Keeping(h[i - 1], s[i], d)
    OBVIOUS
  <2>1. i - 1 \in 0..n
    OBVIOUS
  <2>2. h[i - 1] \in Seq(Positions) /\ h[i] = next[<<h[i - 1], i>>]
    BY <1>14, <2>1 DEF RunOf
  <2> QED
    BY <1>6, <2>2
<1> QED
  BY <1>1, <1>2, <1>11, <1>14, <1>15 DEF RunOf

LEMMA ApplyType ==
    ASSUME NEW b \in Seq(Positions), NEW d \in Discrepancies, d.kind # "side_mismatch"
    PROVE  ApplyDiscrepancy(b, d) \in Seq(Positions)
<1>1. d.sym \in STRING /\ d.side \in {"buy", "sell"} /\ d.vol \in Nat /\ d.kind \in Kinds
  BY DEF Discrepancies
<1>2. CASE d.kind = "orphan"
  <2>1. RemoveOrphan(b, d) \in Seq(Positions)
    <3>1. PICK h : /\ h \in [0..Len(b) -> Seq(Positions)]
                   /\ h[Len(b)] = RemoveOrphan(b, d)
      BY RemovalRuns, SMTT(40)
    <3>2. Len(b) \in 0..Len(b)
      BY LenProperties
    <3> QED
      BY <3>1, <3>2
  <2> QED
    BY <1>2, <2>1 DEF ApplyDiscrepancy
<1>3. CASE d.kind = "unknown"
  <2>1. [sym |-> d.sym, side |-> d.side, vol |-> d.vol] \in Positions
    BY <1>1 DEF Positions
  <2>2. AddUnknown(b, d) \in Seq(Positions)
    BY <2>1, AppendProperties DEF AddUnknown
  <2> QED
    BY <1>3, <2>2 DEF ApplyDiscrepancy
<1>4. CASE d.kind = "volume_mismatch"
  <2>1. \A p \in Positions : [p EXCEPT !.vol = d.vol] \in Positions
    BY <1>1 DEF Positions
  <2>2. PICK n \in Nat : n = Len(b) /\ \A i \in 1..n : b[i] \in Positions
    BY LenProperties, ElementOfSeq
  <2>3. UpdatePositionVolume(b, d) \in Seq(Positions)
    BY <2>1, <2>2 DEF UpdatePositionVolume
  <2> QED
    BY <1>4, <2>3 DEF ApplyDiscrepancy
<1> QED
  BY <1>1, <1>2, <1>3, <1>4 DEF Kinds

(* The corrections, one after the other.                                      *)
LEMMA CorrectionRuns ==
    ASSUME NEW start \in Seq(Positions), NEW ds \in Seq(Discrepancies),
           \A k \in 1..Len(ds) : ds[k].kind # "side_mismatch"
    PROVE  \E h : Correcting(h, start, ds) /\ h[Len(ds)] = Correction(start, ds)
<1>1. PICK n \in Nat : n = Len(ds) /\ DOMAIN ds = 1..n /\ \A i \in 1..n : ds[i] \in Discrepancies
  BY LenProperties, ElementOfSeq
<1>2. PICK base : base = start
  OBVIOUS
<1>3. base \in Seq(Positions)
  BY <1>2
<1>4. \A a \in Seq(Positions), i \in 1..n : ApplyDiscrepancy(a, ds[i]) \in Seq(Positions)
  BY <1>1, ApplyType
<1>5. PICK next : next = [p \in Seq(Positions) \X (1..n) |-> ApplyDiscrepancy(p[1], ds[p[2]])]
  OBVIOUS
<1>6. \A a \in Seq(Positions), i \in 1..n : /\ next[<<a, i>>] = ApplyDiscrepancy(a, ds[i])
                                    /\ next[<<a, i>>] \in Seq(Positions)
  BY <1>4, <1>5
<1>7. PICK it \in [SUBSET (1..n) -> Seq(Positions)] : FoldEquation(it, 1..n, base, next, Largest(n))
  <2>1. n \in Nat /\ \A a \in Seq(Positions), i \in 1..n : next[<<a, i>>] \in Seq(Positions)
    BY <1>6
  <2> QED
    BY ONLY <2>1, <1>3, LeftFoldRuns
<1> DEFINE Equation(all) ==
              all = [I \in SUBSET (1..n) |->
                      IF I = {} THEN base
                      ELSE ApplyDiscrepancy(all[I \ {Max(I)}], ds[Max(I)])]
<1>8. \E all : Equation(all)
  <2>1. ASSUME NEW I \in SUBSET (1..n), I # {}
        PROVE  it[I] = ApplyDiscrepancy(it[I \ {Max(I)}], ds[Max(I)])
    <3>1. Max(I) \in 1..n /\ it[I \ {Max(I)}] \in Seq(Positions)
      BY <1>7, <2>1, GreatestNatural
    <3>2. it[I] = next[<<it[I \ {Largest(n)[I]}], Largest(n)[I]>>] /\ Largest(n)[I] = Max(I)
      BY <1>7, <2>1 DEF FoldEquation, Largest
    <3> QED
      BY <1>6, <3>1, <3>2
  <2>2. it = [I \in SUBSET (1..n) |-> it[I]]
    BY <1>7
  <2>3. \A I \in SUBSET (1..n) :
            it[I] = IF I = {} THEN base
                    ELSE ApplyDiscrepancy(it[I \ {Max(I)}], ds[Max(I)])
    BY <1>7, <2>1 DEF FoldEquation
  <2>4. it = [I \in SUBSET (1..n) |->
                IF I = {} THEN base ELSE ApplyDiscrepancy(it[I \ {Max(I)}], ds[Max(I)])]
    BY <2>2, <2>3
  <2> QED
    BY <2>4
<1>9. PICK f : f = CHOOSE all : Equation(all)
  OBVIOUS
<1>10. Equation(f)
  BY <1>8, <1>9
<1>11. Correction(start, ds) = f[1..n]
  BY <1>1, <1>2, <1>9 DEF Correction, FoldLeft, MapThenFoldSet
<1> HIDE DEF Equation
<1>12. f[{}] = base
  <2>1. {} \in SUBSET (1..n) /\ \A I \in SUBSET (1..n) : I = {} => f[I] = base
    BY <1>10 DEF Equation
  <2> QED
    BY <2>1
<1>13. ASSUME NEW I \in SUBSET (1..n), I # {}, f[I \ {Max(I)}] \in Seq(Positions)
       PROVE  f[I] = next[<<f[I \ {Max(I)}], Max(I)>>]
  <2>1. Max(I) \in 1..n
    BY <1>13, GreatestNatural
  <2>2. f[I] = ApplyDiscrepancy(f[I \ {Max(I)}], ds[Max(I)])
    BY <1>10, <1>13 DEF Equation
  <2> QED
    BY <1>6, <1>13, <2>1, <2>2
<1>14. PICK h : RunOf(h, n, Seq(Positions), base, next) /\ h[n] = f[1..n]
  <2>1. FoldsTo(f, n, Seq(Positions), base, next)
    BY <1>6, <1>12, <1>13 DEF FoldsTo
  <2> QED
    BY ONLY <1>3, <2>1, n \in Nat, FoldSteps
<1>15. \A i \in 1..n : h[i] = ApplyDiscrepancy(h[i - 1], ds[i])
  <2> SUFFICES ASSUME NEW i \in 1..n PROVE h[i] = ApplyDiscrepancy(h[i - 1], ds[i])
    OBVIOUS
  <2>1. i - 1 \in 0..n
    OBVIOUS
  <2>2. h[i - 1] \in Seq(Positions) /\ h[i] = next[<<h[i - 1], i>>]
    BY <1>14, <2>1 DEF RunOf
  <2> QED
    BY <1>6, <2>2
<1> QED
  BY <1>1, <1>2, <1>11, <1>14, <1>15 DEF RunOf, Correcting

(* The only position of its symbol and side is removed, or gets the volume at *)
(* MT5.                                                                       *)
LEMMA RemovalFacts ==
    ASSUME NEW s \in Seq(Positions), NEW k \in 1..Len(s), NEW d,
           d.sym = s[k].sym, d.side = s[k].side, d.vol = s[k].vol,
           \A j \in 1..Len(s) : s[j].sym = d.sym /\ s[j].side = d.side => j = k
    PROVE  LET r == RemoveOrphan(s, d)
           IN  /\ r \in Seq(Positions) /\ Len(r) = Len(s) - 1
               /\ \A j \in 1..(Len(s) - 1) : r[j] = IF j < k THEN s[j] ELSE s[j + 1]
<1>1. PICK n \in Nat : n = Len(s) /\ \A i \in 1..n : s[i] \in Positions
  BY LenProperties, ElementOfSeq
<1>2. PICK h : /\ h \in [0..n -> Seq(Positions)] /\ h[0] = <<>>
               /\ \A i \in 1..n : h[i] = Keeping(h[i - 1], s[i], d)
               /\ h[n] = RemoveOrphan(s, d)
  BY <1>1, RemovalRuns
<1>3. k \in Nat /\ 1 <= k /\ k <= n
  BY <1>1
<1> DEFINE Kept(i) == /\ Len(h[i]) = IF i < k THEN i ELSE i - 1
                      /\ \A j \in 1..Len(h[i]) : h[i][j] = IF j < k THEN s[j] ELSE s[j + 1]
<1>4. PICK T : T = {i \in 0..n : Kept(i)}
  OBVIOUS
<1>5. 0 \in T
  <2>1. Len(h[0]) = 0 /\ 1..0 = {} /\ 0 < k /\ 0 \in 0..n
    BY <1>2, <1>3, EmptySeq
  <2> QED
    BY <1>4, <2>1
<1>6. ASSUME NEW i \in 0..(n - 1), i \in T PROVE i + 1 \in T
  <2>1. PICK g \in Seq(Positions) : g = h[i]
    BY <1>2, SMTT(40)
  <2>2. PICK m \in Nat : m = Len(g)
    BY <2>1, LenProperties
  <2>3. m = (IF i < k THEN i ELSE i - 1) /\ \A j \in 1..m : g[j] = IF j < k THEN s[j] ELSE s[j + 1]
    BY <1>4, <1>6, <2>1, <2>2
  <2>4. i + 1 \in 1..n /\ i + 1 \in 0..n /\ (i + 1) - 1 = i /\ i \in Nat
    OBVIOUS
  <2>5. h[i + 1] = Keeping(g, s[i + 1], d)
    BY <1>2, <2>1, <2>4
  <2>6. CASE i + 1 = k
    <3>1. h[i + 1] = g
      BY <2>5, <2>6 DEF Keeping
    <3>2. m = i /\ ~(i + 1 < k) /\ (i + 1) - 1 = i
      BY <2>3, <2>4, <2>6
    <3> QED
      BY <1>4, <2>2, <2>3, <2>4, <3>1, <3>2
  <2>7. CASE i + 1 # k
    <3>1. s[i + 1].sym # d.sym \/ s[i + 1].side # d.side
      BY <1>1, <2>4, <2>7
    <3>2. h[i + 1] = Append(g, s[i + 1])
      BY <2>5, <3>1 DEF Keeping
    <3>3. /\ Len(h[i + 1]) = m + 1
          /\ \A j \in 1..m : h[i + 1][j] = g[j]
          /\ h[i + 1][m + 1] = s[i + 1]
      BY <1>1, <2>2, <2>4, <3>2, AppendProperties
    <3>4. m + 1 = (IF i + 1 < k THEN i + 1 ELSE (i + 1) - 1)
      BY <1>3, <2>3, <2>4, <2>7
    <3>5. s[i + 1] = IF m + 1 < k THEN s[m + 1] ELSE s[(m + 1) + 1]
      BY <1>3, <2>3, <2>4, <2>7
    <3>6. ASSUME NEW j \in 1..(m + 1)
          PROVE  h[i + 1][j] = IF j < k THEN s[j] ELSE s[j + 1]
      <4>1. j \in 1..m \/ j = m + 1
        OBVIOUS
      <4> QED
        BY <2>3, <3>3, <3>5, <4>1
    <3> QED
      BY <1>4, <2>4, <3>3, <3>4, <3>6
  <2> QED
    BY <2>6, <2>7
<1>7. n \in T
  <2>1. 0..n \subseteq T
    BY <1>5, <1>6, Induction
  <2> QED
    BY <2>1
<1>8. Kept(n)
  BY <1>4, <1>7
<1>9. ~(n < k) /\ n \in 0..n
  BY <1>3
<1> QED
  BY <1>1, <1>2, <1>8, <1>9

LEMMA UpdateFacts ==
    ASSUME NEW s \in Seq(Positions), NEW k \in 1..Len(s), NEW d,
           d.sym = s[k].sym, d.side = s[k].side, d.vol \in Nat,
           \A j \in 1..Len(s) : s[j].sym = d.sym /\ s[j].side = d.side => j = k
    PROVE  LET r == UpdatePositionVolume(s, d)
           IN  /\ r \in Seq(Positions) /\ Len(r) = Len(s)
               /\ \A j \in 1..Len(s) : j # k => r[j] = s[j]
               /\ r[k].sym = s[k].sym /\ r[k].side = s[k].side /\ r[k].vol = d.vol
<1>1. PICK n \in Nat : n = Len(s) /\ \A i \in 1..n : s[i] \in Positions
  BY LenProperties, ElementOfSeq
<1>2. PICK r : r = [i \in 1..n |->
                       IF s[i].sym = d.sym /\ s[i].side = d.side
                       THEN [s[i] EXCEPT !.vol = d.vol] ELSE s[i]]
  OBVIOUS
<1>3. \A p \in Positions : LET q == [p EXCEPT !.vol = d.vol]
                           IN q \in Positions /\ q.sym = p.sym /\ q.side = p.side /\ q.vol = d.vol
  BY DEF Positions
<1>4. r \in Seq(Positions) /\ Len(r) = n
  BY <1>1, <1>2, <1>3
<1>5. \A j \in 1..n : j # k => r[j] = s[j]
  BY <1>1, <1>2
<1>6. r[k] = [s[k] EXCEPT !.vol = d.vol] /\ s[k] \in Positions
  BY <1>1, <1>2
<1>7. r[k].sym = s[k].sym /\ r[k].side = s[k].side /\ r[k].vol = d.vol
  BY <1>3, <1>6
<1>8. r = UpdatePositionVolume(s, d)
  BY <1>1, <1>2 DEF UpdatePositionVolume
<1> QED
  BY <1>1, <1>4, <1>5, <1>7, <1>8

(* After i positions of the snapshot S: of the corrected list B the first p   *)
(* entries have each an MT5 position of their own, the others are still those *)
(* of the snapshot; the MT5 positions in U are free.  f says which entry of B *)
(* and of U is which position of the answer.                                  *)
OneToOne(f, m) == f \in [1..m -> 1..m] /\ \A j, k \in 1..m : f[j] = f[k] => j = k

Placed(B, U, answer, p, f) ==
    /\ OneToOne(f, Len(answer))
    /\ \A j \in 1..p : SamePosition(B[j], answer[f[j]])
    /\ \A j \in 1..Len(U) : U[j] = answer[f[p + j]]

Stage(S, answer, i, B, U, p, f) ==
    /\ B \in Seq(Positions) /\ U \in Seq(Positions) /\ p \in Nat
    /\ p + Len(U) = Len(answer) /\ Len(B) = p + (Len(S) - i)
    /\ \A l \in (i + 1)..Len(S) : B[p + (l - i)] = S[l]
    /\ \A j \in 1..p : \E l \in 1..i : B[j].sym = S[l].sym /\ B[j].side = S[l].side
    /\ Placed(B, U, answer, p, f)

(* The next position of the snapshot is the only one of its symbol and side   *)
(* in the list.                                                               *)
LEMMA NextAlone ==
    ASSUME NEW S \in Seq(Positions), OnePerSide(S), NEW answer \in Seq(Positions),
           NEW i \in 1..Len(S), NEW B, NEW U, NEW p, NEW f, Stage(S, answer, i - 1, B, U, p, f)
    PROVE  /\ p + 1 \in 1..Len(B) /\ B[p + 1] = S[i]
           /\ \A j \in 1..Len(B) : B[j].sym = S[i].sym /\ B[j].side = S[i].side => j = p + 1
<1>1. PICK n \in Nat : n = Len(S)
  BY LenProperties
<1>2. i \in Nat /\ 1 <= i /\ i <= n /\ p \in Nat /\ Len(B) = p + (n - (i - 1))
  BY <1>1 DEF Stage
<1>3. \A l \in i..n : B[p + (l - (i - 1))] = S[l]
  <2>1. (i - 1) + 1 = i
    BY <1>2
  <2> QED
    BY <1>1, <2>1 DEF Stage
<1>4. p + 1 \in 1..Len(B) /\ i \in i..n /\ p + (i - (i - 1)) = p + 1
  BY <1>2
<1>5. \A j \in 1..p : \E l \in 1..(i - 1) : B[j].sym = S[l].sym /\ B[j].side = S[l].side
  BY DEF Stage
<1>6. ASSUME NEW j \in 1..Len(B), B[j].sym = S[i].sym, B[j].side = S[i].side PROVE j = p + 1
  <2>1. j \in Int /\ 1 <= j /\ j <= p + (n - (i - 1))
    BY <1>2
  <2>2. CASE j <= p
    <3>1. PICK l \in 1..(i - 1) : B[j].sym = S[l].sym /\ B[j].side = S[l].side
      BY <1>5, <2>1, <2>2
    <3>2. l \in 1..n /\ i \in 1..n /\ l # i
      BY <1>2
    <3> QED
      BY <1>1, <1>6, <3>1, <3>2 DEF OnePerSide
  <2>3. CASE j > p
    <3>1. PICK l \in Int : l = j - p + (i - 1)
      BY <1>2, <2>1
    <3>2. l \in i..n /\ p + (l - (i - 1)) = j /\ l \in 1..n /\ i \in 1..n
      BY <1>2, <2>1, <2>3, <3>1
    <3>3. B[j] = S[l]
      BY <1>3, <3>2
    <3>4. l = i
      BY <1>1, <1>6, <3>2, <3>3 DEF OnePerSide
    <3> QED
      BY <1>2, <2>1, <3>1, <3>4
  <2> QED
    BY <1>2, <2>1, <2>2, <2>3
<1> QED
  BY <1>3, <1>4, <1>6

(* An orphan goes.                                                            *)
LEMMA OrphanStage ==
    ASSUME NEW S \in Seq(Positions), OnePerSide(S), NEW answer \in Seq(Positions),
           NEW i \in 1..Len(S), NEW B, NEW U, NEW p, NEW f, Stage(S, answer, i - 1, B, U, p, f),
           NEW d, d.sym = S[i].sym, d.side = S[i].side, d.vol = S[i].vol
    PROVE  Stage(S, answer, i, RemoveOrphan(B, d), U, p, f)
<1>1. PICK n \in Nat : n = Len(S)
  BY LenProperties
<1>2. /\ B \in Seq(Positions) /\ U \in Seq(Positions) /\ p \in Nat /\ p + Len(U) = Len(answer)
      /\ Len(B) = p + (n - (i - 1)) /\ i \in Nat /\ 1 <= i /\ i <= n
  BY <1>1 DEF Stage
<1>3. PICK k : k = p + 1
  OBVIOUS
<1>4. /\ k \in 1..Len(B) /\ B[k] = S[i]
      /\ \A j \in 1..Len(B) : B[j].sym = S[i].sym /\ B[j].side = S[i].side => j = k
  BY <1>3, NextAlone
<1>5. PICK R : R = RemoveOrphan(B, d)
  OBVIOUS
<1>6. /\ R \in Seq(Positions) /\ Len(R) = Len(B) - 1
      /\ \A j \in 1..(Len(B) - 1) : R[j] = IF j < k THEN B[j] ELSE B[j + 1]
  <2>1. /\ d.sym = B[k].sym /\ d.side = B[k].side /\ d.vol = B[k].vol
        /\ \A j \in 1..Len(B) : B[j].sym = d.sym /\ B[j].side = d.side => j = k
    BY <1>4
  <2>2. B \in Seq(Positions) /\ k \in 1..Len(B)
    BY <1>2, <1>4
  <2> QED
    BY ONLY <1>5, <2>1, <2>2, RemovalFacts
<1>7. Len(R) = p + (n - i)
  BY <1>2, <1>6
<1>8. ASSUME NEW l \in (i + 1)..n PROVE R[p + (l - i)] = S[l]
  <2>1. /\ p + (l - i) \in 1..(Len(B) - 1) /\ ~(p + (l - i) < k)
        /\ (p + (l - i)) + 1 = p + (l - (i - 1)) /\ l \in ((i - 1) + 1)..n
    BY <1>2, <1>3
  <2>2. B[p + (l - (i - 1))] = S[l]
    BY <1>1, <2>1 DEF Stage
  <2> QED
    BY <1>6, <2>1, <2>2
<1>9. \A j \in 1..p : R[j] = B[j]
  <2>1. \A j \in 1..p : j \in 1..(Len(B) - 1) /\ j < k
    BY <1>2, <1>3
  <2> QED
    BY <1>6, <2>1
<1>10. ASSUME NEW j \in 1..p PROVE \E l \in 1..i : R[j].sym = S[l].sym /\ R[j].side = S[l].side
  <2>1. PICK l \in 1..(i - 1) : B[j].sym = S[l].sym /\ B[j].side = S[l].side
    BY DEF Stage
  <2>2. l \in 1..i
    BY <1>2
  <2> QED
    BY <1>9, <2>1, <2>2
<1>11. Placed(R, U, answer, p, f)
  BY <1>9 DEF Stage, Placed
<1> QED
  BY <1>1, <1>2, <1>5, <1>6, <1>7, <1>8, <1>10, <1>11 DEF Stage

(* A position takes the k-th free one, from the side and about the volume it  *)
(* has then.                                                                  *)
LEMMA PairedStage ==
    ASSUME NEW S \in Seq(Positions), OnePerSide(S), NEW answer \in Seq(Positions),
           NEW i \in 1..Len(S), NEW B, NEW U, NEW p, NEW f, Stage(S, answer, i - 1, B, U, p, f),
           NEW k \in 1..Len(U), NEW R \in Seq(Positions), Len(R) = Len(B),
           \A j \in 1..Len(B) : j # p + 1 => R[j] = B[j],
           R[p + 1].sym = S[i].sym, R[p + 1].side = S[i].side, SamePosition(R[p + 1], U[k])
    PROVE  \E g : Stage(S, answer, i, R, RemoveAt(U, k), p + 1, g)
<1>1. PICK n \in Nat, m \in Nat, u \in Nat : n = Len(S) /\ m = Len(answer) /\ u = Len(U)
  BY LenProperties DEF Stage
<1>2. /\ B \in Seq(Positions) /\ U \in Seq(Positions) /\ p \in Nat /\ p + u = m
      /\ Len(B) = p + (n - (i - 1)) /\ i \in Nat /\ 1 <= i /\ i <= n
      /\ k \in Nat /\ 1 <= k /\ k <= u
  BY <1>1 DEF Stage
<1>3. PICK V : V = RemoveAt(U, k)
  OBVIOUS
<1>4. /\ V \in Seq(Positions) /\ Len(V) = u - 1
      /\ \A j \in 1..(u - 1) : V[j] = IF j < k THEN U[j] ELSE U[j + 1]
  BY <1>1, <1>2, <1>3, RemoveAtFacts
<1>5. /\ OneToOne(f, m) /\ \A j \in 1..p : SamePosition(B[j], answer[f[j]])
      /\ \A j \in 1..u : U[j] = answer[f[p + j]]
  BY <1>1 DEF Stage, Placed
<1>6. PICK c : c = [j \in 1..m |-> IF j <= p THEN j ELSE IF j = p + 1 THEN p + k
                                   ELSE IF j <= p + k THEN j - 1 ELSE j]
  OBVIOUS
<1>7. OneToOne(c, m)
  <2>1. \A j \in 1..m : c[j] \in 1..m
    BY <1>2, <1>6, SMTT(40)
  <2>2. ASSUME NEW j \in 1..m, NEW l \in 1..m, c[j] = c[l] PROVE j = l
    BY <1>2, <1>6, <2>2, SMTT(40)
  <2>3. c \in [1..m -> 1..m]
    BY <1>6, <2>1
  <2> QED
    BY <2>2, <2>3 DEF OneToOne
<1>8. PICK g : g = [j \in 1..m |-> f[c[j]]]
  OBVIOUS
<1>9. OneToOne(g, m)
  BY <1>5, <1>7, <1>8 DEF OneToOne
<1>10. \A j \in 1..p : R[j] = B[j] /\ g[j] = f[j]
  <2> SUFFICES ASSUME NEW j \in 1..p PROVE R[j] = B[j] /\ g[j] = f[j]
    OBVIOUS
  <2>1. j \in 1..Len(B) /\ j # p + 1 /\ j \in 1..m /\ j <= p
    BY <1>2
  <2> QED
    BY <1>6, <1>8, <2>1
<1>11. g[p + 1] = f[p + k]
  <2>1. p + 1 \in 1..m /\ ~(p + 1 <= p)
    BY <1>2
  <2> QED
    BY <1>6, <1>8, <2>1
<1>12. ASSUME NEW j \in 1..(p + 1) PROVE SamePosition(R[j], answer[g[j]])
  <2>1. CASE j \in 1..p
    BY <1>5, <1>10, <2>1
  <2>2. CASE j = p + 1
    BY <1>1, <1>5, <1>11, <2>2
  <2> QED
    BY <1>2, <2>1, <2>2
<1>13. ASSUME NEW j \in 1..(u - 1) PROVE V[j] = answer[g[(p + 1) + j]]
  <2>1. PICK t \in Int : t = (p + 1) + j
    BY <1>2, SMTT(40)
  <2>2. t \in 1..m /\ ~(t <= p) /\ t # p + 1 /\ j \in Int /\ j + 1 \in 1..u /\ j \in 1..u
    BY <1>2, <2>1
  <2>3. CASE j < k
    <3>1. t <= p + k /\ t - 1 = p + j
      BY <1>2, <2>1, <2>3, SMTT(40)
    <3>2. g[t] = f[p + j]
      BY <1>6, <1>8, <2>2, <3>1
    <3> QED
      BY <1>4, <1>5, <2>1, <2>2, <2>3, <3>2
  <2>4. CASE ~(j < k)
    <3>1. ~(t <= p + k) /\ t = p + (j + 1)
      BY <1>2, <2>1, <2>2, <2>4, SMTT(40)
    <3>2. g[t] = f[p + (j + 1)]
      BY <1>6, <1>8, <2>2, <3>1
    <3> QED
      BY <1>4, <1>5, <2>1, <2>2, <2>4, <3>2
  <2> QED
    BY <2>3, <2>4
<1>14. Placed(R, V, answer, p + 1, g)
  BY <1>1, <1>4, <1>9, <1>12, <1>13 DEF Placed
<1>15. p + 1 \in Nat /\ (p + 1) + Len(V) = m /\ Len(R) = (p + 1) + (n - i)
  BY <1>2, <1>4
<1>16. ASSUME NEW l \in (i + 1)..n PROVE R[(p + 1) + (l - i)] = S[l]
  <2>1. /\ (p + 1) + (l - i) = p + (l - (i - 1)) /\ l \in ((i - 1) + 1)..n
        /\ p + (l - (i - 1)) \in 1..Len(B) /\ p + (l - (i - 1)) # p + 1
    BY <1>2
  <2>2. B[p + (l - (i - 1))] = S[l]
    BY <1>1, <2>1 DEF Stage
  <2> QED
    BY <2>1, <2>2
<1>17. ASSUME NEW j \in 1..(p + 1)
       PROVE  \E l \in 1..i : R[j].sym = S[l].sym /\ R[j].side = S[l].side
  <2>1. CASE j \in 1..p
    <3>1. PICK l \in 1..(i - 1) : B[j].sym = S[l].sym /\ B[j].side = S[l].side
      BY <2>1 DEF Stage
    <3>2. l \in 1..i
      BY <1>2
    <3> QED
      BY <1>10, <2>1, <3>1, <3>2
  <2>2. CASE j = p + 1
    BY <1>2, <2>2
  <2> QED
    BY <1>2, <2>1, <2>2, SMTT(40)
<1>18. Stage(S, answer, i, R, V, p + 1, g)
  BY <1>1, <1>4, <1>14, <1>15, <1>16, <1>17 DEF Stage
<1> QED
  BY <1>3, <1>18

(* Volumes that are equal are within the tolerance.                           *)
LEMMA AbsFacts ==
    /\ \A m, n \in Nat : Abs(m, n) = Abs(n, m)
    /\ \A n \in Nat : Abs(n, n) <= VolumeTolerance
BY DEF Abs, VolumeTolerance

(* One position of the snapshot: what was found about it is what is corrected *)
(* for it.                                                                    *)
LEMMA MatchStage ==
    ASSUME NEW S \in Seq(Positions), OnePerSide(S), NEW answer \in Seq(Positions),
           NEW i \in 1..Len(S), NEW acc \in Matchings, NEW B, NEW p, NEW f,
           Stage(S, answer, i - 1, B, acc.unmatched, p, f),
           NEW r, r = MatchPosition(acc, S[i]),
           r.found # acc.found => r.found[Len(r.found)].kind # "side_mismatch",
           NEW C, C = IF r.found = acc.found THEN B
                      ELSE ApplyDiscrepancy(B, r.found[Len(r.found)])
    PROVE  \E q, g : Stage(S, answer, i, C, r.unmatched, q, g)
<1>1. PICK U \in Seq(Positions), fs \in Seq(Discrepancies) : U = acc.unmatched /\ fs = acc.found
  BY DEF Matchings
<1>2. PICK s \in Positions : s = S[i]
  BY ElementOfSeq
<1>3. Stage(S, answer, i - 1, B, U, p, f) /\ B \in Seq(Positions) /\ p \in Nat
  BY <1>1 DEF Stage
<1>4. /\ p + 1 \in 1..Len(B) /\ B[p + 1] = s
      /\ \A j \in 1..Len(B) : B[j].sym = s.sym /\ B[j].side = s.side => j = p + 1
  BY <1>2, <1>3, NextAlone
<1>5. ASSUME NEW d \in Discrepancies, r.found = Append(fs, d)
      PROVE  C = ApplyDiscrepancy(B, d) /\ d.kind # "side_mismatch"
  <2>1. PICK n \in Nat : n = Len(fs)
    BY LenProperties
  <2>2. Len(r.found) = n + 1 /\ r.found[n + 1] = d
    BY <1>5, <2>1, AppendProperties
  <2>3. r.found # fs
    BY <2>1, <2>2
  <2> QED
    BY <1>1, <2>2, <2>3
<1>6. Orphaned(U, fs, s, r) \/ \E k : Paired(U, fs, s, k, r)
  BY <1>1, <1>2, MatchCases
<1>7. CASE Orphaned(U, fs, s, r)
  <2>1. PICK d : d = Discrepancy("orphan", s)
    OBVIOUS
  <2>2. /\ d \in Discrepancies /\ d.kind = "orphan"
        /\ d.sym = s.sym /\ d.side = s.side /\ d.vol = s.vol
    BY <2>1, DiscrepancyType DEF Kinds
  <2>3. C = RemoveOrphan(B, d)
    BY <1>5, <1>7, <2>1, <2>2 DEF Orphaned, ApplyDiscrepancy
  <2>4. Stage(S, answer, i, C, U, p, f)
    BY <1>2, <1>3, <2>2, <2>3, OrphanStage
  <2> QED
    BY <1>7, <2>4 DEF Orphaned
<1>8. CASE \E k : Paired(U, fs, s, k, r)
  <2>1. PICK k : Paired(U, fs, s, k, r)
    BY <1>8
  <2>2. PICK q \in Positions : q = U[k] /\ k \in 1..Len(U) /\ q.sym = s.sym
    BY <1>1, <2>1, ElementOfSeq DEF Paired
  <2>3. r.unmatched = RemoveAt(U, k)
    BY <2>1 DEF Paired
  <2>4. s.vol \in Nat /\ q.vol \in Nat
    BY DEF Positions
  <2>5. ASSUME NEW R \in Seq(Positions), Len(R) = Len(B), C = R,
               \A j \in 1..Len(B) : j # p + 1 => R[j] = B[j],
               R[p + 1].sym = s.sym, R[p + 1].side = s.side, SamePosition(R[p + 1], q)
        PROVE  \E t, g : Stage(S, answer, i, C, r.unmatched, t, g)
    <3>1. R[p + 1].sym = S[i].sym /\ R[p + 1].side = S[i].side /\ SamePosition(R[p + 1], U[k])
      BY <1>2, <2>2, <2>5
    <3>2. \E g : Stage(S, answer, i, R, RemoveAt(U, k), p + 1, g)
      BY <1>3, <2>2, <2>5, <3>1, PairedStage
    <3> QED
      BY <2>3, <2>5, <3>2
  <2>6. CASE q.side # s.side /\ r.found = Append(fs, Discrepancy("side_mismatch", q))
    <3>1. /\ Discrepancy("side_mismatch", q) \in Discrepancies
          /\ Discrepancy("side_mismatch", q).kind = "side_mismatch"
      BY DiscrepancyType DEF Kinds
    <3> QED
      BY <1>5, <2>6, <3>1
  <2>7. CASE q.side = s.side /\ Abs(q.vol, s.vol) <= VolumeTolerance /\ r.found = fs
    <3>1. C = B
      BY <1>1, <2>7
    <3>2. SamePosition(B[p + 1], q)
      BY <1>4, <2>2, <2>4, <2>7, AbsFacts DEF SamePosition
    <3> QED
      BY <1>3, <1>4, <2>5, <3>1, <3>2
  <2>8. CASE q.side = s.side /\ r.found = Append(fs, Discrepancy("volume_mismatch", q))
    <3>1. PICK d : d = Discrepancy("volume_mismatch", q)
      OBVIOUS
    <3>2. /\ d \in Discrepancies /\ d.kind = "volume_mismatch"
          /\ d.sym = q.sym /\ d.side = q.side /\ d.vol = q.vol
      BY <3>1, DiscrepancyType DEF Kinds
    <3>3. C = UpdatePositionVolume(B, d)
      BY <1>5, <2>8, <3>1, <3>2 DEF ApplyDiscrepancy
    <3>4. /\ d.sym = B[p + 1].sym /\ d.side = B[p + 1].side /\ d.vol \in Nat
          /\ \A j \in 1..Len(B) : B[j].sym = d.sym /\ B[j].side = d.side => j = p + 1
      BY <1>4, <2>2, <2>4, <2>8, <3>2
    <3>5. PICK R : R = UpdatePositionVolume(B, d)
      OBVIOUS
    <3>6. /\ R \in Seq(Positions) /\ Len(R) = Len(B)
          /\ \A j \in 1..Len(B) : j # p + 1 => R[j] = B[j]
          /\ R[p + 1].sym = B[p + 1].sym /\ R[p + 1].side = B[p + 1].side /\ R[p + 1].vol = d.vol
      <4>1. PICK e : e = p + 1
        OBVIOUS
      <4>2. /\ B \in Seq(Positions) /\ e \in 1..Len(B)
            /\ d.sym = B[e].sym /\ d.side = B[e].side /\ d.vol \in Nat
            /\ \A j \in 1..Len(B) : B[j].sym = d.sym /\ B[j].side = d.side => j = e
        BY <1>3, <1>4, <3>4, <4>1
      <4>3. /\ R \in Seq(Positions) /\ Len(R) = Len(B)
            /\ \A j \in 1..Len(B) : j # e => R[j] = B[j]
            /\ R[e].sym = B[e].sym /\ R[e].side = B[e].side /\ R[e].vol = d.vol
        BY ONLY <3>5, <4>2, UpdateFacts, SMTT(40)
      <4> QED
        BY <4>1, <4>3
    <3>7. SamePosition(R[p + 1], q) /\ R[p + 1].sym = s.sym /\ R[p + 1].side = s.side
      BY <1>4, <2>2, <2>4, <2>8, <3>2, <3>6, AbsFacts DEF SamePosition
    <3> QED
      BY <2>5, <3>3, <3>5, <3>6, <3>7
  <2> QED
    BY <2>1, <2>2, <2>6, <2>7, <2>8 DEF Paired
<1> QED
  BY <1>6, <1>7, <1>8

(* What is found about a position stays in the list, before what is found     *)
(* about later ones.                                                          *)
Begins(s, t) == Len(s) <= Len(t) /\ \A k \in 1..Len(s) : t[k] = s[k]

LEMMA FoundGrows ==
    ASSUME NEW S \in Seq(Positions), NEW answer, NEW h, Matching(h, S, answer)
    PROVE  \A i \in 0..Len(S) : Begins(h[i].found, h[Len(S)].found)
<1>1. PICK n \in Nat : n = Len(S) /\ \A i \in 1..n : S[i] \in Positions
  BY LenProperties, ElementOfSeq
<1>2. \A i \in 0..n : h[i] \in Matchings /\ h[i].found \in Seq(Discrepancies)
  BY <1>1 DEF Matching, Matchings
<1>3. ASSUME NEW i \in 0..(n - 1) PROVE Begins(h[i].found, h[i + 1].found)
  <2>1. i \in 0..n /\ i + 1 \in 1..n /\ (i + 1) - 1 = i
    OBVIOUS
  <2>2. PICK fs \in Seq(Discrepancies) : fs = h[i].found
    BY <1>2, <2>1
  <2>3. h[i + 1] = MatchPosition(h[i], S[i + 1])
    BY <1>1, <2>1 DEF Matching
  <2>4. h[i + 1].found = fs \/ \E d \in Discrepancies : h[i + 1].found = Append(fs, d)
    <3>1. h[i] \in Matchings /\ S[i + 1] \in Positions /\ h[i].unmatched \in Seq(Positions)
      BY <1>1, <1>2, <2>1 DEF Matchings
    <3>2. Discrepancy("orphan", S[i + 1]) \in Discrepancies
      BY <3>1, DiscrepancyType DEF Kinds
    <3>3. \A k \in 1..Len(h[i].unmatched) :
              /\ Discrepancy("side_mismatch", h[i].unmatched[k]) \in Discrepancies
              /\ Discrepancy("volume_mismatch", h[i].unmatched[k]) \in Discrepancies
      BY <3>1, DiscrepancyType, ElementOfSeq DEF Kinds
    <3>4. \/ Orphaned(h[i].unmatched, fs, S[i + 1], h[i + 1])
          \/ \E k : Paired(h[i].unmatched, fs, S[i + 1], k, h[i + 1])
      BY <2>2, <2>3, <3>1, MatchCases
    <3> QED
      BY <3>2, <3>3, <3>4 DEF Orphaned, Paired
  <2>5. PICK m \in Nat : m = Len(fs)
    BY LenProperties
  <2>6. CASE h[i + 1].found = fs
    BY <2>2, <2>5, <2>6 DEF Begins
  <2>7. CASE \E d \in Discrepancies : h[i + 1].found = Append(fs, d)
    <3>1. PICK d \in Discrepancies : h[i + 1].found = Append(fs, d)
      BY <2>7
    <3>2. Len(h[i + 1].found) = m + 1 /\ \A k \in 1..m : h[i + 1].found[k] = fs[k]
      BY <2>5, <3>1, AppendProperties
    <3> QED
      BY <2>2, <2>5, <3>2 DEF Begins
  <2> QED
    BY <2>4, <2>6, <2>7
<1>4. PICK T : T = {j \in 0..n : \A i \in 0..j : Begins(h[i].found, h[j].found)}
  OBVIOUS
<1>5. \A i \in 0..n : Begins(h[i].found, h[i].found)
  <2> SUFFICES ASSUME NEW i \in 0..n PROVE Begins(h[i].found, h[i].found)
    OBVIOUS
  <2>1. Len(h[i].found) \in Nat
    BY <1>2, LenProperties
  <2> QED
    BY <2>1 DEF Begins
<1>6. 0 \in T
  BY <1>4, <1>5
<1>7. ASSUME NEW j \in 0..(n - 1), j \in T PROVE j + 1 \in T
  <2>1. j + 1 \in 0..n /\ j \in 0..n
    OBVIOUS
  <2>2. ASSUME NEW i \in 0..(j + 1) PROVE Begins(h[i].found, h[j + 1].found)
    <3>1. CASE i = j + 1
      BY <1>5, <2>1, <3>1
    <3>2. CASE i # j + 1
      <4>1. i \in 0..j /\ i \in 0..n
        BY <3>2
      <4>2. Begins(h[i].found, h[j].found) /\ Begins(h[j].found, h[j + 1].found)
        BY <1>3, <1>4, <1>7, <4>1
      <4>3. PICK a, b, c \in Nat : /\ a = Len(h[i].found) /\ b = Len(h[j].found)
                                   /\ c = Len(h[j + 1].found)
        BY <1>2, <2>1, <4>1, LenProperties
      <4>4. a <= b /\ b <= c
        BY <4>2, <4>3 DEF Begins
      <4>5. a <= c /\ \A k \in 1..a : k \in 1..b
        BY <4>4
      <4> QED
        BY <4>2, <4>3, <4>5 DEF Begins
    <3> QED
      BY <3>1, <3>2
  <2> QED
    BY <1>4, <2>1, <2>2
<1>8. n \in T
  <2>1. 0..n \subseteq T
    BY <1>6, <1>7, Induction
  <2> QED
    BY <2>1
<1> QED
  BY <1>1, <1>4, <1>8

(* The position is one of the answer's, to the tolerance.                     *)
At(x, answer) == \E j \in 1..Len(answer) : SamePosition(x, answer[j])
Exactly(d, answer) ==
    \E j \in 1..Len(answer) : /\ d.sym = answer[j].sym /\ d.side = answer[j].side
                              /\ d.vol = answer[j].vol

(* A correction after the k-th will drop the position or give it a volume of  *)
(* MT5.                                                                       *)
Pending(x, M, k) ==
    \E l \in 1..Len(M) :
        /\ l > k /\ M[l].sym = x.sym /\ M[l].side = x.side
        /\ M[l].kind = "volume_mismatch" \/ (M[l].kind = "orphan" /\ M[l].vol = x.vol)

Accounted(x, answer, M, k) == At(x, answer) \/ Pending(x, M, k)

(* What _remove_orphan_from_state leaves are entries unlike the orphan.       *)
LEMMA RemovalKeeps ==
    ASSUME NEW s \in Seq(Positions), NEW d
    PROVE  \A j \in 1..Len(RemoveOrphan(s, d)) :
               \E i \in 1..Len(s) : /\ RemoveOrphan(s, d)[j] = s[i]
                                    /\ ~(s[i].sym = d.sym /\ s[i].side = d.side /\ s[i].vol = d.vol)
<1>1. PICK n \in Nat : n = Len(s) /\ \A i \in 1..n : s[i] \in Positions
  BY LenProperties, ElementOfSeq
<1>2. PICK h : /\ h \in [0..n -> Seq(Positions)] /\ h[0] = <<>>
               /\ \A i \in 1..n : h[i] = Keeping(h[i - 1], s[i], d)
               /\ h[n] = RemoveOrphan(s, d)
  BY <1>1, RemovalRuns
<1> DEFINE Unlike(x) == \E i \in 1..n : /\ x = s[i]
                                        /\ ~(s[i].sym = d.sym /\ s[i].side = d.side /\ s[i].vol = d.vol)
<1>3. PICK T : T = {k \in 0..n : \A j \in 1..Len(h[k]) : Unlike(h[k][j])}
  OBVIOUS
<1>4. 0 \in T
  <2>1. Len(h[0]) = 0 /\ 1..0 = {} /\ 0 \in 0..n
    BY <1>2, EmptySeq
  <2> QED
    BY <1>3, <2>1
<1>5. ASSUME NEW k \in 0..(n - 1), k \in T PROVE k + 1 \in T
  <2>1. k \in 0..n /\ k + 1 \in 1..n /\ k + 1 \in 0..n /\ (k + 1) - 1 = k
    OBVIOUS
  <2>2. PICK g \in Seq(Positions) : g = h[k]
    BY <1>2, <2>1
  <2>3. \A j \in 1..Len(g) : Unlike(g[j])
    BY <1>3, <1>5, <2>2
  <2>4. h[k + 1] = Keeping(g, s[k + 1], d)
    BY <1>2, <2>1, <2>2
  <2>5. CASE h[k + 1] = g
    BY <1>3, <2>1, <2>3, <2>5
  <2>6. CASE h[k + 1] # g
    <3>1. Unlike(s[k + 1]) /\ h[k + 1] = Append(g, s[k + 1])
      BY <2>1, <2>4, <2>6 DEF Keeping
    <3>2. PICK m \in Nat : m = Len(g)
      BY LenProperties
    <3>3. /\ Len(h[k + 1]) = m + 1 /\ h[k + 1][m + 1] = s[k + 1]
          /\ \A j \in 1..m : h[k + 1][j] = g[j]
      BY <1>1, <2>1, <3>1, <3>2, AppendProperties
    <3>4. \A j \in 1..(m + 1) : j \in 1..m \/ j = m + 1
      BY <3>2
    <3>5. \A j \in 1..(m + 1) : Unlike(h[k + 1][j])
      BY <2>3, <3>1, <3>2, <3>3, <3>4
    <3> QED
      BY <1>3, <2>1, <3>3, <3>5
  <2> QED
    BY <2>5, <2>6
<1>6. n \in T
  <2>1. 0..n \subseteq T
    BY <1>4, <1>5, Induction
  <2> QED
    BY <2>1
<1> QED
  BY <1>1, <1>2, <1>3, <1>6

(* One correction: an entry that was pending for it is gone or has a volume   *)
(* of MT5.                                                                    *)
LEMMA CorrectionAccounted ==
    ASSUME NEW b \in Seq(Positions), NEW answer \in Seq(Positions), NEW M \in Seq(Discrepancies),
           NEW k \in 1..Len(M), M[k].kind # "side_mismatch",
           M[k].kind # "orphan" => Exactly(M[k], answer),
           \A i \in 1..Len(b) : Accounted(b[i], answer, M, k - 1),
           NEW r, r = ApplyDiscrepancy(b, M[k])
    PROVE  \A i \in 1..Len(r) : Accounted(r[i], answer, M, k)
<1>1. PICK d \in Discrepancies : d = M[k]
  BY ElementOfSeq
<1>2. PICK n, m \in Nat : n = Len(b) /\ m = Len(M) /\ \A i \in 1..n : b[i] \in Positions
  BY LenProperties, ElementOfSeq
<1>3. \A l \in 1..m : l > k - 1 => l > k \/ l = k
  BY <1>2
<1>4. ASSUME NEW x, Accounted(x, answer, M, k - 1),
             ~(x.sym = d.sym /\ x.side = d.side
               /\ (d.kind = "volume_mismatch" \/ (d.kind = "orphan" /\ x.vol = d.vol)))
      PROVE  Accounted(x, answer, M, k)
  BY <1>1, <1>2, <1>3, <1>4 DEF Accounted, Pending
<1>5. ASSUME NEW x, x.sym = d.sym, x.side = d.side, x.vol = d.vol, d.kind # "orphan"
      PROVE  Accounted(x, answer, M, k)
  <2>1. PICK j \in 1..Len(answer) : d.sym = answer[j].sym /\ d.side = answer[j].side
                                    /\ d.vol = answer[j].vol
    BY <1>1, <1>5 DEF Exactly
  <2>2. d.vol \in Nat
    BY DEF Discrepancies
  <2>3. SamePosition(x, answer[j])
    BY <1>5, <2>1, <2>2, AbsFacts DEF SamePosition
  <2> QED
    BY <2>3 DEF Accounted, At
<1>6. CASE d.kind = "orphan"
  <2>1. r = RemoveOrphan(b, d)
    BY <1>1, <1>6 DEF ApplyDiscrepancy
  <2> SUFFICES ASSUME NEW i \in 1..Len(r) PROVE Accounted(r[i], answer, M, k)
    OBVIOUS
  <2>2. PICK j \in 1..Len(b) :
            r[i] = b[j] /\ ~(b[j].sym = d.sym /\ b[j].side = d.side /\ b[j].vol = d.vol)
    BY <2>1, RemovalKeeps
  <2> QED
    BY <1>4, <1>6, <2>2
<1>7. CASE d.kind = "unknown"
  <2>1. PICK w : w = [sym |-> d.sym, side |-> d.side, vol |-> d.vol]
    OBVIOUS
  <2>2. w \in Positions /\ w.sym = d.sym /\ w.side = d.side /\ w.vol = d.vol
    BY <2>1 DEF Discrepancies, Positions
  <2>3. r = Append(b, w)
    BY <1>1, <1>7, <2>1 DEF ApplyDiscrepancy, AddUnknown
  <2>4. Len(r) = n + 1 /\ r[n + 1] = w /\ \A i \in 1..n : r[i] = b[i]
    BY <1>2, <2>2, <2>3, AppendProperties
  <2>5. \A i \in 1..(n + 1) : i \in 1..n \/ i = n + 1
    BY <1>2
  <2>6. Accounted(w, answer, M, k)
    BY <1>5, <1>7, <2>2
  <2>7. \A i \in 1..n : Accounted(b[i], answer, M, k)
    BY <1>2, <1>4, <1>7
  <2> QED
    BY <2>4, <2>5, <2>6, <2>7
<1>8. CASE d.kind = "volume_mismatch"
  <2>1. r = UpdatePositionVolume(b, d)
    BY <1>1, <1>8 DEF ApplyDiscrepancy
  <2>2. r = [i \in 1..n |-> IF b[i].sym = d.sym /\ b[i].side = d.side
                           THEN [b[i] EXCEPT !.vol = d.vol] ELSE b[i]]
    BY <1>2, <2>1 DEF UpdatePositionVolume
  <2>3. Len(r) = n
    BY <2>2, <1>2
  <2>4. ASSUME NEW i \in 1..n PROVE Accounted(r[i], answer, M, k)
    <3>1. CASE b[i].sym = d.sym /\ b[i].side = d.side
      <4>1. r[i] = [b[i] EXCEPT !.vol = d.vol] /\ b[i] \in Positions
        BY <1>2, <2>2, <3>1
      <4>2. r[i].sym = b[i].sym /\ r[i].side = b[i].side /\ r[i].vol = d.vol
        BY <4>1 DEF Positions
      <4> QED
        BY <1>5, <1>8, <3>1, <4>2
    <3>2. CASE ~(b[i].sym = d.sym /\ b[i].side = d.side)
      <4>1. r[i] = b[i]
        BY <2>2, <3>2
      <4> QED
        BY <1>2, <1>4, <3>2, <4>1
    <3> QED
      BY <3>1, <3>2
  <2> QED
    BY <2>3, <2>4
<1> QED
  BY <1>1, <1>6, <1>7, <1>8 DEF Discrepancies, Kinds

(* The corrections leave only positions of MT5.                               *)
LEMMA CorrectionsEndAt ==
    ASSUME NEW S \in Seq(Positions), NEW answer \in Seq(Positions), NEW M \in Seq(Discrepancies),
           \A k \in 1..Len(M) : /\ M[k].kind # "side_mismatch"
                                /\ M[k].kind # "orphan" => Exactly(M[k], answer),
           \A i \in 1..Len(S) : Accounted(S[i], answer, M, 0)
    PROVE  \A i \in 1..Len(Correction(S, M)) : At(Correction(S, M)[i], answer)
<1>1. PICK m \in Nat : m = Len(M)
  BY LenProperties
<1>2. PICK B : /\ B \in [0..m -> Seq(Positions)] /\ B[0] = S
               /\ \A k \in 1..m : B[k] = ApplyDiscrepancy(B[k - 1], M[k])
               /\ B[m] = Correction(S, M)
  BY <1>1, CorrectionRuns DEF Correcting
<1>3. PICK T : T = {k \in 0..m : \A i \in 1..Len(B[k]) : Accounted(B[k][i], answer, M, k)}
  OBVIOUS
<1>4. 0 \in T
  BY <1>1, <1>2, <1>3
<1>5. ASSUME NEW k \in 0..(m - 1), k \in T PROVE k + 1 \in T
  <2>1. PICK e : e = k + 1
    OBVIOUS
  <2>2. e \in 1..m /\ e \in 0..m /\ k \in 0..m /\ e - 1 = k
    BY <2>1
  <2>3. PICK b \in Seq(Positions) : b = B[k]
    BY <1>2, <2>2
  <2>4. \A i \in 1..Len(b) : Accounted(b[i], answer, M, e - 1)
    BY <1>3, <1>5, <2>2, <2>3
  <2>5. B[e] = ApplyDiscrepancy(b, M[e])
    BY <1>2, <2>2, <2>3
  <2>6. \A i \in 1..Len(B[e]) : Accounted(B[e][i], answer, M, e)
    BY <1>1, <2>2, <2>4, <2>5, CorrectionAccounted
  <2> QED
    BY <1>3, <2>1, <2>2, <2>6
<1>6. m \in T
  <2>1. 0..m \subseteq T
    BY <1>4, <1>5, Induction
  <2> QED
    BY <2>1
<1>7. \A x : ~Pending(x, M, m)
  <2>1. \A l \in 1..m : ~(l > m)
    BY <1>1
  <2> QED
    BY <1>1, <2>1 DEF Pending
<1> QED
  BY <1>2, <1>3, <1>6, <1>7 DEF Accounted

(* The pairing: the free positions and what is found of the others are MT5's, *)
(* and of each position gone through either it is at MT5, or a correction is  *)
(* pending.                                                                   *)
Traced(acc, S, answer, i) ==
    /\ \A j \in 1..Len(acc.unmatched) : \E q \in 1..Len(answer) : acc.unmatched[j] = answer[q]
    /\ \A k \in 1..Len(acc.found) : /\ acc.found[k].kind # "unknown"
                                    /\ acc.found[k].kind # "orphan" => Exactly(acc.found[k], answer)
    /\ \A l \in 1..i : \/ Accounted(S[l], answer, acc.found, 0)
                       \/ \E k \in 1..Len(acc.found) : acc.found[k].kind = "side_mismatch"

LEMMA MatchTraced ==
    ASSUME NEW S \in Seq(Positions), NEW answer \in Seq(Positions), NEW i \in 1..Len(S),
           NEW acc \in Matchings, Traced(acc, S, answer, i - 1),
           NEW r \in Matchings, r = MatchPosition(acc, S[i])
    PROVE  Traced(r, S, answer, i)
<1>1. PICK U \in Seq(Positions), fs \in Seq(Discrepancies) : U = acc.unmatched /\ fs = acc.found
  BY DEF Matchings
<1>2. PICK s \in Positions : s = S[i]
  BY ElementOfSeq
<1>3. PICK n, u \in Nat : n = Len(fs) /\ u = Len(U)
  BY LenProperties
<1>4. i \in Nat /\ \A l \in 1..i : l \in 1..(i - 1) \/ l = i
  BY LenProperties
<1>5. ASSUME NEW V, r.unmatched = V,
             \A j \in 1..Len(V) : \E q \in 1..Len(answer) : V[j] = answer[q],
             r.found = fs, At(s, answer)
      PROVE  Traced(r, S, answer, i)
  BY <1>1, <1>2, <1>4, <1>5 DEF Traced, Accounted
<1>6. ASSUME NEW V, r.unmatched = V,
             \A j \in 1..Len(V) : \E q \in 1..Len(answer) : V[j] = answer[q],
             NEW d \in Discrepancies, r.found = Append(fs, d),
             d.kind # "unknown", d.kind # "orphan" => Exactly(d, answer),
             \/ d.kind = "side_mismatch"
             \/ d.sym = s.sym /\ d.side = s.side
                /\ (d.kind = "volume_mismatch" \/ (d.kind = "orphan" /\ d.vol = s.vol))
      PROVE  Traced(r, S, answer, i)
  <2>1. PICK g : g = r.found
    OBVIOUS
  <2>2. Len(g) = n + 1 /\ g[n + 1] = d /\ \A k \in 1..n : g[k] = fs[k]
    BY <1>3, <1>6, <2>1, AppendProperties
  <2>3. n + 1 \in 1..(n + 1) /\ \A k \in 1..(n + 1) : k \in 1..n \/ k = n + 1
    BY <1>3
  <2>4. n + 1 > 0 /\ \A k \in 1..n : k \in 1..(n + 1)
    BY <1>3
  <2>5. \A k \in 1..Len(g) : g[k].kind # "unknown" /\ (g[k].kind # "orphan" => Exactly(g[k], answer))
    <3>1. \A k \in 1..n : fs[k].kind # "unknown" /\ (fs[k].kind # "orphan" => Exactly(fs[k], answer))
      BY <1>1, <1>3 DEF Traced
    <3>2. ASSUME NEW k \in 1..(n + 1)
          PROVE  g[k].kind # "unknown" /\ (g[k].kind # "orphan" => Exactly(g[k], answer))
      <4>1. CASE k \in 1..n
        BY <2>2, <3>1, <4>1
      <4>2. CASE k = n + 1
        BY <1>6, <2>2, <4>2
      <4> QED
        BY <2>3, <4>1, <4>2
    <3> QED
      BY <2>2, <3>2
  <2>6. ASSUME NEW l \in 1..(i - 1)
        PROVE  \/ Accounted(S[l], answer, g, 0)
               \/ \E k \in 1..Len(g) : g[k].kind = "side_mismatch"
    <3>1. \/ Accounted(S[l], answer, fs, 0)
          \/ \E k \in 1..n : fs[k].kind = "side_mismatch"
      BY <1>1, <1>3 DEF Traced
    <3> QED
      BY <1>3, <2>2, <2>4, <3>1 DEF Accounted, Pending
  <2>7. \/ Accounted(S[i], answer, g, 0)
        \/ \E k \in 1..Len(g) : g[k].kind = "side_mismatch"
    BY <1>2, <1>6, <2>2, <2>3, <2>4 DEF Accounted, Pending
  <2> QED
    BY <1>4, <1>6, <2>1, <2>5, <2>6, <2>7 DEF Traced
<1>7. Orphaned(U, fs, s, r) \/ \E k : Paired(U, fs, s, k, r)
  BY <1>1, <1>2, MatchCases
<1>8. \A j \in 1..u : U[j] \in Positions /\ \E q \in 1..Len(answer) : U[j] = answer[q]
  BY <1>1, <1>3, ElementOfSeq DEF Traced
<1>9. CASE Orphaned(U, fs, s, r)
  <2>1. PICK d : d = Discrepancy("orphan", s)
    OBVIOUS
  <2>2. /\ d \in Discrepancies /\ d.kind = "orphan"
        /\ d.sym = s.sym /\ d.side = s.side /\ d.vol = s.vol
    BY <2>1, DiscrepancyType DEF Kinds
  <2>3. r.unmatched = U /\ r.found = Append(fs, d)
    BY <1>9, <2>1 DEF Orphaned
  <2> QED
    BY <1>3, <1>6, <1>8, <2>2, <2>3
<1>10. CASE \E k : Paired(U, fs, s, k, r)
  <2>1. PICK k : Paired(U, fs, s, k, r)
    BY <1>10
  <2>2. PICK q : q = U[k] /\ q \in Positions /\ q.sym = s.sym /\ k \in 1..u
    BY <1>3, <1>8, <2>1 DEF Paired
  <2>3. PICK V : V = RemoveAt(U, k) /\ r.unmatched = V
    BY <2>1 DEF Paired
  <2>4. Len(V) = u - 1 /\ \A j \in 1..(u - 1) : V[j] = IF j < k THEN U[j] ELSE U[j + 1]
    BY <1>3, <2>2, <2>3, RemoveAtFacts
  <2>5. \A j \in 1..Len(V) : \E x \in 1..Len(answer) : V[j] = answer[x]
    <3>1. \A j \in 1..(u - 1) : j \in 1..u /\ j + 1 \in 1..u
      BY <1>3
    <3> QED
      BY <1>8, <2>4, <3>1
  <2>6. PICK x \in 1..Len(answer) : q = answer[x]
    BY <1>8, <2>2
  <2>7. ASSUME NEW kind \in {"side_mismatch", "volume_mismatch"},
               r.found = Append(fs, Discrepancy(kind, q)),
               kind = "volume_mismatch" => q.side = s.side
        PROVE  Traced(r, S, answer, i)
    <3>1. PICK d : d = Discrepancy(kind, q)
      OBVIOUS
    <3>2. /\ d \in Discrepancies /\ d.kind = kind
          /\ d.sym = q.sym /\ d.side = q.side /\ d.vol = q.vol
      BY <2>2, <3>1, DiscrepancyType DEF Kinds
    <3>3. Exactly(d, answer)
      BY <2>6, <3>2 DEF Exactly
    <3> QED
      BY <1>6, <2>2, <2>3, <2>5, <2>7, <3>1, <3>2, <3>3
  <2>8. ASSUME q.side = s.side, Abs(q.vol, s.vol) <= VolumeTolerance, r.found = fs
        PROVE  Traced(r, S, answer, i)
    <3>1. s.vol \in Nat /\ q.vol \in Nat
      BY <2>2 DEF Positions
    <3>2. SamePosition(s, q)
      BY <2>2, <2>8, <3>1, AbsFacts DEF SamePosition
    <3> QED
      BY <1>5, <2>3, <2>5, <2>6, <2>8, <3>2 DEF At
  <2> QED
    BY <2>1, <2>2, <2>7, <2>8 DEF Paired
<1> QED
  BY <1>7, <1>9, <1>10

LEMMA PairingTraced ==
    ASSUME NEW S \in Seq(Positions), NEW answer \in Seq(Positions),
           NEW h, Matching(h, S, answer)
    PROVE  Traced(h[Len(S)], S, answer, Len(S))
<1>1. PICK n \in Nat : n = Len(S)
  BY LenProperties
<1>2. PICK T : T = {i \in 0..n : Traced(h[i], S, answer, i)}
  OBVIOUS
<1>3. 0 \in T
  <2>1. h[0].unmatched = answer /\ h[0].found = <<>> /\ Len(<<>>) = 0 /\ 1..0 = {}
    BY EmptySeq DEF Matching
  <2> QED
    BY <1>1, <1>2, <2>1 DEF Traced
<1>4. ASSUME NEW i \in 0..(n - 1), i \in T PROVE i + 1 \in T
  <2>1. PICK e : e = i + 1
    OBVIOUS
  <2>2. e \in 1..n /\ e \in 0..n /\ i \in 0..n /\ e - 1 = i
    BY <2>1
  <2>3. h[i] \in Matchings /\ h[e] \in Matchings /\ h[e] = MatchPosition(h[i], S[e])
    BY <1>1, <2>2 DEF Matching
  <2>4. Traced(h[i], S, answer, e - 1)
    BY <1>2, <1>4, <2>2
  <2> QED
    BY <1>1, <1>2, <2>1, <2>2, <2>3, <2>4, MatchTraced
<1>5. 0..n \subseteq T
  BY <1>3, <1>4, Induction
<1> QED
  BY <1>1, <1>2, <1>5

(* The list saved for a reconciled account.                                   *)
LEMMA ReconciledMatches ==
    ASSUME NEW S \in Seq(Positions), NEW answer \in Seq(Positions),
           \A k \in 1..Len(MatchPositions(S, answer)) :
               MatchPositions(S, answer)[k].kind # "side_mismatch"
    PROVE  /\ Reconciled(S, answer) \in Seq(Positions)
           /\ \A i \in 1..Len(Reconciled(S, answer)) : At(Reconciled(S, answer)[i], answer)
           /\ OnePerSide(S) => SameBook(Reconciled(S, answer), answer)
<1>1. PICK n, m \in Nat : n = Len(S) /\ m = Len(answer)
  BY LenProperties
<1>2. PICK h : Matching(h, S, answer) /\ h[n] = Pairing(S, answer)
  <2>1. \E h : Matching(h, S, answer) /\ h[Len(S)] = Pairing(S, answer)
    BY MatchRuns
  <2> QED
    BY <1>1, <2>1
<1>3. \A i \in 0..n : /\ h[i] \in Matchings /\ h[i].found \in Seq(Discrepancies)
                      /\ h[i].unmatched \in Seq(Positions) /\ Begins(h[i].found, h[n].found)
  BY <1>1, <1>2, FoundGrows DEF Matching, Matchings
<1>4. PICK D \in Seq(Discrepancies), U \in Seq(Positions) : D = h[n].found /\ U = h[n].unmatched
  <2>1. n \in 0..n
    BY <1>1
  <2> QED
    BY <1>3, <2>1
<1>5. PICK c, u \in Nat : c = Len(D) /\ u = Len(U)
  BY LenProperties
<1>6. PICK unknown : unknown = [j \in 1..u |-> Discrepancy("unknown", U[j])]
  OBVIOUS
<1>7. PICK M : M = MatchPositions(S, answer)
  OBVIOUS
<1>8. \A j \in 1..u : U[j] \in Positions /\ Discrepancy("unknown", U[j]) \in Discrepancies
  BY <1>5, ElementOfSeq, DiscrepancyType DEF Kinds
<1>9. unknown \in Seq(Discrepancies) /\ Len(unknown) = u
  BY <1>5, <1>6, <1>8
<1>10. M = D \o unknown
  BY <1>2, <1>4, <1>5, <1>6, <1>7 DEF MatchPositions, Pairing
<1>11. /\ M \in Seq(Discrepancies) /\ Len(M) = c + u
       /\ \A k \in 1..c : M[k] = D[k]
       /\ \A j \in 1..u : M[c + j] = Discrepancy("unknown", U[j])
  <2>1. /\ D \o unknown \in Seq(Discrepancies) /\ Len(D \o unknown) = Len(D) + Len(unknown)
        /\ \A k \in 1..(Len(D) + Len(unknown)) :
               (D \o unknown)[k] = IF k <= Len(D) THEN D[k] ELSE unknown[k - Len(D)]
    BY <1>9, ConcatProperties
  <2>2. M \in Seq(Discrepancies) /\ Len(M) = c + u
    BY <1>5, <1>9, <1>10, <2>1
  <2>3. \A k \in 1..(c + u) : M[k] = IF k <= c THEN D[k] ELSE unknown[k - c]
    BY <1>5, <1>9, <1>10, <2>1
  <2>4. ASSUME NEW k \in 1..c PROVE M[k] = D[k]
    <3>1. k \in 1..(c + u) /\ k <= c
      BY <1>5
    <3> QED
      BY <2>3, <3>1
  <2>5. ASSUME NEW j \in 1..u PROVE M[c + j] = Discrepancy("unknown", U[j])
    <3>1. c + j \in 1..(c + u) /\ ~(c + j <= c) /\ (c + j) - c = j
      BY <1>5
    <3> QED
      BY <1>6, <2>3, <3>1
  <2> QED
    BY <2>2, <2>4, <2>5
<1>12. \A k \in 1..(c + u) : M[k].kind # "side_mismatch"
  BY <1>7, <1>11
<1>13. PICK B : /\ B \in [0..(c + u) -> Seq(Positions)] /\ B[0] = S
                /\ \A k \in 1..(c + u) : B[k] = ApplyDiscrepancy(B[k - 1], M[k])
                /\ B[c + u] = Reconciled(S, answer)
  <2>1. \E g : Correcting(g, S, M) /\ g[Len(M)] = Correction(S, M)
    <3>1. M \in Seq(Discrepancies) /\ \A k \in 1..Len(M) : M[k].kind # "side_mismatch"
      BY <1>11, <1>12
    <3> QED
      BY ONLY <3>1, S \in Seq(Positions), CorrectionRuns
  <2> QED
    BY <1>7, <1>11, <2>1 DEF Reconciled, Correction, Correcting
<1>14. Reconciled(S, answer) \in Seq(Positions)
  <2>1. c + u \in 0..(c + u)
    BY <1>5
  <2> QED
    BY <1>13, <2>1
<1>28. \A i \in 1..Len(Reconciled(S, answer)) : At(Reconciled(S, answer)[i], answer)
  <2>1. /\ \A j \in 1..u : \E q \in 1..m : U[j] = answer[q]
        /\ \A k \in 1..c : D[k].kind # "orphan" => Exactly(D[k], answer)
        /\ \A l \in 1..n : \/ Accounted(S[l], answer, D, 0)
                           \/ \E k \in 1..c : D[k].kind = "side_mismatch"
    <3>1. Traced(h[Len(S)], S, answer, Len(S))
      BY <1>2, PairingTraced
    <3>2. h[Len(S)].unmatched = U /\ h[Len(S)].found = D /\ Len(S) = n
      BY <1>1, <1>4
    <3> QED
      BY <1>1, <1>5, <3>1, <3>2 DEF Traced
  <2>2. \A k \in 1..c : k \in 1..(c + u) /\ D[k] = M[k]
    BY <1>5, <1>11
  <2>3. ASSUME NEW l \in 1..n PROVE Accounted(S[l], answer, M, 0)
    <3>1. Accounted(S[l], answer, D, 0)
      BY <1>12, <2>1, <2>2
    <3> QED
      BY <1>5, <1>11, <2>2, <3>1 DEF Accounted, Pending
  <2>4. ASSUME NEW k \in 1..(c + u), M[k].kind # "orphan" PROVE Exactly(M[k], answer)
    <3>1. CASE k \in 1..c
      BY <2>1, <2>2, <2>4, <3>1
    <3>2. CASE k \notin 1..c
      <4>1. PICK j \in 1..u : k = c + j
        <5>1. k - c \in 1..u /\ k = c + (k - c)
          BY <1>5, <3>2
        <5> QED
          BY <5>1
      <4>2. M[k] = Discrepancy("unknown", U[j])
        BY <1>11, <4>1
      <4>3. PICK q \in 1..m : U[j] = answer[q]
        BY <2>1
      <4>4. M[k].sym = U[j].sym /\ M[k].side = U[j].side /\ M[k].vol = U[j].vol
        BY <1>8, <4>2, DiscrepancyType DEF Kinds
      <4> QED
        BY <1>1, <4>3, <4>4 DEF Exactly
    <3> QED
      BY <3>1, <3>2
  <2>5. /\ M \in Seq(Discrepancies)
        /\ \A k \in 1..Len(M) : /\ M[k].kind # "side_mismatch"
                                /\ M[k].kind # "orphan" => Exactly(M[k], answer)
        /\ \A i \in 1..Len(S) : Accounted(S[i], answer, M, 0)
    <3>1. M \in Seq(Discrepancies) /\ Len(M) = c + u /\ Len(S) = n
      BY <1>1, <1>11
    <3>2. \A k \in 1..(c + u) : M[k].kind # "orphan" => Exactly(M[k], answer)
      BY <2>4
    <3> QED
      BY <1>12, <2>3, <3>1, <3>2
  <2>6. \A i \in 1..Len(Correction(S, M)) : At(Correction(S, M)[i], answer)
    BY ONLY <2>5, S \in Seq(Positions), answer \in Seq(Positions), CorrectionsEndAt
  <2> QED
    BY <1>7, <2>6 DEF Reconciled, Correction
<1> SUFFICES ASSUME OnePerSide(S) PROVE SameBook(Reconciled(S, answer), answer)
  BY <1>14, <1>28
<1>15. PICK T : T = {i \in 0..n : \E p, f : Stage(S, answer, i, B[Len(h[i].found)],
                                                   h[i].unmatched, p, f)}
  OBVIOUS
<1>16. 0 \in T
  <2>1. PICK f : f = [j \in 1..m |-> j]
    OBVIOUS
  <2>2. h[0].unmatched = answer /\ h[0].found = <<>>
    BY <1>2 DEF Matching
  <2>3. Len(h[0].found) = 0 /\ B[0] = S
    BY <1>13, <2>2, EmptySeq
  <2>4. Placed(S, answer, answer, 0, f)
    <3>1. OneToOne(f, m)
      BY <2>1 DEF OneToOne
    <3>2. 1..0 = {} /\ \A j \in 1..m : 0 + j = j /\ f[j] = j
      BY <2>1
    <3> QED
      BY <1>1, <3>1, <3>2 DEF Placed
  <2>5. Stage(S, answer, 0, S, answer, 0, f)
    <3>1. 0 + m = m /\ n = 0 + (n - 0) /\ \A l \in (0 + 1)..n : 0 + (l - 0) = l
      BY <1>1
    <3>2. 1..0 = {}
      OBVIOUS
    <3> QED
      BY <1>1, <2>4, <3>1, <3>2 DEF Stage
  <2>6. 0 \in 0..n
    BY <1>1
  <2> QED
    BY <1>15, <2>2, <2>3, <2>5, <2>6
<1>17. ASSUME NEW i \in 0..(n - 1), i \in T PROVE i + 1 \in T
  <2>1. PICK e : e = i + 1
    OBVIOUS
  <2>2. e \in 1..n /\ e - 1 = i /\ i \in 0..n /\ e \in 0..n
    BY <2>1
  <2>3. PICK acc \in Matchings, r \in Matchings : acc = h[i] /\ r = h[e]
    BY <1>3, <2>2
  <2>4. r = MatchPosition(acc, S[e])
    BY <1>1, <1>2, <2>2, <2>3 DEF Matching
  <2>5. PICK k, l \in Nat : k = Len(acc.found) /\ l = Len(r.found)
    BY <1>3, <2>2, <2>3, LenProperties
  <2>6. PICK p, f : Stage(S, answer, e - 1, B[k], acc.unmatched, p, f)
    BY <1>15, <1>17, <2>2, <2>3, <2>5
  <2>7. l <= c /\ \A x \in 1..l : M[x] = r.found[x]
    <3>1. Begins(r.found, D)
      BY <1>3, <1>4, <2>2, <2>3
    <3>2. l <= c /\ \A x \in 1..l : D[x] = r.found[x]
      BY <1>5, <2>5, <3>1 DEF Begins
    <3>3. \A x \in 1..l : x \in 1..c
      BY <1>5, <2>5, <3>2
    <3> QED
      BY <1>11, <3>2, <3>3
  <2>8. r.found = acc.found \/ l = k + 1
    <3>1. PICK s \in Positions : s = S[e]
      BY <1>1, <2>2, ElementOfSeq
    <3>2. PICK fs \in Seq(Discrepancies) : fs = acc.found /\ k = Len(fs)
      BY <2>3, <2>5 DEF Matchings
    <3>3. Orphaned(acc.unmatched, fs, s, r) \/ \E x : Paired(acc.unmatched, fs, s, x, r)
      BY <2>4, <3>1, <3>2, MatchCases
    <3>4. \A d \in Discrepancies : Len(Append(fs, d)) = k + 1
      BY <3>2, AppendProperties
    <3>5. \A x \in 1..Len(acc.unmatched) :
              /\ Discrepancy("side_mismatch", acc.unmatched[x]) \in Discrepancies
              /\ Discrepancy("volume_mismatch", acc.unmatched[x]) \in Discrepancies
      <4>1. acc.unmatched \in Seq(Positions)
        BY DEF Matchings
      <4> QED
        BY <4>1, ElementOfSeq, DiscrepancyType DEF Kinds
    <3>6. Discrepancy("orphan", s) \in Discrepancies
      BY DiscrepancyType DEF Kinds
    <3> QED
      BY <2>5, <3>2, <3>3, <3>4, <3>5, <3>6 DEF Orphaned, Paired
  <2>9. PICK C : C = IF r.found = acc.found THEN B[k] ELSE ApplyDiscrepancy(B[k], r.found[l])
    OBVIOUS
  <2>10. /\ r.found # acc.found => r.found[l].kind # "side_mismatch"
         /\ C = B[l]
    <3>1. CASE r.found = acc.found
      BY <2>5, <2>9, <3>1
    <3>2. CASE r.found # acc.found
      <4>1. l = k + 1
        BY <2>8, <3>2
      <4>2. l \in 1..l /\ l \in 1..(c + u) /\ l - 1 = k
        BY <1>5, <2>5, <2>7, <4>1
      <4>3. M[l] = r.found[l]
        BY <2>7, <4>2
      <4>4. B[l] = ApplyDiscrepancy(B[k], M[l]) /\ M[l].kind # "side_mismatch"
        BY <1>12, <1>13, <4>2
      <4> QED
        BY <2>9, <3>2, <4>3, <4>4
    <3> QED
      BY <3>1, <3>2
  <2>11. \E q, g : Stage(S, answer, e, C, r.unmatched, q, g)
    <3>1. e \in 1..Len(S)
      BY <1>1, <2>2
    <3>2. /\ r.found # acc.found => r.found[Len(r.found)].kind # "side_mismatch"
          /\ C = IF r.found = acc.found THEN B[k] ELSE ApplyDiscrepancy(B[k], r.found[Len(r.found)])
      BY <2>5, <2>9, <2>10
    <3> QED
      BY <2>4, <2>6, <3>1, <3>2, MatchStage
  <2> QED
    BY <1>15, <2>1, <2>2, <2>3, <2>5, <2>10, <2>11
<1>18. n \in T
  <2>1. 0..n \subseteq T
    BY <1>16, <1>17, Induction
  <2>2. n \in 0..n
    BY <1>1
  <2> QED
    BY <2>1, <2>2
<1>19. PICK p, f : Stage(S, answer, n, B[c], U, p, f)
  BY <1>4, <1>5, <1>15, <1>18
<1>20. /\ p \in Nat /\ p + u = m /\ Len(B[c]) = p
       /\ OneToOne(f, m) /\ \A j \in 1..p : SamePosition(B[c][j], answer[f[j]])
       /\ \A j \in 1..u : U[j] = answer[f[p + j]]
  <2>1. p \in Nat /\ p + u = m /\ Len(B[c]) = p + (n - n) /\ Placed(B[c], U, answer, p, f)
    BY <1>1, <1>5, <1>19 DEF Stage
  <2>2. p + (n - n) = p
    BY <2>1
  <2> QED
    BY <1>1, <1>5, <2>1, <2>2 DEF Placed
<1>21. PICK W : W = {j \in 0..u : /\ Len(B[c + j]) = p + j
                                  /\ \A x \in 1..(p + j) : SamePosition(B[c + j][x], answer[f[x]])}
  OBVIOUS
<1>22. 0 \in W
  <2>1. c + 0 = c /\ p + 0 = p /\ 0 \in 0..u
    BY <1>5, <1>20
  <2> QED
    BY <1>20, <1>21, <2>1
<1>23. ASSUME NEW j \in 0..(u - 1), j \in W PROVE j + 1 \in W
  <2>1. PICK e : e = j + 1
    OBVIOUS
  <2>2. /\ e \in 1..u /\ e \in 0..u /\ j \in 0..u /\ c + e \in 1..(c + u) /\ (c + e) - 1 = c + j
        /\ c + j \in 0..(c + u) /\ p + e = (p + j) + 1 /\ p + j \in Nat
    <3>1. j \in Int /\ 0 <= j /\ j < u /\ e = j + 1 /\ e \in Int
      BY <1>5, <2>1
    <3>2. e \in 1..u /\ e \in 0..u /\ j \in 0..u
      BY <1>5, <3>1
    <3>3. c + e \in 1..(c + u) /\ (c + e) - 1 = c + j /\ c + j \in 0..(c + u)
      BY <1>5, <3>1
    <3>4. p + e = (p + j) + 1 /\ p + j \in Nat
      BY <1>20, <3>1, SMTT(40)
    <3> QED
      BY <3>2, <3>3, <3>4
  <2>3. PICK b \in Seq(Positions) : b = B[c + j]
    BY <1>13, <2>2
  <2>4. Len(b) = p + j /\ \A x \in 1..(p + j) : SamePosition(b[x], answer[f[x]])
    BY <1>21, <1>23, <2>3
  <2>5. PICK d : d = Discrepancy("unknown", U[e])
    OBVIOUS
  <2>6. /\ U[e] \in Positions /\ d.kind = "unknown"
        /\ d.sym = U[e].sym /\ d.side = U[e].side /\ d.vol = U[e].vol
    BY <1>8, <2>2, <2>5, DiscrepancyType DEF Kinds
  <2>7. B[c + e] = AddUnknown(b, d)
    BY <1>11, <1>13, <2>2, <2>3, <2>5, <2>6 DEF ApplyDiscrepancy
  <2>8. PICK w : w = [sym |-> d.sym, side |-> d.side, vol |-> d.vol]
    OBVIOUS
  <2>9. /\ w \in Positions /\ w.vol \in Nat
        /\ w.sym = U[e].sym /\ w.side = U[e].side /\ w.vol = U[e].vol
    BY <2>6, <2>8 DEF Positions
  <2>10. SamePosition(w, U[e])
    BY <2>9, AbsFacts DEF SamePosition
  <2>11. B[c + e] = Append(b, w)
    BY <2>7, <2>8 DEF AddUnknown
  <2>12. /\ Len(B[c + e]) = Len(b) + 1 /\ \A x \in 1..Len(b) : B[c + e][x] = b[x]
         /\ B[c + e][Len(b) + 1] = w
    BY <2>9, <2>11, AppendProperties
  <2>13. ASSUME NEW x \in 1..(p + e) PROVE SamePosition(B[c + e][x], answer[f[x]])
    <3>1. x \in 1..(p + j) \/ x = p + e
      BY <1>20, <2>2
    <3>2. CASE x \in 1..(p + j)
      BY <2>4, <2>12, <3>2
    <3>3. CASE x = p + e
      <4>1. B[c + e][x] = w
        BY <2>2, <2>4, <2>12, <3>3
      <4>2. U[e] = answer[f[x]]
        BY <1>20, <2>2, <3>3
      <4> QED
        BY <2>10, <4>1, <4>2
    <3> QED
      BY <3>1, <3>2, <3>3
  <2>14. Len(B[c + e]) = p + e
    BY <2>2, <2>4, <2>12
  <2> QED
    BY <1>21, <2>1, <2>2, <2>13, <2>14
<1>24. u \in W
  <2>1. 0..u \subseteq W
    BY <1>5, <1>22, <1>23, Induction
  <2>2. u \in 0..u
    BY <1>5
  <2> QED
    BY <2>1, <2>2
<1>25. PICK R : R = Reconciled(S, answer)
  OBVIOUS
<1>26. Len(R) = m /\ \A x \in 1..m : SamePosition(R[x], answer[f[x]])
  BY <1>13, <1>20, <1>21, <1>24, <1>25
<1>27. /\ f \in [1..Len(R) -> 1..Len(answer)]
       /\ \A j, k \in 1..Len(R) : f[j] = f[k] => j = k
       /\ \A j \in 1..Len(R) : SamePosition(R[j], answer[f[j]])
  BY <1>1, <1>20, <1>26 DEF OneToOne
<1> QED
  BY <1>1, <1>25, <1>26, <1>27 DEF SameBook

(* The lists of the accounts, at MT5, in the process and in the snapshots.    *)
Snapshots == [positions : Seq(Positions), checksum : {"valid", "wrong", "absent"}]

ListsTyped ==
    /\ mt5 \in [Accounts -> Seq(Positions)]
    /\ book \in [Accounts -> Seq(Positions)]
    /\ hot \in [Accounts -> Snapshots]
    /\ cold \in [Accounts -> Snapshots]
    /\ outcome \in [Accounts -> Outcomes]

LEMMA SnapshotTypes ==
    /\ <<>> \in Seq(Positions)
    /\ \A b \in Seq(Positions) : Snapshot(b) \in Snapshots /\ Snapshot(b).positions = b
    /\ Corrupted \in Snapshots /\ NoSnapshot \in Snapshots
    /\ \A s \in Snapshots : s.positions \in Seq(Positions)
BY DEF Snapshot, Corrupted, NoSnapshot, Snapshots

LEMMA NotCritical ==
    ASSUME NEW found, NEW s, NEW answer, ~HasCritical(found, s, answer)
    PROVE  \A k \in 1..Len(found) : found[k].kind # "side_mismatch"
BY DEF HasCritical

(* What a reconciliation of an account must save.                             *)
SavedRight(s, saved, answer) ==
    /\ OnePerSide(s) => SameBook(saved, answer)
    /\ \A i \in 1..Len(saved) : At(saved[i], answer)

LEMMA SaveFacts ==
    ASSUME ListsTyped, NEW a \in Accounts, ~Critical(a), SaveReconciled(a)
    PROVE  /\ hot' \in [Accounts -> Snapshots]
           /\ SavedRight(LoadedSnapshot(a).positions, hot'[a].positions, mt5[a])
<1>1. PICK S : S = LoadedSnapshot(a).positions
  OBVIOUS
<1>2. S \in Seq(Positions) /\ mt5[a] \in Seq(Positions)
  BY <1>1, SnapshotTypes DEF ListsTyped, LoadedSnapshot
<1>3. PICK found : found = MatchPositions(S, mt5[a])
  OBVIOUS
<1>4. ~HasCritical(found, S, mt5[a])
  BY <1>1, <1>3 DEF Critical
<1>5. \A k \in 1..Len(found) : found[k].kind # "side_mismatch"
  BY <1>4, NotCritical
<1>6. PICK R : R = Reconciled(S, mt5[a])
  OBVIOUS
<1>7. R \in Seq(Positions) /\ SavedRight(S, R, mt5[a])
  BY <1>2, <1>3, <1>5, <1>6, ReconciledMatches DEF SavedRight
<1>8. /\ hot' = [hot EXCEPT ![a] = Snapshot(R)]
      /\ Snapshot(R) \in Snapshots /\ Snapshot(R).positions = R
  BY <1>1, <1>6, <1>7, SnapshotTypes DEF SaveReconciled
<1>9. hot' \in [Accounts -> Snapshots] /\ hot'[a].positions = R
  BY <1>8 DEF ListsTyped
<1> QED
  BY <1>1, <1>7, <1>9

LEMMA ReconcileFacts ==
    ASSUME ListsTyped, NEW a \in Accounts, ReconcileAccount(a)
    PROVE  /\ outcome' \in [Accounts -> Outcomes] /\ hot' \in [Accounts -> Snapshots]
           /\ UNCHANGED <<mt5, book, cold>>
           /\ \A b \in Accounts : b # a => outcome'[b] = outcome[b]
           /\ outcome'[a] = "verified"
                  => SavedRight(LoadedSnapshot(a).positions, hot'[a].positions, mt5[a])
<1>1. UNCHANGED <<mt5, book, cold>>
  BY DEF ReconcileAccount
<1>2. CASE Critical(a)
  <2>1. outcome' = [outcome EXCEPT ![a] = "manual"] /\ hot' = hot
    BY <1>2 DEF ReconcileAccount, Visited
  <2> QED
    BY <1>1, <2>1 DEF ListsTyped, Outcomes
<1>3. CASE ~Critical(a)
  <2>1. outcome' = [outcome EXCEPT ![a] = "verified"] /\ SaveReconciled(a)
    BY <1>3 DEF ReconcileAccount, Visited
  <2>2. outcome' \in [Accounts -> Outcomes] /\ \A b \in Accounts : b # a => outcome'[b] = outcome[b]
    BY <2>1 DEF ListsTyped, Outcomes
  <2> QED
    BY <1>1, <1>3, <2>1, <2>2, SaveFacts
<1> QED
  BY <1>2, <1>3

LEMMA ListsInit == RecInit => ListsTyped
BY SnapshotTypes DEF RecInit, ListsTyped, Outcomes

LEMMA ListsNext ==
    ASSUME ListsTyped, [RecNext]_recVars
    PROVE  ListsTyped'
<1>1. ASSUME UNCHANGED <<mt5, book, hot, cold, outcome>> PROVE ListsTyped'
  BY <1>1 DEF ListsTyped
<1>2. CASE StartRecovery \/ EndReconciliation \/ EndRecalculation \/ EndRecovery
  BY <1>1, <1>2 DEF StartRecovery, EndReconciliation, EndRecalculation, EndRecovery
<1>3. ASSUME NEW a \in Accounts,
             RecalculatePnl(a) \/ ResumeAccount(a) \/ ResumeFails(a) \/ ChangeStatus(a)
      PROVE  ListsTyped'
  BY <1>1, <1>3 DEF RecalculatePnl, ResumeAccount, ResumeFails, ChangeStatus
<1>4. ASSUME NEW a \in Accounts, SkipReconciliation(a) \/ QueryPositionsFails(a)
      PROVE  ListsTyped'
  BY <1>4 DEF SkipReconciliation, QueryPositionsFails, Visited, ListsTyped, Outcomes
<1>5. ASSUME NEW a \in Accounts, ReconcileAccount(a) PROVE ListsTyped'
  BY <1>5, ReconcileFacts DEF ListsTyped
<1>6. CASE SnapshotAll
  <2>1. UNCHANGED <<mt5, book, cold, outcome>>
    BY <1>6 DEF SnapshotAll
  <2>2. hot' \in [Accounts -> Snapshots]
    BY <1>6, SnapshotTypes DEF SnapshotAll, ListsTyped
  <2> QED
    BY <2>1, <2>2 DEF ListsTyped
<1>7. CASE WriteColdSnapshots
  <2>1. UNCHANGED <<mt5, book, hot, outcome>>
    BY <1>7 DEF WriteColdSnapshots
  <2>2. cold' \in [Accounts -> Snapshots]
    BY <1>7, SnapshotTypes DEF WriteColdSnapshots, ListsTyped
  <2> QED
    BY <2>1, <2>2 DEF ListsTyped
<1>8. ASSUME NEW a \in Accounts, Trades(a) \/ BrokerMoves(a) PROVE ListsTyped'
  <2>1. UNCHANGED <<hot, cold, outcome>>
    BY <1>8 DEF Trades, BrokerMoves
  <2>2. PICK b \in Seq(Positions) : /\ mt5' = [mt5 EXCEPT ![a] = b]
                                    /\ book' = book \/ book' = [book EXCEPT ![a] = b]
    BY <1>8, BookPositions DEF Trades, BrokerMoves
  <2> QED
    BY <2>1, <2>2 DEF ListsTyped
<1>9. ASSUME NEW a \in Accounts, LoseSnapshot(a) PROVE ListsTyped'
  <2>1. UNCHANGED <<mt5, book, cold, outcome>>
    BY <1>9 DEF LoseSnapshot
  <2>2. PICK s \in Snapshots : hot' = [hot EXCEPT ![a] = s]
    BY <1>9, SnapshotTypes DEF LoseSnapshot
  <2> QED
    BY <2>1, <2>2 DEF ListsTyped
<1>10. ASSUME ProcessEnds, hot' \in [Accounts -> Snapshots] PROVE ListsTyped'
  <2>1. UNCHANGED <<mt5, cold>>
    BY <1>10 DEF ProcessEnds
  <2>2. book' \in [Accounts -> Seq(Positions)] /\ outcome' \in [Accounts -> Outcomes]
    BY <1>10, SnapshotTypes DEF ProcessEnds, Outcomes
  <2> QED
    BY <1>10, <2>1, <2>2 DEF ListsTyped
<1>11. CASE UNCHANGED recVars
  BY <1>1, <1>11 DEF recVars
<1>12. CASE EngineCrash
  BY <1>10, <1>12 DEF EngineCrash, ListsTyped
<1>13. ASSUME NEW a \in Accounts, RedisRaises(a) PROVE ListsTyped'
  <2>1. hot' \in [Accounts -> Snapshots]
    BY <1>13, SaveFacts DEF RedisRaises, ListsTyped
  <2> QED
    BY <1>10, <1>13, <2>1 DEF RedisRaises
<1> QED
  BY <1>2, <1>3, <1>4, <1>5, <1>6, <1>7, <1>8, <1>9, <1>11, <1>12, <1>13 DEF RecNext, OwnStep

(* Only reconcile_account makes an account verified.                          *)
LEMMA SavedStep ==
    ASSUME ListsTyped, RecNext, NEW a \in Accounts,
           outcome'[a] = "verified", outcome[a] # "verified"
    PROVE  SavedRight(LoadedSnapshot(a).positions, hot'[a].positions, mt5[a])
<1>1. outcome' # outcome
  OBVIOUS
<1>2. ASSUME NEW b \in Accounts, SkipReconciliation(b) \/ QueryPositionsFails(b) PROVE FALSE
  <2>1. PICK r \in {"unverified", "manual"} : outcome' = [outcome EXCEPT ![b] = r]
    BY <1>2 DEF SkipReconciliation, QueryPositionsFails, Visited
  <2>2. outcome'[a] = outcome[a] \/ outcome'[a] = r
    BY <2>1 DEF ListsTyped
  <2> QED
    BY <2>1, <2>2
<1>3. ~EngineCrash /\ \A b \in Accounts : ~RedisRaises(b)
  <2>1. ~ProcessEnds
    BY DEF ProcessEnds
  <2> QED
    BY <2>1 DEF EngineCrash, RedisRaises
<1>4. PICK b \in Accounts : ReconcileAccount(b)
  BY <1>1, <1>2, <1>3
  DEF RecNext, OwnStep, StartRecovery, EndReconciliation, EndRecalculation, EndRecovery,
      RecalculatePnl, ResumeAccount, ResumeFails, SnapshotAll, WriteColdSnapshots, Trades,
      BrokerMoves, LoseSnapshot, ChangeStatus
<1> QED
  BY <1>4, ReconcileFacts

(* PositionReconciler.reconcile_account, for any lists of positions, with any *)
(* number of orphaned, unknown and changed ones in any order.  When an        *)
(* account counts as reconciled, no position is saved for it that MT5 does    *)
(* not have, not even if the snapshot had several of one symbol and side,     *)
(* which the corrections confuse; if it had not, the positions saved are      *)
(* those MT5 reported, each once and to the volume tolerance.                 *)
THEOREM ReconciliationSavesMt5 == RecSpec => SavedMatchesMt5
<1>1. RecInit => ListsTyped
  BY ListsInit
<1>2. ListsTyped /\ [RecNext]_recVars => ListsTyped'
  BY ListsNext
<1>3. ListsTyped /\ [RecNext]_recVars =>
          [\A a \in Accounts :
               outcome'[a] = "verified" /\ outcome[a] # "verified" =>
                   LET saved == hot'[a].positions
                   IN  /\ OnePerSide(LoadedSnapshot(a).positions) => SameBook(saved, mt5[a])
                       /\ \A i \in 1..Len(saved) :
                              \E j \in 1..Len(mt5[a]) : SamePosition(saved[i], mt5[a][j])]_recVars
  BY SavedStep DEF SavedRight, At
<1> QED
  BY <1>1, <1>2, <1>3, PTL DEF RecSpec, RecFairness, SavedMatchesMt5
=============================================================================
