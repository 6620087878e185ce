---------------------------- MODULE CrashRecovery ----------------------------
(***************************************************************************)
(* What the engine does about its accounts when it starts after a crash:   *)
(* RecoveryOrchestrator reconciles the last snapshot of every account with *)
(* the positions MT5 reports (PositionReconciler), recalculates the daily  *)
(* P&L (DailyPnLRecalculator) and resumes trading (TradingResumer).  With  *)
(* it, the two services that write the snapshots while the engine runs:    *)
(* SnapshotService (Redis, one hour) and ColdStorageService (database).    *)
(*                                                                         *)
(* A list of positions is a sequence of [sym, side, vol], volumes in       *)
(* thousandths of a lot, so that the tolerance of 0.001 is 1.  Detection   *)
(* of the crash and the process lock are in EngineProcess; the race of a   *)
(* command with the spawning of a loop is in AccountLifecycle.             *)
(***************************************************************************)
EXTENDS Naturals, Sequences, FiniteSets, SequencesExt

CONSTANTS
    Accounts,
    Books,          \* Books[a]: the lists of positions a may have at MT5
    MaxCrashes      \* bound

Positions == [sym : STRING, side : {"buy", "sell"}, vol : Nat]

ASSUME BookPositions == \A a \in Accounts : Books[a] \subseteq Seq(Positions)

VARIABLES
    mt5,        \* the positions at MT5
    book,       \* PositionTracker: the positions this process opened
    hot,        \* Redis snapshot:{id}:latest
    cold,       \* the newest row of state_snapshots not older than 7 days
    active,     \* the accounts whose status is active
    phase,      \* where RecoveryOrchestrator.run is
    todo,       \* the accounts its present loop has still to visit
    outcome,    \* reconciliation_results
    loops,      \* accounts with a running account loop
    crashes

recVars == <<mt5, book, hot, cold, active, phase, todo, outcome, loops, crashes>>

Phases == {"down", "reconcile", "pnl", "resume", "up"}
Outcomes == {"none", "verified", "unverified", "manual"}

(* A snapshot: its positions, and how its checksum compares with its fields. *)
Snapshot(positions) == [positions |-> positions, checksum |-> "valid"]
Corrupted == [positions |-> <<>>, checksum |-> "wrong"]
NoSnapshot == [positions |-> <<>>, checksum |-> "absent"]

RecInit ==
    /\ mt5 = [a \in Accounts |-> <<>>]
    /\ book = [a \in Accounts |-> <<>>]
    /\ hot = [a \in Accounts |-> NoSnapshot]
    /\ cold = [a \in Accounts |-> NoSnapshot]
    /\ active = Accounts
    /\ phase = "up"
    /\ todo = {}
    /\ outcome = [a \in Accounts |-> "none"]
    /\ loops = {}
    /\ crashes = 0

-----------------------------------------------------------------------------
(* PositionReconciler: matching, critical differences, corrections.        *)

Abs(m, n) == IF m > n THEN m - n ELSE n - m

(* CRITICAL_ORPHAN_THRESHOLD, CRITICAL_EXPOSURE_DIFF_PERCENT, VOLUME_TOLERANCE *)
OrphanThreshold == 3
ExposureDiffPercent == 10
VolumeTolerance == 1

Discrepancy(kind, p) == [kind |-> kind, sym |-> p.sym, side |-> p.side, vol |-> p.vol]

(* One snapshot position takes the first unmatched MT5 position of its        *)
(* symbol, whatever the side and volume.                                      *)
MatchPosition(acc, p) ==
    LET i == SelectInSeq(acc.unmatched, LAMBDA q : q.sym = p.sym)
        q == acc.unmatched[i]
        found == IF q.side # p.side THEN <<Discrepancy("side_mismatch", q)>>
                 ELSE IF Abs(q.vol, p.vol) <= VolumeTolerance THEN <<>>
                 ELSE <<Discrepancy("volume_mismatch", q)>>
    IN  IF i = 0
        THEN [acc EXCEPT !.found = Append(@, Discrepancy("orphan", p))]
        ELSE [unmatched |-> RemoveAt(acc.unmatched, i), found |-> acc.found \o found]

(* _match_positions: what is left at MT5 is unknown to the snapshot. *)
MatchPositions(snapshot, answer) ==
    LET acc == FoldLeft(MatchPosition, [unmatched |-> answer, found |-> <<>>], snapshot)
    IN  acc.found \o [i \in 1..Len(acc.unmatched) |->
                         Discrepancy("unknown", acc.unmatched[i])]

Exposure(positions) == FoldLeft(LAMBDA sum, p : sum + p.vol, 0, positions)

(* _has_critical_discrepancies *)
HasCritical(found, snapshot, answer) ==
    \/ \E i \in 1..Len(found) : found[i].kind = "side_mismatch"
    \/ Len(SelectSeq(found, LAMBDA d : d.kind = "orphan")) > OrphanThreshold
    \/ /\ Exposure(snapshot) > 0
       /\ 100 * Abs(Exposure(answer), Exposure(snapshot)) > ExposureDiffPercent * Exposure(snapshot)

(* _remove_orphan_from_state: every equal entry goes. *)
RemoveOrphan(positions, d) ==
    FoldLeft(LAMBDA kept, p : IF p.sym = d.sym /\ p.side = d.side /\ p.vol = d.vol
                              THEN kept ELSE Append(kept, p),
             <<>>, positions)

(* _add_unknown_to_state *)
AddUnknown(positions, d) ==
    Append(positions, [sym |-> d.sym, side |-> d.side, vol |-> d.vol])

(* Mutant: the volume of the snapshot is kept. *)
KeepPositionVolume(positions, d) == positions

(* _update_position_volume: every entry of the symbol and side. *)
UpdatePositionVolume(positions, d) ==
    [i \in 1..Len(positions) |->
        IF positions[i].sym = d.sym /\ positions[i].side = d.side
        THEN [positions[i] EXCEPT !.vol = d.vol] ELSE positions[i]]

ApplyDiscrepancy(positions, d) ==
    CASE d.kind = "orphan"          -> RemoveOrphan(positions, d)
      [] d.kind = "unknown"         -> AddUnknown(positions, d)
      [] d.kind = "volume_mismatch" -> UpdatePositionVolume(positions, d)

Reconciled(snapshot, answer) ==
    FoldLeft(ApplyDiscrepancy, snapshot, MatchPositions(snapshot, answer))

-----------------------------------------------------------------------------
(* Startup in recovery mode.                                               *)

(* get_accounts_needing_recovery: the accounts with a hot snapshot.  An       *)
(* account that has only a cold one is left out.                              *)
NeedingRecovery == {a \in Accounts : hot[a] # NoSnapshot}

StartRecovery ==
    /\ phase = "down"
    /\ phase' = "reconcile"
    /\ todo' = NeedingRecovery
    /\ UNCHANGED <<mt5, book, hot, cold, active, outcome, loops, crashes>>

(* _load_account_snapshot: the hot one, else the cold one. *)
LoadedSnapshot(a) == IF hot[a] # NoSnapshot THEN hot[a] ELSE cold[a]

(* validate_snapshot_for_recovery: present and with a valid checksum.  A hot  *)
(* snapshot expires before it is too old.                                     *)
ValidSnapshot(a) == LoadedSnapshot(a).checksum = "valid"

Visited(a, result) ==
    /\ outcome' = [outcome EXCEPT ![a] = result]
    /\ todo' = todo \ {a}

(* Without a valid snapshot the account counts as a success, and nothing is   *)
(* compared with MT5.                                                         *)
SkipReconciliation(a) ==
    /\ phase = "reconcile" /\ a \in todo
    /\ ~ValidSnapshot(a)
    /\ Visited(a, "unverified")
    /\ UNCHANGED <<mt5, book, hot, cold, active, phase, loops, crashes>>

(* Mutant: the query is awaited without a time limit. *)
QueryPositionsHangs(a) == FALSE /\ UNCHANGED recVars

(* query_positions times out, or the socket is closed. *)
QueryPositionsFails(a) ==
    /\ phase = "reconcile" /\ a \in todo
    /\ ValidSnapshot(a)
    /\ Visited(a, "manual")
    /\ UNCHANGED <<mt5, book, hot, cold, active, phase, loops, crashes>>

Critical(a) ==
    LET snapshot == LoadedSnapshot(a).positions
    IN  HasCritical(MatchPositions(snapshot, mt5[a]), snapshot, mt5[a])

(* _save_reconciled_snapshot: the corrected positions, with a new checksum. *)
SaveReconciled(a) ==
    hot' = [hot EXCEPT ![a] = Snapshot(Reconciled(LoadedSnapshot(a).positions, mt5[a]))]

(* reconcile_account: a critical difference needs a human, who is alerted,    *)
(* and changes nothing; otherwise the corrected positions are saved.          *)
ReconcileAccount(a) ==
    /\ phase = "reconcile" /\ a \in todo
    /\ ValidSnapshot(a)
    /\ IF Critical(a) THEN Visited(a, "manual") /\ UNCHANGED hot
                      ELSE Visited(a, "verified") /\ SaveReconciled(a)
    /\ UNCHANGED <<mt5, book, cold, active, phase, loops, crashes>>

Results == {a \in Accounts : outcome[a] # "none"}
Success(a) == outcome[a] # "manual"

(* Mutant: one verified account is enough. *)
AnySucceeded == Results = {} \/ \E a \in Results : Success(a)

(* all(r.success for r in reconciliation_results.values()) *)
AllSucceeded == \A a \in Results : Success(a)

(* One account that needs a human keeps every account from being resumed; the *)
(* engine then runs without account loops and stays in recovery mode.         *)
EndReconciliation ==
    /\ phase = "reconcile" /\ todo = {}
    /\ phase' = IF AllSucceeded THEN "pnl" ELSE "up"
    /\ todo' = IF AllSucceeded THEN Results ELSE {}
    /\ UNCHANGED <<mt5, book, hot, cold, active, outcome, loops, crashes>>

(* recalculate_daily_pnl and apply_recalculation.  The database may fail,     *)
(* which is only logged; the result is applied to the account's risk manager, *)
(* and at startup the registry has none: either way nothing changes.          *)
RecalculatePnl(a) ==
    /\ phase = "pnl" /\ a \in todo
    /\ todo' = todo \ {a}
    /\ UNCHANGED <<mt5, book, hot, cold, active, phase, outcome, loops, crashes>>

EndRecalculation ==
    /\ phase = "pnl" /\ todo = {}
    /\ phase' = "resume"
    /\ todo' = Results
    /\ UNCHANGED <<mt5, book, hot, cold, active, outcome, loops, crashes>>

(* _should_resume_account: the P&L result is not asked. *)
ShouldResume(a) == a \in active /\ Success(a)

(* _spawn_account_task; an account that was not active is skipped.  The       *)
(* branch that writes "error" for a blocked account is not reached: this      *)
(* phase is entered only when no account is blocked.                          *)
ResumeAccount(a) ==
    /\ phase = "resume" /\ a \in todo
    /\ todo' = todo \ {a}
    /\ loops' = IF ShouldResume(a) THEN loops \cup {a} ELSE loops
    /\ UNCHANGED <<mt5, book, hot, cold, active, phase, outcome, crashes>>

(* _resume_account catches what the spawning raises. *)
ResumeFails(a) ==
    /\ phase = "resume" /\ a \in todo
    /\ ShouldResume(a)
    /\ todo' = todo \ {a}
    /\ UNCHANGED <<mt5, book, hot, cold, active, phase, outcome, loops, crashes>>

(* The notification is sent, best effort, and clear_crash_indicators. *)
EndRecovery ==
    /\ phase = "resume" /\ todo = {}
    /\ phase' = "up"
    /\ UNCHANGED <<mt5, book, hot, cold, active, todo, outcome, loops, crashes>>

-----------------------------------------------------------------------------
(* The engine running, and its surroundings.                               *)

OnePerSymbol(positions) ==
    \A i, j \in 1..Len(positions) : positions[i].sym = positions[j].sym => i = j

(* A trade of the engine: PositionTracker refuses a second position of a      *)
(* symbol.                                                                    *)
Trades(a) ==
    /\ phase = "up"
    /\ \E b \in Books[a] :
        /\ OnePerSymbol(b)
        /\ mt5' = [mt5 EXCEPT ![a] = b]
        /\ book' = [book EXCEPT ![a] = b]
    /\ UNCHANGED <<hot, cold, active, phase, todo, outcome, loops, crashes>>

(* A stop loss, a manual trade: the engine is not told.  One that happens     *)
(* while the engine is up looks to the recovery like one during the outage;   *)
(* after the reconciliation MT5 is not asked again.                           *)
BrokerMoves(a) ==
    /\ phase \in {"down", "reconcile"}
    /\ \E b \in Books[a] : mt5' = [mt5 EXCEPT ![a] = b]
    /\ UNCHANGED <<book, hot, cold, active, phase, todo, outcome, loops, crashes>>

(* SnapshotService._snapshot_all_accounts: what PositionTracker knows, which  *)
(* after a restart is nothing.                                                *)
SnapshotAll ==
    /\ phase = "up"
    /\ hot' = [a \in Accounts |-> IF a \in active THEN Snapshot(book[a]) ELSE hot[a]]
    /\ UNCHANGED <<mt5, book, cold, active, phase, todo, outcome, loops, crashes>>

(* ColdStorageService._snapshot_all_accounts *)
WriteColdSnapshots ==
    /\ phase = "up"
    /\ cold' = [a \in Accounts |-> IF a \in active THEN Snapshot(book[a]) ELSE cold[a]]
    /\ UNCHANGED <<mt5, book, hot, active, phase, todo, outcome, loops, crashes>>

(* The key expires, or its data are damaged. *)
LoseSnapshot(a) ==
    /\ hot[a].checksum = "valid"
    /\ \E s \in {NoSnapshot, Corrupted} : hot' = [hot EXCEPT ![a] = s]
    /\ UNCHANGED <<mt5, book, cold, active, phase, todo, outcome, loops, crashes>>

(* The commands of AccountManager, from another process. *)
ChangeStatus(a) ==
    /\ active' = IF a \in active THEN active \ {a} ELSE active \cup {a}
    /\ UNCHANGED <<mt5, book, hot, cold, phase, todo, outcome, loops, crashes>>

ProcessEnds ==
    /\ phase' = "down"
    /\ todo' = {}
    /\ loops' = {}
    /\ book' = [a \in Accounts |-> <<>>]
    /\ outcome' = [a \in Accounts |-> "none"]
    /\ UNCHANGED <<mt5, cold, active>>

EngineCrash ==
    /\ phase # "down"
    /\ crashes < MaxCrashes
    /\ crashes' = crashes + 1
    /\ ProcessEnds
    /\ UNCHANGED hot

(* A Redis command of the recovery raises: reading a snapshot or a status,    *)
(* alerting, saving.  Nothing catches it; RecoveryOrchestrator.run, run() and *)
(* the process end.  When only the reply of the save is lost, it is saved.    *)
RedisRaises(a) ==
    /\ a \in todo
    /\ \/ UNCHANGED hot
       \/ phase = "reconcile" /\ ValidSnapshot(a) /\ ~Critical(a) /\ SaveReconciled(a)
    /\ ProcessEnds
    /\ UNCHANGED crashes

-----------------------------------------------------------------------------
OwnStep ==
    \/ EndReconciliation \/ EndRecalculation \/ EndRecovery
    \/ \E a \in Accounts :
        \/ SkipReconciliation(a) \/ QueryPositionsFails(a)
        \/ RecalculatePnl(a) \/ ResumeAccount(a) \/ ResumeFails(a)

RecNext ==
    \/ StartRecovery \/ OwnStep
    \/ SnapshotAll \/ WriteColdSnapshots \/ EngineCrash
    \/ \E a \in Accounts :
        \/ ReconcileAccount(a) \/ RedisRaises(a)
        \/ Trades(a) \/ BrokerMoves(a) \/ LoseSnapshot(a) \/ ChangeStatus(a)

(* The recovery is one coroutine of the event loop.  The query of MT5 ends at *)
(* its time limit (QueryPositionsFails), MT5 is not obliged to answer.  Redis *)
(* and the database are: their clients have no time limit (redis_state.py:46).*)
RecFairness == WF_recVars(OwnStep)

RecSpec == RecInit /\ [][RecNext]_recVars /\ RecFairness

-----------------------------------------------------------------------------
Recovering == phase \in {"reconcile", "pnl", "resume"}

SamePosition(p, q) ==
    p.sym = q.sym /\ p.side = q.side /\ Abs(p.vol, q.vol) <= VolumeTolerance

(* The two lists hold the same positions, up to the volume tolerance. *)
SameBook(b, c) ==
    /\ Len(b) = Len(c)
    /\ \E f \in [1..Len(b) -> 1..Len(c)] :
        /\ \A i, j \in 1..Len(b) : f[i] = f[j] => i = j
        /\ \A i \in 1..Len(b) : SamePosition(b[i], c[f[i]])

OnePerSide(positions) ==
    \A i, j \in 1..Len(positions) :
        positions[i].sym = positions[j].sym /\ positions[i].side = positions[j].side => i = j

(* PositionReconciler: when an account counts as reconciled, the snapshot     *)
(* saved for it holds the positions MT5 reported, each once, whatever         *)
(* combination of orphaned, unknown and changed positions was found, and      *)
(* several of a symbol at MT5.  If the snapshot had two positions of one      *)
(* symbol and side, _update_position_volume and _remove_orphan_from_state     *)
(* change both, and positions may be missing or have each other's volume; but *)
(* no position is saved that MT5 does not have.                               *)
SavedMatchesMt5 ==
    [][\A a \in Accounts :
        outcome'[a] = "verified" /\ outcome[a] # "verified" =>
            LET saved == hot'[a].positions
            IN  /\ OnePerSide(LoadedSnapshot(a).positions) => SameBook(saved, mt5[a])
                /\ \A i \in 1..Len(saved) :
                       \E j \in 1..Len(mt5[a]) : SamePosition(saved[i], mt5[a][j])]_recVars

(* RecoveryOrchestrator.run: an account loop runs only after a recovery in    *)
(* which no account was left for a human, and in which the account itself was *)
(* compared with MT5 or had no usable snapshot.                               *)
ResumedTogether ==
    loops # {} =>
        \A a \in Accounts : outcome[a] # "manual" /\ (a \in loops => outcome[a] # "none")

(* Recovery ends, also when MT5 answers nothing: the engine gets to run, or   *)
(* the process is gone because it crashed or a Redis command raised.          *)
RecoveryEnds == Recovering ~> ~Recovering
=============================================================================
