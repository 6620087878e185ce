--------------------------- MODULE DailySnapshots ---------------------------
(***************************************************************************)
(* The trading day: the session clock (config/session_clock), the daily    *)
(* snapshots DailySnapshotService takes at every account's reset, and the  *)
(* day DailyPnLRecalculator sums up after a crash.                         *)
(*                                                                         *)
(* Time is counted in hours of UTC, a day has DayLength of them.  A        *)
(* session has a time zone, its offset and the local hour of its reset;    *)
(* changes of the offset (daylight saving) are left out.  A snapshot is    *)
(* reduced to the account, the date and the number of trades it counts.    *)
(***************************************************************************)
EXTENDS Integers, FiniteSets

CONSTANTS
    DayAccounts,
    SessionOf,      \* the session of the account's firm, [tz, offset, reset]
    DefaultSession, \* the service's own session
    DayLength,
    Horizon,        \* bound: the last hour
    MaxTrades       \* bound

ASSUME DayBounds == DayLength \in Nat \ {0}
Sessions == {SessionOf[a] : a \in DayAccounts} \cup {DefaultSession}

ASSUME SessionsKnown ==
    \A s \in Sessions : s.offset \in Int /\ s.reset \in 0..(DayLength - 1)

VARIABLES
    clock,
    taking,     \* _running of the service
    schedule,   \* its tasks: [session, target], target the reset it sleeps until
    members,    \* the active accounts
    entries,    \* the trades table: [account, entry]
    rows,       \* account_snapshots: [account, date, trades]
    lost,       \* <<account, date>>: the collection or the write failed
    noticed,    \* history: accounts active at the start or at a reset since
    owed        \* history: <<account, date>> a snapshot is expected of

dayVars == <<clock, taking, schedule, members, entries, rows, lost, noticed, owed>>

DayInit ==
    /\ clock = DayLength
    /\ taking = FALSE
    /\ schedule = {}
    /\ members \in SUBSET DayAccounts
    /\ entries = {} /\ rows = {} /\ lost = {}
    /\ noticed = {} /\ owed = {}

-----------------------------------------------------------------------------
(* The session clock.                                                      *)

LocalDate(session, t) == (t + session.offset) \div DayLength

(* The reset on the local date of t. *)
ResetOn(session, date) == date * DayLength + session.reset - session.offset

NextResetAt(session, t) ==
    LET candidate == ResetOn(session, LocalDate(session, t))
    IN  IF candidate <= t THEN candidate + DayLength ELSE candidate

PreviousResetAt(session, t) ==
    LET candidate == ResetOn(session, LocalDate(session, t))
    IN  IF candidate > t THEN candidate - DayLength ELSE candidate

(* _snapshot_date_for_target: the local date just before the reset. *)
SnapshotDate(session, target) == LocalDate(session, target - 1)

(* _query_window_for_date: the day that begins at the reset on that date.     *)
(* With a reset at midnight this is the day that ends at the target;          *)
(* otherwise it is the one that begins there.                                 *)
QueryWindow(session, date) ==
    ResetOn(session, date) .. (ResetOn(session, date) + DayLength - 1)

(* _query_daily_trade_stats *)
TradeStats(a, window) == Cardinality({e \in entries : e.account = a /\ e.entry \in window})

(* recalculate_daily_pnl: the trades since the previous reset. *)
RecalculatedTrades(a, t) ==
    Cardinality({e \in entries : e.account = a /\ e.entry >= PreviousResetAt(SessionOf[a], t)})

-----------------------------------------------------------------------------
(* DailySnapshotService.                                                   *)

Task(session) == [session |-> session, target |-> NextResetAt(session, clock)]

(* _group_accounts_by_session *)
ActiveSessions == {SessionOf[a] : a \in members}

(* start: one task per session, or one of the default session that is there   *)
(* for the accounts to come.                                                  *)
StartDaily ==
    /\ ~taking
    /\ taking' = TRUE
    /\ schedule' = {Task(s) : s \in IF members = {} THEN {DefaultSession}
                                                   ELSE ActiveSessions}
    /\ noticed' = members
    /\ UNCHANGED <<clock, members, entries, rows, lost, owed>>

(* stop: the tasks are cancelled and awaited; a snapshot that was due is not  *)
(* taken.                                                                     *)
StopDaily ==
    /\ taking
    /\ taking' = FALSE
    /\ schedule' = {}
    /\ noticed' = {}
    /\ owed' = {o \in owed : \E r \in rows : r.account = o[1] /\ r.date = o[2]}
    /\ UNCHANGED <<clock, members, entries, rows, lost>>

(* Mutant of EnsureSessionTasks: only the sessions of the start have a task. *)
NoNewSessionTasks(tasks) == {}

(* _ensure_session_tasks: a session gets a task unless one runs under its     *)
(* name, which is made of the time zone alone.                                *)
EnsureSessionTasks(tasks) ==
    {Task(s) : s \in {z \in ActiveSessions : \A t \in tasks : t.session.tz # z.tz}}

(* _take_snapshots_for_session and the upsert of write_snapshot.  A failure   *)
(* of one account is logged and the next one is taken.                        *)
TakeSnapshots(task, failing) ==
    LET date == SnapshotDate(task.session, task.target)
        accounts == {a \in members : SessionOf[a] = task.session}
        written == accounts \ failing
    IN  /\ rows' = {r \in rows : ~(r.account \in written /\ r.date = date)} \cup
                   {[account |-> a, date |-> date,
                     trades |-> TradeStats(a, QueryWindow(task.session, date))] : a \in written}
        /\ lost' = lost \cup {<<a, date>> : a \in accounts \cap failing}

Due == {t \in schedule : t.target <= clock}

(* The loop of a session wakes at its reset, never before it, and starts over. *)
SchedulerLoop(task) ==
    LET others == schedule \ {task}
    IN  /\ task \in Due
        /\ schedule' = others \cup EnsureSessionTasks(schedule) \cup {Task(task.session)}
        /\ \E failing \in SUBSET members : TakeSnapshots(task, failing)
        /\ noticed' = noticed \cup members
        /\ UNCHANGED <<clock, taking, members, entries, owed>>

-----------------------------------------------------------------------------
(* Surroundings.                                                           *)

(* Two sessions of one time zone share a task name. *)
SharesZone(a) ==
    \E s \in Sessions : s # SessionOf[a] /\ s.tz = SessionOf[a].tz

(* Time passes; the loops wake on time.  Every account noticed before is owed *)
(* a snapshot at its reset.                                                   *)
TickHour ==
    /\ clock < Horizon
    /\ Due = {}
    /\ clock' = clock + 1
    /\ owed' = owed \cup
        {<<a, SnapshotDate(SessionOf[a], clock')>> : a \in
            {b \in noticed \cap members :
                ~SharesZone(b) /\ PreviousResetAt(SessionOf[b], clock') = clock'}}
    /\ UNCHANGED <<taking, schedule, members, entries, rows, lost, noticed>>

EnterTrade(a) ==
    /\ Cardinality(entries) < MaxTrades
    /\ entries' = entries \cup {[account |-> a, entry |-> clock]}
    /\ UNCHANGED <<clock, taking, schedule, members, rows, lost, noticed, owed>>

Activate(a) ==
    /\ a \notin members
    /\ members' = members \cup {a}
    /\ UNCHANGED <<clock, taking, schedule, entries, rows, lost, noticed, owed>>

(* An account that is deactivated at its reset gets no snapshot. *)
Deactivate(a) ==
    /\ a \in members
    /\ Due = {}
    /\ members' = members \ {a}
    /\ noticed' = noticed \ {a}
    /\ UNCHANGED <<clock, taking, schedule, entries, rows, lost, owed>>

DayNext ==
    \/ StartDaily \/ StopDaily \/ TickHour
    \/ \E t \in schedule : SchedulerLoop(t)
    \/ \E a \in DayAccounts : EnterTrade(a) \/ Activate(a) \/ Deactivate(a)

DaySpec == DayInit /\ [][DayNext]_dayVars

-----------------------------------------------------------------------------
AtMidnight(a) == SessionOf[a].reset = 0

(* Every account is served at every reset, also one added while the service   *)
(* runs, unless its time zone is shared by another session: its row is        *)
(* written or the failure is logged.                                          *)
AllServed ==
    Due = {} => \A o \in owed : o \in lost \/ \E r \in rows : r.account = o[1] /\ r.date = o[2]

(* A row counts the trades of the day that ended, and each trade is in the    *)
(* row of one day (resets at midnight only, see QueryWindow).                 *)
RowsCountTheirDay ==
    \A r \in rows : AtMidnight(r.account) =>
        r.trades = Cardinality({e \in entries :
            e.account = r.account /\ LocalDate(SessionOf[r.account], e.entry) = r.date})

(* The day the recalculation sums is the day the next snapshot will cover. *)
RecalculationAgrees ==
    \A a \in DayAccounts : AtMidnight(a) =>
        LET session == SessionOf[a]
        IN  RecalculatedTrades(a, clock) =
                TradeStats(a, QueryWindow(session, SnapshotDate(session, NextResetAt(session, clock))))

(* The trading days of snapshots, trades and recalculation agree, and no      *)
(* account is left out.                                                       *)
DaysRecorded == AllServed /\ RowsCountTheirDay /\ RecalculationAgrees
=============================================================================
