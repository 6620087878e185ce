--------------------------- MODULE BufferedWriter ---------------------------
(***************************************************************************)
(* The batched database writers TradeDBWriter, AuditDBWriter and           *)
(* ViolationDBWriter, which are one design: a buffer, a lock held only to  *)
(* swap it, and flushes by a timer, by a full batch and by stop.  The      *)
(* insert runs outside the lock, so several flushes may be under way.      *)
(* ViolationDBWriter alone bounds what a failed flush puts back.           *)
(***************************************************************************)
EXTENDS Naturals, Sequences, FiniteSets, SequencesExt

CONSTANTS
    Entries,        \* the rows callers may write, each once
    BatchSize,      \* batch_size
    Keyed,          \* a row keeps its primary key when it is inserted again: the
                    \* trades and violations, while an audit row gets a new one
    MaxBuffer,      \* max_buffer_size, a large number where there is none
    Flushers,       \* bound: flush tasks of full batches at the same time
    MaxFailures     \* bound: inserts that fail

ASSUME WriterBounds == MaxBuffer \in Nat /\ MaxFailures \in Nat
ASSUME FlushersApart == {"timer", "stop", "exit"} \cap Flushers = {}

VARIABLES
    writing,    \* _running
    buffer,
    flush,      \* flush[f]: where flush f is, and the batch it is inserting
    table,      \* the committed rows
    accepted,   \* history: the rows callers have handed over
    gone,       \* history: rows lost, each with the way it was lost
    failures

writerVars == <<writing, buffer, flush, table, accepted, gone, failures>>

(* The flushes: the timer's, stop's, those of full batches and one made by a  *)
(* caller (update_trade_exit).                                                *)
AllFlushers == {"timer", "stop", "exit"} \cup Flushers

None == [at |-> "none", batch |-> <<>>]
Ready == [at |-> "ready", batch |-> <<>>]
Inserting(f) == flush[f].at = "insert"

WriterInit ==
    /\ writing = TRUE
    /\ buffer = <<>>
    /\ flush = [f \in AllFlushers |-> None]
    /\ table = {}
    /\ accepted = {}
    /\ gone = {}
    /\ failures = 0

(* add_entry, add_violation, write_trade_entry: append, and start a flush     *)
(* when the batch is full.  A stopped writer still accepts.                   *)
AddEntry(e) ==
    /\ e \notin accepted
    /\ accepted' = accepted \cup {e}
    /\ buffer' = Append(buffer, e)
    /\ IF Len(buffer') >= BatchSize
       THEN \E f \in Flushers :
                flush[f] = None /\ flush' = [flush EXCEPT ![f] = Ready]
       ELSE flush' = flush
    /\ UNCHANGED <<writing, table, gone, failures>>

(* Mutant: the timer waits for a full batch. *)
TimerFiresWhenFull ==
    /\ writing
    /\ flush["timer"] = None
    /\ Len(buffer) >= BatchSize
    /\ flush' = [flush EXCEPT !["timer"] = Ready]
    /\ UNCHANGED <<writing, buffer, table, accepted, gone, failures>>

(* _flush_timer_loop: the timer flushes when the buffer is not empty. *)
TimerFires ==
    /\ writing
    /\ flush["timer"] = None
    /\ buffer # <<>>
    /\ flush' = [flush EXCEPT !["timer"] = Ready]
    /\ UNCHANGED <<writing, buffer, table, accepted, gone, failures>>

(* _flush_buffer, under the lock: take the whole buffer, or return. *)
TakeBuffer(f) ==
    /\ flush[f] = Ready
    /\ flush' = [flush EXCEPT ![f] = IF buffer = <<>> THEN None
                                        ELSE [at |-> "insert", batch |-> buffer]]
    /\ buffer' = <<>>
    /\ UNCHANGED <<writing, table, accepted, gone, failures>>

(* Rows that were committed without the writer knowing it. *)
Conflicting(f) == Keyed /\ ToSet(flush[f].batch) \cap table # {}

(* _batch_insert commits the batch as one transaction. *)
InsertOk(f) ==
    /\ Inserting(f)
    /\ ~Conflicting(f)
    /\ table' = table \cup ToSet(flush[f].batch)
    /\ flush' = [flush EXCEPT ![f] = None]
    /\ UNCHANGED <<writing, buffer, accepted, gone, failures>>

(* Mutant: the batch of a failed insert replaces the buffer. *)
PutBackOverwrites(batch) == batch

(* A failed batch goes back in front of what came in since. *)
PutBack(batch) == batch \o buffer

(* The newest MaxBuffer entries are kept. *)
Newest(s) == IF Len(s) > MaxBuffer THEN SubSeq(s, Len(s) - MaxBuffer + 1, Len(s)) ELSE s

(* What _flush_buffer does with any exception. *)
Failed(f) ==
    /\ buffer' = Newest(PutBack(flush[f].batch))
    /\ gone' = gone \cup {<<e, "buffer full">> :
                            e \in ToSet(PutBack(flush[f].batch)) \ ToSet(buffer')}
    /\ flush' = [flush EXCEPT ![f] = None]
    /\ UNCHANGED <<writing, accepted>>

(* The database raises: before the commit, or after it, when the answer to    *)
(* the commit is lost.                                                        *)
InsertFails(f) ==
    /\ Inserting(f)
    /\ failures < MaxFailures
    /\ failures' = failures + 1
    /\ Failed(f)
    /\ table' \in {table, table \cup ToSet(flush[f].batch)}

(* A batch with a row that is there already violates the primary key, and is  *)
(* put back again.                                                            *)
InsertConflicts(f) ==
    /\ Inserting(f)
    /\ Conflicting(f)
    /\ Failed(f)
    /\ UNCHANGED <<table, failures>>

(* stop: the timer task is cancelled.  A batch it was inserting is rolled     *)
(* back and, cancellation not being an Exception, is not put back.  Then one  *)
(* last flush.                                                                *)
StopWriter ==
    /\ writing
    /\ writing' = FALSE
    /\ gone' = gone \cup {<<e, "timer cancelled">> : e \in
                            IF Inserting("timer") THEN ToSet(flush["timer"].batch) ELSE {}}
    /\ flush' = [flush EXCEPT !["timer"] = None, !["stop"] = Ready]
    /\ UNCHANGED <<buffer, table, accepted, failures>>

StartWriter ==
    /\ ~writing
    /\ flush["stop"] = None
    /\ writing' = TRUE
    /\ UNCHANGED <<buffer, flush, table, accepted, gone, failures>>

WriterNext ==
    \/ \E e \in Entries : AddEntry(e)
    \/ TimerFires \/ StopWriter \/ StartWriter
    \/ \E f \in AllFlushers :
        TakeBuffer(f) \/ InsertOk(f) \/ InsertFails(f) \/ InsertConflicts(f)

WriterSpec == WriterInit /\ [][WriterNext]_writerVars

(* The event loop runs the flush tasks, and a database call ends. *)
WriterFairness ==
    /\ WF_writerVars(TimerFires)
    /\ \A f \in AllFlushers : WF_writerVars(TakeBuffer(f) \/ InsertOk(f) \/ InsertConflicts(f))

-----------------------------------------------------------------------------
InFlight == UNION {ToSet(flush[f].batch) : f \in AllFlushers}

LostRows == {g[1] : g \in gone}

Store == INSTANCE RowStore WITH
    Rows <- Entries,
    pending <- ToSet(buffer) \cup InFlight,
    stored <- table,
    dropped <- LostRows

(* The writer implements RowStore, however flushes of the timer, of full      *)
(* batches, of callers and of stop cross and fail: a row is lost only by the  *)
(* bound of the violation buffer and by a timer cancelled in mid-insert.      *)
ImplementsStore == Store!StoreSpec

(* A committed row waits to be inserted again, which its key forbids: the     *)
(* writer that puts such a batch back never writes another row.               *)
Clogged == Keyed /\ table \cap (ToSet(buffer) \cup InFlight) # {}

(* While the writer runs and the database answers, every row gets to the      *)
(* table, however flushes cross, unless a lost answer to a commit clogged the *)
(* writer.                                                                    *)
RowsWritten ==
    \A e \in Entries :
        (e \in accepted /\ writing) ~> (e \in table \/ ~writing \/ e \in LostRows \/ Clogged)
=============================================================================
