----------------------------- MODULE AuditQueue -----------------------------
(***************************************************************************)
(* AuditWriter: a bounded asyncio queue, one worker that inserts batches,  *)
(* producers that wait for room (log_async), producers that must not       *)
(* (enqueue_nowait, the regime audit), producers that insert by themselves *)
(* (log_sync), and the drain of stop.                                      *)
(***************************************************************************)
EXTENDS Naturals, Sequences, FiniteSets, SequencesExt

CONSTANTS
    AuditEntries,   \* entries callers may log, each once
    QueueSize,      \* queue_size
    AuditBatch,     \* batch_size
    MaxInsertErrors \* bound

VARIABLES
    audit,      \* where the service is: "off", "on", "draining", "flushing"
    blocked,    \* callers waiting in put for room
    queue,      \* the queue
    unfinished, \* the queue's count of entries without task_done
    batch,      \* _pending_batch: what _collect_batch has so far
    inserting,  \* the batch in _batch_insert
    leftover,   \* _leftover
    worker,     \* the worker task: "none", "collect", "insert"
    audited,    \* the committed rows
    logged,     \* history: entries handed over
    discarded,  \* history: entries the code gave up
    errors

auditVars == <<audit, blocked, queue, unfinished, batch, inserting, leftover, worker,
               audited, logged, discarded, errors>>

AuditInit ==
    /\ audit = "off"
    /\ blocked = {} /\ queue = <<>> /\ unfinished = 0
    /\ batch = <<>> /\ inserting = <<>> /\ leftover = <<>>
    /\ worker = "none"
    /\ audited = {} /\ logged = {} /\ discarded = {}
    /\ errors = 0

Full == Len(queue) >= QueueSize

(* Queue.put_nowait *)
Put(e) ==
    /\ queue' = Append(queue, e)
    /\ unfinished' = unfinished + 1

(* start *)
StartAudit ==
    /\ audit = "off"
    /\ audit' = "on"
    /\ worker' = "collect"
    /\ UNCHANGED <<blocked, queue, unfinished, batch, inserting, leftover, audited, logged,
                   discarded, errors>>

(* log_async: the caller waits while the queue is full. *)
LogAsync(e) ==
    /\ e \notin logged
    /\ logged' = logged \cup {e}
    /\ IF Full THEN blocked' = blocked \cup {e} /\ UNCHANGED <<queue, unfinished>>
               ELSE Put(e) /\ UNCHANGED blocked
    /\ UNCHANGED <<audit, batch, inserting, leftover, worker, audited, discarded, errors>>

(* A waiting caller gets its place. *)
PutBlocked(e) ==
    /\ e \in blocked
    /\ ~Full
    /\ Put(e)
    /\ blocked' = blocked \ {e}
    /\ UNCHANGED <<audit, batch, inserting, leftover, worker, audited, logged, discarded, errors>>

(* enqueue_nowait: QueueFull reaches the caller, which drops the entry. *)
EnqueueNowait(e) ==
    /\ e \notin logged
    /\ logged' = logged \cup {e}
    /\ IF Full THEN discarded' = discarded \cup {e} /\ UNCHANGED <<queue, unfinished>>
               ELSE Put(e) /\ UNCHANGED discarded
    /\ UNCHANGED <<audit, blocked, batch, inserting, leftover, worker, audited, errors>>

(* log_sync: the caller inserts its entry itself, past the queue; a failure   *)
(* is raised to it.                                                           *)
LogSync(e) ==
    /\ e \notin logged
    /\ logged' = logged \cup {e}
    /\ \/ audited' = audited \cup {e} /\ UNCHANGED <<discarded, errors>>
       \/ /\ errors < MaxInsertErrors
          /\ errors' = errors + 1
          /\ discarded' = discarded \cup {e}
          /\ UNCHANGED audited
    /\ UNCHANGED <<audit, blocked, queue, unfinished, batch, inserting, leftover, worker>>

(* AuditService: trades and closed positions are logged in either way. *)
LogTrade(e) == LogAsync(e) \/ LogSync(e)

(* A system event that must outlive the process is persisted before the       *)
(* caller goes on, the others are queued.                                     *)
LogSystemEvent(e) == LogAsync(e) \/ LogSync(e)

(* _build_regime_audit_hook: on_bar must not wait for room. *)
RegimeAuditHook(e) == EnqueueNowait(e)

-----------------------------------------------------------------------------
(* _collect_batch: one more entry. *)
Collect ==
    /\ worker = "collect"
    /\ Len(batch) < AuditBatch
    /\ queue # <<>>
    /\ batch' = Append(batch, Head(queue))
    /\ queue' = Tail(queue)
    /\ UNCHANGED <<audit, blocked, unfinished, inserting, leftover, worker, audited, logged,
                   discarded, errors>>

(* _collect_batch returns a full batch, or what it has at the deadline. *)
BatchReady ==
    /\ worker = "collect"
    /\ batch # <<>>
    /\ worker' = "insert"
    /\ inserting' = batch
    /\ batch' = <<>>
    /\ UNCHANGED <<audit, blocked, queue, unfinished, leftover, audited, logged, discarded, errors>>

(* The finally clause of _worker_loop: task_done for the whole batch. *)
BatchDone ==
    /\ worker' = "collect"
    /\ inserting' = <<>>
    /\ unfinished' = unfinished - Len(inserting)

InsertBatch ==
    /\ worker = "insert"
    /\ BatchDone
    /\ audited' = audited \cup ToSet(inserting)
    /\ UNCHANGED <<audit, blocked, queue, batch, leftover, logged, discarded, errors>>

(* A failed insert is logged and the batch given up. *)
InsertBatchFails ==
    /\ worker = "insert"
    /\ errors < MaxInsertErrors
    /\ errors' = errors + 1
    /\ BatchDone
    /\ discarded' = discarded \cup ToSet(inserting)
    /\ UNCHANGED <<audit, blocked, queue, batch, leftover, audited, logged>>

-----------------------------------------------------------------------------
(* stop: wait until every entry is done, or for _drain_timeout. *)
StopAudit ==
    /\ audit = "on"
    /\ audit' = "draining"
    /\ UNCHANGED <<blocked, queue, unfinished, batch, inserting, leftover, worker, audited,
                   logged, discarded, errors>>

(* The worker is cancelled.  What it has collected goes to _leftover; a batch *)
(* it is inserting is rolled back and lost.                                   *)
CancelWorker ==
    /\ audit' = "flushing"
    /\ worker' = "none"
    /\ leftover' = leftover \o batch
    /\ batch' = <<>>
    /\ inserting' = <<>>
    /\ discarded' = discarded \cup ToSet(inserting)
    /\ unfinished' = unfinished - Len(batch) - Len(inserting)
    /\ UNCHANGED <<blocked, queue, audited, logged, errors>>

Drained ==
    /\ audit = "draining"
    /\ unfinished = 0
    /\ CancelWorker

(* The insert took longer than the drain was given. *)
DrainTimesOut ==
    /\ audit = "draining"
    /\ unfinished # 0
    /\ CancelWorker

(* Mutant of FlushRemaining: what the worker had collected is forgotten. *)
FlushRemainingQueueOnly ==
    /\ audit = "flushing"
    /\ audit' = "off"
    /\ queue' = <<>> /\ leftover' = <<>>
    /\ unfinished' = unfinished - Len(queue)
    /\ audited' = audited \cup ToSet(queue)
    /\ UNCHANGED <<blocked, batch, inserting, worker, logged, discarded, errors>>

(* _flush_remaining: the leftovers and the queue in one last insert. *)
FlushRemaining ==
    /\ audit = "flushing"
    /\ audit' = "off"
    /\ queue' = <<>> /\ leftover' = <<>>
    /\ unfinished' = unfinished - Len(queue)
    /\ audited' = audited \cup ToSet(leftover \o queue)
    /\ UNCHANGED <<blocked, batch, inserting, worker, logged, discarded, errors>>

FlushRemainingFails ==
    /\ audit = "flushing"
    /\ leftover \o queue # <<>>
    /\ errors < MaxInsertErrors
    /\ errors' = errors + 1
    /\ audit' = "off"
    /\ queue' = <<>> /\ leftover' = <<>>
    /\ unfinished' = unfinished - Len(queue)
    /\ discarded' = discarded \cup ToSet(leftover \o queue)
    /\ UNCHANGED <<blocked, batch, inserting, worker, audited, logged>>

Worker == Collect \/ BatchReady \/ InsertBatch

AuditNext ==
    \/ \E e \in AuditEntries : LogTrade(e) \/ LogSystemEvent(e) \/ RegimeAuditHook(e) \/ PutBlocked(e)
    \/ StartAudit \/ StopAudit \/ Drained \/ DrainTimesOut
    \/ FlushRemaining \/ FlushRemainingFails
    \/ Worker \/ InsertBatchFails

AuditSpec == AuditInit /\ [][AuditNext]_auditVars

(* The event loop runs the worker and the producers; a drain has a deadline. *)
AuditFairness ==
    /\ WF_auditVars(Worker)
    /\ WF_auditVars(Drained \/ DrainTimesOut \/ FlushRemaining)
    /\ \A e \in AuditEntries : WF_auditVars(PutBlocked(e))

-----------------------------------------------------------------------------
(* Every entry a caller handed over is waiting for room, queued, with the     *)
(* worker, reclaimed, in the table or given up by one of the failures; and    *)
(* the count the drain waits on is exact, so that a drain that ends in time   *)
(* leaves nothing behind.                                                     *)
AuditAccounted ==
    /\ logged = blocked \cup ToSet(queue \o batch \o inserting \o leftover)
                    \cup audited \cup discarded
    /\ unfinished = Len(queue) + Len(batch) + Len(inserting)
    /\ audited \cap discarded = {}
=============================================================================
