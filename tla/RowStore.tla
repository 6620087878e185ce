------------------------------- MODULE RowStore -------------------------------
(***************************************************************************)
(* What the database writers promise their callers: a row that is handed   *)
(* over is pending until it is stored or, by a failure the writer admits,  *)
(* dropped; nothing is stored that was not handed over, a stored row stays *)
(* and is not written again, unless the answer to its commit was lost:     *)
(* then it is stored and pending.                                          *)
(***************************************************************************)
CONSTANT Rows

VARIABLES pending, stored, dropped

storeVars == <<pending, stored, dropped>>

StoreInit == pending = {} /\ stored = {} /\ dropped = {}

Accept(r) ==
    /\ r \notin pending \cup stored \cup dropped
    /\ pending' = pending \cup {r}
    /\ UNCHANGED <<stored, dropped>>

Commit(batch) ==
    /\ pending' = pending \ batch
    /\ stored' = stored \cup batch
    /\ UNCHANGED dropped

Drop(batch) ==
    /\ pending' = pending \ batch
    /\ dropped' = dropped \cup batch
    /\ UNCHANGED stored

Unanswered(batch, lost) ==
    /\ pending' = pending \ lost
    /\ stored' = stored \cup batch
    /\ dropped' = dropped \cup lost

StoreNext ==
    \/ \E r \in Rows : Accept(r)
    \/ \E batch \in SUBSET pending : Commit(batch) \/ Drop(batch)
    \/ \E batch, lost \in SUBSET pending : Unanswered(batch, lost)

StoreSpec == StoreInit /\ [][StoreNext]_storeVars
=============================================================================
