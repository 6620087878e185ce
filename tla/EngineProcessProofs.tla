------------------------ MODULE EngineProcessProofs -------------------------
(***************************************************************************)
(* The process lock is exclusive, for any number of processes, crashes and *)
(* restarts, as long as no process is stalled for longer than the lock's   *)
(* time to live and Redis is not closed before the shutdown sequence.      *)
(***************************************************************************)
EXTENDS EngineProcess, TLAPS

(* The two conditions, as facts for the steps below. *)
Undisturbed == Stalling = {} /\ Sharing = {}

(* Every step keeps the types of the variables. *)
LEMMA TypeStep == TypeOK /\ [Next]_vars => TypeOK'
<1> SUFFICES ASSUME TypeOK, [Next]_vars PROVE TypeOK'
  OBVIOUS
<1> USE NoEngineOutside DEF TypeOK, Places, Startup, Set, Goto, Runs, local, vars
<1>1. ASSUME NEW e \in Engines, ReadFlag(e) PROVE TypeOK'
  BY <1>1 DEF ReadFlag
<1>2. ASSUME NEW e \in Engines, ReadLock(e) PROVE TypeOK'
  BY <1>2 DEF ReadLock
<1>3. ASSUME NEW e \in Engines, RereadFlag(e) PROVE TypeOK'
  BY <1>3 DEF RereadFlag
<1>4. ASSUME NEW e \in Engines, ScanSnapshots(e) PROVE TypeOK'
  BY <1>4 DEF ScanSnapshots
<1>5. ASSUME NEW e \in Engines, AcquireLock(e) PROVE TypeOK'
  BY <1>5 DEF AcquireLock, Starting
<1>6. ASSUME NEW e \in Engines, AcquireFails(e) PROVE TypeOK'
  BY <1>6 DEF AcquireFails, Gone, LastBeat, Starting
<1>7. ASSUME NEW e \in Engines, ClearFlag(e) PROVE TypeOK'
  BY <1>7 DEF ClearFlag
<1>8. ASSUME NEW e \in Engines, Recover(e) PROVE TypeOK'
  BY <1>8 DEF Recover
<1>9. ASSUME NEW e \in Engines, StartLive(e) PROVE TypeOK'
  BY <1>9 DEF StartLive
<1>10. ASSUME NEW e \in Engines, Arm(e) PROVE TypeOK'
  BY <1>10 DEF Arm
<1>11. ASSUME NEW e \in Engines, EndWait(e) PROVE TypeOK'
  BY <1>11 DEF EndWait
<1>12. ASSUME NEW e \in Engines, StopSignals(e) PROVE TypeOK'
  BY <1>12 DEF StopSignals, LastBeat, Starting
<1>13. ASSUME NEW e \in Engines, WaitOrders(e) PROVE TypeOK'
  BY <1>13 DEF WaitOrders
<1>14. ASSUME NEW e \in Engines, PersistState(e) PROVE TypeOK'
  BY <1>14 DEF PersistState
<1>15. ASSUME NEW e \in Engines, EndSequence(e) PROVE TypeOK'
  BY <1>15 DEF EndSequence
<1>16. ASSUME NEW e \in Engines, CloseConnections(e) PROVE TypeOK'
  BY <1>16 DEF CloseConnections
<1>17. ASSUME NEW e \in Engines, Teardown(e) PROVE TypeOK'
  BY <1>17 DEF Teardown, Gone, LastBeat, Starting
<1>18. ASSUME NEW e \in Engines, Launch(e) PROVE TypeOK'
  BY <1>18 DEF Launch
<1>19. ASSUME NEW e \in Engines, LockLost(e) PROVE TypeOK'
  BY <1>19 DEF LockLost
<1>20. ASSUME NEW e \in Engines, StopHeartbeat(e) PROVE TypeOK'
  BY <1>20 DEF StopHeartbeat, LastBeat, Starting
<1>21. ASSUME NEW e \in Engines, SetFlag(e) PROVE TypeOK'
  BY <1>21, ZenonT(60) DEF SetFlag, MayRaise
<1>22. ASSUME NEW e \in Engines, ReleaseLock(e) PROVE TypeOK'
  BY <1>22 DEF ReleaseLock, MayRaise
<1>23. ASSUME NEW e \in Engines, Signal(e) PROVE TypeOK'
  BY <1>23 DEF Signal
<1>24. ASSUME NEW e \in Engines, Shutdown(e) PROVE TypeOK'
  BY <1>24 DEF Shutdown
<1>25. ASSUME NEW e \in Engines, TakeSnapshot(e) PROVE TypeOK'
  BY <1>25 DEF TakeSnapshot
<1>26. ASSUME NEW e \in Engines, Crash(e) PROVE TypeOK'
  BY <1>26 DEF Crash, Gone, LastBeat, Starting
<1>32. ASSUME NEW e \in Engines, StartRaises(e) PROVE TypeOK'
  BY <1>32 DEF StartRaises, Gone, LastBeat, Starting
<1>33. ASSUME NEW e \in Engines, StopNodes(e) PROVE TypeOK'
  BY <1>33 DEF StopNodes
<1>27. ASSUME NEW e \in Engines, Stall(e) \/ Wake(e) PROVE TypeOK'
  BY <1>27 DEF Stall, Wake, LastBeat, Starting
<1>28. ASSUME NEW e \in Engines, RefreshLock(e) PROVE TypeOK'
  BY <1>28 DEF RefreshLock
<1>29. CASE Expire \/ ExpireSnapshots
  BY <1>29 DEF Expire, ExpireSnapshots
<1>30. CASE UNCHANGED vars
  BY <1>30
<1> QED
  BY <1>1, <1>2, <1>3, <1>4, <1>5, <1>6, <1>7, <1>8, <1>9, <1>10, <1>11,
     <1>12, <1>13, <1>14, <1>15, <1>16, <1>17, <1>18, <1>19, <1>20, <1>21,
     <1>22, <1>23, <1>24, <1>25, <1>26, <1>27, <1>28, <1>29, <1>30, <1>32, <1>33 DEF Next,
     RunLoop, Heartbeat, Sequence

(* A process that holds the lock keeps what the lock's life depends on. *)
LEMMA KeptStep == Undisturbed /\ LockInv /\ [Next]_vars => LockKept'
<1> SUFFICES ASSUME Undisturbed, LockInv, [Next]_vars PROVE LockKept'
  OBVIOUS
<1> USE NoEngineOutside DEF Undisturbed, LockInv, TypeOK, LockKept, LockExcludes,
        Holds, Places, Startup, Set, Goto, Runs, local, vars
<1>1. ASSUME NEW e \in Engines, ReadFlag(e) PROVE LockKept'
  BY <1>1 DEF ReadFlag
<1>2. ASSUME NEW e \in Engines, ReadLock(e) PROVE LockKept'
  BY <1>2 DEF ReadLock
<1>3. ASSUME NEW e \in Engines, RereadFlag(e) PROVE LockKept'
  BY <1>3 DEF RereadFlag
<1>4. ASSUME NEW e \in Engines, ScanSnapshots(e) PROVE LockKept'
  BY <1>4 DEF ScanSnapshots
<1>5. ASSUME NEW e \in Engines, AcquireLock(e) PROVE LockKept'
  BY <1>5 DEF AcquireLock, Starting
<1>6. ASSUME NEW e \in Engines, AcquireFails(e) PROVE LockKept'
  BY <1>6 DEF AcquireFails, Gone, LastBeat, Starting
<1>7. ASSUME NEW e \in Engines, ClearFlag(e) PROVE LockKept'
  BY <1>7 DEF ClearFlag
<1>8. ASSUME NEW e \in Engines, Recover(e) PROVE LockKept'
  BY <1>8 DEF Recover
<1>9. ASSUME NEW e \in Engines, StartLive(e) PROVE LockKept'
  BY <1>9 DEF StartLive
<1>10. ASSUME NEW e \in Engines, Arm(e) PROVE LockKept'
  BY <1>10 DEF Arm
<1>11. ASSUME NEW e \in Engines, EndWait(e) PROVE LockKept'
  BY <1>11 DEF EndWait
<1>12. ASSUME NEW e \in Engines, StopSignals(e) PROVE LockKept'
  BY <1>12 DEF StopSignals, LastBeat, Starting
<1>13. ASSUME NEW e \in Engines, WaitOrders(e) PROVE LockKept'
  BY <1>13 DEF WaitOrders
<1>14. ASSUME NEW e \in Engines, PersistState(e) PROVE LockKept'
  BY <1>14 DEF PersistState
<1>15. ASSUME NEW e \in Engines, EndSequence(e) PROVE LockKept'
  BY <1>15 DEF EndSequence
<1>16. ASSUME NEW e \in Engines, CloseConnections(e) PROVE LockKept'
  BY <1>16 DEF CloseConnections
<1>17. ASSUME NEW e \in Engines, Teardown(e) PROVE LockKept'
  BY <1>17 DEF Teardown, Gone, LastBeat, Starting
<1>18. ASSUME NEW e \in Engines, Launch(e) PROVE LockKept'
  BY <1>18 DEF Launch
<1>19. ASSUME NEW e \in Engines, LockLost(e) PROVE LockKept'
  BY <1>19 DEF LockLost
<1>20. ASSUME NEW e \in Engines, StopHeartbeat(e) PROVE LockKept'
  BY <1>20 DEF StopHeartbeat, LastBeat, Starting
<1>21. ASSUME NEW e \in Engines, SetFlag(e) PROVE LockKept'
  BY <1>21 DEF SetFlag, MayRaise
<1>22. ASSUME NEW e \in Engines, ReleaseLock(e) PROVE LockKept'
  BY <1>22 DEF ReleaseLock, MayRaise
<1>23. ASSUME NEW e \in Engines, Signal(e) PROVE LockKept'
  BY <1>23 DEF Signal
<1>24. ASSUME NEW e \in Engines, Shutdown(e) PROVE LockKept'
  BY <1>24 DEF Shutdown
<1>25. ASSUME NEW e \in Engines, TakeSnapshot(e) PROVE LockKept'
  BY <1>25 DEF TakeSnapshot
<1>26. ASSUME NEW e \in Engines, Crash(e) PROVE LockKept'
  BY <1>26 DEF Crash, Gone, LastBeat, Starting
<1>32. ASSUME NEW e \in Engines, StartRaises(e) PROVE LockKept'
  BY <1>32 DEF StartRaises, Gone, LastBeat, Starting
<1>33. ASSUME NEW e \in Engines, StopNodes(e) PROVE LockKept'
  BY <1>33 DEF StopNodes
<1>27. ASSUME NEW e \in Engines, Stall(e) \/ Wake(e) PROVE LockKept'
  BY <1>27 DEF Stall, Wake
<1>28. ASSUME NEW e \in Engines, RefreshLock(e) PROVE LockKept'
  BY <1>28 DEF RefreshLock
<1>29. CASE Expire
  BY <1>29 DEF Expire, KeepsLock
<1>30. CASE ExpireSnapshots
  BY <1>30 DEF ExpireSnapshots
<1>31. CASE UNCHANGED vars
  BY <1>31
<1> QED
  BY <1>1, <1>2, <1>3, <1>4, <1>5, <1>6, <1>7, <1>8, <1>9, <1>10, <1>11,
     <1>12, <1>13, <1>14, <1>15, <1>16, <1>17, <1>18, <1>19, <1>20, <1>21,
     <1>22, <1>23, <1>24, <1>25, <1>26, <1>27, <1>28, <1>29, <1>30, <1>31, <1>32,
     <1>33 DEF Next, RunLoop, Heartbeat, Sequence

(* No step takes the lock from a process that holds it, and the SET NX finds *)
(* no process that counts on the lock. *)
LEMMA ExcludesStep == Undisturbed /\ LockInv /\ [Next]_vars => LockExcludes'
<1> SUFFICES ASSUME Undisturbed, LockInv, [Next]_vars PROVE LockExcludes'
  OBVIOUS
<1> USE NoEngineOutside DEF Undisturbed, LockInv, TypeOK, LockKept, LockExcludes,
        Holds, Places, Startup, Set, Goto, Runs, local, vars
<1>1. ASSUME NEW e \in Engines, ReadFlag(e) PROVE LockExcludes'
  BY <1>1 DEF ReadFlag
<1>2. ASSUME NEW e \in Engines, ReadLock(e) PROVE LockExcludes'
  BY <1>2 DEF ReadLock
<1>3. ASSUME NEW e \in Engines, RereadFlag(e) PROVE LockExcludes'
  BY <1>3 DEF RereadFlag
<1>4. ASSUME NEW e \in Engines, ScanSnapshots(e) PROVE LockExcludes'
  BY <1>4 DEF ScanSnapshots
<1>5. ASSUME NEW e \in Engines, AcquireLock(e) PROVE LockExcludes'
  BY <1>5 DEF AcquireLock, Starting
<1>6. ASSUME NEW e \in Engines, AcquireFails(e) PROVE LockExcludes'
  BY <1>6 DEF AcquireFails, Gone, LastBeat, Starting
<1>7. ASSUME NEW e \in Engines, ClearFlag(e) PROVE LockExcludes'
  BY <1>7 DEF ClearFlag
<1>8. ASSUME NEW e \in Engines, Recover(e) PROVE LockExcludes'
  BY <1>8 DEF Recover
<1>9. ASSUME NEW e \in Engines, StartLive(e) PROVE LockExcludes'
  BY <1>9 DEF StartLive
<1>10. ASSUME NEW e \in Engines, Arm(e) PROVE LockExcludes'
  BY <1>10 DEF Arm
<1>11. ASSUME NEW e \in Engines, EndWait(e) PROVE LockExcludes'
  BY <1>11 DEF EndWait
<1>12. ASSUME NEW e \in Engines, StopSignals(e) PROVE LockExcludes'
  BY <1>12 DEF StopSignals, LastBeat, Starting
<1>13. ASSUME NEW e \in Engines, WaitOrders(e) PROVE LockExcludes'
  BY <1>13 DEF WaitOrders
<1>14. ASSUME NEW e \in Engines, PersistState(e) PROVE LockExcludes'
  BY <1>14 DEF PersistState
<1>15. ASSUME NEW e \in Engines, EndSequence(e) PROVE LockExcludes'
  BY <1>15 DEF EndSequence
<1>16. ASSUME NEW e \in Engines, CloseConnections(e) PROVE LockExcludes'
  BY <1>16 DEF CloseConnections
<1>17. ASSUME NEW e \in Engines, Teardown(e) PROVE LockExcludes'
  BY <1>17 DEF Teardown, Gone, LastBeat, Starting
<1>18. ASSUME NEW e \in Engines, Launch(e) PROVE LockExcludes'
  BY <1>18 DEF Launch
<1>19. ASSUME NEW e \in Engines, LockLost(e) PROVE LockExcludes'
  BY <1>19 DEF LockLost
<1>20. ASSUME NEW e \in Engines, StopHeartbeat(e) PROVE LockExcludes'
  BY <1>20 DEF StopHeartbeat, LastBeat, Starting
<1>21. ASSUME NEW e \in Engines, SetFlag(e) PROVE LockExcludes'
  BY <1>21 DEF SetFlag, MayRaise
<1>22. ASSUME NEW e \in Engines, ReleaseLock(e) PROVE LockExcludes'
  BY <1>22 DEF ReleaseLock, MayRaise
<1>23. ASSUME NEW e \in Engines, Signal(e) PROVE LockExcludes'
  BY <1>23 DEF Signal
<1>24. ASSUME NEW e \in Engines, Shutdown(e) PROVE LockExcludes'
  BY <1>24 DEF Shutdown
<1>25. ASSUME NEW e \in Engines, TakeSnapshot(e) PROVE LockExcludes'
  BY <1>25 DEF TakeSnapshot
<1>26. ASSUME NEW e \in Engines, Crash(e) PROVE LockExcludes'
  BY <1>26 DEF Crash, Gone, LastBeat, Starting
<1>32. ASSUME NEW e \in Engines, StartRaises(e) PROVE LockExcludes'
  BY <1>32 DEF StartRaises, Gone, LastBeat, Starting
<1>33. ASSUME NEW e \in Engines, StopNodes(e) PROVE LockExcludes'
  BY <1>33 DEF StopNodes
<1>27. ASSUME NEW e \in Engines, Stall(e) \/ Wake(e) PROVE LockExcludes'
  BY <1>27 DEF Stall, Wake
<1>28. ASSUME NEW e \in Engines, RefreshLock(e) PROVE LockExcludes'
  BY <1>28 DEF RefreshLock
<1>29. CASE Expire
  BY <1>29 DEF Expire, KeepsLock
<1>30. CASE ExpireSnapshots
  BY <1>30 DEF ExpireSnapshots
<1>31. CASE UNCHANGED vars
  BY <1>31, SMTT(40)
<1> QED
  BY <1>1, <1>2, <1>3, <1>4, <1>5, <1>6, <1>7, <1>8, <1>9, <1>10, <1>11,
     <1>12, <1>13, <1>14, <1>15, <1>16, <1>17, <1>18, <1>19, <1>20, <1>21,
     <1>22, <1>23, <1>24, <1>25, <1>26, <1>27, <1>28, <1>29, <1>30, <1>31, <1>32,
     <1>33 DEF Next, RunLoop, Heartbeat, Sequence

(* A startup that saw the flag keeps being outlived by the lock until it has *)
(* ended, and the flag is set before the lock is released. *)
LEMMA NoticeStep ==
    Undisturbed /\ LockInv /\ NoticeInv /\ [Next]_vars => NoticeInv'
<1> SUFFICES ASSUME Undisturbed, LockInv, NoticeInv, [Next]_vars
             PROVE NoticeInv'
  OBVIOUS
<1> USE NoEngineOutside DEF Undisturbed, LockInv, TypeOK, LockKept, LockExcludes,
        NoticeInv, Trading, FlagRead, Holds, Places, Startup, Set, Goto, Runs,
        local, vars
<1>1. ASSUME NEW e \in Engines, ReadFlag(e) PROVE NoticeInv'
  BY <1>1 DEF ReadFlag
<1>2. ASSUME NEW e \in Engines, ReadLock(e) PROVE NoticeInv'
  BY <1>2 DEF ReadLock
<1>3. ASSUME NEW e \in Engines, RereadFlag(e) PROVE NoticeInv'
  BY <1>3 DEF RereadFlag
<1>4. ASSUME NEW e \in Engines, ScanSnapshots(e) PROVE NoticeInv'
  BY <1>4 DEF ScanSnapshots
<1>5. ASSUME NEW e \in Engines, AcquireLock(e) PROVE NoticeInv'
  BY <1>5 DEF AcquireLock, Starting
<1>6. ASSUME NEW e \in Engines, AcquireFails(e) PROVE NoticeInv'
  BY <1>6 DEF AcquireFails, Gone, LastBeat, Starting
<1>7. ASSUME NEW e \in Engines, ClearFlag(e) PROVE NoticeInv'
  BY <1>7 DEF ClearFlag
<1>8. ASSUME NEW e \in Engines, Recover(e) PROVE NoticeInv'
  BY <1>8 DEF Recover
<1>9. ASSUME NEW e \in Engines, StartLive(e) PROVE NoticeInv'
  BY <1>9 DEF StartLive
<1>10. ASSUME NEW e \in Engines, Arm(e) PROVE NoticeInv'
  BY <1>10 DEF Arm
<1>11. ASSUME NEW e \in Engines, EndWait(e) PROVE NoticeInv'
  BY <1>11 DEF EndWait
<1>12. ASSUME NEW e \in Engines, StopSignals(e) PROVE NoticeInv'
  BY <1>12 DEF StopSignals, LastBeat, Starting
<1>13. ASSUME NEW e \in Engines, WaitOrders(e) PROVE NoticeInv'
  BY <1>13 DEF WaitOrders
<1>14. ASSUME NEW e \in Engines, PersistState(e) PROVE NoticeInv'
  BY <1>14 DEF PersistState
<1>15. ASSUME NEW e \in Engines, EndSequence(e) PROVE NoticeInv'
  BY <1>15 DEF EndSequence
<1>16. ASSUME NEW e \in Engines, CloseConnections(e) PROVE NoticeInv'
  BY <1>16 DEF CloseConnections
<1>17. ASSUME NEW e \in Engines, Teardown(e) PROVE NoticeInv'
  BY <1>17 DEF Teardown, Gone, LastBeat, Starting
<1>18. ASSUME NEW e \in Engines, Launch(e) PROVE NoticeInv'
  BY <1>18 DEF Launch
<1>19. ASSUME NEW e \in Engines, LockLost(e) PROVE NoticeInv'
  BY <1>19 DEF LockLost
<1>20. ASSUME NEW e \in Engines, StopHeartbeat(e) PROVE NoticeInv'
  BY <1>20 DEF StopHeartbeat, LastBeat, Starting
<1>21. ASSUME NEW e \in Engines, SetFlag(e) PROVE NoticeInv'
  BY <1>21 DEF SetFlag, MayRaise
<1>22. ASSUME NEW e \in Engines, ReleaseLock(e) PROVE NoticeInv'
  BY <1>22 DEF ReleaseLock, MayRaise
<1>23. ASSUME NEW e \in Engines, Signal(e) PROVE NoticeInv'
  BY <1>23 DEF Signal
<1>24. ASSUME NEW e \in Engines, Shutdown(e) PROVE NoticeInv'
  BY <1>24 DEF Shutdown
<1>25. ASSUME NEW e \in Engines, TakeSnapshot(e) PROVE NoticeInv'
  BY <1>25 DEF TakeSnapshot
<1>26. ASSUME NEW e \in Engines, Crash(e) PROVE NoticeInv'
  BY <1>26 DEF Crash, Gone, LastBeat, Starting
<1>32. ASSUME NEW e \in Engines, StartRaises(e) PROVE NoticeInv'
  BY <1>32 DEF StartRaises, Gone, LastBeat, Starting
<1>33. ASSUME NEW e \in Engines, StopNodes(e) PROVE NoticeInv'
  BY <1>33 DEF StopNodes
<1>27. ASSUME NEW e \in Engines, Stall(e) \/ Wake(e) PROVE NoticeInv'
  BY <1>27 DEF Stall, Wake
<1>28. ASSUME NEW e \in Engines, RefreshLock(e) PROVE NoticeInv'
  BY <1>28 DEF RefreshLock
<1>29. CASE Expire
  BY <1>29 DEF Expire, KeepsLock
<1>30. CASE ExpireSnapshots
  BY <1>30 DEF ExpireSnapshots
<1>31. CASE UNCHANGED vars
  BY <1>31
<1> QED
  BY <1>1, <1>2, <1>3, <1>4, <1>5, <1>6, <1>7, <1>8, <1>9, <1>10, <1>11,
     <1>12, <1>13, <1>14, <1>15, <1>16, <1>17, <1>18, <1>19, <1>20, <1>21,
     <1>22, <1>23, <1>24, <1>25, <1>26, <1>27, <1>28, <1>29, <1>30, <1>31, <1>32,
     <1>33 DEF Next, RunLoop, Heartbeat, Sequence

(* The initial state satisfies the invariant. *)
LEMMA LockInit == Init => LockInv
<1> SUFFICES ASSUME Init PROVE LockInv
  OBVIOUS
<1>1. TypeOK
  BY DEF Init, Off, TypeOK, Places, Startup
<1>2. \A e \in Engines : pc[e] = "off" /\ stalled[e] = "no" /\ seq[e] = "none"
  BY DEF Init, Off
<1>3. LockKept /\ LockExcludes
  BY <1>2 DEF LockKept, LockExcludes, Holds, Startup
<1> QED
  BY <1>1, <1>3 DEF LockInv

(* The inductive invariant of the process lock: heartbeats, young startups    *)
(* and young shutdown sequences keep the key alive for whoever set it.        *)
THEOREM LockInvariant == ASSUME Undisturbed PROVE Spec => []LockInv
<1>1. LockInv /\ [Next]_vars => LockInv'
  BY TypeStep, KeptStep, ExcludesStep DEF LockInv
<1> QED
  BY LockInit, <1>1, PTL DEF Spec

(* CrashRecoveryManager.acquire_process_lock "prevents multiple engine        *)
(* instances from running simultaneously": between its SET NX and its DEL the *)
(* lock key is the process's own, through crashes and restarts of any number  *)
(* of instances.                                                              *)
THEOREM LockExclusive == ASSUME Undisturbed PROVE Spec => []LockExcludes
<1>1. LockInv => LockExcludes
  BY DEF LockInv
<1> QED
  BY LockInvariant, <1>1, PTL

(* A crash cannot be missed by its first indicator: a process that has the    *)
(* lock and is about to trade has seen the clean-shutdown flag missing if the *)
(* last process that traded did not set it, although check_crash_indicators   *)
(* reads the flag before acquire_process_lock.                                *)
THEOREM CrashNotMissed == ASSUME Undisturbed PROVE Spec => []CrashNoticed
<1>1. Init => NoticeInv
  BY DEF Init, Off, NoticeInv, FlagRead
<1>2. LockInv /\ NoticeInv /\ [Next]_vars => NoticeInv'
  BY NoticeStep
<1>3. NoticeInv => CrashNoticed
  BY DEF NoticeInv, CrashNoticed
<1> QED
  BY LockInvariant, <1>1, <1>2, <1>3, PTL DEF Spec

=============================================================================
