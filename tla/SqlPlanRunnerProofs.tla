------------------------- MODULE SqlPlanRunnerProofs -------------------------
(***************************************************************************)
(* Safety of SqlPlanRunner with the customer barrier, for any number of    *)
(* runs, requests, continuations and faults.                               *)
(***************************************************************************)
EXTENDS SqlPlanRunner, FiniteSetTheorems, TLAPS

\* Program counters at which the thread has a run in hand.
Busy == {"cancel", "lock", "check", "claim", "read", "begin", "running", "zombie",
         "end", "postpone", "release"}

\* From the executor's invocation to the removal of the marker.
Marked == {"running", "zombie", "end"}

\* Program counters that are reached only with the shared lock, and keep it.
Sharing == {"check", "claim", "read", "begin", "running", "end", "postpone", "release"}

HasJob == \A t \in Threads : thread[t].pc \in Busy => \E r \in Runs : thread[t].job = {r}

\* A thread that invoked the executor accounts for the run's uncertain invocation and
\* its marker; once the outcome is written only the marker is left.
Accounted ==
  \A t \in Threads : \A r \in Runs :
    thread[t].pc \in Marked /\ thread[t].job = {r} =>
      /\ r \in unsettled
      /\ inflight[r] = IF thread[t].pc = "end" THEN 0 ELSE 1

\* No two threads account for the same run.
Apart ==
  \A t, u \in Threads :
    thread[t].pc \in Marked /\ thread[u].pc \in Marked /\ thread[t].job = thread[u].job => t = u

Recorded == \A r \in Runs : inflight[r] # 0 => inflight[r] = 1 /\ r \in unsettled

HoldsBarrier == \A t \in Threads : thread[t].pc \in Sharing => t \in barrier

Fenced ==
  /\ mover # "open" => ~enabled
  /\ mover \in {"exclusive", "drained"} => barrier = {}
  /\ mover \in {"drained", "closed"} => unsettled = {}
  /\ mover = "closed" => \A t \in Threads : thread[t].pc = "idle"

IInv == TypeOK /\ HasJob /\ Accounted /\ Apart /\ Recorded /\ HoldsBarrier /\ Fenced

------------------------------------------------------------------------------
(* Types *)

\* A run with no row is a record.
LEMMA AbsentType == AbsentRun \in RunRecords
BY DEF AbsentRun, NoConts, RunRecords, RunStates, ContStates

\* A request that has ended is a thread state.
LEMMA IdleType == IdleThread \in ThreadStates
BY AbsentType DEF IdleThread, ThreadStates, PCs, Modes

\* What start inserts is a record.
LEMMA AcceptedType == ASSUME NEW n \in Nat PROVE AcceptedRun(n) \in RunRecords
BY DEF AcceptedRun, NoConts, RunRecords, RunStates, ContStates

\* Counting a revision keeps the record's type.
LEMMA BumpType == ASSUME NEW rec \in RunRecords PROVE Bump(rec) \in RunRecords
BY DEF Bump, RunRecords

\* So does cancelling it.
LEMMA CancelledType ==
  ASSUME NEW rec \in RunRecords PROVE [rec EXCEPT !.state = "cancelled"] \in RunRecords
BY DEF RunRecords, RunStates

\* Every outcome of an invocation is a record.
LEMMA OutcomesType ==
  ASSUME NEW rec \in RunRecords, NEW answered \in SUBSET Conts,
         NEW out \in Outcomes(rec, answered)
  PROVE  out \in RunRecords
<1>1. \A asked \in SUBSET Conts : ApplyResult(rec, answered, asked) \in RunRecords
  BY DEF ApplyResult, RunRecords, RunStates, ContStates
<1>2. \A a \in RunRecords : [a EXCEPT !.state = "failed"] \in RunRecords
  BY DEF RunRecords, RunStates
<1> QED
  BY <1>1, <1>2 DEF Outcomes

\* A postponed continuation is one of the record's.
LEMMA PostponedType ==
  ASSUME NEW rec \in RunRecords, NEW answered \in SUBSET Conts
  PROVE  Postponed(rec, answered) \in RunRecords
BY DEF Postponed, RunRecords, ContStates

\* The clock of the next insert is a number, since the table is finite.
LEMMA NextCreatedAtType == ASSUME TypeOK PROVE NextCreatedAt(runs) \in Nat
<1>1. DOMAIN runs = Runs
  BY DEF TypeOK
<1>2. IsFiniteSet({r \in DOMAIN runs : runs[r].state # "absent"})
  BY <1>1, RunsAssumption, FS_Subset
<1> QED
  BY <1>2, FS_CardinalityType DEF NextCreatedAt

\* Every action keeps the types; that a settled attempt can be subtracted rests on Accounted.
LEMMA TypeStep == ASSUME CustomerExecutionBarrier, IInv, Next PROVE TypeOK'
<1> USE DEF IInv, TypeOK, ThreadStates, PCs, Modes, identity, locks
<1>1. ASSUME NEW t \in Threads, Request(t) PROVE TypeOK'
  BY <1>1, IdleType DEF Request, At, Goto, Stop, Executing, FirstPC, GiveUp, FreeLocks, Recoverable, InState
<1>2. ASSUME NEW t \in Threads, RecoverNext(t) PROVE TypeOK'
  BY <1>2, IdleType DEF RecoverNext, At, Goto, Stop, Executing, FirstPC, GiveUp, FreeLocks
<1>3. ASSUME NEW t \in Threads, RecoverDone(t) PROVE TypeOK'
  BY <1>3, IdleType DEF RecoverDone, At, Goto, Stop, Executing, FirstPC, GiveUp, FreeLocks
<1>4. ASSUME NEW t \in Threads, ServeStatus(t) PROVE TypeOK'
  BY <1>4, IdleType DEF ServeStatus, At, Goto, Stop, Executing, FirstPC, GiveUp, FreeLocks
<1>5. ASSUME NEW t \in Threads, ServeStart(t) PROVE TypeOK'
  BY <1>5, IdleType DEF ServeStart, At, Goto, Stop, Executing, FirstPC, GiveUp, FreeLocks
<1>6. ASSUME NEW t \in Threads, Insert(t) PROVE TypeOK'
  <2>1. NextCreatedAt(runs) \in Nat
    BY NextCreatedAtType
  <2>2. AcceptedRun(NextCreatedAt(runs)) \in RunRecords
    BY <2>1, AcceptedType
  <2>3. \A r \in Runs : [IdleThread EXCEPT !.pc = FirstPC, !.mode = "background", !.job = {r}]
                          \in ThreadStates
    BY AbsentType DEF IdleThread, FirstPC
  <2> HIDE DEF ThreadStates
  <2> QED
    BY <1>6, <2>2, <2>3, IdleType DEF Insert, Stop
<1>7. ASSUME NEW t \in Threads, ServeCancel(t) PROVE TypeOK'
  BY <1>7, IdleType DEF ServeCancel, At, Goto, Stop, Executing, FirstPC, GiveUp, FreeLocks, InState
<1>8. ASSUME NEW t \in Threads, CancelWrite(t) PROVE TypeOK'
  <2>1. thread[t].record \in RunRecords
    OBVIOUS
  <2>2. CancelledCopy(t) \in RunRecords
    BY <2>1, CancelledType, BumpType DEF CancelledCopy
  <2> QED
    BY <1>8, <2>2, IdleType DEF CancelWrite, Stop
<1>9. ASSUME NEW t \in Threads, ServeResume(t) PROVE TypeOK'
  <2>1. PICK m \in {"submit", "postpone"}, r \in Runs, c \in Conts :
           thread' = [thread EXCEPT ![t].pc = FirstPC, ![t].mode = m,
                                    ![t].job = {r}, ![t].answered = {c}]
    BY <1>9 DEF ServeResume
  <2>2. [thread[t] EXCEPT !.pc = FirstPC, !.mode = m, !.job = {r}, !.answered = {c}]
           \in ThreadStates
    BY DEF FirstPC
  <2>3. thread' = [thread EXCEPT ![t] = [thread[t] EXCEPT !.pc = FirstPC, !.mode = m,
                                                          !.job = {r}, !.answered = {c}]]
    BY <2>1
  <2> HIDE DEF ThreadStates
  <2> QED
    BY <1>9, <2>2, <2>3 DEF ServeResume
<1>10. ASSUME NEW t \in Threads, LockBarrier(t) PROVE TypeOK'
  BY <1>10, IdleType DEF LockBarrier, At, Goto, Stop, Executing, FirstPC, GiveUp, FreeLocks
<1>11. ASSUME NEW t \in Threads, LockTimeout(t) PROVE TypeOK'
  BY <1>11, IdleType DEF LockTimeout, At, Goto, Stop, Executing, FirstPC, GiveUp, FreeLocks
<1>12. ASSUME NEW t \in Threads, CheckEnabled(t) PROVE TypeOK'
  BY <1>12, IdleType DEF CheckEnabled, At, Goto, Stop, Executing, FirstPC, GiveUp, FreeLocks
<1>13. ASSUME NEW t \in Threads, ClaimRun(t) PROVE TypeOK'
  BY <1>13, IdleType DEF ClaimRun, At, Goto, Stop, Executing, FirstPC, GiveUp, FreeLocks
<1>14. ASSUME NEW t \in Threads, ReadAccepted(t) PROVE TypeOK'
  BY <1>14, IdleType DEF ReadAccepted, At, Goto, Stop, Executing, FirstPC, GiveUp, FreeLocks
<1>15. ASSUME NEW t \in Threads, ReadWaiting(t) PROVE TypeOK'
  <2>1. PICK r \in Runs, next \in PCs :
           \/ thread' = [thread EXCEPT ![t].pc = next, ![t].record = runs[r]]
           \/ thread' = [thread EXCEPT ![t].pc = next]
    BY <1>15 DEF ReadWaiting, Goto
  <2> QED
    BY <1>15, <2>1 DEF ReadWaiting
<1>16. ASSUME NEW t \in Threads, BeginExecution(t) PROVE TypeOK'
  BY <1>16, IdleType DEF BeginExecution, At, Goto, Stop, Executing, FirstPC, GiveUp, FreeLocks, MayBegin
<1>17. ASSUME NEW t \in Threads, ReportProgress(t) PROVE TypeOK'
  BY <1>17, BumpType, IdleType DEF ReportProgress, At, Goto, Stop, Executing, FirstPC, GiveUp, FreeLocks
<1>18. ASSUME NEW t \in Threads, SettleAccepted(t) PROVE TypeOK'
  <2>1. PICK r \in Runs : r \in thread[t].job /\ thread[t].job = {r}
    BY <1>18 DEF SettleAccepted, At, HasJob, Busy
  <2>2. inflight[r] = 1
    BY <1>18, <2>1 DEF SettleAccepted, At, Accounted, Marked
  <2>3. \A out \in Outcome(t) : Bump(out) \in RunRecords
    BY OutcomesType, BumpType DEF Outcome
  <2>4. inflight' \in [Runs -> Nat] /\ runs' \in [Runs -> RunRecords]
    BY <1>18, <2>1, <2>2, <2>3 DEF SettleAccepted
  <2>5. PICK pc \in PCs : thread' = [thread EXCEPT ![t].pc = pc]
    BY <1>18 DEF SettleAccepted, Goto
  <2>6. thread' \in [Threads -> ThreadStates]
    BY <2>5
  <2> QED
    BY <1>18, <2>4, <2>6 DEF SettleAccepted
<1>19. ASSUME NEW t \in Threads, SettleWaiting(t) PROVE TypeOK'
  <2>1. PICK r \in Runs : r \in thread[t].job /\ thread[t].job = {r}
    BY <1>19 DEF SettleWaiting, At, HasJob, Busy
  <2>2. inflight[r] = 1
    BY <1>19, <2>1 DEF SettleWaiting, At, Accounted, Marked
  <2>3. \A out \in Outcome(t) : Bump(out) \in RunRecords
    BY OutcomesType, BumpType DEF Outcome
  <2>4. inflight' \in [Runs -> Nat] /\ runs' \in [Runs -> RunRecords]
    BY <1>19, <2>1, <2>2, <2>3 DEF SettleWaiting
  <2>5. PICK pc \in PCs : thread' = [thread EXCEPT ![t].pc = pc]
    BY <1>19 DEF SettleWaiting, Goto
  <2>6. thread' \in [Threads -> ThreadStates]
    BY <2>5
  <2> QED
    BY <1>19, <2>4, <2>6 DEF SettleWaiting
<1>20. ASSUME NEW t \in Threads, EndExecution(t) PROVE TypeOK'
  BY <1>20, IdleType DEF EndExecution, At, Goto, Stop, Executing, FirstPC, GiveUp, FreeLocks, Settled
<1>21. ASSUME NEW t \in Threads, PostponeWrite(t) PROVE TypeOK'
  BY <1>21, BumpType, PostponedType, IdleType DEF PostponeWrite, At, Goto, Stop, Executing, FirstPC, GiveUp, FreeLocks, StillWaiting
<1>22. ASSUME NEW t \in Threads, Release(t) PROVE TypeOK'
  <2>1. [IdleThread EXCEPT !.pc = "recover", !.todo = thread[t].todo] \in ThreadStates
    BY AbsentType DEF IdleThread
  <2> HIDE DEF ThreadStates
  <2> QED
    BY <1>22, <2>1, IdleType DEF Release, Stop, FreeLocks
<1>23. ASSUME NEW t \in Threads, Abort(t) PROVE TypeOK'
  BY <1>23, IdleType DEF Abort, At, Goto, Stop, Executing, FirstPC, GiveUp, FreeLocks
<1>24. ASSUME NEW t \in Threads, Crash(t) PROVE TypeOK'
  BY <1>24, IdleType DEF Crash, At, Goto, Stop, Executing, FirstPC, GiveUp, FreeLocks
<1>25. ASSUME NEW t \in Threads, SessionLost(t) PROVE TypeOK'
  BY <1>25, IdleType DEF SessionLost, At, Goto, Stop, Executing, FirstPC, GiveUp, FreeLocks, WithoutSession
<1>26. ASSUME NEW t \in Threads, ZombieReturns(t) PROVE TypeOK'
  BY <1>26, IdleType DEF ZombieReturns, At, Goto, Stop, Executing, FirstPC, GiveUp, FreeLocks
<1>27. ASSUME MoverPause PROVE TypeOK'
  BY <1>27, IdleType DEF MoverPause, MoverStates, FreeLocks, BarrierBlocked, WithoutSession
<1>28. ASSUME MoverQueue PROVE TypeOK'
  BY <1>28, IdleType DEF MoverQueue, MoverStates, FreeLocks, BarrierBlocked, WithoutSession
<1>29. ASSUME MoverLock PROVE TypeOK'
  BY <1>29, IdleType DEF MoverLock, MoverStates, FreeLocks, BarrierBlocked, WithoutSession
<1>30. ASSUME MoverInspect PROVE TypeOK'
  BY <1>30, IdleType DEF MoverInspect, MoverStates, FreeLocks, BarrierBlocked, WithoutSession
<1>31. ASSUME MoverFails PROVE TypeOK'
  BY <1>31, IdleType DEF MoverFails, MoverStates, FreeLocks, BarrierBlocked, WithoutSession
<1>32. ASSUME MoverClose PROVE TypeOK'
  BY <1>32, IdleType DEF MoverClose, MoverStates, FreeLocks, BarrierBlocked, WithoutSession
<1>33. ASSUME MoverReopen PROVE TypeOK'
  BY <1>33, IdleType DEF MoverReopen, MoverStates, FreeLocks, BarrierBlocked, WithoutSession
<1> QED
  BY <1>1, <1>2, <1>3, <1>4, <1>5, <1>6, <1>7, <1>8, <1>9, <1>10, <1>11, <1>12, <1>13, <1>14, <1>15, <1>16, <1>17, <1>18, <1>19, <1>20, <1>21, <1>22, <1>23, <1>24, <1>25, <1>26, <1>27, <1>28, <1>29, <1>30, <1>31, <1>32, <1>33 DEF Next, Step, Serve, MoverWork

------------------------------------------------------------------------------
(* Attempts, markers and the barrier *)

Rest == HasJob /\ Accounted /\ Apart /\ Recorded /\ HoldsBarrier /\ Fenced

\* A thread with the shared lock moves on without starting or ending an attempt.
LEMMA QuietMove ==
  ASSUME IInv, NEW t \in Threads,
         thread[t].pc \in {"check", "claim", "read", "begin", "postpone"},
         \A u \in Threads \ {t} : thread'[u] = thread[u],
         thread'[t].job = thread[t].job,
         thread'[t].pc \in {"claim", "read", "begin", "postpone", "release", "abort"},
         UNCHANGED <<enabled, unsettled, barrier, mover, inflight>>
  PROVE  Rest'
BY DEF Rest, IInv, HasJob, Accounted, Apart, Recorded, HoldsBarrier, Fenced,
       Busy, Marked, Sharing

\* The executor of run r returns: its outcome is written, or the row refused it.
LEMMA SettleMove ==
  ASSUME IInv, NEW t \in Threads, NEW r \in Runs, thread[t].pc = "running", thread[t].job = {r},
         \A u \in Threads \ {t} : thread'[u] = thread[u],
         thread'[t].job = {r},
         \A s \in Runs \ {r} : inflight'[s] = inflight[s],
         \/ thread'[t].pc = "end" /\ inflight'[r] = 0
         \/ thread'[t].pc \in {"release", "abort"} /\ inflight'[r] = inflight[r],
         UNCHANGED <<enabled, unsettled, barrier, mover>>
  PROVE  Rest'
<1> USE DEF IInv
<1>1. HasJob'
  BY DEF HasJob, Busy
<1>2. \A u \in Threads \ {t} : thread[u].pc \in Marked => thread[u].job # {r}
  BY DEF Apart, Marked
<1>3. Accounted' /\ Apart'
  BY <1>2 DEF Accounted, Apart, Marked
<1>4. Recorded'
  BY DEF Recorded, Accounted, Marked
<1>5. HoldsBarrier' /\ Fenced'
  BY DEF HoldsBarrier, Fenced, Sharing
<1> QED
  BY <1>1, <1>3, <1>4, <1>5 DEF Rest

\* Every action keeps the accounting of attempts, the barrier and the fence.
LEMMA RestStep == ASSUME CustomerExecutionBarrier, IInv, Next PROVE Rest'
<1> USE DEF Rest, IInv, HasJob, Accounted, Apart, Recorded, HoldsBarrier, Fenced,
            Busy, Marked, Sharing, identity, locks
<1>a. /\ thread \in [Threads -> ThreadStates]
      /\ inflight \in [Runs -> Nat]
      /\ runLock \in [Runs -> SUBSET Threads]
  BY DEF TypeOK
<1>b. \A t \in Threads : thread[t].job \subseteq Runs /\ thread[t].todo \subseteq Runs
  BY <1>a DEF ThreadStates
<1>1. ASSUME NEW t \in Threads, Request(t) PROVE Rest'
  BY <1>1, <1>a, <1>b DEF Request, IdleThread, At
<1>2. ASSUME NEW t \in Threads, RecoverNext(t) PROVE Rest'
  BY <1>2, <1>a, <1>b DEF RecoverNext, FirstPC, ThreadStates, At
<1>3. ASSUME NEW t \in Threads, RecoverDone(t) PROVE Rest'
  BY <1>3, <1>a, <1>b DEF RecoverDone, Goto, ThreadStates, At
<1>4. ASSUME NEW t \in Threads, ServeStatus(t) PROVE Rest'
  BY <1>4, <1>a, <1>b DEF ServeStatus, Stop, IdleThread, At
<1>5. ASSUME NEW t \in Threads, ServeStart(t) PROVE Rest'
  BY <1>5, <1>a, <1>b DEF ServeStart, Goto, Stop, IdleThread, ThreadStates, At
<1>6. ASSUME NEW t \in Threads, Insert(t) PROVE Rest'
  <2>1. /\ \A u \in Threads \ {t} : thread'[u] = thread[u]
        /\ \/ thread'[t].pc = "idle"
           \/ thread'[t].pc = "lock" /\ \E r \in Runs : thread'[t].job = {r}
    <3>1. PICK th : /\ \/ th.pc = "idle"
                       \/ th.pc = "lock" /\ \E r \in Runs : th.job = {r}
                    /\ thread' = [thread EXCEPT ![t] = th]
      BY <1>6 DEF Insert, Stop, IdleThread, FirstPC
    <3> QED
      BY <1>a, <3>1
  <2> QED
    BY <1>6, <2>1 DEF Insert, At
<1>7. ASSUME NEW t \in Threads, ServeCancel(t) PROVE Rest'
  BY <1>7, <1>a, <1>b DEF ServeCancel, Stop, IdleThread, ThreadStates, InState, At
<1>8. ASSUME NEW t \in Threads, CancelWrite(t) PROVE Rest'
  BY <1>8, <1>a, <1>b DEF CancelWrite, Stop, IdleThread, At
<1>9. ASSUME NEW t \in Threads, ServeResume(t) PROVE Rest'
  BY <1>9, <1>a, <1>b DEF ServeResume, FirstPC, InState, ThreadStates, At
<1>10. ASSUME NEW t \in Threads, LockBarrier(t) PROVE Rest'
  BY <1>10, <1>a, <1>b DEF LockBarrier, Goto, ThreadStates, BarrierBlocked, At
<1>11. ASSUME NEW t \in Threads, LockTimeout(t) PROVE Rest'
  BY <1>11, <1>a, <1>b DEF LockTimeout, Goto, ThreadStates, At
<1>12. ASSUME NEW t \in Threads, CheckEnabled(t) PROVE Rest'
  <2>1. /\ \A u \in Threads \ {t} : thread'[u] = thread[u]
        /\ thread'[t].job = thread[t].job
        /\ thread'[t].pc \in {"claim", "release", "abort"}
    BY <1>12, <1>a DEF CheckEnabled, ThreadStates, Goto, GiveUp
  <2> HIDE DEF Rest
  <2> QED
    BY <1>12, <2>1, QuietMove DEF CheckEnabled, At
<1>13. ASSUME NEW t \in Threads, ClaimRun(t) PROVE Rest'
  <2>1. /\ \A u \in Threads \ {t} : thread'[u] = thread[u]
        /\ thread'[t].job = thread[t].job
        /\ thread'[t].pc \in {"read", "release", "abort"}
    BY <1>13, <1>a DEF ClaimRun, ThreadStates, Goto, GiveUp
  <2> HIDE DEF Rest
  <2> QED
    BY <1>13, <2>1, QuietMove DEF ClaimRun, At
<1>14. ASSUME NEW t \in Threads, ReadAccepted(t) PROVE Rest'
  <2>1. /\ \A u \in Threads \ {t} : thread'[u] = thread[u]
        /\ thread'[t].job = thread[t].job
        /\ thread'[t].pc \in {"begin", "release"}
    BY <1>14, <1>a DEF ReadAccepted, ThreadStates, Goto, GiveUp
  <2> HIDE DEF Rest
  <2> QED
    BY <1>14, <2>1, QuietMove DEF ReadAccepted, At
<1>15. ASSUME NEW t \in Threads, ReadWaiting(t) PROVE Rest'
  <2>1. /\ \A u \in Threads \ {t} : thread'[u] = thread[u]
        /\ thread'[t].job = thread[t].job
        /\ thread'[t].pc \in {"postpone", "begin", "abort"}
    <3>1. PICK next \in {"postpone", "begin", "abort"} :
             \/ thread' = [thread EXCEPT ![t].pc = next]
             \/ \E rec : thread' = [thread EXCEPT ![t].pc = next, ![t].record = rec]
      BY <1>15 DEF ReadWaiting, Goto
    <3> QED
      BY <1>a, <3>1 DEF ThreadStates
  <2> HIDE DEF Rest
  <2> QED
    BY <1>15, <2>1, QuietMove DEF ReadWaiting, At
<1>16. ASSUME NEW t \in Threads, BeginExecution(t) PROVE Rest'
  <2>1. PICK r \in Runs : thread[t].job = {r}
    BY <1>16 DEF BeginExecution, At
  <2>2. CASE enabled /\ r \notin unsettled
    <3>1. /\ \A u \in Threads \ {t} : thread'[u] = thread[u]
          /\ thread'[t].job = {r} /\ thread'[t].pc = "running"
          /\ unsettled' = unsettled \cup {r}
          /\ inflight[r] = 0 /\ inflight' = [inflight EXCEPT ![r] = 1]
      BY <1>16, <1>a, <2>1, <2>2 DEF BeginExecution, MayBegin, ThreadStates, Goto
    <3>2. \A u \in Threads \ {t} : thread[u].pc \in Marked => thread[u].job # {r}
      BY <2>2
    <3>3. mover = "open" /\ t \in barrier
      BY <1>16, <2>2 DEF BeginExecution, At
    <3> QED
      BY <1>16, <1>a, <3>1, <3>2, <3>3 DEF BeginExecution
  <2>3. CASE ~(enabled /\ r \notin unsettled)
    <3>1. /\ \A u \in Threads \ {t} : thread'[u] = thread[u]
          /\ thread'[t].job = thread[t].job /\ thread'[t].pc = "abort"
          /\ UNCHANGED <<enabled, unsettled, barrier, mover, inflight>>
      BY <1>16, <1>a, <2>1, <2>3 DEF BeginExecution, MayBegin, ThreadStates, Goto
    <3> HIDE DEF Rest
    <3> QED
      BY <1>16, <3>1, QuietMove DEF BeginExecution, At
  <2> QED
    BY <2>2, <2>3
<1>17. ASSUME NEW t \in Threads, ReportProgress(t) PROVE Rest'
  BY <1>17, <1>a, <1>b DEF ReportProgress, ThreadStates, At
<1>18. ASSUME NEW t \in Threads, SettleAccepted(t) PROVE Rest'
  <2>1. PICK r \in Runs : thread[t].job = {r}
    BY <1>18 DEF SettleAccepted, At
  <2>2. inflight[r] = 1
    BY <1>18, <2>1 DEF SettleAccepted, At
  <2>3. /\ \A u \in Threads \ {t} : thread'[u] = thread[u]
        /\ thread'[t].job = {r}
        /\ \/ thread'[t].pc = "end" /\ inflight' = [inflight EXCEPT ![r] = 0]
           \/ thread'[t].pc \in {"release", "abort"} /\ inflight' = inflight
    BY <1>18, <1>a, <2>1, <2>2 DEF SettleAccepted, ThreadStates, Goto
  <2>4. /\ \A s \in Runs \ {r} : inflight'[s] = inflight[s]
        /\ \/ thread'[t].pc = "end" /\ inflight'[r] = 0
           \/ thread'[t].pc \in {"release", "abort"} /\ inflight'[r] = inflight[r]
    BY <1>a, <2>3
  <2> HIDE DEF Rest
  <2> QED
    BY <1>18, <2>1, <2>3, <2>4, SettleMove DEF SettleAccepted, At
<1>19. ASSUME NEW t \in Threads, SettleWaiting(t) PROVE Rest'
  <2>1. PICK r \in Runs : thread[t].job = {r}
    BY <1>19 DEF SettleWaiting, At
  <2>2. inflight[r] = 1
    BY <1>19, <2>1 DEF SettleWaiting, At
  <2>3. /\ \A u \in Threads \ {t} : thread'[u] = thread[u]
        /\ thread'[t].job = {r}
        /\ \/ thread'[t].pc = "end" /\ inflight' = [inflight EXCEPT ![r] = 0]
           \/ thread'[t].pc \in {"release", "abort"} /\ inflight' = inflight
    BY <1>19, <1>a, <2>1, <2>2 DEF SettleWaiting, ThreadStates, Goto
  <2>4. /\ \A s \in Runs \ {r} : inflight'[s] = inflight[s]
        /\ \/ thread'[t].pc = "end" /\ inflight'[r] = 0
           \/ thread'[t].pc \in {"release", "abort"} /\ inflight'[r] = inflight[r]
    BY <1>a, <2>3
  <2> HIDE DEF Rest
  <2> QED
    BY <1>19, <2>1, <2>3, <2>4, SettleMove DEF SettleWaiting, At
<1>20. ASSUME NEW t \in Threads, EndExecution(t) PROVE Rest'
  <2>1. PICK r \in Runs : thread[t].job = {r}
    BY <1>20 DEF EndExecution, At
  <2>2. inflight[r] = 0 /\ t \in barrier
    BY <1>20, <2>1 DEF EndExecution, At
  <2>3. \A u \in Threads \ {t} : thread[u].pc \in Marked => thread[u].job # {r}
    BY <1>20, <2>1 DEF EndExecution, At
  <2>4. /\ \A u \in Threads \ {t} : thread'[u] = thread[u]
        /\ thread'[t].job = {r} /\ thread'[t].pc = "release"
        /\ unsettled' = unsettled \ {r}
    BY <1>20, <1>a, <2>1 DEF EndExecution, Settled, ThreadStates, Goto
  <2>5. HasJob' /\ Accounted' /\ Apart' /\ HoldsBarrier'
    BY <1>20, <2>2, <2>3, <2>4 DEF EndExecution
  <2>6. Recorded' /\ Fenced'
    BY <1>20, <2>2, <2>4 DEF EndExecution, At
  <2> QED
    BY <2>5, <2>6
<1>21. ASSUME NEW t \in Threads, PostponeWrite(t) PROVE Rest'
  <2>1. /\ \A u \in Threads \ {t} : thread'[u] = thread[u]
        /\ thread'[t].job = thread[t].job
        /\ thread'[t].pc \in {"release", "abort"}
    BY <1>21, <1>a DEF PostponeWrite, ThreadStates, Goto, GiveUp
  <2> HIDE DEF Rest
  <2> QED
    BY <1>21, <2>1, QuietMove DEF PostponeWrite, At
<1>22. ASSUME NEW t \in Threads, Release(t) PROVE Rest'
  <2>1. /\ \A u \in Threads \ {t} : thread'[u] = thread[u]
        /\ thread'[t].pc \in {"recover", "idle"}
        /\ barrier' = barrier \ {t}
    <3>1. PICK th : th.pc \in {"recover", "idle"} /\ thread' = [thread EXCEPT ![t] = th]
      <4> DEFINE th1 == [IdleThread EXCEPT !.pc = "recover", !.todo = thread[t].todo]
      <4>1. th1.pc = "recover" /\ IdleThread.pc = "idle"
        BY DEF IdleThread
      <4>2. thread' = [thread EXCEPT ![t] = th1] \/ thread' = [thread EXCEPT ![t] = IdleThread]
        BY <1>22 DEF Release, Stop
      <4> HIDE DEF th1
      <4> QED
        BY <4>1, <4>2
    <3> QED
      BY <1>22, <1>a, <3>1 DEF Release, FreeLocks
  <2> QED
    BY <1>22, <2>1 DEF Release, At
<1>23. ASSUME NEW t \in Threads, Abort(t) PROVE Rest'
  BY <1>23, <1>a, <1>b DEF Abort, Stop, IdleThread, FreeLocks, At
<1>24. ASSUME NEW t \in Threads, Crash(t) PROVE Rest'
  BY <1>24, <1>a, <1>b DEF Crash, Stop, IdleThread, FreeLocks, At
<1>25. ASSUME NEW t \in Threads, SessionLost(t) PROVE Rest'
  BY <1>25, <1>a, <1>b DEF SessionLost, FreeLocks, WithoutSession, IdleThread, ThreadStates, At
<1>26. ASSUME NEW t \in Threads, ZombieReturns(t) PROVE Rest'
  BY <1>26, <1>a, <1>b DEF ZombieReturns, Stop, IdleThread, At
<1>27. ASSUME MoverPause PROVE Rest'
  BY <1>27, <1>a DEF MoverPause
<1>28. ASSUME MoverQueue PROVE Rest'
  BY <1>28, <1>a DEF MoverQueue
<1>29. ASSUME MoverLock PROVE Rest'
  BY <1>29, <1>a DEF MoverLock
<1>30. ASSUME MoverInspect PROVE Rest'
  BY <1>30, <1>a DEF MoverInspect, Drained
<1>31. ASSUME MoverFails PROVE Rest'
  BY <1>31, <1>a DEF MoverFails, BarrierBlocked
<1>32. ASSUME MoverClose PROVE Rest'
  BY <1>32, <1>a DEF MoverClose, FreeLocks, WithoutSession, IdleThread
<1>33. ASSUME MoverReopen PROVE Rest'
  BY <1>33, <1>a DEF MoverReopen
<1> QED
  BY <1>1, <1>2, <1>3, <1>4, <1>5, <1>6, <1>7, <1>8, <1>9, <1>10, <1>11, <1>12, <1>13, <1>14, <1>15, <1>16, <1>17, <1>18, <1>19, <1>20, <1>21, <1>22, <1>23, <1>24, <1>25, <1>26, <1>27, <1>28, <1>29, <1>30, <1>31, <1>32, <1>33 DEF Next, Step, Serve, MoverWork

------------------------------------------------------------------------------
(* Theorems *)

\* IInv is an inductive invariant of the runner composed with the barrier, as index.ts
\* composes it.
THEOREM Invariance == CustomerExecutionBarrier => (Spec => []IInv)
<1> SUFFICES ASSUME CustomerExecutionBarrier PROVE Spec => []IInv
  OBVIOUS
<1>1. Init => IInv
  BY IdleType, AbsentType DEF Init, IInv, TypeOK, HasJob, Accounted, Apart, Recorded, HoldsBarrier,
     Fenced, Busy, Marked, Sharing, IdleThread, MoverStates
<1>2. IInv /\ [Next]_vars => IInv'
  <2>1. ASSUME IInv, Next PROVE IInv'
    BY <2>1, TypeStep, RestStep DEF IInv, Rest
  <2>2. ASSUME IInv, UNCHANGED vars PROVE IInv'
    BY <2>2 DEF vars, IInv, TypeOK, HasJob, Accounted, Apart, Recorded, HoldsBarrier, Fenced
  <2> QED
    BY <2>1, <2>2
<1> QED
  BY <1>1, <1>2, PTL DEF Spec

\* Type correctness of the runner's tables, locks and requests, including that the count
\* of uncertain attempts never goes below zero.
THEOREM TypeCorrectness == CustomerExecutionBarrier => (Spec => []TypeOK)
<1>1. IInv => TypeOK
  BY DEF IInv
<1> QED
  BY <1>1, Invariance, PTL

\* No crash, lost session, recovery or resubmission starts an attempt while an earlier
\* one of the same run is uncertain: beginExecution refuses a marked run.
THEOREM NoDuplicateEffect == CustomerExecutionBarrier => (Spec => []AtMostOneUncertain)
<1>1. IInv => AtMostOneUncertain
  BY DEF IInv, TypeOK, Recorded, AtMostOneUncertain
<1> QED
  BY <1>1, Invariance, PTL

\* An attempt whose outcome is not durable is always in execution_unsettled.
THEOREM EveryEffectRecorded == CustomerExecutionBarrier => (Spec => []UncertainIsRecorded)
<1>1. IInv => UncertainIsRecorded
  BY DEF IInv, TypeOK, Recorded, UncertainIsRecorded
<1> QED
  BY <1>1, Invariance, PTL

\* Executors of the same run exclude each other even after one lost the run's lock.
THEOREM ExecutorExclusion == CustomerExecutionBarrier => (Spec => []OneExecutor)
<1>1. IInv => OneExecutor
  BY DEF IInv, Apart, Marked, OneExecutor
<1> QED
  BY <1>1, Invariance, PTL

\* When stopApplicationAccess has found execution_unsettled empty under the exclusive lock,
\* the copy is quiet and stays so until it is reopened.
THEOREM FenceIsQuiet == CustomerExecutionBarrier => (Spec => []DrainedIsQuiet)
<1>1. IInv => DrainedIsQuiet
  <2> SUFFICES ASSUME IInv, mover \in {"drained", "closed"}
               PROVE  /\ ~enabled /\ unsettled = {}
                      /\ \A r \in Runs : inflight[r] = 0
                      /\ \A t \in Threads : thread[t].pc \notin {"begin", "running", "zombie", "end"}
    BY DEF DrainedIsQuiet
  <2>1. ~enabled /\ unsettled = {}
    BY DEF IInv, Fenced
  <2>2. \A r \in Runs : inflight[r] = 0
    BY <2>1 DEF IInv, Recorded
  <2>3. ASSUME NEW t \in Threads PROVE thread[t].pc \notin {"running", "zombie", "end"}
    BY <2>1, <2>3 DEF IInv, HasJob, Busy, Accounted, Marked
  <2>4. ASSUME NEW t \in Threads PROVE thread[t].pc # "begin"
    BY <2>4 DEF IInv, HoldsBarrier, Sharing, Fenced
  <2> QED
    BY <2>1, <2>2, <2>3, <2>4
<1> QED
  BY <1>1, Invariance, PTL
=============================================================================
