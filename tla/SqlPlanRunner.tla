---------------------------- MODULE SqlPlanRunner ----------------------------
(***************************************************************************)
(* SqlPlanRunner (services/actor-runner/src/sql-runner.ts) over one        *)
(* customer database, driven by the request handler (handler.ts, index.ts) *)
(* and paused by the movement controller (platform-provisioner,            *)
(* movement-postgres.ts stopApplicationAccess).                            *)
(*                                                                         *)
(* A thread is one admitted HTTP request, on any replica of the service.   *)
(* Every request first recovers accepted runs, then serves its command;    *)
(* start continues as the background execution it queues.  One step is one *)
(* SQL statement, since nothing else is shared between threads.  A run is  *)
(* identified with its (subject, idempotency key), which the table keeps   *)
(* unique.                                                                 *)
(*                                                                         *)
(* inflight is a ghost: per run, the executor invocations that started and *)
(* whose outcome is not durable.  It is not part of the program.           *)
(***************************************************************************)
EXTENDS RunRecord

CONSTANTS
  Runs,                      \* run ids (idempotency keys)
  Threads,                   \* concurrent requests
  Commands,                  \* the commands clients send
  Faults,                    \* the faults the environment may inject
  CustomerExecutionBarrier,  \* constructor argument; TRUE in index.ts
  MaxRevision,               \* bound: runs below it are resumed and report progress
  MaxFaults                  \* bound: faults in a behaviour

ASSUME RunsAssumption == IsFiniteSet(Runs)
ASSUME CommandsAssumption == Commands \subseteq {"start", "status", "cancel", "submit", "postpone"}
ASSUME FaultsAssumption ==
  Faults \subseteq {"crash", "crash_executing", "session_lost", "movement"}
ASSUME BarrierAssumption == CustomerExecutionBarrier \in BOOLEAN
ASSUME BoundsAssumption == MaxRevision \in Nat /\ MaxFaults \in Nat

VARIABLES
  runs,        \* table aven_actor_runs.runs
  enabled,     \* environment_identity.execution_enabled
  unsettled,   \* environment_identity.execution_unsettled
  runLock,     \* per run, the holders of its session advisory lock
  barrier,     \* holders of the shared lock 'aven-customer-execution'
  mover,       \* where the movement controller is
  thread,      \* per thread, its program counter and locals
  inflight,    \* ghost
  faults       \* faults so far

vars == <<runs, enabled, unsettled, runLock, barrier, mover, thread, inflight, faults>>
identity == <<enabled, unsettled>>
locks    == <<runLock, barrier>>

\* "zombie": the executor still runs in the process, but its database session is gone.
PCs == {"idle", "recover", "serve", "insert", "cancel",
        "lock", "check", "claim", "read", "begin", "running", "zombie", "end",
        "postpone", "release", "abort"}

\* recovery and background are execute(); submit and postpone are resume().
Modes == {"recovery", "background", "submit", "postpone"}

ThreadStates == [pc       : PCs,
                 mode     : Modes,
                 todo     : SUBSET Runs,     \* recoverAcceptedRuns' remaining ids
                 job      : SUBSET Runs,     \* the run in hand, none or one
                 answered : SUBSET Conts,    \* the continuation submitted, none or one
                 record   : RunRecords]      \* the thread's copy of the record

IdleThread == [pc |-> "idle", mode |-> "recovery", todo |-> {}, job |-> {},
               answered |-> {}, record |-> AbsentRun]

\* stopApplicationAccess: "open" before it; "paused" has cleared execution_enabled;
\* "queued" waits for the exclusive lock and "exclusive" holds it; "drained" has found
\* execution_unsettled empty; "closed" has taken away logins and sessions.
MoverStates == {"open", "paused", "queued", "exclusive", "drained", "closed"}

Init ==
  /\ runs = [r \in Runs |-> AbsentRun]
  /\ enabled = TRUE
  /\ unsettled = {}
  /\ runLock = [r \in Runs |-> {}]
  /\ barrier = {}
  /\ mover = "open"
  /\ thread = [t \in Threads |-> IdleThread]
  /\ inflight = [r \in Runs |-> 0]
  /\ faults = 0

------------------------------------------------------------------------------
(* Helpers *)

InState(s) == {r \in Runs : runs[r].state = s}

At(t, pc) == thread[t].pc = pc

Goto(t, pc) == thread' = [thread EXCEPT ![t].pc = pc]

Stop(t) == thread' = [thread EXCEPT ![t] = IdleThread]

Executing(t) == thread[t].mode \in {"recovery", "background"}

\* execute() and resume() take the barrier only when they are given one.
FirstPC == IF CustomerExecutionBarrier THEN "lock" ELSE "claim"

\* A shared request waits for an exclusive holder, and behind an exclusive waiter.
BarrierBlocked == mover \in {"queued", "exclusive", "drained"}

\* execute() gives up by returning false; resume() throws.
GiveUp(t) == Goto(t, IF Executing(t) THEN "release" ELSE "abort")

\* pg frees the session's advisory locks when the session ends.
FreeLocks(ts) ==
  /\ runLock' = [r \in Runs |-> runLock[r] \ ts]
  /\ barrier' = barrier \ ts

------------------------------------------------------------------------------
(* A request: handler.ts, index.ts forGrant *)

\* SELECT id ... WHERE state='accepted'.
Recoverable_WrongState == InState("planning")
Recoverable == InState("accepted")

\* forGrant builds a runner, and recoverAcceptedRuns lists the accepted rows.
Request(t) ==
  /\ At(t, "idle")
  /\ mover # "closed"
  /\ thread' = [thread EXCEPT ![t] = [IdleThread EXCEPT !.pc = "recover", !.todo = Recoverable]]
  /\ UNCHANGED <<runs, identity, locks, mover, inflight, faults>>

\* recoverAcceptedRuns: ORDER BY created_at.
RecoverNext(t) ==
  /\ At(t, "recover")
  /\ \E r \in thread[t].todo :
       /\ \A s \in thread[t].todo : runs[r].createdAt <= runs[s].createdAt
       /\ thread' = [thread EXCEPT ![t].pc = FirstPC, ![t].job = {r}, ![t].todo = @ \ {r}]
  /\ UNCHANGED <<runs, identity, locks, mover, inflight, faults>>

RecoverDone(t) ==
  /\ At(t, "recover")
  /\ thread[t].todo = {}
  /\ Goto(t, "serve")
  /\ UNCHANGED <<runs, identity, locks, mover, inflight, faults>>

\* status, events and unknown routes end the request here.
ServeStatus(t) ==
  /\ At(t, "serve")
  /\ "status" \in Commands
  /\ Stop(t)
  /\ UNCHANGED <<runs, identity, locks, mover, inflight, faults>>

\* start: execution_enabled is read before, not with, the insert.
ServeStart(t) ==
  /\ At(t, "serve")
  /\ "start" \in Commands
  /\ IF CustomerExecutionBarrier /\ ~enabled THEN Stop(t) ELSE Goto(t, "insert")
  /\ UNCHANGED <<runs, identity, locks, mover, inflight, faults>>

\* INSERT ... ON CONFLICT DO NOTHING.  A conflict answers from the prior row or
\* rejects a different command; a new row is executed in the background.
Insert(t) ==
  /\ At(t, "insert")
  /\ \E r \in Runs :
       IF runs[r].state = "absent"
       THEN /\ runs' = [runs EXCEPT ![r] = AcceptedRun(NextCreatedAt(runs))]
            /\ thread' = [thread EXCEPT ![t] =
                            [IdleThread EXCEPT !.pc = FirstPC, !.mode = "background", !.job = {r}]]
       ELSE Stop(t) /\ UNCHANGED runs
  /\ UNCHANGED <<identity, locks, mover, inflight, faults>>

\* cancel: reads the record, and refuses a transition TRANSITIONS does not have.
ServeCancel(t) ==
  /\ At(t, "serve")
  /\ "cancel" \in Commands
  /\ \E r \in Runs \ InState("absent") :
       IF runs[r].state # "cancelled" /\ TransitionAllowed(runs[r].state, "cancelled")
       THEN thread' = [thread EXCEPT ![t].pc = "cancel", ![t].job = {r}, ![t].record = runs[r]]
       ELSE Stop(t)
  /\ UNCHANGED <<runs, identity, locks, mover, inflight, faults>>

\* cancel: UPDATE ... WHERE revision = the revision that was read.
Unchanged_Unchecked(t, r) == TRUE
Unchanged(t, r) == runs[r].revision = thread[t].record.revision

CancelledCopy_Misspelt(t) == Bump([thread[t].record EXCEPT !.state = "canceled"])
CancelledCopy(t) == Bump([thread[t].record EXCEPT !.state = "cancelled"])

CancelWrite(t) ==
  /\ At(t, "cancel")
  /\ \E r \in thread[t].job :
       runs' = IF Unchanged(t, r) THEN [runs EXCEPT ![r] = CancelledCopy(t)] ELSE runs
  /\ Stop(t)
  /\ UNCHANGED <<identity, locks, mover, inflight, faults>>

\* resume: the handler has seen the run exist; the body names a continuation.
ServeResume(t) ==
  /\ At(t, "serve")
  /\ \E m \in Commands \cap {"submit", "postpone"}, r \in Runs \ InState("absent"), c \in Conts :
       /\ runs[r].revision < MaxRevision
       /\ thread' = [thread EXCEPT ![t].pc = FirstPC, ![t].mode = m,
                                   ![t].job = {r}, ![t].answered = {c}]
  /\ UNCHANGED <<runs, identity, locks, mover, inflight, faults>>

------------------------------------------------------------------------------
(* execute() and resume() up to the executor *)

\* pg_advisory_lock_shared.
LockBarrier(t) ==
  /\ At(t, "lock")
  /\ ~BarrierBlocked
  /\ barrier' = barrier \cup {t}
  /\ Goto(t, "check")
  /\ UNCHANGED <<runs, identity, runLock, mover, inflight, faults>>

\* statement_timeout (pools.ts): the wait throws.
LockTimeout(t) ==
  /\ At(t, "lock")
  /\ BarrierBlocked
  /\ Goto(t, "abort")
  /\ UNCHANGED <<runs, identity, locks, mover, inflight, faults>>

CheckEnabled(t) ==
  /\ At(t, "check")
  /\ IF enabled THEN Goto(t, "claim") ELSE GiveUp(t)
  /\ UNCHANGED <<runs, identity, locks, mover, inflight, faults>>

\* pg_try_advisory_lock on the run.
Claimable_Always(r) == TRUE
Claimable(r) == runLock[r] = {}

ClaimRun(t) ==
  /\ At(t, "claim")
  /\ \E r \in thread[t].job :
       IF Claimable(r)
       THEN runLock' = [runLock EXCEPT ![r] = {t}] /\ Goto(t, "read")
       ELSE GiveUp(t) /\ UNCHANGED runLock
  /\ UNCHANGED <<runs, identity, barrier, mover, inflight, faults>>

\* execute: SELECT ... state='accepted'.
ReadAccepted(t) ==
  /\ At(t, "read")
  /\ Executing(t)
  /\ \E r \in thread[t].job :
       IF runs[r].state = "accepted"
       THEN thread' = [thread EXCEPT ![t].pc = "begin", ![t].record = runs[r]]
       ELSE Goto(t, "release")
  /\ UNCHANGED <<runs, identity, locks, mover, inflight, faults>>

\* resumeClaimed: SELECT ... state='waiting_for_input', then requiredContinuation.
\* A submission of the wrong kind throws before anything starts.
ReadWaiting(t) ==
  /\ At(t, "read")
  /\ ~Executing(t)
  /\ \E r \in thread[t].job :
       IF runs[r].state = "waiting_for_input" /\ thread[t].answered \subseteq Answerables(runs[r])
       THEN \E next \in IF thread[t].mode = "postpone" THEN {"postpone"} ELSE {"begin", "abort"} :
              thread' = [thread EXCEPT ![t].pc = next, ![t].record = runs[r]]
       ELSE Goto(t, "abort")
  /\ UNCHANGED <<runs, identity, locks, mover, inflight, faults>>

\* beginExecution marks the run unsettled unless paused or already marked, and then
\* the executor is invoked.
MayBegin_Remarked(r) == CustomerExecutionBarrier => enabled
MayBegin(r) == CustomerExecutionBarrier => enabled /\ r \notin unsettled

BeginExecution(t) ==
  /\ At(t, "begin")
  /\ \E r \in thread[t].job :
       IF MayBegin(r)
       THEN /\ unsettled' = IF CustomerExecutionBarrier THEN unsettled \cup {r} ELSE unsettled
            /\ inflight' = [inflight EXCEPT ![r] = @ + 1]
            /\ Goto(t, "running")
       ELSE Goto(t, "abort") /\ UNCHANGED <<unsettled, inflight>>
  /\ UNCHANGED <<runs, enabled, locks, mover, faults>>

------------------------------------------------------------------------------
(* The executor and what follows it *)

\* reportProgress: the copy's revision advances even when the UPDATE matches no row,
\* which throws into the executor.
ReportProgress(t) ==
  /\ At(t, "running")
  /\ Executing(t)
  /\ thread[t].record.revision + 1 < MaxRevision
  /\ \E r \in thread[t].job :
       LET rec == Bump(thread[t].record)
       IN  /\ runs' = IF runs[r].state = "accepted" THEN [runs EXCEPT ![r] = rec] ELSE runs
           /\ thread' = [thread EXCEPT ![t].record = rec]
  /\ UNCHANGED <<identity, locks, mover, inflight, faults>>

Outcome(t) == Outcomes(thread[t].record, thread[t].answered)

\* execute: the final UPDATE ... WHERE state='accepted'.
SettleAccepted(t) ==
  /\ At(t, "running")
  /\ Executing(t)
  /\ \E r \in thread[t].job :
       IF runs[r].state = "accepted"
       THEN \E out \in Outcome(t) :
              /\ runs' = [runs EXCEPT ![r] = Bump(out)]
              /\ inflight' = [inflight EXCEPT ![r] = @ - 1]
              /\ Goto(t, "end")
       ELSE Goto(t, "release") /\ UNCHANGED <<runs, inflight>>
  /\ UNCHANGED <<identity, locks, mover, faults>>

\* The condition of #replaceWaiting's UPDATE.
StillWaiting(t, r) ==
  runs[r].state = "waiting_for_input" /\ Unchanged(t, r)

\* resumeClaimed: #replaceWaiting with the outcome, or a throw that keeps the marker.
SettleWaiting(t) ==
  /\ At(t, "running")
  /\ ~Executing(t)
  /\ \E r \in thread[t].job :
       IF StillWaiting(t, r)
       THEN \E out \in Outcome(t) :
              /\ runs' = [runs EXCEPT ![r] = Bump(out)]
              /\ inflight' = [inflight EXCEPT ![r] = @ - 1]
              /\ Goto(t, "end")
       ELSE Goto(t, "abort") /\ UNCHANGED <<runs, inflight>>
  /\ UNCHANGED <<identity, locks, mover, faults>>

\* array_remove.
Settled_Kept(t) == unsettled
Settled(t) == unsettled \ thread[t].job

EndExecution(t) ==
  /\ At(t, "end")
  /\ unsettled' = Settled(t)
  /\ Goto(t, "release")
  /\ UNCHANGED <<runs, enabled, locks, mover, inflight, faults>>

\* resumeClaimed, postpone: #replaceWaiting.
PostponeWrite(t) ==
  /\ At(t, "postpone")
  /\ \E r \in thread[t].job :
       IF StillWaiting(t, r)
       THEN /\ runs' = [runs EXCEPT ![r] = Bump(Postponed(thread[t].record, thread[t].answered))]
            /\ Goto(t, "release")
       ELSE Goto(t, "abort") /\ UNCHANGED runs
  /\ UNCHANGED <<identity, locks, mover, inflight, faults>>

\* finally: both locks are given back.  Recovery goes on with its next run.
Release(t) ==
  /\ At(t, "release")
  /\ FreeLocks({t})
  /\ IF thread[t].mode = "recovery"
     THEN thread' = [thread EXCEPT ![t] =
                       [IdleThread EXCEPT !.pc = "recover", !.todo = thread[t].todo]]
     ELSE Stop(t)
  /\ UNCHANGED <<runs, identity, mover, inflight, faults>>

\* finally, on a throw: the exception ends the recovery loop and the whole request.
Abort(t) ==
  /\ At(t, "abort")
  /\ FreeLocks({t})
  /\ Stop(t)
  /\ UNCHANGED <<runs, identity, mover, inflight, faults>>

------------------------------------------------------------------------------
(* Faults *)

\* The process dies.  Dying with an invocation under way is a fault of its own.
Crash(t) ==
  /\ faults < MaxFaults
  /\ ~At(t, "idle")
  /\ (IF thread[t].pc \in {"running", "zombie", "end"} THEN "crash_executing" ELSE "crash")
       \in Faults
  /\ FreeLocks({t})
  /\ Stop(t)
  /\ faults' = faults + 1
  /\ UNCHANGED <<runs, identity, mover, inflight>>

\* What a thread is left with when the server ends its session: the next statement
\* throws, but an executor under way runs on until it returns.
WithoutSession(t) ==
  IF thread[t].pc \in {"running", "zombie"} THEN [thread[t] EXCEPT !.pc = "zombie"] ELSE IdleThread

SessionLost(t) ==
  /\ faults < MaxFaults
  /\ "session_lost" \in Faults
  /\ thread[t].pc \notin {"idle", "zombie"}
  /\ FreeLocks({t})
  /\ thread' = [thread EXCEPT ![t] = WithoutSession(t)]
  /\ faults' = faults + 1
  /\ UNCHANGED <<runs, identity, mover, inflight>>

\* The executor of a lost session returns; writing its outcome throws.
ZombieReturns(t) ==
  /\ At(t, "zombie")
  /\ Stop(t)
  /\ UNCHANGED <<runs, identity, locks, mover, inflight, faults>>

------------------------------------------------------------------------------
(* The movement controller: movement-postgres.ts stopApplicationAccess *)

MoverPause ==
  /\ "movement" \in Faults
  /\ mover = "open"
  /\ enabled' = FALSE
  /\ mover' = "paused"
  /\ UNCHANGED <<runs, unsettled, locks, thread, inflight, faults>>

MoverQueue ==
  /\ mover = "paused"
  /\ mover' = "queued"
  /\ UNCHANGED <<runs, identity, locks, thread, inflight, faults>>

MoverLock ==
  /\ mover = "queued"
  /\ barrier = {}
  /\ mover' = "exclusive"
  /\ UNCHANGED <<runs, identity, locks, thread, inflight, faults>>

\* An unsettled run makes the controller throw; the pause stays and it may be retried.
Drained_Unchecked == TRUE
Drained == unsettled = {}

MoverInspect ==
  /\ mover = "exclusive"
  /\ mover' = IF Drained THEN "drained" ELSE "paused"
  /\ UNCHANGED <<runs, identity, locks, thread, inflight, faults>>

\* The wait times out, or the controller dies or is aborted; the pause stays.
MoverFails ==
  /\ BarrierBlocked
  /\ faults < MaxFaults
  /\ mover' = "paused"
  /\ faults' = faults + 1
  /\ UNCHANGED <<runs, identity, locks, thread, inflight>>

\* NOLOGIN, REVOKE CONNECT, pg_terminate_backend for every application session.
MoverClose ==
  /\ mover = "drained"
  /\ mover' = "closed"
  /\ FreeLocks(Threads)
  /\ thread' = [t \in Threads |-> WithoutSession(t)]
  /\ UNCHANGED <<runs, identity, inflight, faults>>

\* afterActivate: the copy of this database at the destination takes over, with the
\* rows as they were dumped, and execution is enabled there.
MoverReopen ==
  /\ mover = "closed"
  /\ mover' = "open"
  /\ enabled' = TRUE
  /\ UNCHANGED <<runs, unsettled, locks, thread, inflight, faults>>

------------------------------------------------------------------------------

Serve(t) == ServeStatus(t) \/ ServeStart(t) \/ ServeCancel(t) \/ ServeResume(t)

\* The steps of a thread that is not idle.
Step(t) ==
  \/ RecoverNext(t) \/ RecoverDone(t) \/ Serve(t) \/ Insert(t) \/ CancelWrite(t)
  \/ LockBarrier(t) \/ LockTimeout(t) \/ CheckEnabled(t) \/ ClaimRun(t)
  \/ ReadAccepted(t) \/ ReadWaiting(t) \/ BeginExecution(t)
  \/ ReportProgress(t) \/ SettleAccepted(t) \/ SettleWaiting(t) \/ EndExecution(t)
  \/ PostponeWrite(t) \/ Release(t) \/ Abort(t) \/ ZombieReturns(t)

MoverWork == MoverQueue \/ MoverLock \/ MoverInspect \/ MoverClose \/ MoverReopen

Next ==
  \/ \E t \in Threads : Request(t) \/ Step(t) \/ Crash(t) \/ SessionLost(t)
  \/ MoverPause \/ MoverWork \/ MoverFails

Spec == Init /\ [][Next]_vars

\* Node runs every promise whose statement has answered, executors return, clients
\* keep asking about their runs, and an operator keeps a begun movement going.
Fairness ==
  /\ \A t \in Threads : WF_vars(Request(t)) /\ WF_vars(Step(t))
  /\ WF_vars(MoverWork)

FairSpec == Spec /\ Fairness
------------------------------------------------------------------------------
(* Properties *)

TypeOK ==
  /\ runs \in [Runs -> RunRecords]
  /\ enabled \in BOOLEAN
  /\ unsettled \subseteq Runs
  /\ runLock \in [Runs -> SUBSET Threads]
  /\ barrier \subseteq Threads
  /\ mover \in MoverStates
  /\ thread \in [Threads -> ThreadStates]
  /\ inflight \in [Runs -> Nat]
  /\ faults \in Nat

\* "No automatic retry may turn an uncertain effect into a duplicate"
\* (docs/customer-release-lifecycle.md): whatever crashes, sessions are lost or
\* requests recover the same row, at most one executor invocation of a run has an
\* outcome that is not durable.
AtMostOneUncertain == \A r \in Runs : inflight[r] <= 1

\* Every uncertain invocation is on record in execution_unsettled, where the next
\* beginExecution and the movement controller look for it.
UncertainIsRecorded == \A r \in Runs : inflight[r] > 0 => r \in unsettled

\* Two executors never run the same run at the same time, not even when one of them
\* lost its session and with it the run's advisory lock.
OneExecutor ==
  \A t, u \in Threads :
    /\ thread[t].pc \in {"running", "zombie"}
    /\ thread[u].pc \in {"running", "zombie"}
    /\ thread[t].job = thread[u].job
    => t = u

\* Once stopApplicationAccess has found execution_unsettled empty under the exclusive
\* lock, nothing executes, nothing is uncertain and nothing can start.
DrainedIsQuiet ==
  mover \in {"drained", "closed"} =>
    /\ ~enabled /\ unsettled = {}
    /\ \A r \in Runs : inflight[r] = 0
    /\ \A t \in Threads : thread[t].pc \notin {"begin", "running", "zombie", "end"}

\* A run that waits for input has exactly one continuation to answer, and a run that
\* is still accepted has none: resume always finds what the run is waiting for.
OneAnswerable ==
  \A r \in Runs :
    /\ runs[r].state = "waiting_for_input" => \E c \in Conts : Answerables(runs[r]) = {c}
    /\ runs[r].state \in {"absent", "accepted"} => Answerables(runs[r]) = {}

\* The thread whose claim and session are good works on the current record: until it
\* writes, only a cancellation can have changed the row.  The final UPDATE of execute
\* is not guarded by a revision and would otherwise overwrite someone else's.
CopyIsCurrent ==
  \A t \in Threads, r \in Runs :
    /\ thread[t].pc \in {"begin", "running", "postpone"}
    /\ thread[t].job = {r}
    /\ runs[r].state # "cancelled"
    => thread[t].record = runs[r]

Ledger == INSTANCE PlanRun WITH uncertain <- inflight

\* The runner keeps what the PlanRunner interface promises: one new revision per
\* change, a settled attempt before the next, no way out of a finished run.
ImplementsPlanRun == Ledger!Spec

\* "Resume work that was durably admitted before this runner process started"
\* (sql-runner.ts recoverAcceptedRuns): a run that was admitted and never attempted
\* is attempted, or cancelled, in the end, unless movements pause the database over
\* and over.
AdmittedRunsProceed ==
  <>[](mover = "open") =>
    \A r \in Runs : (runs[r].state = "accepted" /\ inflight[r] = 0)
                       ~> (runs[r].state # "accepted" \/ inflight[r] > 0)

\* "Handover closes admission, drains or checkpoints active work"
\* (docs/customer-release-lifecycle.md): when nothing is interrupted or cancelled
\* under way, a pause drains and the copy is closed.
PauseDrains == mover = "paused" ~> mover = "closed"

\* "Cancellation: No new attempts start" (docs/actor-runtime-proof-strategy.md).
NoAttemptAfterCancel ==
  [][\A r \in Runs : inflight'[r] > inflight[r] => runs[r].state # "cancelled"]_vars
=============================================================================
