----------------------- MODULE SqlPlanRunnerRefinement -----------------------
(***************************************************************************)
(* SqlPlanRunner with the customer barrier implements PlanRun: the copies  *)
(* of the record that requests carry from one statement to the next are    *)
(* good enough for every UPDATE to be one step of the ledger.              *)
(***************************************************************************)
EXTENDS SqlPlanRunnerProofs

\* Program counters from the list of accepted runs to the last write.
Underway == {"recover", "lock", "check", "claim", "read", "begin", "running", "postpone"}

\* Program counters at which the thread holds its run's advisory lock and may still write.
Claiming == {"read", "begin", "running", "postpone"}

\* Program counters at which the thread's copy of the record is going to be written back.
Copying == {"begin", "running", "postpone"}

ModeExecutes(mode) == mode \in {"recovery", "background"}

\* A resumption carries one continuation, an execution none.
AnswersOne(th) ==
  th.pc \in Underway =>
    IF ModeExecutes(th.mode) THEN th.answered = {} ELSE \E c \in Conts : th.answered = {c}

\* The copy is the row, unless the run was cancelled meanwhile; it was read in the state
\* that the thread's SELECT asked for, and what is answered can be answered.
GoodCopy(th, row) ==
  th.pc \in Copying =>
    /\ row.state # "cancelled" => th.record = row
    /\ th.record.state = IF ModeExecutes(th.mode) THEN "accepted" ELSE "waiting_for_input"
    /\ th.answered \subseteq Answerables(th.record)
    /\ th.pc = "postpone" => ~ModeExecutes(th.mode)

\* What a cancellation read may be stale, but then its revision is too.
GoodRead(th, row) ==
  th.pc = "cancel" =>
    /\ th.record.state \in {"accepted", "waiting_for_input", "failed"}
    /\ th.record.revision <= row.revision
    /\ th.record.revision = row.revision => th.record = row

\* TRANSITIONS' "planning" and "running" are never stored, and what a run can be asked
\* to answer depends on its state.
GoodRow(row) ==
  /\ row.state \notin {"planning", "running"}
  /\ row.state = "absent" => row = AbsentRun
  /\ row.state = "accepted" => Answerables(row) = {}
  /\ row.state = "waiting_for_input" => \E c \in Conts : Answerables(row) = {c}

Claims ==
  \A t \in Threads : \A r \in Runs :
    thread[t].pc \in Claiming /\ thread[t].job = {r} => runLock[r] = {t}

Answers == \A t \in Threads : AnswersOne(thread[t])

Copies == \A t \in Threads : \A r \in Runs : thread[t].job = {r} => GoodCopy(thread[t], runs[r])

Reads == \A t \in Threads : \A r \in Runs : thread[t].job = {r} => GoodRead(thread[t], runs[r])

Rows == \A r \in Runs : GoodRow(runs[r])

Currency == Claims /\ Answers /\ Copies /\ Reads /\ Rows

RInv == IInv /\ Currency

------------------------------------------------------------------------------
(* Records *)

\* Counting a revision changes nothing else.
LEMMA BumpFields ==
  ASSUME NEW rec \in RunRecords
  PROVE  /\ Bump(rec) \in RunRecords
         /\ Bump(rec).revision = rec.revision + 1
         /\ Bump(rec).state = rec.state
         /\ Answerables(Bump(rec)) = Answerables(rec)
BY DEF Bump, RunRecords, Answerables, Answerable

\* A new row asks for nothing.
LEMMA NewRow ==
  ASSUME NEW n \in Nat
  PROVE  GoodRow(AcceptedRun(n)) /\ AcceptedRun(n).revision = 1
BY DEF GoodRow, AcceptedRun, NoConts, Answerables, Answerable

\* When the invocation answers everything the record can be asked to answer, its outcome
\* is a row that asks for what the executor asked for.
LEMMA OutcomeRow ==
  ASSUME NEW rec \in RunRecords, NEW out \in Outcomes(rec, Answerables(rec))
  PROVE  GoodRow(Bump(out)) /\ Bump(out).revision = rec.revision + 1
<1> DEFINE answered == Answerables(rec)
<1>0. answered \in SUBSET Conts
  BY DEF Answerables
<1>1. ASSUME NEW asked \in {{}} \cup {{c} : c \in Conts}
      PROVE  /\ ApplyResult(rec, answered, asked) \in RunRecords
             /\ ApplyResult(rec, answered, asked).state = IF asked = {} THEN "succeeded" ELSE "waiting_for_input"
             /\ ApplyResult(rec, answered, asked).revision = rec.revision
             /\ Answerables(ApplyResult(rec, answered, asked)) = asked
  <2>1. asked \subseteq Conts
    BY <1>1
  <2>2. /\ ApplyResult(rec, answered, asked) \in RunRecords
        /\ ApplyResult(rec, answered, asked).state = IF asked = {} THEN "succeeded" ELSE "waiting_for_input"
        /\ ApplyResult(rec, answered, asked).revision = rec.revision
    BY <1>0, <2>1 DEF ApplyResult, RunRecords, RunStates, ContStates
  <2>3. \A c \in Conts : ApplyResult(rec, answered, asked).conts[c] =
                           IF c \in asked THEN "open" ELSE IF c \in answered THEN "resolved" ELSE rec.conts[c]
    BY DEF ApplyResult, RunRecords
  <2>4. Answerables(ApplyResult(rec, answered, asked)) = asked
    BY <2>1, <2>3 DEF Answerables, Answerable
  <2> QED
    BY <2>2, <2>4
<1>2. CASE \E a \in RunRecords : a.revision = rec.revision /\ out = [a EXCEPT !.state = "failed"]
  <2>1. out \in RunRecords /\ out.state = "failed" /\ out.revision = rec.revision
    BY <1>2 DEF RunRecords, RunStates
  <2> QED
    BY <2>1, BumpFields DEF GoodRow
<1>3. CASE \E asked \in {{}} \cup {{c} : c \in Conts} : out = ApplyResult(rec, answered, asked)
  <2>1. PICK asked \in {{}} \cup {{c} : c \in Conts} : out = ApplyResult(rec, answered, asked)
    BY <1>3
  <2>2. /\ Bump(out).state = IF asked = {} THEN "succeeded" ELSE "waiting_for_input"
        /\ Bump(out).revision = rec.revision + 1
        /\ Answerables(Bump(out)) = asked
    BY <1>1, <2>1, BumpFields
  <2> QED
    BY <2>2 DEF GoodRow
<1> QED
  BY <1>1, <1>2, <1>3 DEF Outcomes

\* Postponing the continuation a run waits for leaves it to be answered.
LEMMA PostponedRow ==
  ASSUME NEW rec \in RunRecords, NEW c \in Conts, Answerables(rec) = {c},
         rec.state = "waiting_for_input"
  PROVE  /\ GoodRow(Bump(Postponed(rec, {c})))
         /\ Bump(Postponed(rec, {c})).revision = rec.revision + 1
<1>1. /\ Postponed(rec, {c}) \in RunRecords
      /\ Postponed(rec, {c}).state = rec.state /\ Postponed(rec, {c}).revision = rec.revision
  BY DEF Postponed, RunRecords, ContStates
<1>2. \A d \in Conts : Postponed(rec, {c}).conts[d] = IF d = c THEN "postponed" ELSE rec.conts[d]
  BY DEF Postponed, RunRecords
<1>3. Answerables(Postponed(rec, {c})) = {c}
  BY <1>2 DEF Answerables, Answerable
<1> QED
  BY <1>1, <1>3, BumpFields DEF GoodRow

\* A cancelled row is good whatever it was asking for.
LEMMA CancelledRow ==
  ASSUME NEW rec \in RunRecords
  PROVE  /\ GoodRow(Bump([rec EXCEPT !.state = "cancelled"]))
         /\ Bump([rec EXCEPT !.state = "cancelled"]).state = "cancelled"
         /\ Bump([rec EXCEPT !.state = "cancelled"]).revision = rec.revision + 1
<1>1. /\ [rec EXCEPT !.state = "cancelled"] \in RunRecords
      /\ [rec EXCEPT !.state = "cancelled"].state = "cancelled"
      /\ [rec EXCEPT !.state = "cancelled"].revision = rec.revision
  BY DEF RunRecords, RunStates
<1> QED
  BY <1>1, BumpFields DEF GoodRow

\* With a claim and a run not cancelled, the copy is the row, and what the thread answers
\* is all that the row can be asked to answer.
LEMMA CopyAnswers ==
  ASSUME RInv, NEW t \in Threads, NEW r \in Runs, thread[t].job = {r},
         thread[t].pc \in Copying, runs[r].state # "cancelled"
  PROVE  /\ thread[t].record = runs[r] /\ runs[r] \in RunRecords
         /\ runs[r].state = IF Executing(t) THEN "accepted" ELSE "waiting_for_input"
         /\ Answerables(runs[r]) = thread[t].answered
         /\ Executing(t) => thread[t].answered = {}
         /\ ~Executing(t) => \E c \in Conts : thread[t].answered = {c}
<1>1. /\ thread[t].record = runs[r] /\ runs[r] \in RunRecords
      /\ runs[r].state = IF Executing(t) THEN "accepted" ELSE "waiting_for_input"
      /\ thread[t].answered \subseteq Answerables(runs[r])
  BY DEF RInv, IInv, TypeOK, Currency, Copies, GoodCopy, Executing, ModeExecutes
<1>2. IF Executing(t) THEN thread[t].answered = {} ELSE \E c \in Conts : thread[t].answered = {c}
  BY DEF RInv, Currency, Answers, AnswersOne, Executing, ModeExecutes, Copying, Underway
<1>3. GoodRow(runs[r])
  BY DEF RInv, Currency, Rows
<1> QED
  BY <1>1, <1>2, <1>3 DEF GoodRow

------------------------------------------------------------------------------
(* Kinds of steps *)

\* A thread moves where it neither claims nor cancels; it may give back its locks.
LEMMA QuietStep ==
  ASSUME RInv, NEW t \in Threads,
         \A u \in Threads \ {t} : thread'[u] = thread[u],
         thread'[t].pc \notin Claiming \cup {"cancel"}, AnswersOne(thread'[t]),
         \A r \in Runs : runLock'[r] = runLock[r] \/ runLock'[r] = runLock[r] \ {t},
         UNCHANGED runs
  PROVE  Currency'
<1>1. Claims'
  BY DEF RInv, Currency, Claims
<1>2. Answers' /\ Rows'
  BY DEF RInv, Currency, Answers, Rows
<1>3. Copies' /\ Reads'
  BY DEF RInv, Currency, Copies, Reads, GoodCopy, GoodRead, Claiming, Copying
<1> QED
  BY <1>1, <1>2, <1>3 DEF Currency

\* A thread with the lock of its run, or taking it while it is free, reads.
LEMMA HoldStep ==
  ASSUME RInv, NEW t \in Threads, NEW r \in Runs,
         \A u \in Threads \ {t} : thread'[u] = thread[u],
         thread'[t].pc \in Claiming, thread'[t].job = {r},
         AnswersOne(thread'[t]), GoodCopy(thread'[t], runs[r]),
         runLock[r] \subseteq {t}, runLock'[r] = {t},
         \A s \in Runs \ {r} : runLock'[s] = runLock[s],
         UNCHANGED runs
  PROVE  Currency'
<1>1. Claims'
  BY DEF RInv, Currency, Claims
<1>2. Answers' /\ Rows'
  BY DEF RInv, Currency, Answers, Rows
<1>3. Copies' /\ Reads'
  BY DEF RInv, Currency, Copies, Reads, GoodRead, Claiming
<1> QED
  BY <1>1, <1>2, <1>3 DEF Currency

\* A row gets a new revision: from the thread that holds its lock, from its insertion, or
\* from a cancellation.  No other thread's copy is spoiled by it.
LEMMA WriteStep ==
  ASSUME RInv, NEW t \in Threads, NEW r \in Runs,
         \A u \in Threads \ {t} : thread'[u] = thread[u],
         thread'[t].pc \notin {"read", "cancel"}, AnswersOne(thread'[t]),
         thread'[t].pc \in Copying =>
           /\ thread[t].pc \in Claiming /\ thread[t].job = {r} /\ thread'[t].job = {r}
           /\ GoodCopy(thread'[t], runs'[r]),
         \A s \in Runs \ {r} : runs'[s] = runs[s],
         GoodRow(runs'[r]), runs'[r].revision = runs[r].revision + 1,
         \/ thread[t].pc \in Claiming /\ thread[t].job = {r}
         \/ runs[r].state = "absent"
         \/ runs'[r].state = "cancelled",
         UNCHANGED runLock
  PROVE  Currency'
<1> USE DEF RInv, Currency
<1>1. Claims'
  BY DEF Claims, Claiming, Copying
<1>2. Answers' /\ Rows'
  BY DEF Answers, Rows
<1>3. ASSUME NEW u \in Threads, NEW s \in Runs, thread'[u].job = {s}
      PROVE  GoodCopy(thread'[u], runs'[s]) /\ GoodRead(thread'[u], runs'[s])
  <2>1. CASE u = t
    BY <1>3, <2>1 DEF GoodCopy, GoodRead, Copying
  <2>2. CASE u # t /\ s # r
    BY <1>3, <2>2 DEF Copies, Reads
  <2>3. CASE u # t /\ s = r
    <3>1. thread'[u] = thread[u] /\ GoodCopy(thread[u], runs[r]) /\ GoodRead(thread[u], runs[r])
      BY <1>3, <2>3 DEF Copies, Reads
    <3>2. thread[u].record.revision \in Nat /\ runs[r].revision \in Nat
      BY DEF IInv, TypeOK, ThreadStates, RunRecords
    <3>3. GoodRead(thread[u], runs'[r])
      BY <3>1, <3>2 DEF GoodRead
    <3>4. thread[u].pc \in Copying => ~(thread[t].pc \in Claiming /\ thread[t].job = {r})
      BY <1>3, <2>3, <3>1 DEF Claims, Copying, Claiming
    <3>5. thread[u].pc \in Copying => runs[r].state # "absent"
      BY <3>1 DEF GoodCopy
    <3>6. GoodCopy(thread[u], runs'[r])
      BY <3>1, <3>4, <3>5 DEF GoodCopy
    <3> QED
      BY <2>3, <3>1, <3>3, <3>6
  <2> QED
    BY <2>1, <2>2, <2>3
<1> QED
  BY <1>1, <1>2, <1>3 DEF Copies, Reads

------------------------------------------------------------------------------
(* Every action is one of these *)

\* What a thread carries when only its program counter moves.
LEMMA GotoFields ==
  ASSUME TypeOK, NEW t \in Threads, NEW pc, Goto(t, pc)
  PROVE  /\ \A u \in Threads \ {t} : thread'[u] = thread[u]
         /\ thread'[t].pc = pc /\ thread'[t].mode = thread[t].mode
         /\ thread'[t].job = thread[t].job /\ thread'[t].answered = thread[t].answered
         /\ thread'[t].record = thread[t].record
BY DEF TypeOK, ThreadStates, Goto

\* A request that ends leaves nothing behind.
LEMMA StopFields ==
  ASSUME TypeOK, NEW t \in Threads, Stop(t)
  PROVE  /\ \A u \in Threads \ {t} : thread'[u] = thread[u]
         /\ thread'[t].pc = "idle"
BY DEF TypeOK, ThreadStates, Stop, IdleThread

\* A step to a program counter outside the claim, with the rows as they were.
LEMMA LeaveStep ==
  ASSUME RInv, NEW t \in Threads,
         \A u \in Threads \ {t} : thread'[u] = thread[u],
         thread'[t].pc \in {"idle", "serve", "insert", "release", "abort", "end", "zombie"},
         \A r \in Runs : runLock'[r] = runLock[r] \/ runLock'[r] = runLock[r] \ {t},
         UNCHANGED runs
  PROVE  Currency'
BY QuietStep DEF AnswersOne, Underway, Claiming

\* The recovery and the command of a request, up to the claim.
LEMMA RequestCurrency ==
  ASSUME CustomerExecutionBarrier, RInv, NEW t \in Threads,
         Request(t) \/ RecoverNext(t) \/ RecoverDone(t) \/ Serve(t) \/ Insert(t) \/ CancelWrite(t)
  PROVE  Currency'
<1> USE DEF identity, locks
<1>a. /\ TypeOK /\ thread \in [Threads -> ThreadStates] /\ runs \in [Runs -> RunRecords]
      /\ thread[t] \in ThreadStates
  BY DEF RInv, IInv, TypeOK
<1>b. AnswersOne(thread[t])
  BY DEF RInv, Currency, Answers
<1>1. CASE Request(t)
  <2>1. /\ \A u \in Threads \ {t} : thread'[u] = thread[u]
        /\ thread'[t].pc = "recover" /\ thread'[t].mode = "recovery" /\ thread'[t].answered = {}
    BY <1>1, <1>a DEF Request, IdleThread
  <2> QED
    BY <1>1, <2>1, QuietStep DEF Request, AnswersOne, ModeExecutes, Claiming
<1>2. CASE RecoverNext(t)
  <2>1. /\ \A u \in Threads \ {t} : thread'[u] = thread[u]
        /\ thread'[t].pc = "lock"
        /\ thread'[t].mode = thread[t].mode /\ thread'[t].answered = thread[t].answered
    <3>1. PICK r, rest : thread' = [thread EXCEPT ![t].pc = FirstPC, ![t].job = {r}, ![t].todo = rest]
      BY <1>2 DEF RecoverNext
    <3> QED
      BY <1>a, <3>1 DEF FirstPC, ThreadStates
  <2>2. AnswersOne(thread'[t])
    BY <1>2, <1>b, <2>1 DEF RecoverNext, At, AnswersOne, Underway
  <2> QED
    BY <1>2, <2>1, <2>2, QuietStep DEF RecoverNext, Claiming
<1>3. CASE RecoverDone(t)
  BY <1>3, <1>a, GotoFields, LeaveStep DEF RecoverDone
<1>4. CASE ServeStatus(t)
  BY <1>4, <1>a, StopFields, LeaveStep DEF ServeStatus
<1>5. CASE ServeStart(t)
  <2>1. Stop(t) \/ Goto(t, "insert")
    BY <1>5 DEF ServeStart
  <2> QED
    BY <1>5, <1>a, <2>1, StopFields, GotoFields, LeaveStep DEF ServeStart
<1>6. CASE Insert(t)
  <2>1. PICK r \in Runs :
           IF runs[r].state = "absent"
           THEN /\ runs' = [runs EXCEPT ![r] = AcceptedRun(NextCreatedAt(runs))]
                /\ thread' = [thread EXCEPT ![t] =
                     [IdleThread EXCEPT !.pc = FirstPC, !.mode = "background", !.job = {r}]]
           ELSE Stop(t) /\ UNCHANGED runs
    BY <1>6 DEF Insert
  <2>2. UNCHANGED runLock
    BY <1>6 DEF Insert
  <2>3. CASE runs[r].state = "absent"
    <3>1. /\ \A u \in Threads \ {t} : thread'[u] = thread[u]
          /\ thread'[t].pc = "lock" /\ thread'[t].mode = "background" /\ thread'[t].answered = {}
      BY <1>a, <2>1, <2>3 DEF IdleThread, FirstPC
    <3>2. /\ \A s \in Runs \ {r} : runs'[s] = runs[s]
          /\ runs'[r] = AcceptedRun(NextCreatedAt(runs))
      BY <1>a, <2>1, <2>3
    <3>3. GoodRow(runs'[r]) /\ runs'[r].revision = 1
      BY <1>a, <3>2, NewRow, NextCreatedAtType
    <3>4. runs[r].revision = 0
      BY <2>3 DEF RInv, Currency, Rows, GoodRow, AbsentRun
    <3>5. AnswersOne(thread'[t])
      BY <3>1 DEF AnswersOne, ModeExecutes
    <3> QED
      BY <2>2, <2>3, <3>1, <3>2, <3>3, <3>4, <3>5, WriteStep DEF Copying
  <2>4. CASE runs[r].state # "absent"
    BY <1>a, <2>1, <2>2, <2>4, StopFields, LeaveStep
  <2> QED
    BY <2>3, <2>4
<1>7. CASE ServeCancel(t)
  <2>1. PICK r \in Runs : r \notin InState("absent") /\
           IF runs[r].state # "cancelled" /\ TransitionAllowed(runs[r].state, "cancelled")
           THEN thread' = [thread EXCEPT ![t].pc = "cancel", ![t].job = {r}, ![t].record = runs[r]]
           ELSE Stop(t)
    BY <1>7 DEF ServeCancel
  <2>2. UNCHANGED <<runs, runLock>>
    BY <1>7 DEF ServeCancel
  <2>3. CASE runs[r].state # "cancelled" /\ TransitionAllowed(runs[r].state, "cancelled")
    <3>1. /\ \A u \in Threads \ {t} : thread'[u] = thread[u]
          /\ thread'[t].pc = "cancel" /\ thread'[t].job = {r} /\ thread'[t].record = runs[r]
      BY <1>a, <2>1, <2>3 DEF ThreadStates
    <3>2. runs[r].state \in {"accepted", "waiting_for_input", "failed"}
      <4>1. runs[r].state \in RunStates \ {"planning", "running"}
        BY <1>a DEF RInv, Currency, Rows, GoodRow, RunRecords
      <4>2. "cancelled" \in TRANSITIONS[runs[r].state]
        BY <2>3 DEF TransitionAllowed
      <4> QED
        BY <4>1, <4>2 DEF TRANSITIONS, RunStates
    <3>3. runs[r].revision \in Nat
      BY <1>a DEF RunRecords
    <3>4. GoodRead(thread'[t], runs[r])
      BY <3>1, <3>2, <3>3 DEF GoodRead
    <3>5. Claims' /\ Answers' /\ Rows'
      BY <2>2, <3>1 DEF RInv, Currency, Claims, Answers, Rows, Claiming, AnswersOne, Underway
    <3>6. Copies' /\ Reads'
      BY <2>2, <3>1, <3>4 DEF RInv, Currency, Copies, Reads, GoodCopy, Copying
    <3> QED
      BY <3>5, <3>6 DEF Currency
  <2>4. CASE ~(runs[r].state # "cancelled" /\ TransitionAllowed(runs[r].state, "cancelled"))
    BY <1>a, <2>1, <2>2, <2>4, StopFields, LeaveStep
  <2> QED
    BY <2>3, <2>4
<1>8. CASE ServeResume(t)
  <2>1. PICK m \in {"submit", "postpone"}, r \in Runs, c \in Conts :
           thread' = [thread EXCEPT ![t].pc = FirstPC, ![t].mode = m,
                                    ![t].job = {r}, ![t].answered = {c}]
    BY <1>8 DEF ServeResume
  <2>2. /\ \A u \in Threads \ {t} : thread'[u] = thread[u]
        /\ thread'[t].pc = "lock" /\ thread'[t].mode = m /\ thread'[t].answered = {c}
    BY <1>a, <2>1 DEF ThreadStates, FirstPC
  <2>3. AnswersOne(thread'[t])
    BY <2>2 DEF AnswersOne, ModeExecutes
  <2> QED
    BY <1>8, <2>2, <2>3, QuietStep DEF ServeResume, Claiming
<1>9. CASE CancelWrite(t)
  <2>1. PICK r \in Runs : thread[t].job = {r}
    BY <1>9 DEF CancelWrite, At, RInv, IInv, HasJob, Busy
  <2>2. /\ runs' = IF Unchanged(t, r) THEN [runs EXCEPT ![r] = CancelledCopy(t)] ELSE runs
        /\ Stop(t) /\ UNCHANGED runLock
    BY <1>9, <2>1 DEF CancelWrite
  <2>3. CASE Unchanged(t, r)
    <3>1. thread[t].record = runs[r] /\ runs[r] \in RunRecords
      BY <1>9, <1>a, <2>1, <2>3 DEF CancelWrite, At, Unchanged, RInv, Currency, Reads, GoodRead
    <3>2. /\ \A s \in Runs \ {r} : runs'[s] = runs[s]
          /\ runs'[r] = Bump([runs[r] EXCEPT !.state = "cancelled"])
      BY <1>a, <2>2, <2>3, <3>1 DEF CancelledCopy
    <3>3. /\ GoodRow(runs'[r]) /\ runs'[r].state = "cancelled"
          /\ runs'[r].revision = runs[r].revision + 1
      BY <3>1, <3>2, CancelledRow
    <3>4. /\ \A u \in Threads \ {t} : thread'[u] = thread[u]
          /\ thread'[t].pc = "idle" /\ AnswersOne(thread'[t])
      BY <1>a, <2>2, StopFields DEF AnswersOne, Underway
    <3> QED
      BY <2>2, <3>2, <3>3, <3>4, WriteStep DEF Copying
  <2>4. CASE ~Unchanged(t, r)
    BY <1>a, <2>2, <2>4, StopFields, LeaveStep
  <2> QED
    BY <2>3, <2>4
<1> QED
  BY <1>1, <1>2, <1>3, <1>4, <1>5, <1>6, <1>7, <1>8, <1>9 DEF Serve

\* execute() and resume() up to the executor.
LEMMA ClaimCurrency ==
  ASSUME CustomerExecutionBarrier, RInv, NEW t \in Threads,
         \/ LockBarrier(t) \/ LockTimeout(t) \/ CheckEnabled(t) \/ ClaimRun(t)
         \/ ReadAccepted(t) \/ ReadWaiting(t) \/ BeginExecution(t)
  PROVE  Currency'
<1> USE DEF identity, locks
<1>a. /\ TypeOK /\ thread \in [Threads -> ThreadStates] /\ thread[t] \in ThreadStates
      /\ runLock \in [Runs -> SUBSET Threads] /\ runs \in [Runs -> RunRecords]
  BY DEF RInv, IInv, TypeOK
<1>b. AnswersOne(thread[t])
  BY DEF RInv, Currency, Answers
<1>c. PICK r \in Runs : thread[t].job = {r}
  BY DEF RInv, IInv, HasJob, Busy, At, LockBarrier, LockTimeout, CheckEnabled, ClaimRun,
     ReadAccepted, ReadWaiting, BeginExecution
<1>1. CASE LockBarrier(t)
  <2>1. /\ \A u \in Threads \ {t} : thread'[u] = thread[u]
        /\ thread'[t].pc = "check"
        /\ thread'[t].mode = thread[t].mode /\ thread'[t].answered = thread[t].answered
    BY <1>1, <1>a, GotoFields DEF LockBarrier
  <2>2. AnswersOne(thread'[t])
    BY <1>1, <1>b, <2>1 DEF LockBarrier, At, AnswersOne, Underway
  <2> QED
    BY <1>1, <2>1, <2>2, QuietStep DEF LockBarrier, Claiming
<1>2. CASE LockTimeout(t)
  BY <1>2, <1>a, GotoFields, LeaveStep DEF LockTimeout
<1>3. CASE CheckEnabled(t)
  <2>1. CASE Goto(t, "claim")
    <3>1. /\ \A u \in Threads \ {t} : thread'[u] = thread[u]
          /\ thread'[t].pc = "claim"
          /\ thread'[t].mode = thread[t].mode /\ thread'[t].answered = thread[t].answered
      BY <1>a, <2>1, GotoFields
    <3>2. AnswersOne(thread'[t])
      BY <1>3, <1>b, <3>1 DEF CheckEnabled, At, AnswersOne, Underway
    <3> QED
      BY <1>3, <3>1, <3>2, QuietStep DEF CheckEnabled, Claiming
  <2>2. CASE Goto(t, "release") \/ Goto(t, "abort")
    BY <1>3, <1>a, <2>2, GotoFields, LeaveStep DEF CheckEnabled
  <2> QED
    BY <1>3, <2>1, <2>2 DEF CheckEnabled, GiveUp
<1>4. CASE ClaimRun(t)
  <2>1. CASE Claimable(r)
    <3>1. runLock' = [runLock EXCEPT ![r] = {t}] /\ Goto(t, "read") /\ UNCHANGED runs
      BY <1>4, <1>c, <2>1 DEF ClaimRun
    <3>2. /\ \A u \in Threads \ {t} : thread'[u] = thread[u]
          /\ thread'[t].pc = "read" /\ thread'[t].job = {r}
          /\ thread'[t].mode = thread[t].mode /\ thread'[t].answered = thread[t].answered
      BY <1>a, <1>c, <3>1, GotoFields
    <3>3. AnswersOne(thread'[t]) /\ GoodCopy(thread'[t], runs[r])
      BY <1>4, <1>b, <3>2 DEF ClaimRun, At, AnswersOne, Underway, GoodCopy, Copying
    <3>4. /\ runLock[r] = {} /\ runLock'[r] = {t}
          /\ \A s \in Runs \ {r} : runLock'[s] = runLock[s]
      BY <1>a, <2>1, <3>1 DEF Claimable
    <3> QED
      BY <3>1, <3>2, <3>3, <3>4, HoldStep DEF Claiming
  <2>2. CASE ~Claimable(r)
    <3>1. (Goto(t, "release") \/ Goto(t, "abort")) /\ UNCHANGED <<runs, runLock>>
      BY <1>4, <1>c, <2>2 DEF ClaimRun, GiveUp
    <3> QED
      BY <1>a, <3>1, GotoFields, LeaveStep
  <2> QED
    BY <2>1, <2>2
<1>d. thread[t].pc \in Claiming => runLock[r] = {t}
  BY <1>c DEF RInv, Currency, Claims
<1>5. CASE ReadAccepted(t)
  <2>1. CASE runs[r].state = "accepted"
    <3>1. /\ thread' = [thread EXCEPT ![t].pc = "begin", ![t].record = runs[r]]
          /\ UNCHANGED <<runs, runLock>>
      BY <1>5, <1>c, <2>1 DEF ReadAccepted
    <3>2. /\ \A u \in Threads \ {t} : thread'[u] = thread[u]
          /\ thread'[t].pc = "begin" /\ thread'[t].job = {r} /\ thread'[t].record = runs[r]
          /\ thread'[t].mode = thread[t].mode /\ thread'[t].answered = thread[t].answered
      BY <1>a, <1>c, <3>1 DEF ThreadStates
    <3>3. thread[t].pc = "read" /\ ModeExecutes(thread[t].mode)
      BY <1>5 DEF ReadAccepted, At, Executing, ModeExecutes
    <3>4. thread[t].answered = {}
      BY <1>b, <3>3 DEF AnswersOne, Underway
    <3>5. AnswersOne(thread'[t])
      BY <3>2, <3>3, <3>4 DEF AnswersOne
    <3>6. GoodCopy(thread'[t], runs[r])
      BY <2>1, <3>2, <3>3, <3>4 DEF GoodCopy
    <3> QED
      BY <1>d, <3>1, <3>2, <3>3, <3>5, <3>6, HoldStep DEF Claiming
  <2>2. CASE runs[r].state # "accepted"
    <3>1. Goto(t, "release") /\ UNCHANGED <<runs, runLock>>
      BY <1>5, <1>c, <2>2 DEF ReadAccepted
    <3> QED
      BY <1>a, <3>1, GotoFields, LeaveStep
  <2> QED
    BY <2>1, <2>2
<1>6. CASE ReadWaiting(t)
  <2>0. UNCHANGED <<runs, runLock>>
    BY <1>6 DEF ReadWaiting
  <2>1. CASE runs[r].state = "waiting_for_input" /\ thread[t].answered \subseteq Answerables(runs[r])
    <3>1. PICK next \in {"postpone", "begin", "abort"} :
             thread' = [thread EXCEPT ![t].pc = next, ![t].record = runs[r]]
      BY <1>6, <1>c, <2>1 DEF ReadWaiting
    <3>2. /\ \A u \in Threads \ {t} : thread'[u] = thread[u]
          /\ thread'[t].pc = next /\ thread'[t].job = {r} /\ thread'[t].record = runs[r]
          /\ thread'[t].mode = thread[t].mode /\ thread'[t].answered = thread[t].answered
      BY <1>a, <1>c, <3>1 DEF ThreadStates
    <3>3. thread[t].pc = "read" /\ ~ModeExecutes(thread[t].mode)
      BY <1>6 DEF ReadWaiting, At, Executing, ModeExecutes
    <3>4. \E c \in Conts : thread[t].answered = {c}
      BY <1>b, <3>3 DEF AnswersOne, Underway
    <3>5. AnswersOne(thread'[t])
      BY <3>2, <3>3, <3>4 DEF AnswersOne
    <3>6. GoodCopy(thread'[t], runs[r])
      BY <2>1, <3>2, <3>3 DEF GoodCopy
    <3>7. CASE next = "abort"
      BY <2>0, <3>2, <3>7, LeaveStep
    <3>8. CASE next # "abort"
      BY <1>d, <2>0, <3>2, <3>3, <3>5, <3>6, <3>8, HoldStep DEF Claiming
    <3> QED
      BY <3>7, <3>8
  <2>2. CASE ~(runs[r].state = "waiting_for_input" /\ thread[t].answered \subseteq Answerables(runs[r]))
    <3>1. Goto(t, "abort")
      BY <1>6, <1>c, <2>2 DEF ReadWaiting
    <3> QED
      BY <1>a, <2>0, <3>1, GotoFields, LeaveStep
  <2> QED
    BY <2>1, <2>2
<1>7. CASE BeginExecution(t)
  <2>0. UNCHANGED <<runs, runLock>>
    BY <1>7 DEF BeginExecution
  <2>1. CASE Goto(t, "running")
    <3>1. /\ \A u \in Threads \ {t} : thread'[u] = thread[u]
          /\ thread'[t].pc = "running" /\ thread'[t].job = {r}
          /\ thread'[t].mode = thread[t].mode /\ thread'[t].answered = thread[t].answered
          /\ thread'[t].record = thread[t].record
      BY <1>a, <1>c, <2>1, GotoFields
    <3>2. thread[t].pc = "begin" /\ GoodCopy(thread[t], runs[r])
      BY <1>7, <1>c DEF BeginExecution, At, RInv, Currency, Copies
    <3>3. AnswersOne(thread'[t])
      BY <1>b, <3>1, <3>2 DEF AnswersOne, Underway
    <3>4. GoodCopy(thread'[t], runs[r])
      BY <3>1, <3>2 DEF GoodCopy, Copying
    <3> QED
      BY <1>d, <2>0, <3>1, <3>2, <3>3, <3>4, HoldStep DEF Claiming
  <2>2. CASE Goto(t, "abort")
    BY <1>a, <2>0, <2>2, GotoFields, LeaveStep
  <2> QED
    BY <1>7, <1>c, <2>1, <2>2 DEF BeginExecution
<1> QED
  BY <1>1, <1>2, <1>3, <1>4, <1>5, <1>6, <1>7

\* The executor and the writes that follow it.
LEMMA WriteCurrency ==
  ASSUME CustomerExecutionBarrier, RInv, NEW t \in Threads,
         ReportProgress(t) \/ SettleAccepted(t) \/ SettleWaiting(t) \/ PostponeWrite(t)
  PROVE  Currency'
<1> USE DEF identity, locks
<1>a. /\ TypeOK /\ thread \in [Threads -> ThreadStates] /\ thread[t] \in ThreadStates
      /\ runs \in [Runs -> RunRecords]
  BY DEF RInv, IInv, TypeOK
<1>b. PICK r \in Runs : thread[t].job = {r}
  BY DEF RInv, IInv, HasJob, Busy, At, ReportProgress, SettleAccepted, SettleWaiting, PostponeWrite
<1>c. thread[t].pc \in {"running", "postpone"} /\ UNCHANGED runLock
  BY DEF At, ReportProgress, SettleAccepted, SettleWaiting, PostponeWrite
<1>d. GoodCopy(thread[t], runs[r]) /\ AnswersOne(thread[t])
  BY <1>b DEF RInv, Currency, Copies, Answers
<1>1. CASE ReportProgress(t)
  <2> DEFINE rec == Bump(thread[t].record)
  <2>0. thread[t].record \in RunRecords
    BY <1>a DEF ThreadStates
  <2>1. /\ runs' = IF runs[r].state = "accepted" THEN [runs EXCEPT ![r] = rec] ELSE runs
        /\ thread' = [thread EXCEPT ![t].record = rec]
    BY <1>1, <1>b DEF ReportProgress
  <2>2. /\ \A u \in Threads \ {t} : thread'[u] = thread[u]
        /\ thread'[t].pc = "running" /\ thread'[t].job = {r} /\ thread'[t].record = rec
        /\ thread'[t].mode = thread[t].mode /\ thread'[t].answered = thread[t].answered
    BY <1>1, <1>a, <1>b, <2>1 DEF ReportProgress, At, ThreadStates
  <2>3. /\ rec.state = "accepted" /\ ModeExecutes(thread[t].mode) /\ thread[t].answered = {}
    <3>1. ModeExecutes(thread[t].mode) /\ thread[t].pc = "running"
      BY <1>1 DEF ReportProgress, Executing, ModeExecutes, At
    <3> QED
      BY <1>d, <2>0, <3>1, BumpFields DEF GoodCopy, AnswersOne, Underway, Copying
  <2>4. AnswersOne(thread'[t])
    BY <2>2, <2>3 DEF AnswersOne
  <2>5. CASE runs[r].state = "accepted"
    <3>1. thread[t].record = runs[r]
      BY <1>b, <1>c, <2>5, CopyAnswers DEF Copying
    <3>2. runs'[r] = rec /\ \A s \in Runs \ {r} : runs'[s] = runs[s]
      BY <1>a, <2>1, <2>5
    <3>3. Answerables(runs[r]) = {}
      BY <2>5 DEF RInv, Currency, Rows, GoodRow
    <3>4. /\ rec.revision = runs[r].revision + 1 /\ GoodRow(rec)
      BY <2>0, <2>3, <3>1, <3>3, BumpFields DEF GoodRow
    <3>5. GoodCopy(thread'[t], runs'[r])
      BY <2>2, <2>3, <3>2 DEF GoodCopy
    <3> HIDE DEF rec
    <3> QED
      BY <1>b, <1>c, <2>2, <2>4, <3>2, <3>4, <3>5, WriteStep DEF Claiming, Copying
  <2>6. CASE runs[r].state # "accepted"
    <3>1. runs[r].state = "cancelled" /\ UNCHANGED runs
      BY <1>c, <1>d, <2>1, <2>3, <2>6 DEF GoodCopy, Copying
    <3>2. GoodCopy(thread'[t], runs[r])
      BY <2>2, <2>3, <3>1 DEF GoodCopy
    <3>3. runLock[r] = {t}
      BY <1>b, <1>c DEF RInv, Currency, Claims, Claiming
    <3> HIDE DEF rec
    <3> QED
      BY <1>c, <2>2, <2>4, <3>1, <3>2, <3>3, HoldStep DEF Claiming
  <2> QED
    BY <2>5, <2>6
<1>2. ASSUME runs[r].state # "cancelled", NEW out \in Outcome(t),
             runs' = [runs EXCEPT ![r] = Bump(out)], Goto(t, "end")
      PROVE  Currency'
  <2>1. Outcome(t) = Outcomes(runs[r], Answerables(runs[r])) /\ runs[r] \in RunRecords
    BY <1>b, <1>c, <1>2, CopyAnswers DEF Copying, Outcome
  <2>2. GoodRow(Bump(out)) /\ Bump(out).revision = runs[r].revision + 1
    BY <1>2, <2>1, OutcomeRow
  <2>3. runs'[r] = Bump(out) /\ \A s \in Runs \ {r} : runs'[s] = runs[s]
    BY <1>a, <1>2
  <2>4. /\ \A u \in Threads \ {t} : thread'[u] = thread[u]
        /\ thread'[t].pc = "end" /\ AnswersOne(thread'[t])
    BY <1>a, <1>2, GotoFields DEF AnswersOne, Underway
  <2> QED
    BY <1>b, <1>c, <2>2, <2>3, <2>4, WriteStep DEF Claiming, Copying
<1>3. ASSUME Goto(t, "release") \/ Goto(t, "abort"), UNCHANGED runs PROVE Currency'
  BY <1>a, <1>c, <1>3, GotoFields, LeaveStep
<1>4. CASE SettleAccepted(t)
  BY <1>b, <1>2, <1>3, <1>4 DEF SettleAccepted
<1>5. CASE SettleWaiting(t)
  BY <1>b, <1>2, <1>3, <1>5 DEF SettleWaiting, StillWaiting
<1>6. CASE PostponeWrite(t)
  <2>1. CASE StillWaiting(t, r)
    <3>1. /\ runs' = [runs EXCEPT ![r] = Bump(Postponed(thread[t].record, thread[t].answered))]
          /\ Goto(t, "release")
      BY <1>6, <1>b, <2>1 DEF PostponeWrite
    <3>2. runs[r].state = "waiting_for_input"
      BY <2>1 DEF StillWaiting
    <3>3. PICK c \in Conts : /\ thread[t].answered = {c} /\ Answerables(runs[r]) = {c}
                             /\ thread[t].record = runs[r] /\ runs[r] \in RunRecords
      BY <1>b, <1>c, <3>2, CopyAnswers DEF Copying
    <3>4. /\ runs'[r] = Bump(Postponed(runs[r], {c}))
          /\ \A s \in Runs \ {r} : runs'[s] = runs[s]
      BY <1>a, <3>1, <3>3
    <3>5. GoodRow(runs'[r]) /\ runs'[r].revision = runs[r].revision + 1
      BY <3>2, <3>3, <3>4, PostponedRow
    <3>6. /\ \A u \in Threads \ {t} : thread'[u] = thread[u]
          /\ thread'[t].pc = "release" /\ AnswersOne(thread'[t])
      BY <1>a, <3>1, GotoFields DEF AnswersOne, Underway
    <3> QED
      BY <1>b, <1>c, <3>4, <3>5, <3>6, WriteStep DEF Claiming, Copying
  <2>2. CASE ~StillWaiting(t, r)
    BY <1>3, <1>6, <1>b, <2>2 DEF PostponeWrite
  <2> QED
    BY <2>1, <2>2
<1> QED
  BY <1>1, <1>4, <1>5, <1>6

\* Leaving the claim, by the finally blocks or by a fault.
LEMMA LeaveCurrency ==
  ASSUME RInv, NEW t \in Threads,
         \/ EndExecution(t) \/ Release(t) \/ Abort(t) \/ ZombieReturns(t)
         \/ Crash(t) \/ SessionLost(t)
  PROVE  Currency'
<1> USE DEF identity, locks
<1>a. /\ TypeOK /\ thread \in [Threads -> ThreadStates] /\ thread[t] \in ThreadStates
      /\ runLock \in [Runs -> SUBSET Threads]
  BY DEF RInv, IInv, TypeOK
<1>b. UNCHANGED runs /\ \A r \in Runs : runLock'[r] = runLock[r] \/ runLock'[r] = runLock[r] \ {t}
  BY <1>a DEF EndExecution, Release, Abort, ZombieReturns, Crash, SessionLost, FreeLocks
<1>1. CASE Goto(t, "release") \/ Stop(t)
  BY <1>a, <1>b, <1>1, GotoFields, StopFields, LeaveStep
<1>2. CASE thread' = [thread EXCEPT ![t] = [IdleThread EXCEPT !.pc = "recover", !.todo = thread[t].todo]]
  <2>1. /\ \A u \in Threads \ {t} : thread'[u] = thread[u]
        /\ thread'[t].pc = "recover" /\ thread'[t].mode = "recovery" /\ thread'[t].answered = {}
    BY <1>a, <1>2 DEF IdleThread
  <2> QED
    BY <1>b, <2>1, QuietStep DEF AnswersOne, ModeExecutes, Claiming
<1>3. CASE SessionLost(t)
  <2>1. /\ \A u \in Threads \ {t} : thread'[u] = thread[u]
        /\ thread'[t].pc \in {"idle", "zombie"}
    BY <1>a, <1>3 DEF SessionLost, WithoutSession, IdleThread, ThreadStates
  <2> QED
    BY <1>b, <2>1, LeaveStep
<1> QED
  BY <1>1, <1>2, <1>3 DEF EndExecution, Release, Abort, ZombieReturns, Crash

\* The movement controller writes no run, and takes the sessions of all threads away at
\* once.
LEMMA MoverCurrency ==
  ASSUME RInv, MoverPause \/ MoverWork \/ MoverFails
  PROVE  Currency'
<1> USE DEF identity, locks
<1>1. CASE UNCHANGED <<runs, runLock, thread>>
  BY <1>1 DEF RInv, Currency, Claims, Answers, Copies, Reads, Rows
<1>2. CASE MoverClose
  <2>1. \A t \in Threads : thread'[t].pc \in {"idle", "zombie"}
    BY <1>2 DEF MoverClose, WithoutSession, IdleThread, RInv, IInv, TypeOK, ThreadStates
  <2> QED
    BY <1>2, <2>1 DEF MoverClose, RInv, Currency, Claims, Answers, Copies, Reads, Rows,
       AnswersOne, GoodCopy, GoodRead, Claiming, Copying, Underway
<1> QED
  BY <1>1, <1>2 DEF MoverPause, MoverWork, MoverFails, MoverQueue, MoverLock, MoverInspect, MoverReopen

------------------------------------------------------------------------------
(* Steps of the ledger *)

\* PlanRun edits records as the runner does.
LEMMA SameRecords ==
  /\ Ledger!AbsentRun = AbsentRun
  /\ \A n : Ledger!AcceptedRun(n) = AcceptedRun(n)
  /\ \A rec : Ledger!Bump(rec) = Bump(rec)
  /\ \A rec : Ledger!Answerables(rec) = Answerables(rec)
  /\ \A rec, answered : Ledger!Outcomes(rec, answered) = Outcomes(rec, answered)
  /\ \A rec, answered : Ledger!Postponed(rec, answered) = Postponed(rec, answered)
  /\ \A table : Ledger!NextCreatedAt(table) = NextCreatedAt(table)
<1>1. Ledger!AbsentRun = AbsentRun /\ \A n : Ledger!AcceptedRun(n) = AcceptedRun(n)
  BY DEF Ledger!AbsentRun, AbsentRun, Ledger!AcceptedRun, AcceptedRun, Ledger!NoConts, NoConts
<1>2. /\ \A rec : Ledger!Bump(rec) = Bump(rec)
      /\ \A rec : Ledger!Answerables(rec) = Answerables(rec)
      /\ \A rec, answered : Ledger!Postponed(rec, answered) = Postponed(rec, answered)
  BY DEF Ledger!Bump, Bump, Ledger!Answerables, Answerables, Ledger!Answerable, Answerable,
     Ledger!Postponed, Postponed
<1>3. \A rec, answered, asked : Ledger!ApplyResult(rec, answered, asked) = ApplyResult(rec, answered, asked)
  BY DEF Ledger!ApplyResult, ApplyResult
<1>4. \A rec, answered : Ledger!Outcomes(rec, answered) = Outcomes(rec, answered)
  BY <1>3 DEF Ledger!Outcomes, Outcomes
<1>5. \A S : Ledger!Cardinality(S) = Cardinality(S)
  BY DEF Ledger!Cardinality, Cardinality
<1>6. \A table : Ledger!NextCreatedAt(table) = NextCreatedAt(table)
  BY <1>5 DEF Ledger!NextCreatedAt, NextCreatedAt
<1> QED
  BY <1>1, <1>2, <1>4, <1>6

\* Every step of the runner is one step of PlanRun's ledger or leaves it alone.
LEMMA LedgerStep ==
  ASSUME CustomerExecutionBarrier, RInv, Next
  PROVE  Ledger!Next \/ UNCHANGED <<runs, inflight>>
<1> USE DEF identity, locks
<1>a. runs \in [Runs -> RunRecords] /\ inflight \in [Runs -> Nat]
  BY DEF RInv, IInv, TypeOK
<1>b. \A t \in Threads : thread[t].pc \in Busy => \E r \in Runs : thread[t].job = {r}
  BY DEF RInv, IInv, HasJob
<1>c. ASSUME NEW t \in Threads, NEW r \in Runs, thread[t].job = {r}, thread[t].pc = "running"
      PROVE  inflight[r] = 1
  BY <1>c DEF RInv, IInv, Accounted, Marked
<1>1. ASSUME NEW t \in Threads, Insert(t) PROVE Ledger!Next \/ UNCHANGED <<runs, inflight>>
  <2>1. CASE \E r \in Runs : /\ runs[r].state = "absent" /\ UNCHANGED inflight
                              /\ runs' = [runs EXCEPT ![r] = AcceptedRun(NextCreatedAt(runs))]
    BY <2>1, SameRecords DEF Ledger!Next, Ledger!Admit
  <2> QED
    BY <1>1, <2>1 DEF Insert
<1>2. ASSUME NEW t \in Threads, CancelWrite(t) PROVE Ledger!Next \/ UNCHANGED <<runs, inflight>>
  <2>1. PICK r \in Runs : thread[t].job = {r}
    BY <1>b, <1>2 DEF CancelWrite, At, Busy
  <2>2. CASE Unchanged(t, r)
    <3>1. /\ thread[t].record = runs[r]
          /\ runs[r].state \in {"accepted", "waiting_for_input", "failed"}
      BY <1>2, <2>1, <2>2 DEF CancelWrite, At, Unchanged, RInv, Currency, Reads, GoodRead
    <3>2. /\ runs' = [runs EXCEPT ![r] = Bump([runs[r] EXCEPT !.state = "cancelled"])]
          /\ UNCHANGED inflight
      BY <1>2, <2>1, <2>2, <3>1 DEF CancelWrite, CancelledCopy
    <3>3. Ledger!Cancel(r)
      BY <3>1, <3>2, SameRecords DEF Ledger!Cancel
    <3> QED
      BY <3>3 DEF Ledger!Next
  <2> QED
    BY <1>2, <2>1, <2>2 DEF CancelWrite
<1>3. ASSUME NEW t \in Threads, BeginExecution(t) PROVE Ledger!Next \/ UNCHANGED <<runs, inflight>>
  <2>1. PICK r \in Runs : thread[t].job = {r}
    BY <1>b, <1>3 DEF BeginExecution, At, Busy
  <2>2. CASE MayBegin(r)
    <3>1. runs[r].state \in {"accepted", "waiting_for_input", "cancelled"}
      BY <1>3, <2>1, CopyAnswers DEF BeginExecution, At, Copying
    <3>2. inflight[r] = 0
      BY <2>2 DEF MayBegin, RInv, IInv, Recorded
    <3>3. inflight' = [inflight EXCEPT ![r] = 1] /\ UNCHANGED runs
      BY <1>3, <1>a, <2>1, <2>2, <3>2 DEF BeginExecution
    <3>4. Ledger!Attempt(r)
      BY <3>1, <3>2, <3>3 DEF Ledger!Attempt
    <3> QED
      BY <3>4 DEF Ledger!Next
  <2> QED
    BY <1>3, <2>1, <2>2 DEF BeginExecution
<1>4. ASSUME NEW t \in Threads, ReportProgress(t) PROVE Ledger!Next \/ UNCHANGED <<runs, inflight>>
  <2>1. PICK r \in Runs : thread[t].job = {r} /\ thread[t].pc = "running"
    BY <1>b, <1>4 DEF ReportProgress, At, Busy
  <2>2. CASE runs[r].state = "accepted"
    <3>1. thread[t].record = runs[r]
      BY <2>1, <2>2, CopyAnswers DEF Copying
    <3>2. runs' = [runs EXCEPT ![r] = Bump(runs[r])] /\ UNCHANGED inflight
      BY <1>4, <2>1, <2>2, <3>1 DEF ReportProgress
    <3>3. Ledger!Report(r)
      BY <1>c, <2>1, <2>2, <3>2, SameRecords DEF Ledger!Report
    <3> QED
      BY <3>3 DEF Ledger!Next
  <2> QED
    BY <1>4, <2>1, <2>2 DEF ReportProgress
<1>5. ASSUME NEW t \in Threads, NEW r \in Runs, thread[t].job = {r}, thread[t].pc = "running",
             runs[r].state # "cancelled", NEW out \in Outcome(t),
             runs' = [runs EXCEPT ![r] = Bump(out)], inflight' = [inflight EXCEPT ![r] = @ - 1]
      PROVE  Ledger!Next
  <2>1. /\ thread[t].record = runs[r] /\ runs[r] \in RunRecords
        /\ runs[r].state = IF Executing(t) THEN "accepted" ELSE "waiting_for_input"
        /\ Answerables(runs[r]) = thread[t].answered
        /\ Executing(t) => thread[t].answered = {}
        /\ ~Executing(t) => \E c \in Conts : thread[t].answered = {c}
    BY <1>5, CopyAnswers DEF Copying
  <2> DEFINE answered == Answerables(runs[r])
  <2>2. answered \in {{}} \cup {{c} : c \in Answerables(runs[r])}
    BY <2>1
  <2>3. answered = {} <=> runs[r].state = "accepted"
    BY <2>1
  <2>4. out \in Outcomes(runs[r], answered)
    BY <1>5, <2>1 DEF Outcome
  <2>5. inflight[r] = 1 /\ inflight' = [inflight EXCEPT ![r] = 0]
    <3>1. inflight[r] = 1
      BY <1>5, <1>c
    <3> QED
      BY <1>5, <1>a, <3>1
  <2> HIDE DEF answered
  <2>6. Ledger!Settle(r)
    BY <1>5, <2>1, <2>2, <2>3, <2>4, <2>5, SameRecords DEF Ledger!Settle
  <2> QED
    BY <2>6 DEF Ledger!Next
<1>6. ASSUME NEW t \in Threads, SettleAccepted(t) PROVE Ledger!Next \/ UNCHANGED <<runs, inflight>>
  <2>1. PICK r \in Runs : thread[t].job = {r} /\ thread[t].pc = "running"
    BY <1>b, <1>6 DEF SettleAccepted, At, Busy
  <2> QED
    BY <1>5, <1>6, <2>1 DEF SettleAccepted
<1>7. ASSUME NEW t \in Threads, SettleWaiting(t) PROVE Ledger!Next \/ UNCHANGED <<runs, inflight>>
  <2>1. PICK r \in Runs : thread[t].job = {r} /\ thread[t].pc = "running"
    BY <1>b, <1>7 DEF SettleWaiting, At, Busy
  <2> QED
    BY <1>5, <1>7, <2>1 DEF SettleWaiting, StillWaiting
<1>8. ASSUME NEW t \in Threads, PostponeWrite(t) PROVE Ledger!Next \/ UNCHANGED <<runs, inflight>>
  <2>1. PICK r \in Runs : thread[t].job = {r} /\ thread[t].pc = "postpone"
    BY <1>b, <1>8 DEF PostponeWrite, At, Busy
  <2>2. CASE StillWaiting(t, r)
    <3>1. runs[r].state = "waiting_for_input"
      BY <2>2 DEF StillWaiting
    <3>2. PICK c \in Conts : /\ thread[t].answered = {c} /\ Answerables(runs[r]) = {c}
                             /\ thread[t].record = runs[r]
      BY <2>1, <3>1, CopyAnswers DEF Copying
    <3>3. runs' = [runs EXCEPT ![r] = Bump(Postponed(runs[r], {c}))] /\ UNCHANGED inflight
      BY <1>8, <2>1, <2>2, <3>2 DEF PostponeWrite
    <3>4. Ledger!Postpone(r)
      BY <3>1, <3>2, <3>3, SameRecords DEF Ledger!Postpone
    <3> QED
      BY <3>4 DEF Ledger!Next
  <2> QED
    BY <1>8, <2>1, <2>2 DEF PostponeWrite
<1>9. ASSUME NEW t \in Threads,
             \/ Request(t) \/ RecoverNext(t) \/ RecoverDone(t) \/ Serve(t)
             \/ LockBarrier(t) \/ LockTimeout(t) \/ CheckEnabled(t) \/ ClaimRun(t)
             \/ ReadAccepted(t) \/ ReadWaiting(t)
             \/ EndExecution(t) \/ Release(t) \/ Abort(t) \/ ZombieReturns(t)
             \/ Crash(t) \/ SessionLost(t)
      PROVE  UNCHANGED <<runs, inflight>>
  BY <1>9 DEF Request, RecoverNext, RecoverDone, Serve, ServeStatus, ServeStart, ServeCancel,
     ServeResume, LockBarrier, LockTimeout, CheckEnabled, ClaimRun, ReadAccepted, ReadWaiting,
     EndExecution, Release, Abort, ZombieReturns, Crash, SessionLost
<1>10. ASSUME MoverPause \/ MoverWork \/ MoverFails PROVE UNCHANGED <<runs, inflight>>
  BY <1>10 DEF MoverPause, MoverWork, MoverFails, MoverQueue, MoverLock, MoverInspect, MoverClose,
     MoverReopen
<1> QED
  BY <1>1, <1>2, <1>3, <1>4, <1>6, <1>7, <1>8, <1>9, <1>10 DEF Next, Step

------------------------------------------------------------------------------
(* Theorems *)

\* RInv is an inductive invariant of the runner composed with the barrier.
THEOREM CurrencyInvariance == CustomerExecutionBarrier => (Spec => []RInv)
<1> SUFFICES ASSUME CustomerExecutionBarrier PROVE Spec => []RInv
  OBVIOUS
<1>1. Init => Currency
  BY DEF Init, Currency, Claims, Answers, Copies, Reads, Rows, AnswersOne, GoodCopy, GoodRead, GoodRow,
     IdleThread, AbsentRun, Underway, Claiming, Copying
<1>2. IInv /\ Currency /\ [Next]_vars => Currency'
  <2>1. ASSUME IInv, Currency, Next PROVE Currency'
    BY <2>1, RequestCurrency, ClaimCurrency, WriteCurrency, LeaveCurrency, MoverCurrency
       DEF Next, Step, RInv
  <2>2. ASSUME Currency, UNCHANGED vars PROVE Currency'
    BY <2>2 DEF vars, Currency, Claims, Answers, Copies, Reads, Rows
  <2> QED
    BY <2>1, <2>2
<1>3. RInv <=> IInv /\ Currency
  BY DEF RInv
<1> QED
  BY <1>1, <1>2, <1>3, Invariance, PTL DEF Spec

\* resume always finds what the run is waiting for: whatever the executor asked for and
\* however often it was postponed, a waiting run has exactly one continuation to answer.
THEOREM WaitingHasOneAnswer == CustomerExecutionBarrier => (Spec => []OneAnswerable)
<1>1. RInv => OneAnswerable
  <2> SUFFICES ASSUME RInv, NEW r \in Runs
               PROVE  /\ runs[r].state = "waiting_for_input" => \E c \in Conts : Answerables(runs[r]) = {c}
                      /\ runs[r].state \in {"absent", "accepted"} => Answerables(runs[r]) = {}
    BY DEF OneAnswerable
  <2>1. GoodRow(runs[r])
    BY DEF RInv, Currency, Rows
  <2>2. Answerables(AbsentRun) = {}
    BY DEF Answerables, Answerable, AbsentRun, NoConts
  <2> QED
    BY <2>1, <2>2 DEF GoodRow
<1> QED
  BY <1>1, CurrencyInvariance, PTL

\* Until it writes, the request that holds the run's lock works on the row as it is, or the
\* run has been cancelled: the unguarded final UPDATE of execute overwrites nobody else's.
THEOREM CopiesAreCurrent == CustomerExecutionBarrier => (Spec => []CopyIsCurrent)
<1>1. RInv => CopyIsCurrent
  BY DEF RInv, Currency, Copies, GoodCopy, Copying, CopyIsCurrent
<1> QED
  BY <1>1, CurrencyInvariance, PTL

\* The runner implements the ledger: with the copies current and every attempt accounted
\* for, each statement of sql-runner.ts that writes a run is one step of what the
\* PlanRunner interface promises, and no other step changes a run.
THEOREM Implementation == CustomerExecutionBarrier => (Spec => ImplementsPlanRun)
<1> SUFFICES ASSUME CustomerExecutionBarrier PROVE Spec => ImplementsPlanRun
  OBVIOUS
<1>1. Init => Ledger!Init
  BY SameRecords DEF Init, Ledger!Init
<1>2. RInv /\ [Next]_vars => [Ledger!Next]_(Ledger!vars)
  BY LedgerStep DEF vars, Ledger!vars
<1> QED
  BY <1>1, <1>2, CurrencyInvariance, PTL DEF Spec, ImplementsPlanRun, Ledger!Spec
==============================================================================
