------------------------- MODULE ProvisioningProofs -------------------------
(***************************************************************************)
(* Proofs about Provisioning for any catalog, any number of workers and    *)
(* processes, and any number of entitlements, errors, crashes, stalls and  *)
(* retries.                                                                *)
(*                                                                         *)
(* The argument: a job past the stale check holds the environment's lock   *)
(* and works at a generation no older than the database's (Current), so it *)
(* only ever raises it; once a component was finished at the environment's *)
(* generation the database is at that generation (Served, Finished), and   *)
(* a job that still gets past the check works at the same generation and   *)
(* writes the values that are there.                                       *)
(***************************************************************************)
EXTENDS Provisioning, TLAPS

\* A worker inside the critical section, and one past the stale check in it.
Inside(w) == job[w].pc \in {"check", "roles", "connect", "record", "stamp", "verify", "suspend"}
Past(w)   == job[w].pc \in {"roles", "connect", "record", "stamp", "verify", "suspend"}

\* The worker inside holds the advisory lock.
Locked(w) == Inside(w) => lock = w

\* A job is not ahead of the environment and, past the check, not behind the database.
Current(w) == job[w].gen <= env.gen /\ (Past(w) => db.identity <= job[w].gen)

\* What a job past the check has done so far is still there.
Progress(w) ==
  /\ job[w].pc \in {"connect", "record", "stamp", "verify"} => db.password[Target(w)] = job[w].gen
  /\ job[w].pc \in {"stamp", "verify"} => db.installed[Target(w)] = job[w].gen
  /\ job[w].pc = "verify" => db.identity = job[w].gen

\* Only a suspension takes the step of suspend.
Suspending(w) == At(w, "suspend") => Row(w).action = "suspend"

\* Component c is installed at generation g.
Installed(c, g) == db.password[c] = g /\ db.installed[c] = g /\ db.identity = g

\* A reconcile of the current generation that is about to report has been installed.
Finished(w) ==
  At(w, "finish") /\ job[w].gen = env.gen /\ Row(w).action = "reconcile"
    => Installed(Target(w), env.gen)

Worker(w) == Locked(w) /\ Current(w) /\ Progress(w) /\ Suspending(w) /\ Finished(w)

\* Every component reported ready is installed at the environment's generation.
Served == \A c \in Components : comps[c] = "ready" => env.gen > 0 /\ Installed(c, env.gen)

IInv ==
  /\ TypeOK
  /\ db.identity <= env.gen
  /\ \A w \in Workers : Worker(w)
  /\ Served

------------------------------------------------------------------------------

(* Type correctness *)

\* The part of TypeOK that is about jobs.
JobsOK ==
  /\ job \in [Workers -> Jobs]
  /\ \A w \in Workers : ~At(w, "idle") => job[w].gen \in Gens /\ Target(w) \in Components

\* Moving on keeps the operation in hand.
LEMMA JobMoves ==
  ASSUME JobsOK, NEW w \in Workers, ~At(w, "idle"), NEW pc \in PCs, Goto(w, pc)
  PROVE  JobsOK'
<1>1. [job[w] EXCEPT !.pc = pc] \in Jobs
  BY DEF Jobs, JobsOK
<1>2. job' = [job EXCEPT ![w] = [job[w] EXCEPT !.pc = pc]]
  BY DEF Goto
<1>3. (job \in [Workers -> Jobs])'
  BY <1>1, <1>2 DEF JobsOK
<1>4. ASSUME NEW v \in Workers, ~At(v, "idle")' PROVE (job[v].gen \in Gens /\ Target(v) \in Components)'
  <2>1. CASE v = w
    BY <2>1, <1>2 DEF JobsOK, At, Target, Jobs
  <2>2. CASE v # w
    BY <2>2, <1>2, <1>4 DEF JobsOK, At, Target, Jobs
  <2> QED
    BY <2>1, <2>2
<1> QED
  BY <1>3, <1>4 DEF JobsOK

\* An idle job has no operation.
LEMMA IdleType == Idle \in Jobs
  BY MaxGenAssumption DEF Idle, Jobs, PCs

\* A worker that stops gives its operation up.
LEMMA JobStops ==
  ASSUME JobsOK, NEW w \in Workers, job' = [job EXCEPT ![w] = Idle]
  PROVE  JobsOK'
<1>1. (job \in [Workers -> Jobs])'
  BY IdleType DEF JobsOK
<1>2. ASSUME NEW v \in Workers, ~At(v, "idle")' PROVE v # w /\ job'[v] = job[v]
  BY <1>2 DEF JobsOK, At, Idle
<1> QED
  BY <1>1, <1>2 DEF JobsOK, At, Target

\* Claiming and ending set the status and the lease of an operation.
LEMMA Owned ==
  ASSUME NEW row \in Operations, NEW s \in Statuses, NEW o \in Instances \cup {NoOne},
         NEW l \in BOOLEAN
  PROVE  [row EXCEPT !.status = s, !.owner = o, !.live = l] \in Operations
  BY DEF Operations

\* So does the expiry of a lease.
LEMMA Expired == ASSUME NEW row \in Operations PROVE [row EXCEPT !.live = FALSE] \in Operations
  BY DEF Operations

\* Ending an operation keeps the table well-formed.
LEMMA EndedType ==
  ASSUME TypeOK, NEW w \in Workers, ~At(w, "idle"), NEW status \in Statuses, Ended(w, status)
  PROVE  (ops \in [Components -> [Gens -> Operations]])'
<1>1. Target(w) \in Components /\ job[w].gen \in Gens
  BY DEF TypeOK
<1> DEFINE row == ops[Target(w)][job[w].gen]
<1>3. row \in Operations
  BY <1>1 DEF TypeOK
<1>2. [row EXCEPT !.status = status, !.owner = NoOne, !.live = FALSE] \in Operations
  <2> HIDE DEF row
  <2> QED
    BY <1>3, Owned
<1> QED
  BY <1>1, <1>2 DEF TypeOK, Ended

\* Nothing is bought yet.
LEMMA TypeInit == Init => TypeOK
<1> SUFFICES ASSUME Init PROVE TypeOK
  OBVIOUS
<1>1. Absent \in Operations
  BY DEF Absent, Operations, Actions, Statuses
<1>2. env \in Environments /\ db \in Databases /\ comps \in [Components -> Observed]
  BY MaxGenAssumption DEF Init, Environments, Databases, Observed
<1>3. ops \in [Components -> [Gens -> Operations]]
  BY <1>1 DEF Init
<1>4. job \in [Workers -> Jobs]
  BY IdleType DEF Init
<1>5. \A w \in Workers : At(w, "idle")
  BY DEF Init, At, Idle
<1>6. faults \in [crashes : Nat, errors : Nat, stalls : Nat, retries : Nat]
  BY DEF Init
<1> QED
  BY <1>2, <1>3, <1>4, <1>5, <1>6 DEF TypeOK, Init

\* Every step keeps the type invariant.
LEMMA TypeStep == ASSUME TypeOK, [Next]_vars PROVE TypeOK'
<1> USE DEF TypeOK, control
<1>0. JobsOK
  BY DEF JobsOK
<1>1. ASSUME NEW d \in Desired, AcceptEntitlement(d) PROVE TypeOK'
  <2>1. env.gen + 1 \in Gens
    BY <1>1, MaxGenAssumption DEF AcceptEntitlement, Environments, Gens
  <2>2. [action |-> ActionFor(d), status |-> "queued", owner |-> NoOne, live |-> FALSE] \in Operations
    BY DEF Operations, ActionFor, Actions, Statuses
  <2>3. (ops \in [Components -> [Gens -> Operations]])'
    BY <1>1, <2>1, <2>2 DEF AcceptEntitlement
  <2>4. env' \in Environments /\ comps' \in [Components -> Observed]
    BY <1>1, <2>1 DEF AcceptEntitlement, Environments, Gens, Observed
  <2> QED
    BY <1>1, <2>3, <2>4 DEF AcceptEntitlement, At, Target
<1>2. CASE Reconcile
  <2>1. ASSUME NEW row \in Operations PROVE Requeued(row) \in Operations
    BY DEF Requeued, Operations, Statuses
  <2>2. (ops \in [Components -> [Gens -> Operations]])'
    BY <1>2, <2>1 DEF Reconcile
  <2>3. env' \in Environments /\ comps' \in [Components -> Observed]
    BY <1>2 DEF Reconcile, Environments, Observed
  <2> QED
    BY <1>2, <2>2, <2>3 DEF Reconcile, At, Target
<1>3. ASSUME NEW w \in Workers, Claim(w) PROVE TypeOK'
  <2>1. PICK c \in Components :
          /\ env.gen \in Gens
          /\ ops' = [ops EXCEPT ![c][env.gen] =
               [@ EXCEPT !.status = "running", !.owner = InstanceOf[w], !.live = TRUE]]
          /\ comps' = [comps EXCEPT ![c] = "reconciling"]
          /\ job' = [job EXCEPT ![w] = [pc |-> "lock", component |-> c, gen |-> env.gen]]
    BY <1>3 DEF Claim
  <2> DEFINE row == ops[c][env.gen]
  <2>8. row \in Operations /\ InstanceOf[w] \in Instances
    BY <2>1, WorkersAssumption
  <2>2. [row EXCEPT !.status = "running", !.owner = InstanceOf[w], !.live = TRUE] \in Operations
    <3> HIDE DEF row, TypeOK
    <3> QED
      BY <2>8, Owned DEF Statuses
  <2>3. (ops \in [Components -> [Gens -> Operations]])'
    BY <2>1, <2>2
  <2>4. [pc |-> "lock", component |-> c, gen |-> env.gen] \in Jobs
    BY <2>1, MaxGenAssumption DEF Jobs, PCs, Gens
  <2>5. (job \in [Workers -> Jobs])'
    BY <2>1, <2>4
  <2>6. ASSUME NEW v \in Workers, ~At(v, "idle")'
        PROVE  (job[v].gen \in Gens /\ Target(v) \in Components)'
    BY <2>1, <2>6 DEF At, Target
  <2>7. env' \in Environments /\ comps' \in [Components -> Observed]
    BY <1>3, <2>1 DEF Claim, Environments, Observed
  <2> QED
    BY <1>3, <2>3, <2>5, <2>6, <2>7 DEF Claim
<1>4. ASSUME NEW w \in Workers, TakeLock(w) PROVE TypeOK'
  <2>1. JobsOK'
    BY <1>0, <1>4, JobMoves DEF TakeLock, At, PCs
  <2> QED
    BY <1>4, <2>1 DEF TakeLock, JobsOK
<1>5. ASSUME NEW w \in Workers, CheckIdentity(w) PROVE TypeOK'
  <2>1. JobsOK'
    BY <1>0, <1>5, JobMoves DEF CheckIdentity, At, PCs
  <2>3. Identity \in 0 .. MaxGen
    BY <1>5, MaxGenAssumption DEF CheckIdentity, At, Identity, Databases, Gens
  <2>2. db' \in Databases
    BY <1>5, <2>3 DEF CheckIdentity, Databases
  <2> QED
    BY <1>5, <2>1, <2>2 DEF CheckIdentity, Unlock, JobsOK
<1>6. ASSUME NEW w \in Workers, EnsureRoles(w) PROVE TypeOK'
  <2>1. JobsOK'
    BY <1>0, <1>6, JobMoves DEF EnsureRoles, At, PCs
  <2>2. db' \in Databases
    BY <1>6, MaxGenAssumption DEF EnsureRoles, Databases, Jobs, Gens, At, Target
  <2> QED
    BY <1>6, <2>1, <2>2 DEF EnsureRoles, JobsOK
<1>7. ASSUME NEW w \in Workers, GrantConnect(w) PROVE TypeOK'
  <2>1. JobsOK'
    BY <1>0, <1>7, JobMoves DEF GrantConnect, At, PCs
  <2>2. db' \in Databases
    BY <1>7, MaxGenAssumption DEF GrantConnect, Databases, Jobs, Gens, At, Target
  <2> QED
    BY <1>7, <2>1, <2>2 DEF GrantConnect, JobsOK
<1>8. ASSUME NEW w \in Workers, RecordInstallation(w) PROVE TypeOK'
  <2>1. JobsOK'
    BY <1>0, <1>8, JobMoves DEF RecordInstallation, At, PCs
  <2>2. db' \in Databases
    BY <1>8, MaxGenAssumption DEF RecordInstallation, Databases, Jobs, Gens, At, Target
  <2> QED
    BY <1>8, <2>1, <2>2 DEF RecordInstallation, JobsOK
<1>9. ASSUME NEW w \in Workers, StampIdentity(w) PROVE TypeOK'
  <2>1. JobsOK'
    BY <1>0, <1>9, JobMoves DEF StampIdentity, At, PCs
  <2>2. db' \in Databases
    BY <1>9, MaxGenAssumption DEF StampIdentity, Stamped, Databases, Jobs, Gens, At, Target
  <2> QED
    BY <1>9, <2>1, <2>2 DEF StampIdentity, JobsOK
<1>10. ASSUME NEW w \in Workers, Verify(w) PROVE TypeOK'
  <2>1. JobsOK'
    BY <1>0, <1>10, JobMoves DEF Verify, At, PCs
  <2> QED
    BY <1>10, <2>1 DEF Verify, Unlock, JobsOK
<1>11. ASSUME NEW w \in Workers, Suspend(w) PROVE TypeOK'
  <2>1. JobsOK'
    <3>1. PICK pc \in {"finish", "fail"} : At(w, "suspend") /\ Goto(w, pc)
      BY <1>11 DEF Suspend
    <3> QED
      BY <1>0, <3>1, JobMoves DEF At, PCs
  <2>2. db' = db \/ db' = [db EXCEPT !.connect[Target(w)] = FALSE]
    BY <1>11 DEF Suspend
  <2>3. db' \in Databases
    <3>1. [db EXCEPT !.connect[Target(w)] = FALSE] \in Databases
      BY DEF Databases
    <3> QED
      BY <2>2, <3>1
  <2> QED
    BY <1>11, <2>1, <2>3 DEF Suspend, Unlock, JobsOK
<1>12. ASSUME NEW w \in Workers, Break(w) PROVE TypeOK'
  <2>1. JobsOK'
    BY <1>0, <1>12, JobMoves DEF Break, At, PCs
  <2> QED
    BY <1>12, <2>1 DEF Break, Unlock, JobsOK
<1>13. ASSUME NEW w \in Workers, Finish(w) PROVE TypeOK'
  <2>1. JobsOK'
    BY <1>0, <1>13, JobMoves, JobStops DEF Finish, At, PCs
  <2>2. (ops \in [Components -> [Gens -> Operations]])'
    BY <1>13, EndedType DEF Finish, At, Statuses
  <2>3. env' \in Environments
    BY <1>13 DEF Finish, Environments, Summary, Desired, Observed
  <2>4. comps' \in [Components -> Observed]
    BY <1>13 DEF Finish, Observed
  <2> QED
    BY <1>13, <2>1, <2>2, <2>3, <2>4 DEF Finish, JobsOK
<1>14. ASSUME NEW w \in Workers, Fail(w) PROVE TypeOK'
  <2>1. JobsOK'
    BY <1>0, <1>14, JobStops DEF Fail
  <2>2. (ops \in [Components -> [Gens -> Operations]])'
    BY <1>14, EndedType DEF Fail, At, Statuses
  <2>3. env' \in Environments
    BY <1>14 DEF Fail, Environments, Observed
  <2>4. comps' \in [Components -> Observed]
    BY <1>14 DEF Fail, Observed
  <2> QED
    BY <1>14, <2>1, <2>2, <2>3, <2>4 DEF Fail, JobsOK
<1>15. ASSUME NEW i \in Instances, Crash(i) PROVE TypeOK'
  <2>1. (job \in [Workers -> Jobs])'
    BY <1>15, IdleType DEF Crash
  <2>2. ASSUME NEW v \in Workers, ~At(v, "idle")' PROVE job'[v] = job[v]
    BY <1>15, <2>2 DEF Crash, At, Idle
  <2> QED
    BY <1>15, <2>1, <2>2 DEF Crash, At, Target
<1>16. ASSUME NEW c \in Components, NEW g \in Gens, Expire(c, g) PROVE TypeOK'
  <2> DEFINE row == ops[c][g]
  <2>4. row \in Operations
    OBVIOUS
  <2>1. [row EXCEPT !.live = FALSE] \in Operations
    <3> HIDE DEF row
    <3> QED
      BY <2>4, Expired
  <2>2. (ops \in [Components -> [Gens -> Operations]])'
    BY <1>16, <2>1 DEF Expire
  <2>3. faults' \in [crashes : Nat, errors : Nat, stalls : Nat, retries : Nat]
    <3>1. CASE Working(c, g)
      BY <1>16, <3>1 DEF Expire
    <3>2. CASE ~Working(c, g)
      BY <1>16, <3>2 DEF Expire
    <3> QED
      BY <3>1, <3>2
  <2> QED
    BY <1>16, <2>2, <2>3 DEF Expire, At, Target
<1>17. CASE UNCHANGED vars
  BY <1>17 DEF vars, At, Target
<1> QED
  BY <1>1, <1>2, <1>3, <1>4, <1>5, <1>6, <1>7, <1>8, <1>9, <1>10, <1>11, <1>12, <1>13, <1>14, <1>15, <1>16, <1>17 DEF Next, Step

------------------------------------------------------------------------------
(* The inductive invariant *)

\* What a step at an unchanged generation does to the operations and the database: no
\* action of an operation changes, and what is installed at the generation stays.
Steady ==
  /\ env'.gen = env.gen
  /\ \A c \in Components, g \in Gens : ops'[c][g].action = ops[c][g].action
  /\ \A c \in Components : Installed(c, env.gen) => Installed(c, env.gen)'

\* The columns the invariant is about.
SameData ==
  /\ db'.identity = db.identity
  /\ db'.password = db.password
  /\ db'.installed = db.installed

\* A worker that does not move keeps its part, if the lock and the database are moved
\* only by a worker inside.
LEMMA Others ==
  ASSUME IInv, NEW w, NEW v \in Workers, v # w, job'[v] = job[v], Steady,
         lock' = lock \/ lock \in {w, NoOne},
         SameData \/ (w \in Workers /\ Inside(w))
  PROVE  Worker(v)'
<1>0. Worker(v) /\ TypeOK /\ NoOne # v
  BY NoOneAssumption DEF IInv
<1>1. Locked(v)'
  BY <1>0 DEF Worker, Locked, Inside
<1>2. Current(v)' /\ Progress(v)'
  <2>1. CASE SameData
    BY <2>1, <1>0 DEF SameData, Steady, Worker, Current, Progress, Past, Target
  <2>2. CASE w \in Workers /\ Inside(w)
    <3>1. ~Inside(v)
      BY <2>2, <1>0 DEF IInv, Worker, Locked
    <3> QED
      BY <3>1, <1>0 DEF Steady, Worker, Current, Progress, Past, Inside
  <2> QED
    BY <2>1, <2>2
<1>3. Suspending(v)'
  BY <1>0 DEF Steady, Worker, Suspending, At, Row, Target, TypeOK
<1>4. Finished(v)'
  <2> SUFFICES ASSUME At(v, "finish")', (job[v].gen = env.gen)', (Row(v).action = "reconcile")'
               PROVE  Installed(Target(v), env.gen)'
    BY DEF Finished
  <2>1. At(v, "finish") /\ job[v].gen = env.gen /\ Target(v) \in Components /\ job[v].gen \in Gens
    BY <1>0 DEF At, Steady, TypeOK
  <2>2. Row(v).action = "reconcile"
    BY <2>1 DEF Row, Target, Steady
  <2>3. Installed(Target(v), env.gen)
    BY <2>1, <2>2, <1>0 DEF Worker, Finished
  <2> QED
    BY <2>1, <2>3 DEF Steady, Target, Installed
<1> QED
  BY <1>1, <1>2, <1>3, <1>4 DEF Worker

\* A step of w keeps the invariant if it keeps w's part of it and reports ready only
\* what is installed.
LEMMA StepOf ==
  ASSUME IInv, TypeOK', NEW w \in Workers, Steady, Worker(w)',
         \A v \in Workers : v # w => job'[v] = job[v],
         lock' = lock \/ lock \in {w, NoOne},
         SameData \/ Inside(w),
         db'.identity <= env.gen,
         \A c \in Components : comps'[c] = "ready" =>
           comps[c] = "ready" \/ (env.gen > 0 /\ Installed(c, env.gen))
  PROVE  IInv'
<1>1. \A v \in Workers : Worker(v)'
  BY Others
<1>2. Served'
  <2> SUFFICES ASSUME NEW c \in Components, comps'[c] = "ready"
               PROVE  env'.gen > 0 /\ Installed(c, env.gen)'
    BY DEF Served
  <2>1. env.gen > 0 /\ Installed(c, env.gen)
    BY DEF IInv, Served
  <2> QED
    BY <2>1 DEF Steady
<1> QED
  BY <1>1, <1>2 DEF IInv, Steady

\* Moving on under SameData leaves what is installed.
LEMMA SameSteady ==
  ASSUME SameData, env'.gen = env.gen,
         \A c \in Components, g \in Gens : ops'[c][g].action = ops[c][g].action
  PROVE  Steady
  BY DEF SameData, Steady, Installed

\* A worker that stops, or leaves the critical section to report a failure.
LEMMA Stopped ==
  ASSUME TypeOK, NEW w \in Workers, job'[w].pc \in {"idle", "lock", "fail"}, job'[w].gen <= env'.gen
  PROVE  Worker(w)'
  BY DEF Worker, Locked, Current, Progress, Suspending, Finished, Inside, Past, At

\* What one step of w past the check writes agrees with what is installed.
LEMMA Agrees ==
  ASSUME IInv, NEW w \in Workers, Past(w), NEW c \in Components, Installed(c, env.gen)
  PROVE  job[w].gen = env.gen
<1>1. Current(w) /\ TypeOK
  BY DEF IInv, Worker
<1>2. job[w].gen <= env.gen /\ env.gen <= job[w].gen
  BY <1>1 DEF Current, Installed
<1>3. job[w].gen \in 0 .. MaxGen /\ env.gen \in 0 .. MaxGen
  BY <1>1 DEF TypeOK, Environments, Jobs
<1> QED
  BY <1>2, <1>3, MaxGenAssumption

\* A step that moves no worker and writes no database.
LEMMA Still ==
  ASSUME IInv, TypeOK', job' = job, lock' = lock, db' = db, env'.gen = env.gen,
         \A c \in Components, g \in Gens : ops'[c][g].action = ops[c][g].action,
         \A c \in Components : comps'[c] = "ready" => comps[c] = "ready"
  PROVE  IInv'
<1>1. SameData /\ Steady
  BY SameSteady DEF SameData
<1>2. \A v \in Workers : Worker(v)'
  BY <1>1, Others, NoOneAssumption
<1>3. Served' /\ db'.identity <= env'.gen
  BY DEF IInv, Served, Installed
<1> QED
  BY <1>2, <1>3 DEF IInv

\* Ending an operation keeps its action.
LEMMA EndedSteady ==
  ASSUME TypeOK, NEW w \in Workers, NEW status, Ended(w, status)
  PROVE  \A c \in Components, g \in Gens : ops'[c][g].action = ops[c][g].action
  BY DEF Ended, TypeOK, Operations

\* w is at pc with the operation it had, and no other worker has moved.
Moved(w, pc) ==
  /\ job'[w].pc = pc
  /\ job'[w].gen = job[w].gen
  /\ job'[w].component = job[w].component
  /\ \A v \in Workers : v # w => job'[v] = job[v]

\* Goto moves one worker and keeps its operation.
LEMMA Moves ==
  ASSUME TypeOK, NEW w \in Workers, NEW pc, Goto(w, pc)
  PROVE  Moved(w, pc)
  BY DEF Goto, Moved, TypeOK, Jobs

\* The invariant holds before the first entitlement.
LEMMA IndInit == Init => IInv
<1> SUFFICES ASSUME Init PROVE IInv
  OBVIOUS
<1>1. \A w \in Workers : Worker(w)
  BY DEF Init, Idle, Worker, Locked, Current, Progress, Suspending, Finished, Inside, Past, At
<1>2. Served /\ db.identity <= env.gen
  BY DEF Init, Served
<1> QED
  BY <1>1, <1>2, TypeInit DEF IInv

\* Every action keeps the invariant.
LEMMA IndStep == ASSUME IInv, [Next]_vars PROVE IInv'
<1>0. TypeOK /\ TypeOK'
  BY TypeStep DEF IInv
<1>1. ASSUME NEW d \in Desired, AcceptEntitlement(d) PROVE IInv'
  <2>1. env'.gen = env.gen + 1 /\ env.gen \in Nat
    BY <1>1, <1>0, MaxGenAssumption DEF AcceptEntitlement, TypeOK, Environments
  <2>2. ASSUME NEW w \in Workers PROVE Worker(w)'
    <3>1. Worker(w) /\ job'[w] = job[w] /\ db' = db /\ lock' = lock
      BY <1>1 DEF AcceptEntitlement, IInv
    <3>2. job[w].gen \in Nat /\ job[w].gen <= env.gen
      BY <3>1, <1>0, MaxGenAssumption DEF Worker, Current, TypeOK, Jobs
    <3>3. At(w, "suspend") => Row(w)' = Row(w)
      BY <1>1, <3>1, <3>2, <2>1, <1>0 DEF AcceptEntitlement, Row, Target, At, TypeOK
    <3> QED
      BY <3>1, <3>2, <3>3, <2>1 DEF Worker, Locked, Current, Progress, Suspending, Finished, Inside, Past, At, Target
  <2>3. Served'
    BY <1>1 DEF AcceptEntitlement, Served
  <2>4. db'.identity <= env'.gen
    BY <1>1, <2>1, <1>0, MaxGenAssumption DEF AcceptEntitlement, IInv, TypeOK, Databases
  <2> QED
    BY <1>0, <2>2, <2>3, <2>4 DEF IInv
<1>2. CASE Reconcile
  <2>1. ASSUME NEW row \in Operations PROVE Requeued(row).action = row.action
    BY DEF Requeued, Operations
  <2>2. \A c \in Components, g \in Gens : ops'[c][g].action = ops[c][g].action
    BY <1>2, <1>0, <2>1 DEF Reconcile, TypeOK
  <2>3. env'.gen = env.gen
    BY <1>2, <1>0 DEF Reconcile, TypeOK, Environments
  <2> QED
    BY <1>0, <1>2, <2>2, <2>3, Still DEF Reconcile
<1>3. ASSUME NEW w \in Workers, Claim(w) PROVE IInv'
  <2>1. PICK c \in Components :
          /\ env.gen \in Gens
          /\ ops' = [ops EXCEPT ![c][env.gen] =
               [@ EXCEPT !.status = "running", !.owner = InstanceOf[w], !.live = TRUE]]
          /\ comps' = [comps EXCEPT ![c] = "reconciling"]
          /\ job' = [job EXCEPT ![w] = [pc |-> "lock", component |-> c, gen |-> env.gen]]
    BY <1>3 DEF Claim
  <2>2. env'.gen = env.gen /\ env.gen \in Nat /\ SameData /\ lock' = lock
    BY <1>3, <1>0, MaxGenAssumption DEF Claim, SameData, TypeOK, Environments
  <2>3. \A b \in Components, g \in Gens : ops'[b][g].action = ops[b][g].action
    BY <2>1, <1>0 DEF TypeOK, Operations
  <2>4. Steady
    BY <2>2, <2>3, SameSteady
  <2>5. job'[w].pc = "lock" /\ job'[w].gen <= env'.gen
    BY <2>1, <2>2, <1>0 DEF TypeOK
  <2>6. Worker(w)'
    BY <2>5, <1>0, Stopped
  <2>7. \A v \in Workers : v # w => job'[v] = job[v]
    BY <2>1, <1>0 DEF TypeOK
  <2>8. \A b \in Components : comps'[b] = "ready" => comps[b] = "ready"
    BY <2>1, <1>0 DEF TypeOK
  <2> QED
    BY <1>0, <2>2, <2>4, <2>6, <2>7, <2>8, StepOf DEF IInv, SameData
<1>4. ASSUME NEW w \in Workers, TakeLock(w) PROVE IInv'
  <2>1. Moved(w, "check") /\ UNCHANGED <<control, db>>
    BY <1>0, <1>4, Moves DEF TakeLock, PCs
  <2>2. SameData /\ Steady
    BY <2>1, SameSteady DEF SameData, control
  <2>3. Worker(w)'
    BY <2>1, <1>4 DEF IInv, TakeLock, control, Moved, Worker, Locked, Current, Progress, Suspending, Finished, Inside, Past, At
  <2> QED
    BY <1>0, <1>4, <2>1, <2>2, <2>3, StepOf DEF IInv, TakeLock, control, Moved
<1>5. ASSUME NEW w \in Workers, CheckIdentity(w) PROVE IInv'
  <2>1. PICK pc \in {"fail", "suspend", "roles"} : Moved(w, pc) /\ (pc = "fail" <=> Stale(w)) /\ (pc = "suspend" => Row(w).action = "suspend")
    BY <1>0, <1>5, Moves DEF CheckIdentity, PCs
  <2>2. db'.identity = Identity /\ db'.password = db.password /\ db'.installed = db.installed /\ UNCHANGED control
    BY <1>0, <1>5 DEF CheckIdentity, TypeOK, Databases
  <2>3. Current(w) /\ job[w].gen \in Nat /\ job[w].gen >= 1 /\ db.identity \in Nat /\ env.gen \in Nat
    BY <1>0, <1>5, MaxGenAssumption DEF IInv, Worker, CheckIdentity, At, TypeOK, Gens, Jobs, Databases, Environments
  <2>4. Identity <= env.gen /\ Identity \in Nat
    BY <2>3 DEF Identity, Current, IInv
  <2>5. Steady
    BY <2>2, <2>3 DEF Steady, control, Installed, Identity, Current
  <2>6. Worker(w)'
    <3>1. CASE pc = "fail"
      BY <3>1, <2>1, <2>2, <2>3, <1>0, Stopped DEF Moved, Current, control
    <3>2. CASE pc # "fail"
      <4>1. ~Stale(w) /\ lock' = lock /\ lock = w
        BY <3>2, <2>1, <1>5 DEF CheckIdentity, IInv, Worker, Locked, Inside, At
      <4> QED
        BY <3>2, <4>1, <2>1, <2>2, <2>3, <2>4 DEF Stale, Moved, control, Worker, Locked, Current, Progress, Suspending, Finished, Inside, Past, At, Row, Target
    <3> QED
      BY <3>1, <3>2
  <2>7. Inside(w) /\ (lock' = lock \/ lock \in {w, NoOne})
    BY <1>5 DEF CheckIdentity, Unlock, Inside, At
  <2> QED
    BY <1>0, <2>1, <2>2, <2>4, <2>5, <2>6, <2>7, StepOf DEF control, Moved
<1>6. ASSUME NEW w \in Workers, EnsureRoles(w) PROVE IInv'
  <2>1. Moved(w, "connect") /\ UNCHANGED <<control, lock>>
    BY <1>0, <1>6, Moves DEF EnsureRoles, PCs
  <2>2. Past(w) /\ Inside(w) /\ Worker(w) /\ Target(w) \in Components
    BY <1>0, <1>6 DEF EnsureRoles, At, Past, Inside, IInv, TypeOK
  <2>3. db'.identity = db.identity /\ db'.installed = db.installed
        /\ db'.password = [db.password EXCEPT ![Target(w)] = job[w].gen]
        /\ db'.password[Target(w)] = job[w].gen
    BY <1>0, <1>6, <2>2 DEF EnsureRoles, TypeOK, Databases
  <2>4. Steady
    BY <2>1, <2>2, <2>3, Agrees DEF Steady, control, Installed
  <2>5. Worker(w)'
    BY <1>0, <1>6, <2>1, <2>2, <2>3, MaxGenAssumption DEF EnsureRoles, control, Moved, Worker, Locked, Current, Progress, Suspending, Finished, Inside, Past, At, Target, TypeOK, Jobs, Databases
  <2>6. db'.identity <= env.gen
    BY <2>2, <2>3 DEF IInv, Worker, Current
  <2> QED
    BY <1>0, <2>1, <2>2, <2>4, <2>5, <2>6, StepOf DEF control, Moved
<1>7. ASSUME NEW w \in Workers, GrantConnect(w) PROVE IInv'
  <2>1. Moved(w, "record") /\ UNCHANGED <<control, lock>>
    BY <1>0, <1>7, Moves DEF GrantConnect, PCs
  <2>2. Past(w) /\ Inside(w) /\ Worker(w) /\ Target(w) \in Components
    BY <1>0, <1>7 DEF GrantConnect, At, Past, Inside, IInv, TypeOK
  <2>3. db'.identity = db.identity /\ db'.password = db.password /\ db'.installed = db.installed
    BY <1>0, <1>7, <2>2 DEF GrantConnect, TypeOK, Databases
  <2>4. Steady
    BY <2>1, <2>2, <2>3, Agrees DEF Steady, control, Installed
  <2>5. Worker(w)'
    BY <1>0, <1>7, <2>1, <2>2, <2>3, MaxGenAssumption DEF GrantConnect, control, Moved, Worker, Locked, Current, Progress, Suspending, Finished, Inside, Past, At, Target, TypeOK, Jobs, Databases
  <2>6. db'.identity <= env.gen
    BY <2>2, <2>3 DEF IInv, Worker, Current
  <2> QED
    BY <1>0, <2>1, <2>2, <2>4, <2>5, <2>6, StepOf DEF control, Moved
<1>8. ASSUME NEW w \in Workers, RecordInstallation(w) PROVE IInv'
  <2>1. Moved(w, "stamp") /\ UNCHANGED <<control, lock>>
    BY <1>0, <1>8, Moves DEF RecordInstallation, PCs
  <2>2. Past(w) /\ Inside(w) /\ Worker(w) /\ Target(w) \in Components
    BY <1>0, <1>8 DEF RecordInstallation, At, Past, Inside, IInv, TypeOK
  <2>3. db'.identity = db.identity /\ db'.password = db.password
        /\ db'.installed = [db.installed EXCEPT ![Target(w)] = job[w].gen]
        /\ db'.installed[Target(w)] = job[w].gen
    BY <1>0, <1>8, <2>2 DEF RecordInstallation, TypeOK, Databases
  <2>4. Steady
    BY <2>1, <2>2, <2>3, Agrees DEF Steady, control, Installed
  <2>5. Worker(w)'
    BY <1>0, <1>8, <2>1, <2>2, <2>3, MaxGenAssumption DEF RecordInstallation, control, Moved, Worker, Locked, Current, Progress, Suspending, Finished, Inside, Past, At, Target, TypeOK, Jobs, Databases
  <2>6. db'.identity <= env.gen
    BY <2>2, <2>3 DEF IInv, Worker, Current
  <2> QED
    BY <1>0, <2>1, <2>2, <2>4, <2>5, <2>6, StepOf DEF control, Moved
<1>9. ASSUME NEW w \in Workers, StampIdentity(w) PROVE IInv'
  <2>1. Moved(w, "verify") /\ UNCHANGED <<control, lock>>
    BY <1>0, <1>9, Moves DEF StampIdentity, PCs
  <2>2. Past(w) /\ Inside(w) /\ Worker(w) /\ Target(w) \in Components
    BY <1>0, <1>9 DEF StampIdentity, At, Past, Inside, IInv, TypeOK
  <2>3. db'.identity = job[w].gen /\ db'.password = db.password /\ db'.installed = db.installed
    BY <1>0, <1>9, <2>2 DEF StampIdentity, Stamped, TypeOK, Databases
  <2>4. Steady
    BY <2>1, <2>2, <2>3, Agrees DEF Steady, control, Installed
  <2>5. Worker(w)'
    BY <1>0, <1>9, <2>1, <2>2, <2>3, MaxGenAssumption DEF StampIdentity, control, Moved, Worker, Locked, Current, Progress, Suspending, Finished, Inside, Past, At, Target, TypeOK, Jobs, Databases
  <2>6. db'.identity <= env.gen
    BY <2>2, <2>3 DEF IInv, Worker, Current
  <2> QED
    BY <1>0, <2>1, <2>2, <2>4, <2>5, <2>6, StepOf DEF control, Moved
<1>10. ASSUME NEW w \in Workers, Verify(w) PROVE IInv'
  <2>1. PICK pc \in {"finish", "fail"} : Moved(w, pc) /\ UNCHANGED <<control, db>>
    BY <1>0, <1>10, Moves DEF Verify, PCs
  <2>2. Worker(w) /\ At(w, "verify") /\ Inside(w) /\ SameData /\ Steady
    BY <1>10, <2>1, SameSteady DEF Verify, IInv, SameData, control, At, Inside
  <2>3. Worker(w)'
    BY <2>1, <2>2 DEF control, Moved, Worker, Locked, Current, Progress, Suspending, Finished, Inside, Past, At, Target, Row, Installed
  <2>4. lock' = lock \/ lock \in {w, NoOne}
    BY <1>10 DEF Verify, Unlock
  <2> QED
    BY <1>0, <2>1, <2>2, <2>3, <2>4, StepOf DEF IInv, control, Moved
<1>11. ASSUME NEW w \in Workers, Suspend(w) PROVE IInv'
  <2>1. PICK pc \in {"finish", "fail"} : Moved(w, pc) /\ UNCHANGED control
    BY <1>0, <1>11, Moves DEF Suspend, PCs
  <2>2. Worker(w) /\ At(w, "suspend") /\ Inside(w)
    BY <1>11, <2>1 DEF Suspend, IInv, At, Inside
  <2>3. SameData
    BY <1>0, <1>11 DEF SameData, Suspend, TypeOK, Databases
  <2>4. Steady
    BY <2>1, <2>3, SameSteady DEF control
  <2>5. Worker(w)'
    BY <2>1, <2>2 DEF control, Moved, Worker, Locked, Current, Progress, Suspending, Finished, Inside, Past, At, Target, Row
  <2>6. lock' = lock \/ lock \in {w, NoOne}
    BY <1>11 DEF Suspend, Unlock
  <2> QED
    BY <1>0, <2>1, <2>2, <2>3, <2>4, <2>5, <2>6, StepOf DEF IInv, SameData, control, Moved
<1>12. ASSUME NEW w \in Workers, Break(w) PROVE IInv'
  <2>1. Moved(w, "fail") /\ UNCHANGED <<control, db>>
    BY <1>0, <1>12, Moves DEF Break, At, PCs
  <2>2. SameData /\ Steady
    BY <2>1, SameSteady DEF SameData, control
  <2>3. Worker(w)'
    BY <1>0, <2>1, Stopped DEF Moved, control, IInv, Worker, Current
  <2>4. lock' = lock \/ lock \in {w, NoOne}
    BY <1>12 DEF Break, Unlock
  <2> QED
    BY <1>0, <2>1, <2>2, <2>3, <2>4, StepOf DEF IInv, SameData, control, Moved
<1>13. ASSUME NEW w \in Workers, Finish(w) PROVE IInv'
  <2>1. CASE Placed(w) /\ Owns(w)
    <3>1. /\ Ended(w, "succeeded") /\ job' = [job EXCEPT ![w] = Idle] /\ UNCHANGED <<lock, db>>
          /\ env'.gen = env.gen /\ env.gen \in Nat
      BY <1>0, <1>13, <2>1, MaxGenAssumption DEF Finish, TypeOK, Environments
    <3>2. job[w].gen \in Gens /\ Target(w) \in Components /\ Row(w).action \in Actions
      BY <1>0, <1>13 DEF Finish, TypeOK, At, Row, Operations
    <3>3. SameData /\ Steady
      BY <1>0, <3>1, EndedSteady, SameSteady DEF SameData
    <3>4. Worker(w)' /\ \A v \in Workers : v # w => job'[v] = job[v]
      BY <1>0, <3>1, Stopped DEF Idle, TypeOK
    <3>5. ASSUME NEW c \in Components, comps'[c] = "ready", c = Target(w)
          PROVE  env.gen > 0 /\ Installed(c, env.gen)
      <4>1. Row(w).action = "reconcile"
        BY <1>0, <1>13, <2>1, <3>2, <3>5 DEF Finish, TypeOK, Actions
      <4> QED
        BY <1>13, <2>1, <3>2, <3>5, <4>1 DEF Finish, Placed, IInv, Worker, Finished, Gens
    <3>6. ASSUME NEW c \in Components, comps'[c] = "ready", c # Target(w) PROVE comps[c] = "ready"
      BY <1>0, <1>13, <2>1, <3>6 DEF Finish, TypeOK
    <3> QED
      BY <1>0, <3>1, <3>3, <3>4, <3>5, <3>6, StepOf DEF IInv, SameData
  <2>2. CASE ~(Placed(w) /\ Owns(w))
    <3>1. Moved(w, "fail") /\ UNCHANGED <<control, lock, db>>
      BY <1>0, <1>13, <2>2, Moves DEF Finish, At, PCs
    <3>2. SameData /\ Steady
      BY <3>1, SameSteady DEF SameData, control
    <3>3. Worker(w)'
      BY <1>0, <3>1, Stopped DEF Moved, control, IInv, Worker, Current
    <3> QED
      BY <1>0, <3>1, <3>2, <3>3, StepOf DEF IInv, SameData, control, Moved
  <2> QED
    BY <2>1, <2>2
<1>14. ASSUME NEW w \in Workers, Fail(w) PROVE IInv'
  <2>1. /\ (Ended(w, "failed") \/ ops' = ops) /\ job' = [job EXCEPT ![w] = Idle]
        /\ UNCHANGED <<lock, db>> /\ env'.gen = env.gen /\ env.gen \in Nat
    BY <1>0, <1>14, MaxGenAssumption DEF Fail, TypeOK, Environments
  <2>2. SameData /\ Steady
    BY <1>0, <2>1, EndedSteady, SameSteady DEF SameData
  <2>3. Worker(w)' /\ \A v \in Workers : v # w => job'[v] = job[v]
    BY <1>0, <2>1, Stopped DEF Idle, TypeOK
  <2>4. \A c \in Components : comps'[c] = "ready" => comps[c] = "ready"
    BY <1>0, <1>14 DEF Fail, TypeOK
  <2> QED
    BY <1>0, <2>1, <2>2, <2>3, <2>4, StepOf DEF IInv, SameData
<1>15. ASSUME NEW i \in Instances, Crash(i) PROVE IInv'
  <2>1. SameData /\ Steady /\ UNCHANGED <<control, db>>
    BY <1>15, SameSteady DEF Crash, SameData, control
  <2>2. ASSUME NEW v \in Workers, InstanceOf[v] = i PROVE Worker(v)'
    <3>1. job'[v] = Idle /\ env'.gen \in Nat
      BY <1>15, <1>0, <2>2, MaxGenAssumption DEF Crash, TypeOK, Environments
    <3> QED
      BY <3>1, <1>0, Stopped DEF Idle
  <2>3. ASSUME NEW v \in Workers, InstanceOf[v] # i PROVE Worker(v)'
    <3>1. job'[v] = job[v]
      BY <1>15, <2>3 DEF Crash
    <3>2. CASE lock \in Workers /\ InstanceOf[lock] = i
      BY <3>1, <3>2, <2>1, <2>3, Others
    <3>3. CASE ~(lock \in Workers /\ InstanceOf[lock] = i)
      <4>1. lock' = lock /\ v # NoOne
        BY <1>15, <3>3, NoOneAssumption DEF Crash
      <4> QED
        BY <3>1, <4>1, <2>1, Others
    <3> QED
      BY <3>2, <3>3
  <2> QED
    BY <1>0, <2>1, <2>2, <2>3 DEF IInv, Served, Installed, control
<1>16. ASSUME NEW c \in Components, NEW g \in Gens, Expire(c, g) PROVE IInv'
  <2>1. \A b \in Components, h \in Gens : ops'[b][h].action = ops[b][h].action
    BY <1>0, <1>16 DEF Expire, TypeOK, Operations
  <2> QED
    BY <1>0, <1>16, <2>1, Still DEF Expire
<1>17. CASE UNCHANGED vars
  BY <1>0, <1>17, Still DEF vars
<1> QED
  BY <1>1, <1>2, <1>3, <1>4, <1>5, <1>6, <1>7, <1>8, <1>9, <1>10, <1>11, <1>12, <1>13, <1>14, <1>15, <1>16, <1>17 DEF Next, Step

------------------------------------------------------------------------------
(* What is observed *)

\* A component is reported ready by the transaction that ends its operation, and the
\* environment by the one that ends the last of them: whatever reopens an operation or
\* moves the environment to another generation takes both reports back.
Earned ==
  /\ \A c \in Components : comps[c] = "ready" =>
       env.gen \in Gens /\ ops[c][env.gen].status = "succeeded"
  /\ env.observed = "ready" => \A c \in Components : comps[c] = "ready"

\* Every step keeps the reports earned.
LEMMA EarnedStep == ASSUME TypeOK, Earned, [Next]_vars PROVE Earned'
<1> USE DEF TypeOK
<1>0. CASE UNCHANGED control
  BY <1>0 DEF control, Earned
<1>1. ASSUME NEW d \in Desired, AcceptEntitlement(d) PROVE Earned'
  BY <1>1 DEF AcceptEntitlement, Earned
<1>2. CASE Reconcile
  BY <1>2 DEF Reconcile, Earned, Environments
<1>3. ASSUME NEW w \in Workers, Claim(w) PROVE Earned'
  <2>1. PICK c \in Components :
          /\ \E row : ops' = [ops EXCEPT ![c][env.gen] = row]
          /\ comps' = [comps EXCEPT ![c] = "reconciling"]
    BY <1>3 DEF Claim
  <2>2. env'.gen = env.gen /\ env'.observed = "reconciling"
    BY <1>3 DEF Claim, Environments
  <2> QED
    BY <2>1, <2>2 DEF Earned
<1>4. ASSUME NEW w \in Workers, ~At(w, "idle"), Owns(w), NEW status, Ended(w, status)
      PROVE  /\ Row(w).status # "succeeded" /\ Target(w) \in Components /\ job[w].gen \in Gens
             /\ ops'[Target(w)][job[w].gen].status = status
             /\ \A c \in Components, g \in Gens :
                  c # Target(w) \/ g # job[w].gen => ops'[c][g] = ops[c][g]
  <2>1. Target(w) \in Components /\ job[w].gen \in Gens
    BY <1>4
  <2>2. Row(w) \in Operations
    BY <2>1 DEF Row
  <2> DEFINE row == [Row(w) EXCEPT !.status = status, !.owner = NoOne, !.live = FALSE]
  <2>3. row.status = status
    BY <2>2 DEF Operations
  <2>4. ops' = [ops EXCEPT ![Target(w)][job[w].gen] = row]
    BY <1>4 DEF Ended, Row
  <2> HIDE DEF row
  <2> QED
    BY <1>4, <2>1, <2>3, <2>4 DEF Owns
<1>5. ASSUME NEW w \in Workers, Finish(w) PROVE Earned'
  <2>1. CASE Placed(w) /\ Owns(w)
    <3>1. /\ Ended(w, "succeeded") /\ ~At(w, "idle") /\ job[w].gen = env.gen
          /\ env' = [env EXCEPT !.observed = Summary(env.desired, comps')]
      BY <1>5, <2>1 DEF Finish, Placed, At
    <3>2. PICK state : comps' = [comps EXCEPT ![Target(w)] = state]
      BY <1>5, <2>1 DEF Finish
    <3>3. env'.gen = env.gen /\ env'.observed = Summary(env.desired, comps')
      BY <3>1 DEF Environments
    <3>4. /\ Target(w) \in Components /\ env.gen \in Gens
          /\ ops'[Target(w)][env.gen].status = "succeeded"
          /\ \A c \in Components : c # Target(w) => ops'[c][env.gen] = ops[c][env.gen]
      BY <1>4, <2>1, <3>1
    <3>5. \A c \in Components : comps'[c] = "ready" => ops'[c][env.gen].status = "succeeded"
      BY <3>2, <3>4 DEF Earned
    <3>6. Summary(env.desired, comps') = "ready" => \A c \in Components : comps'[c] = "ready"
      BY DEF Summary
    <3> QED
      BY <3>3, <3>4, <3>5, <3>6 DEF Earned
  <2> QED
    BY <1>0, <1>5, <2>1 DEF Finish
<1>6. ASSUME NEW w \in Workers, Fail(w) PROVE Earned'
  <2>0. ~At(w, "idle")
    BY <1>6 DEF Fail, At
  <2>1. CASE Placed(w) /\ Owns(w)
    <3>1. /\ Ended(w, "failed") /\ job[w].gen = env.gen
          /\ env'.gen = env.gen /\ env'.observed = "failed"
          /\ comps' = [comps EXCEPT ![Target(w)] = "failed"]
      BY <1>6, <2>1 DEF Fail, Placed, Environments
    <3>2. /\ Target(w) \in Components /\ env.gen \in Gens
          /\ \A c \in Components : c # Target(w) => ops'[c][env.gen] = ops[c][env.gen]
      BY <1>4, <2>0, <2>1, <3>1
    <3> QED
      BY <3>1, <3>2 DEF Earned
  <2>2. CASE ~Placed(w) /\ Owns(w)
    <3>1. Ended(w, "failed") /\ job[w].gen # env.gen /\ UNCHANGED <<env, comps>>
      BY <1>6, <2>2 DEF Fail, Placed
    <3>2. env.gen \in Gens => \A c \in Components : ops'[c][env.gen] = ops[c][env.gen]
      BY <1>4, <2>0, <2>2, <3>1
    <3> QED
      BY <3>1, <3>2 DEF Earned
  <2> QED
    BY <1>0, <1>6, <2>1, <2>2 DEF Fail, control
<1>7. ASSUME NEW c \in Components, NEW g \in Gens, Expire(c, g) PROVE Earned'
  <2>1. \A b \in Components, h \in Gens : ops'[b][h].status = ops[b][h].status
    BY <1>7 DEF Expire, Operations
  <2> QED
    BY <1>7, <2>1 DEF Expire, Earned
<1>8. ASSUME NEW w \in Workers,
             \/ TakeLock(w) \/ CheckIdentity(w) \/ EnsureRoles(w) \/ GrantConnect(w)
             \/ RecordInstallation(w) \/ StampIdentity(w) \/ Verify(w) \/ Suspend(w) \/ Break(w)
      PROVE  UNCHANGED control
  BY <1>8 DEF TakeLock, CheckIdentity, EnsureRoles, GrantConnect, RecordInstallation, StampIdentity,
     Verify, Suspend, Break
<1>9. ASSUME NEW i \in Instances, Crash(i) PROVE UNCHANGED control
  BY <1>9 DEF Crash
<1>10. CASE UNCHANGED vars
  BY <1>0, <1>10 DEF vars, control
<1> QED
  BY <1>0, <1>1, <1>2, <1>3, <1>5, <1>6, <1>7, <1>8, <1>9, <1>10 DEF Next, Step

------------------------------------------------------------------------------
(* Theorems *)

\* Every state the facade and the provisioner can reach satisfies the inductive invariant.
THEOREM Invariance == Spec => []IInv
<1>1. IInv /\ [Next]_vars => IInv'
  BY IndStep
<1> QED
  BY IndInit, <1>1, PTL DEF Spec

\* The control rows, the jobs and the database always stay within their domains.
THEOREM TypeCorrectness == Spec => []TypeOK
<1>1. IInv => TypeOK
  BY DEF IInv
<1> QED
  BY Invariance, <1>1, PTL

\* Whatever authorize() grants is installed with the current generation's password, for
\* any number of workers, processes, crashes, stalled leases, failures and entitlements.
THEOREM GrantsAreServed == Spec => []GrantIsServed
<1>1. IInv => GrantIsServed
  BY DEF IInv, Served, Installed, GrantIsServed, Authorized
<1> QED
  BY Invariance, <1>1, PTL

\* No step of reconcile() takes the customer database back to an older generation.
THEOREM NoRegress == Spec => IdentityNeverRegresses
<1>1. ASSUME IInv, [Next]_vars PROVE [db'.identity >= db.identity]_vars
  <2>0. TypeOK /\ db.identity \in Nat /\ (db' = db => db'.identity >= db.identity)
    BY <1>1, MaxGenAssumption DEF IInv, TypeOK, Databases
  <2>1. ASSUME NEW w \in Workers, CheckIdentity(w) PROVE db'.identity >= db.identity
    BY <2>0, <2>1 DEF CheckIdentity, Identity, TypeOK, Databases
  <2>2. ASSUME NEW w \in Workers, StampIdentity(w) PROVE db'.identity >= db.identity
    <3>1. db.identity <= job[w].gen /\ job[w].gen \in Nat
      BY <1>1, <2>2, MaxGenAssumption DEF IInv, Worker, Current, Past, StampIdentity, At, TypeOK, Jobs
    <3> QED
      BY <2>0, <2>2, <3>1 DEF StampIdentity, Stamped, TypeOK, Databases
  <2>3. ASSUME NEW w \in Workers, EnsureRoles(w) \/ GrantConnect(w) \/ RecordInstallation(w) \/ Suspend(w)
        PROVE  db'.identity = db.identity
    BY <2>0, <2>3 DEF EnsureRoles, GrantConnect, RecordInstallation, Suspend, TypeOK, Databases
  <2>4. ASSUME NEW w \in Workers, TakeLock(w) \/ Verify(w) \/ Finish(w) \/ Fail(w) \/ Break(w) \/ Claim(w)
        PROVE  db' = db
    BY <2>4 DEF TakeLock, Verify, Finish, Fail, Break, Claim
  <2>5. ASSUME Next PROVE db'.identity >= db.identity
    <3>1. ASSUME NEW w \in Workers, Claim(w) \/ Step(w) \/ Break(w) PROVE db'.identity >= db.identity
      BY <2>0, <2>1, <2>2, <2>3, <2>4, <3>1 DEF Step
    <3>2. CASE Reconcile
      BY <2>0, <3>2 DEF Reconcile
    <3>3. ASSUME NEW d \in Desired, AcceptEntitlement(d) PROVE db' = db
      BY <3>3 DEF AcceptEntitlement
    <3>4. ASSUME NEW i \in Instances, Crash(i) PROVE db' = db
      BY <3>4 DEF Crash
    <3>5. ASSUME NEW c \in Components, NEW g \in Gens, Expire(c, g) PROVE db' = db
      BY <3>5 DEF Expire
    <3> QED
      BY <2>0, <2>5, <3>1, <3>2, <3>3, <3>4, <3>5 DEF Next
  <2> QED
    BY <1>1, <2>5
<1> QED
  BY Invariance, <1>1, PTL DEF Spec, IdentityNeverRegresses

\* The environment is observed ready only when every operation of its current generation
\* has succeeded: no expired lease, late finish or repeated claim lets a stale report in.
THEOREM ReadyObserved == Spec => []ReadyIsEarned
<1>1. Init => Earned
  BY DEF Init, Earned
<1>2. TypeOK /\ Earned /\ [Next]_vars => Earned'
  BY EarnedStep
<1>3. Earned => ReadyIsEarned
  BY DEF Earned, ReadyIsEarned
<1> QED
  BY <1>1, <1>2, <1>3, TypeCorrectness, PTL DEF Spec
=============================================================================
