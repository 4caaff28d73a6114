-------------------------- MODULE CustomerMovement --------------------------
(***************************************************************************)
(* One customer environment while operators move it between runtimes: the  *)
(* journal of movements in the control database (platform-provisioner,     *)
(* movement.ts), the controllers that walk a movement through its phases   *)
(* (resumeMovement), the two clusters' copies of the customer database     *)
(* (movement-postgres.ts), the provisioner's jobs (control.ts), and the    *)
(* facade that goes on accepting entitlements and issuing grants           *)
(* (aven-api, customers/store.ts).                                         *)
(*                                                                         *)
(* A controller is one run of move-cli resume or return.  A step of it is  *)
(* one control statement, or the statements on one cluster between two     *)
(* points where it may notice that its lock connection died.  A controller *)
(* that lost the connection lost the movement's lock too, and goes on to   *)
(* its next signal.throwIfAborted(): until then it runs beside the         *)
(* controller that took over.                                              *)
(* Fencing and reconciling hold customer-environment:<id>, the lock of the *)
(* environment on one cluster.  A reconcile first waits for that lock and  *)
(* looks neither at the movement's lock nor at the directory once it has   *)
(* it: it is late when the controller that runs it lost the movement's     *)
(* lock, or the job that runs it is no longer the placement's.             *)
(* A customer database is one value per question asked of it; its          *)
(* components are reconciled together, as prepareDestination prepares all  *)
(* of them, and a generation's operations are one job.  Module             *)
(* Provisioning takes a job apart.                                         *)
(***************************************************************************)
EXTENDS Naturals, FiniteSets

CONSTANTS
  Runtimes,     \* registered, release-bound runtimes
  Home,         \* the one the customer starts on
  Movements,    \* operation ids
  Controllers,  \* concurrent runs of move-cli
  Workers,      \* work() calls of the runtimes' provisioners, one process a runtime
  None,
  MaxGen,       \* the largest generation, Number.MAX_SAFE_INTEGER in the code
  MaxWrites,    \* bound: customer writes
  MaxEvents,    \* bound: entitlement events
  MaxDeaths,    \* bound: controllers, executors and provisioners that die, jobs that fail
  MaxLost,      \* bound: lock connections that die under a live controller
  MaxStalls,    \* bound: leases that expire under a live job
  MaxLate,      \* bound: late reconciles
  MaxReturns    \* bound: return commands

ASSUME HomeAssumption == Home \in Runtimes
ASSUME NoneAssumption == None \notin Runtimes \cup Movements \cup Controllers
ASSUME MovementBounds == /\ MaxGen \in Nat \ {0} /\ MaxWrites \in Nat /\ MaxEvents \in Nat
                         /\ MaxDeaths \in Nat /\ MaxLost \in Nat /\ MaxReturns \in Nat
                         /\ MaxStalls \in Nat /\ MaxLate \in Nat

VARIABLES
  env,      \* the row of customer_environments
  mv,       \* customer_movements
  db,       \* the customer database on each runtime's cluster
  archive,  \* the kept dump of a movement
  ctl,      \* the controllers
  lock,     \* holder of the advisory lock movement:<id>
  job,      \* the provisioners' workers
  running,  \* the generations with an operation in status running
  grants,   \* <<runtime, generation>> some client holds a tenant grant for
  kept,     \* ghost: the writes the customer may expect to find
  count     \* deaths, losses, stalls, late reconciles, events, writes and returns so far

vars == <<env, mv, db, archive, ctl, lock, job, running, grants, kept, count>>
provision == <<job, running>>

Gens   == 0 .. MaxGen
Writes == 1 .. MaxWrites

Ended      == {"completed", "cancelled", "superseded"}
Returnable == {"paused", "fenced", "copied", "verified", "returning"}
Phases     == Returnable \cup Ended \cup {"activated", "absent"}

Desired == {"ready", "suspended"}

\* observed: pending stands for reconciling too.
Environments == [runtime : Runtimes, gen : Gens, movement : Movements \cup {None},
                 desired : Desired, observed : {"pending", "ready", "suspended", "failed"}]

\* A journal row; its destination_generation is sgen + 1.
Rows == [phase : Phases, src : Runtimes, dst : Runtimes, sgen : Gens, mode : {"move", "rollback"}]

\* state: no database, one without customer tables, one with an identity; mark: the
\* movement whose marker it carries; gen: environment_identity.routing_generation;
\* pw: the generation of the role passwords; open: the roles may LOGIN and CONNECT;
\* enabled: execution_enabled; exec: the execution barrier and execution_unsettled.
Databases == [state : {"absent", "empty", "restored"}, mark : Movements \cup {None},
              gen : Gens, pw : Gens, open : BOOLEAN, enabled : BOOLEAN,
              exec : {"idle", "running", "unsettled"}, data : SUBSET Writes]

PCs == {"idle", "claim", "request", "read", "fence", "close", "copy", "create", "restore",
        "verify", "reconcile", "stamp", "quiet", "hold", "before", "activate", "after", "enable",
        "observe", "advance",
        "fenceDst", "closeDst", "fenceSrc", "closeSrc", "prepareSrc", "giveBack", "republish"}

\* prov: the runtime whose provisioner move-cli built before it took the lock;
\* phase: what store.read returned; lost: the lock's connection died.
Controls == [pc : PCs, id : Movements \cup {None}, return : BOOLEAN,
             prov : Runtimes, phase : Phases, lost : BOOLEAN]

Idle == [pc |-> "idle", id |-> None, return |-> FALSE, prov |-> Home,
         phase |-> "absent", lost |-> FALSE]

JobPCs == {"idle", "reconcile", "stamp", "finish", "fail"}

\* A claimed operation: where, for which generation, to which state.
Jobs == [pc : JobPCs, runtime : Runtimes, gen : Gens, desired : Desired]

NoJob == [pc |-> "idle", runtime |-> Home, gen |-> 0, desired |-> "ready"]

NoDatabase == [state |-> "absent", mark |-> None, gen |-> 0, pw |-> 0, open |-> FALSE,
               enabled |-> FALSE, exec |-> "idle", data |-> {}]

NoRow == [phase |-> "absent", src |-> Home, dst |-> Home, sgen |-> 0, mode |-> "move"]

\* A provisioned, ready customer at generation 1 on its first runtime.
Init ==
  /\ env = [runtime |-> Home, gen |-> 1, movement |-> None,
            desired |-> "ready", observed |-> "ready"]
  /\ mv = [m \in Movements |-> NoRow]
  /\ db = [r \in Runtimes |-> IF r # Home THEN NoDatabase
             ELSE [NoDatabase EXCEPT !.state = "restored", !.gen = 1, !.pw = 1,
                                     !.open = TRUE, !.enabled = TRUE]]
  /\ archive = [m \in Movements |-> None]
  /\ ctl = [c \in Controllers |-> Idle]
  /\ lock = [m \in Movements |-> None]
  /\ job = [w \in Workers |-> NoJob]
  /\ running = {}
  /\ grants = {}
  /\ kept = {}
  /\ count = [deaths |-> 0, lost |-> 0, stalls |-> 0, late |-> 0, events |-> 0,
              writes |-> 0, returns |-> 0]

------------------------------------------------------------------------------
(* Helpers *)

At(c, pc)   == ctl[c].pc = pc
Goto(c, pc) == ctl' = [ctl EXCEPT ![c].pc = pc]
Row(c)      == mv[ctl[c].id]

\* destination_generation
Dgen_Same(row) == row.sgen
Dgen(row) == row.sgen + 1

\* signal.throwIfAborted() lets the controller pass.
Live(c) == ~ctl[c].lost

\* Leaving exclusive(): the lock is unlocked, if it is still this controller's.
Exit(c) ==
  /\ ctl' = [ctl EXCEPT ![c] = Idle]
  /\ lock' = [m \in Movements |-> IF lock[m] = c THEN None ELSE lock[m]]

\* The database a controller is fencing.
FenceTarget(c) == IF ctl[c].pc \in {"fenceDst", "closeDst"} THEN Row(c).dst ELSE Row(c).src

\* customer-environment:<id> of r's cluster is held.  What its holder does between two
\* statements that show is one step with the first of them.
Locked(r) ==
  \/ \E c \in Controllers : ctl[c].pc \in {"close", "closeDst", "closeSrc"} /\ FenceTarget(c) = r
  \/ \E c \in Controllers : At(c, "stamp") /\ ctl[c].prov = r
  \/ \E w \in Workers : job[w].pc = "stamp" /\ job[w].runtime = r

\* reconcile on the cluster: ensureRoles opens the roles with the passwords of generation g,
\* and at the end of the installation the identity is stamped with it.
Opened(d, g)  == [d EXCEPT !.open = TRUE, !.pw = g]
Stamped(d, g) == [d EXCEPT !.gen = g]

\* A late reconcile takes the cluster's lock only while the bound allows one more.
Counted(late) ==
  /\ late => count.late < MaxLate
  /\ count' = [count EXCEPT !.late = IF late THEN @ + 1 ELSE @]

\* provisioner.verify: a runtime logs in with the password of g and finds g installed.
Serves(r, g) == db[r].open /\ db[r].pw = g /\ db[r].gen = g

\* A client with a grant can log in to r and write.
CanWrite(r) == db[r].open /\ <<r, db[r].pw>> \in grants

------------------------------------------------------------------------------
(* The facade and the customer *)

\* authorize: a grant names the placement it was issued for.
Authorize ==
  /\ env.movement = None /\ env.desired = "ready" /\ env.observed = "ready"
  /\ grants' = grants \cup {<<env.runtime, env.gen>>}
  /\ UNCHANGED <<env, mv, db, archive, ctl, lock, provision, kept, count>>

Write(r) ==
  /\ CanWrite(r)
  /\ count.writes < MaxWrites
  /\ LET w == count.writes + 1 IN
       /\ db' = [db EXCEPT ![r].data = @ \cup {w}]
       /\ kept' = kept \cup {w}
       /\ count' = [count EXCEPT !.writes = w]
  /\ UNCHANGED <<env, mv, archive, ctl, lock, provision, grants>>

\* A new event opens a generation unless a movement holds the environment.
AcceptEntitlement(desired) ==
  /\ count.events < MaxEvents
  /\ env.movement = None => env.gen < MaxGen
  /\ env' = [env EXCEPT !.desired = desired, !.observed = "pending",
                        !.gen = IF env.movement = None THEN @ + 1 ELSE @]
  /\ count' = [count EXCEPT !.events = @ + 1]
  /\ UNCHANGED <<mv, db, archive, ctl, lock, provision, grants, kept>>

------------------------------------------------------------------------------
(* The provisioners: ControlStore.claim, work, CustomerDatabaseProvisioner.reconcile *)

\* claim skips an environment that a movement holds, and an operation in work whose lease
\* is live; that of a worker that is gone will expire.
Claimable == env.movement = None /\ env.observed = "pending"

InWork(g) == g \in running /\ \E w \in Workers : job[w].pc # "idle" /\ job[w].gen = g

ClaimJob(w) ==
  /\ job[w].pc = "idle" /\ Claimable
  /\ InWork(env.gen) => count.stalls < MaxStalls
  /\ count' = [count EXCEPT !.stalls = IF InWork(env.gen) THEN @ + 1 ELSE @]
  /\ running' = running \cup {env.gen}
  /\ job' = [job EXCEPT ![w] = [pc |-> "reconcile", runtime |-> env.runtime, gen |-> env.gen,
                                desired |-> env.desired]]
  /\ UNCHANGED <<env, mv, db, archive, ctl, lock, grants, kept>>

JobGoto(w, pc) == job' = [job EXCEPT ![w].pc = pc]

\* The directory has a movement or another placement by now.
LateJob(w) == env.movement # None \/ env.runtime # job[w].runtime

\* Under the lock: a database of a later generation is refused; suspend closes the roles.
JobReconciles(w) ==
  /\ job[w].pc = "reconcile" /\ ~Locked(job[w].runtime)
  /\ LET r == job[w].runtime  g == job[w].gen IN
       IF db[r].gen > g THEN JobGoto(w, "fail") /\ UNCHANGED <<db, count>>
       ELSE /\ Counted(LateJob(w))
            /\ IF job[w].desired = "ready"
               THEN db' = [db EXCEPT ![r] = Opened(@, g)] /\ JobGoto(w, "stamp")
               ELSE db' = [db EXCEPT ![r].open = FALSE] /\ JobGoto(w, "finish")
  /\ UNCHANGED <<env, mv, archive, ctl, lock, running, grants, kept>>

\* ... and verify, before the lock is released.
JobStamps(w) ==
  /\ job[w].pc = "stamp"
  /\ LET r == job[w].runtime IN
       /\ db' = [db EXCEPT ![r] = Stamped(@, job[w].gen)]
       /\ JobGoto(w, IF db[r].open /\ db[r].pw = job[w].gen THEN "finish" ELSE "fail")
  /\ UNCHANGED <<env, mv, archive, ctl, lock, running, grants, kept, count>>

\* finish and fail: the placement is still the job's.
Placed(w) == env.movement = None /\ env.runtime = job[w].runtime /\ env.gen = job[w].gen

\* The processes of one runtime share their lease owner, so running is enough to own it.
JobFinishes(w) ==
  /\ job[w].pc = "finish"
  /\ IF Placed(w) /\ job[w].gen \in running
     THEN /\ env' = [env EXCEPT !.observed = env.desired]
          /\ running' = running \ {job[w].gen}
          /\ job' = [job EXCEPT ![w] = NoJob]
     ELSE JobGoto(w, "fail") /\ UNCHANGED <<env, running>>
  /\ UNCHANGED <<mv, db, archive, ctl, lock, grants, kept, count>>

JobFails(w) ==
  /\ job[w].pc = "fail"
  /\ env' = IF Placed(w) /\ job[w].gen \in running THEN [env EXCEPT !.observed = "failed"] ELSE env
  /\ running' = running \ {job[w].gen}
  /\ job' = [job EXCEPT ![w] = NoJob]
  /\ UNCHANGED <<mv, db, archive, ctl, lock, grants, kept, count>>

\* A statement of a job fails or times out.
JobBreaks(w) ==
  /\ job[w].pc \in {"reconcile", "stamp", "finish"}
  /\ count.deaths < MaxDeaths
  /\ JobGoto(w, "fail")
  /\ count' = [count EXCEPT !.deaths = @ + 1]
  /\ UNCHANGED <<env, mv, db, archive, ctl, lock, running, grants, kept>>

\* A runtime's provisioner dies; what it had claimed stays running.
ProvisionerDies(r) ==
  /\ \E w \in Workers : job[w].pc # "idle" /\ job[w].runtime = r
  /\ count.deaths < MaxDeaths
  /\ job' = [w \in Workers |-> IF job[w].runtime = r THEN NoJob ELSE job[w]]
  /\ count' = [count EXCEPT !.deaths = @ + 1]
  /\ UNCHANGED <<env, mv, db, archive, ctl, lock, running, grants, kept>>

------------------------------------------------------------------------------
(* Actor execution, as far as a movement waits for it *)

Execute(r) ==
  /\ CanWrite(r) /\ db[r].enabled /\ db[r].exec = "idle"
  /\ db' = [db EXCEPT ![r].exec = "running"]
  /\ UNCHANGED <<env, mv, archive, ctl, lock, provision, grants, kept, count>>

Settle(r) ==
  /\ db[r].exec = "running"
  /\ db' = [db EXCEPT ![r].exec = "idle"]
  /\ UNCHANGED <<env, mv, archive, ctl, lock, provision, grants, kept, count>>

\* An operator has determined what became of a dead executor's effects.
ReconcileEffects(r) ==
  /\ db[r].exec = "unsettled"
  /\ db' = [db EXCEPT ![r].exec = "idle"]
  /\ UNCHANGED <<env, mv, archive, ctl, lock, provision, grants, kept, count>>

\* The executor dies: its barrier session is gone, its unsettled mark stays.
ExecutorDies(r) ==
  /\ db[r].exec = "running"
  /\ count.deaths < MaxDeaths
  /\ db' = [db EXCEPT ![r].exec = "unsettled"]
  /\ count' = [count EXCEPT !.deaths = @ + 1]
  /\ UNCHANGED <<env, mv, archive, ctl, lock, provision, grants, kept>>

------------------------------------------------------------------------------
(* The operator: move-cli begin and rollback (CustomerMovementStore.begin) *)

\* A rollback's retained movement brought the customer here from where it goes back to,
\* and no controller holds its lock.
Retained(dst) == {m \in Movements :
  mv[m].phase \in {"activated", "completed"} /\ mv[m].src = dst /\ mv[m].dst = env.runtime
  /\ lock[m] = None}

\* customer_movement_active_idx: one unfinished row, once supersede has ended another.
NoneActive(superseded) == \A m \in Movements \ superseded : mv[m].phase \in Ended \cup {"absent"}

\* begin refuses while any operation is running, and the last safe generation: the
\* destination needs the next one.
BeginAllowed_AnyGeneration == /\ env.movement = None /\ running = {}
                              /\ env.desired = "ready" /\ env.observed = "ready"
BeginAllowed == /\ env.movement = None /\ running = {}
                /\ env.desired = "ready" /\ env.observed = "ready"
                /\ env.gen < MaxGen

Record(m, dst, mode, superseded) ==
  /\ BeginAllowed
  /\ mv[m].phase = "absent" /\ dst # env.runtime
  /\ NoneActive(superseded)
  /\ mv' = [n \in Movements |->
       IF n = m THEN [phase |-> "paused", src |-> env.runtime, dst |-> dst,
                      sgen |-> env.gen, mode |-> mode]
       ELSE IF n \in superseded THEN [mv[n] EXCEPT !.phase = "superseded"] ELSE mv[n]]
  /\ env' = [env EXCEPT !.movement = m]
  /\ UNCHANGED <<db, archive, ctl, lock, provision, grants, kept, count>>

Begin(m, dst) == Record(m, dst, "move", {})

Rollback(m, dst) == \E old \in Retained(dst) :
  Record(m, dst, "rollback", {old} \cap {n \in Movements : mv[n].phase = "activated"})

------------------------------------------------------------------------------
(* A controller: move-cli resume or return, exclusive, resumeMovement *)

\* The provisioner is chosen from the phase read before the lock is taken.
ProvisionerFor_Placement(m, return) == env.runtime
ProvisionerFor(m, return) == IF return \/ mv[m].phase = "returning" THEN mv[m].src ELSE mv[m].dst

Start(c, m, return) ==
  /\ At(c, "idle")
  /\ mv[m].phase \notin (IF return THEN {"absent", "cancelled"} ELSE Ended \cup {"absent"})
  /\ return => count.returns < MaxReturns
  /\ count' = [count EXCEPT !.returns = IF return THEN @ + 1 ELSE @]
  /\ ctl' = [ctl EXCEPT ![c] = [Idle EXCEPT !.pc = "claim", !.id = m, !.return = return,
       !.prov = ProvisionerFor(m, return)]]
  /\ UNCHANGED <<env, mv, db, archive, lock, provision, grants, kept>>

\* pg_try_advisory_lock
Claim(c) ==
  /\ At(c, "claim") /\ lock[ctl[c].id] = None
  /\ lock' = [lock EXCEPT ![ctl[c].id] = c]
  /\ Goto(c, IF ctl[c].return THEN "request" ELSE "read")
  /\ UNCHANGED <<env, mv, db, archive, provision, grants, kept, count>>

\* ... and requestReturn the last destination generation: the source needs the next one.
CanRequest(c) == Row(c).phase \in Returnable \cup {"cancelled"} /\ Dgen(Row(c)) < MaxGen

RequestReturn(c) ==
  /\ At(c, "request") /\ CanRequest(c)
  /\ mv' = [mv EXCEPT ![ctl[c].id].phase = IF @ = "cancelled" THEN @ ELSE "returning"]
  /\ Goto(c, "read")
  /\ UNCHANGED <<env, db, archive, lock, provision, grants, kept, count>>

\* The driver step of each phase.
StepFor(phase) ==
  CASE phase = "paused" -> "fence" [] phase = "fenced" -> "copy" [] phase = "copied" -> "verify"
    [] phase = "verified" -> "before" [] phase = "activated" -> "after"
    [] phase = "returning" -> "fenceDst"

Read(c) ==
  /\ At(c, "read") /\ Live(c)
  /\ IF Row(c).phase \in Ended THEN Exit(c)
     ELSE /\ ctl' = [ctl EXCEPT ![c].phase = Row(c).phase, ![c].pc = StepFor(Row(c).phase)]
          /\ UNCHANGED lock
  /\ UNCHANGED <<env, mv, db, archive, provision, grants, kept, count>>

Successor == [paused |-> "fenced", fenced |-> "copied", copied |-> "verified",
              activated |-> "completed"]

\* UPDATE ... WHERE phase is still the one read
CanAdvance(c) == Row(c).phase = ctl[c].phase

Advance(c) ==
  /\ At(c, "advance") /\ CanAdvance(c)
  /\ mv' = [mv EXCEPT ![ctl[c].id].phase = Successor[ctl[c].phase]]
  /\ Goto(c, "read")
  /\ UNCHANGED <<env, db, archive, lock, provision, grants, kept, count>>

------------------------------------------------------------------------------
(* The driver: PostgresMovementDriver *)

\* assertFenced
Fenced(r) == ~db[r].enabled /\ ~db[r].open

\* assertIdentity: the source must be at the generation the movement took it at, or at
\* the one an interrupted return already gave it.
SourceIdentity_AsTaken(c) == db[Row(c).src].gen = Row(c).sgen
SourceIdentity(c) ==
  \/ db[Row(c).src].gen = Row(c).sgen
  \/ ctl[c].phase = "returning" /\ db[Row(c).src].gen = Dgen(Row(c)) + 1

HasIdentity(r) == db[r].state = "restored"

\* returnToSource leaves a destination alone that has no customer tables yet.
Untouched(c) == At(c, "fenceDst") /\ ~HasIdentity(Row(c).dst)

CanPause(c) ==
  IF At(c, "fenceDst")
  THEN HasIdentity(Row(c).dst) \/ db[Row(c).dst].mark \in {None, ctl[c].id}
  ELSE HasIdentity(Row(c).src) /\ SourceIdentity(c)

\* fence, or one of the two fences of returnToSource: under the cluster's environment lock,
\* execution is paused ...
Pause(c) ==
  /\ ctl[c].pc \in {"fence", "fenceDst", "fenceSrc"}
  /\ Live(c) /\ ~Locked(FenceTarget(c)) /\ CanPause(c)
  /\ IF Untouched(c) THEN UNCHANGED db ELSE db' = [db EXCEPT ![FenceTarget(c)].enabled = FALSE]
  /\ Goto(c, IF Untouched(c) THEN "fenceSrc"
             ELSE CASE At(c, "fence") -> "close" [] At(c, "fenceDst") -> "closeDst"
                    [] At(c, "fenceSrc") -> "closeSrc")
  /\ UNCHANGED <<env, mv, archive, lock, provision, grants, kept, count>>

\* ... and once the executors have left the barrier and nothing is unsettled, the roles
\* are closed and their sessions terminated.
CanClose(c) == db[FenceTarget(c)].exec # "unsettled" /\ Live(c)

\* pg_advisory_lock on the execution barrier
Drained_Paused(c) == ~db[FenceTarget(c)].enabled
Drained(c) == db[FenceTarget(c)].exec = "idle"

Close(c) ==
  /\ ctl[c].pc \in {"close", "closeDst", "closeSrc"}
  /\ CanClose(c) /\ Drained(c)
  /\ db' = [db EXCEPT ![FenceTarget(c)].open = FALSE]
  /\ Goto(c, CASE At(c, "close") -> "advance" [] At(c, "closeDst") -> "fenceSrc"
               [] At(c, "closeSrc") -> "prepareSrc")
  /\ UNCHANGED <<env, mv, archive, lock, provision, grants, kept, count>>

\* copy: a rollback goes back to the retained database; a move dumps once and keeps the dump.
CanCopy(c) == /\ Fenced(Row(c).src)
              /\ Row(c).mode = "rollback" => HasIdentity(Row(c).dst)

Copy(c) ==
  /\ At(c, "copy") /\ CanCopy(c)
  /\ Row(c).mode = "rollback" => Live(c)
  /\ IF Row(c).mode = "move" /\ archive[ctl[c].id] = None
     THEN LET s == db[Row(c).src] IN archive' = [archive EXCEPT ![ctl[c].id] =
            [gen |-> s.gen, enabled |-> s.enabled, data |-> s.data]]
     ELSE UNCHANGED archive
  /\ Goto(c, IF Row(c).mode = "move" THEN "create" ELSE "advance")
  /\ UNCHANGED <<env, mv, db, lock, provision, grants, kept, count>>

\* An existing destination is refused unless this movement marked it.
CanCreate_Overwrite(c) == TRUE
CanCreate(c) == LET d == db[Row(c).dst] IN d.state = "absent" \/ d.mark = ctl[c].id

Create(c) ==
  /\ At(c, "create") /\ CanCreate(c)
  /\ db' = [db EXCEPT ![Row(c).dst] =
       IF @.state = "absent" THEN [NoDatabase EXCEPT !.state = "empty", !.mark = ctl[c].id]
       ELSE [@ EXCEPT !.open = FALSE]]
  /\ Goto(c, "restore")
  /\ UNCHANGED <<env, mv, archive, lock, provision, grants, kept, count>>

\* pg_restore --single-transaction, once
Restore(c) ==
  /\ At(c, "restore") /\ Live(c)
  /\ LET a == archive[ctl[c].id] IN db' = [db EXCEPT ![Row(c).dst] =
       IF @.state = "restored" THEN @
       ELSE [@ EXCEPT !.state = "restored", !.gen = a.gen, !.enabled = a.enabled, !.data = a.data]]
  /\ Goto(c, "advance")
  /\ UNCHANGED <<env, mv, archive, lock, provision, grants, kept, count>>

\* prepareDestination: the signal is checked before each reconcile ...
CanVerify(c) == Fenced(Row(c).src) /\ HasIdentity(Row(c).dst)

Verify(c) ==
  /\ At(c, "verify") /\ Live(c) /\ CanVerify(c)
  /\ Goto(c, "reconcile")
  /\ UNCHANGED <<env, mv, db, archive, lock, provision, grants, kept, count>>

\* returnToSource, after both fences: the source is prepared above both generations.
PrepareSource(c) ==
  /\ At(c, "prepareSrc") /\ Live(c)
  /\ Goto(c, "reconcile")
  /\ UNCHANGED <<env, mv, db, archive, lock, provision, grants, kept, count>>

PreparedGen(c) == IF ctl[c].phase = "returning" THEN Dgen(Row(c)) + 1 ELSE Dgen(Row(c))

\* ... which waits for the lock of the cluster the provisioner was built for, refuses a
\* database of a later generation, and opens the roles, whoever has the movement by then.
CanReconcile(c) == LET d == db[ctl[c].prov] IN d.state = "restored" /\ d.gen <= PreparedGen(c)

Reconcile(c) ==
  /\ At(c, "reconcile") /\ ~Locked(ctl[c].prov) /\ CanReconcile(c)
  /\ Counted(ctl[c].lost)
  /\ db' = [db EXCEPT ![ctl[c].prov] = Opened(@, PreparedGen(c))]
  /\ Goto(c, "stamp")
  /\ UNCHANGED <<env, mv, archive, lock, provision, grants, kept>>

Stamp(c) ==
  /\ At(c, "stamp")
  /\ db' = [db EXCEPT ![ctl[c].prov] = Stamped(@, PreparedGen(c))]
  /\ Goto(c, IF ctl[c].phase = "returning" THEN "giveBack" ELSE "quiet")
  /\ UNCHANGED <<env, mv, archive, lock, provision, grants, kept, count>>

\* verifyApplication logs in to the runtime the provisioner was built for ...
Quiet(c) ==
  /\ At(c, "quiet") /\ Live(c) /\ Serves(ctl[c].prov, Dgen(Row(c)))
  /\ Goto(c, "hold")
  /\ UNCHANGED <<env, mv, db, archive, lock, provision, grants, kept, count>>

AtGeneration(c) == db[Row(c).dst].gen = Dgen(Row(c))

\* ... and execution stays paused until the directory publishes this destination.
Hold(c) ==
  /\ At(c, "hold") /\ AtGeneration(c)
  /\ db' = [db EXCEPT ![Row(c).dst].enabled = FALSE]
  /\ Goto(c, "advance")
  /\ UNCHANGED <<env, mv, archive, lock, provision, grants, kept, count>>

CanBefore(c) == Fenced(Row(c).src) /\ Serves(ctl[c].prov, Dgen(Row(c))) /\ AtGeneration(c)

BeforeActivate(c) ==
  /\ At(c, "before") /\ Live(c) /\ CanBefore(c)
  /\ Goto(c, "activate")
  /\ UNCHANGED <<env, mv, db, archive, lock, provision, grants, kept, count>>

\* The conditions of the UPDATE that publishes a placement: the environment is still held
\* by this movement where it began, the customer is still entitled, the phase is the one
\* the controller acted on.
CanPublish(c, phase) ==
  /\ env.movement = ctl[c].id /\ env.runtime = Row(c).src /\ env.gen = Row(c).sgen
  /\ env.desired = "ready"
  /\ Row(c).phase = phase

Publish(c, runtime, gen, phase) ==
  /\ env' = [env EXCEPT !.runtime = runtime, !.gen = gen, !.movement = None, !.observed = "ready"]
  /\ mv' = [mv EXCEPT ![ctl[c].id].phase = phase]
  /\ Goto(c, "read")
  /\ UNCHANGED <<db, archive, lock, provision, grants, count>>

\* A rollback was accepted to lose what the retained database does not have.
Activate(c) ==
  /\ At(c, "activate") /\ CanPublish(c, "verified")
  /\ Publish(c, Row(c).dst, Dgen(Row(c)), "activated")
  /\ kept' = IF Row(c).mode = "rollback" THEN db[Row(c).dst].data ELSE kept

AfterActivate(c) ==
  /\ At(c, "after") /\ Live(c) /\ Fenced(Row(c).src)
  /\ Goto(c, "enable")
  /\ UNCHANGED <<env, mv, db, archive, lock, provision, grants, kept, count>>

EnableExecution(c) ==
  /\ At(c, "enable") /\ AtGeneration(c)
  /\ db' = [db EXCEPT ![Row(c).dst].enabled = (Row(c).mode # "rollback")]
  /\ Goto(c, "observe")
  /\ UNCHANGED <<env, mv, archive, lock, provision, grants, kept, count>>

Observe(c) ==
  /\ At(c, "observe") /\ Live(c) /\ Serves(ctl[c].prov, Dgen(Row(c)))
  /\ Goto(c, "advance")
  /\ UNCHANGED <<env, mv, db, archive, lock, provision, grants, kept, count>>

CanGiveBack(c) == LET g == Dgen(Row(c)) + 1 IN
  Serves(ctl[c].prov, g) /\ db[Row(c).src].gen = g /\ ~db[Row(c).src].enabled

GiveBack(c) ==
  /\ At(c, "giveBack") /\ Live(c) /\ CanGiveBack(c)
  /\ Goto(c, "republish")
  /\ UNCHANGED <<env, mv, db, archive, lock, provision, grants, kept, count>>

\* activate with return evidence
Republish(c) ==
  /\ At(c, "republish") /\ CanPublish(c, "returning")
  /\ Publish(c, Row(c).src, Dgen(Row(c)) + 1, "cancelled")
  /\ UNCHANGED kept

------------------------------------------------------------------------------
(* Refusals and faults *)

\* A step whose check fails throws, and so does a signal check of a lost controller: the
\* movement keeps its phase.
Refused(c) ==
  \/ At(c, "claim") /\ lock[ctl[c].id] # None
  \/ At(c, "request") /\ ~CanRequest(c)
  \/ At(c, "advance") /\ ~CanAdvance(c)
  \/ ctl[c].pc \in {"fence", "fenceDst", "fenceSrc"} /\ ~CanPause(c)
  \/ ctl[c].pc \in {"close", "closeDst", "closeSrc"} /\ ~CanClose(c)
  \/ At(c, "copy") /\ ~CanCopy(c)
  \/ At(c, "create") /\ ~CanCreate(c)
  \/ At(c, "verify") /\ ~CanVerify(c)
  \/ At(c, "reconcile") /\ ~CanReconcile(c)
  \/ At(c, "quiet") /\ ~Serves(ctl[c].prov, Dgen(Row(c)))
  \/ At(c, "hold") /\ ~AtGeneration(c)
  \/ At(c, "before") /\ ~CanBefore(c)
  \/ At(c, "activate") /\ ~CanPublish(c, "verified")
  \/ At(c, "after") /\ ~Fenced(Row(c).src)
  \/ At(c, "enable") /\ ~AtGeneration(c)
  \/ At(c, "observe") /\ ~Serves(ctl[c].prov, Dgen(Row(c)))
  \/ At(c, "giveBack") /\ ~CanGiveBack(c)
  \/ At(c, "republish") /\ ~CanPublish(c, "returning")

Refuse(c) ==
  /\ ~At(c, "idle") /\ (Refused(c) \/ ctl[c].lost)
  /\ Exit(c)
  /\ UNCHANGED <<env, mv, db, archive, provision, grants, kept, count>>

\* The controller dies or a statement times out; fencing waits for a running executor.
Die(c) ==
  /\ ~At(c, "idle") /\ count.deaths < MaxDeaths
  /\ Exit(c)
  /\ count' = [count EXCEPT !.deaths = @ + 1]
  /\ UNCHANGED <<env, mv, db, archive, provision, grants, kept>>

\* The lock's connection dies under a controller that goes on for now.
LoseLock(c) ==
  /\ ~At(c, "idle") /\ lock[ctl[c].id] = c /\ count.lost < MaxLost
  /\ lock' = [lock EXCEPT ![ctl[c].id] = None]
  /\ ctl' = [ctl EXCEPT ![c].lost = TRUE]
  /\ count' = [count EXCEPT !.lost = @ + 1]
  /\ UNCHANGED <<env, mv, db, archive, provision, grants, kept>>

------------------------------------------------------------------------------

\* One step of a controller that a fault or an operator did not cause.
Step(c) ==
  \/ Claim(c) \/ RequestReturn(c) \/ Read(c) \/ Advance(c) \/ Refuse(c)
  \/ Pause(c) \/ Close(c)
  \/ Copy(c) \/ Create(c) \/ Restore(c)
  \/ Verify(c) \/ PrepareSource(c) \/ Reconcile(c) \/ Stamp(c) \/ Quiet(c) \/ Hold(c)
  \/ BeforeActivate(c) \/ Activate(c) \/ AfterActivate(c) \/ EnableExecution(c) \/ Observe(c)
  \/ GiveBack(c) \/ Republish(c)

\* One round of a provisioner's loop.
Work(w) == JobReconciles(w) \/ JobStamps(w) \/ JobFinishes(w) \/ JobFails(w)

Next ==
  \/ Authorize
  \/ \E desired \in Desired : AcceptEntitlement(desired)
  \/ \E r \in Runtimes :
       Write(r) \/ Execute(r) \/ Settle(r) \/ ReconcileEffects(r) \/ ExecutorDies(r)
  \/ \E m \in Movements, r \in Runtimes : Begin(m, r) \/ Rollback(m, r)
  \/ \E c \in Controllers : Step(c) \/ Die(c) \/ LoseLock(c)
  \/ \E c \in Controllers, m \in Movements : \E return \in BOOLEAN : Start(c, m, return)
  \/ \E w \in Workers : ClaimJob(w) \/ Work(w) \/ JobBreaks(w)
  \/ \E r \in Runtimes : ProvisionerDies(r)

Spec == Init /\ [][Next]_vars

\* A controller's process runs on; executors settle; the provisioners go on with what they
\* claimed; and the host lifecycle controller, or an operator, resumes a movement until it
\* ends.  Nobody has to reconcile a dead executor's effects.
Fairness ==
  /\ \A c \in Controllers : WF_vars(Step(c))
  /\ \A m \in Movements : WF_vars(\E c \in Controllers : Start(c, m, FALSE))
  /\ \A r \in Runtimes : WF_vars(Settle(r))
  /\ \A w \in Workers : WF_vars(Work(w))

LiveSpec == Spec /\ Fairness

------------------------------------------------------------------------------
(* Properties *)

MovementTypes ==
  /\ env \in Environments
  /\ mv \in [Movements -> Rows]
  /\ db \in [Runtimes -> Databases]
  /\ \A m \in Movements : archive[m] = None
       \/ archive[m] \in [gen : Gens, enabled : BOOLEAN, data : SUBSET Writes]
  /\ ctl \in [Controllers -> Controls]
  /\ lock \in [Movements -> Controllers \cup {None}]
  /\ grants \subseteq Runtimes \X Gens
  /\ kept \subseteq Writes

JobTypes == job \in [Workers -> Jobs] /\ running \subseteq Gens

\* The directory, the journal, the clusters, the controllers and the provisioners hold
\* values of their types.
TypeOK == MovementTypes /\ JobTypes

\* docs/customer-release-lifecycle.md, "Single-writer and execution ownership": however
\* commands, dying controllers and controllers that lost their lock interleave, at most one
\* copy admits a client that holds any grant ever issued, or has an executor at work, unless
\* a reconcile is late.
SingleWriter ==
  Cardinality({r \in Runtimes : CanWrite(r) \/ db[r].exec = "running"}) <= 1

\* The copy the directory names has every write the customer made: a dump is taken behind
\* the fence, kept, restored once, and only an accepted rollback gives writes up.
NothingLost == kept \subseteq db[env.runtime].data

\* "Historical grants never become current again": no generation is granted on two runtimes,
\* though a return, a rollback and entitlements all number placements.
GrantNamesOnePlacement ==
  \A p, q \in grants : p[2] = q[2] => p[1] = q[1]

\* "Prevent provisioning or entitlement reconciliation from reopening the route": between
\* fence and publication the source admits no client, also while an older controller
\* finishes a step, so what was dumped is what the source holds, unless a reconcile is late.
SourceStaysClosed ==
  \A m \in Movements : mv[m].phase \in {"fenced", "copied", "verified"} =>
    /\ ~db[mv[m].src].open
    /\ archive[m] # None => archive[m].data = db[mv[m].src].data

\* What may hold a movement up for good: the customer is no longer entitled; an entitlement
\* opened a generation between activation and completion; the destination carries another
\* movement's database; a controller that lost its lock re-enabled a fenced source; a dead
\* executor's effects wait for an operator.
Obstructed(m) ==
  \/ env.desired # "ready"
  \/ mv[m].phase = "activated" /\ env.gen # Dgen(mv[m])
  \/ mv[m].mode = "move" /\ db[mv[m].dst].state # "absent" /\ db[mv[m].dst].mark # m
  \/ mv[m].phase \in {"fenced", "copied", "verified", "activated"} /\ db[mv[m].src].enabled
  \/ db[mv[m].src].exec = "unsettled" \/ db[mv[m].dst].exec = "unsettled"

\* Resuming is enough: unless it stays obstructed, a begun movement ends, from every phase a
\* crash can leave it in, with the destination activated or the source given back.
MovementEnds ==
  \A m \in Movements :
    <>[]~Obstructed(m) => []<>(mv[m].phase \in Ended \cup {"absent"})

\* docs/operations/backup-and-recovery.md: "Return a failed movement to its original runtime
\* before activation"; with resume repeated, a returning movement of an entitled customer is
\* cancelled, unless a dead executor's effects wait for an operator.
ReturnCompletes ==
  \A m \in Movements :
    mv[m].phase = "returning" ~>
      \/ mv[m].phase = "cancelled"
      \/ env.desired # "ready"
      \/ \E r \in {mv[m].src, mv[m].dst} : db[r].exec = "unsettled"

=============================================================================
