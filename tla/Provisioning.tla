---------------------------- MODULE Provisioning ----------------------------
(***************************************************************************)
(* One customer environment between the facade, which records what the     *)
(* customer is entitled to (aven-api, customers/store.ts), and the         *)
(* provisioner, whose work() calls claim component operations, bring the   *)
(* customer database to them and report what they observed                 *)
(* (platform-provisioner: control.ts, postgres.ts, index.ts).              *)
(*                                                                         *)
(* A worker is one work() call of the loop in index.ts; the calls of one   *)
(* process share its instanceId, which is the lease owner.  They loop here *)
(* on their own, which includes the rounds Promise.all makes of them.  A   *)
(* step is one control transaction, or one group of statements on the      *)
(* customer's cluster.                                                     *)
(* Movement of the environment to another runtime is left out: here        *)
(* movement_id is NULL, so every entitlement opens a generation and a      *)
(* generation has one action.  Schema versions and digests are those of    *)
(* the one static catalog; a mismatch is one of the errors of Break.       *)
(***************************************************************************)
EXTENDS Naturals, FiniteSets

CONSTANTS
  Components,   \* the static component catalog
  Workers,      \* concurrent work() calls
  Instances,    \* provisioner processes
  InstanceOf,   \* the process a worker belongs to
  NoOne,        \* no lease owner, no lock holder
  MaxGen,       \* bound: entitlement events
  MaxCrashes,   \* bound: process deaths
  MaxErrors,    \* bound: statements or calls that fail
  MaxStalls,    \* bound: leases that expire under a live worker
  MaxRetries    \* bound: operator reconcile commands

ASSUME WorkersAssumption == InstanceOf \in [Workers -> Instances]
ASSUME NoOneAssumption == NoOne \notin Workers \cup Instances \cup Components
ASSUME MaxGenAssumption == MaxGen \in Nat
ASSUME BoundsAssumption ==
  MaxCrashes \in Nat /\ MaxErrors \in Nat /\ MaxStalls \in Nat /\ MaxRetries \in Nat

VARIABLES
  env,      \* the row of customer_environments
  comps,    \* customer_environment_components: observed_state per component
  ops,      \* customer_component_operations per component and generation
  job,      \* per worker, its program counter and claimed operation
  lock,     \* holder of the cluster's advisory lock customer-environment:<id>
  db,       \* the customer database: identity, installations, roles
  faults    \* faults and operator retries so far

vars == <<env, comps, ops, job, lock, db, faults>>
control == <<env, comps, ops>>

Gens == 1 .. MaxGen

Desired  == {"ready", "suspended"}
Observed == {"pending", "reconciling", "ready", "suspended", "failed"}
Statuses == {"absent", "queued", "running", "succeeded", "failed"}
Actions  == {"reconcile", "suspend"}

\* desired_state "none" with generation 0: the customer has bought nothing yet.
Environments == [gen : 0 .. MaxGen, desired : Desired \cup {"none"},
                 observed : Observed \cup {"none"}]

\* live: lease_expires_at is in the future.
Operations == [action : Actions, status : Statuses, owner : Instances \cup {NoOne}, live : BOOLEAN]

\* identity: environment_identity.routing_generation, 0 before ensureDatabase; per
\* component, the generation of its role's password, of its row in
\* component_installations, and whether its role may CONNECT.
Databases == [identity : 0 .. MaxGen, password : [Components -> 0 .. MaxGen],
              installed : [Components -> 0 .. MaxGen], connect : [Components -> BOOLEAN]]

PCs == {"idle", "lock", "check", "roles", "connect", "record", "stamp", "verify",
        "suspend", "finish", "fail"}

\* component and gen name the operation in hand, none when idle.
Jobs == [pc : PCs, component : Components \cup {NoOne}, gen : 0 .. MaxGen]

Idle == [pc |-> "idle", component |-> NoOne, gen |-> 0]

Absent == [action |-> "reconcile", status |-> "absent", owner |-> NoOne, live |-> FALSE]

Init ==
  /\ env = [gen |-> 0, desired |-> "none", observed |-> "none"]
  /\ comps = [c \in Components |-> "pending"]
  /\ ops = [c \in Components |-> [g \in Gens |-> Absent]]
  /\ job = [w \in Workers |-> Idle]
  /\ lock = NoOne
  /\ db = [identity |-> 0, password |-> [c \in Components |-> 0],
           installed |-> [c \in Components |-> 0], connect |-> [c \in Components |-> FALSE]]
  /\ faults = [crashes |-> 0, errors |-> 0, stalls |-> 0, retries |-> 0]

------------------------------------------------------------------------------
(* Helpers *)

At(w, pc) == job[w].pc = pc

Goto(w, pc) == job' = [job EXCEPT ![w].pc = pc]

\* The component, and the row of the operation, that w has in hand.
Target(w) == job[w].component

Row(w) == ops[Target(w)][job[w].gen]

\* The finally block of reconcile(): the session lock is released on every way out.
Unlock(w) == lock' = IF lock = w THEN NoOne ELSE lock

ActionFor_State(desired) == desired
ActionFor(desired) == IF desired = "ready" THEN "reconcile" ELSE "suspend"

------------------------------------------------------------------------------
(* The facade: customers/store.ts *)

\* acceptEntitlement of an event not seen before; a replay changes nothing.
AcceptEntitlement(desired) ==
  /\ env.gen < MaxGen
  /\ env' = [gen |-> env.gen + 1, desired |-> desired, observed |-> "pending"]
  /\ comps' = [c \in Components |-> "pending"]
  /\ ops' = [c \in Components |-> [ops[c] EXCEPT ![env.gen + 1] =
               [action |-> ActionFor(desired), status |-> "queued", owner |-> NoOne, live |-> FALSE]]]
  /\ UNCHANGED <<job, lock, db, faults>>

\* authorize issues a grant for c at env.gen.
Authorized(c) == env.desired = "ready" /\ env.observed = "ready" /\ comps[c] = "ready"

------------------------------------------------------------------------------
(* The operator's reconcile command: move-cli.ts, queueCustomerReconciliation *)

\* A running operation keeps its lease while the lease is live.
Requeued(row) ==
  IF row.status = "running" /\ row.live THEN row
  ELSE [row EXCEPT !.status = "queued", !.owner = NoOne, !.live = FALSE]

Reconcile ==
  /\ env.desired = "ready"
  /\ faults.retries < MaxRetries
  /\ ops' = [c \in Components |-> [ops[c] EXCEPT ![env.gen] = Requeued(@)]]
  /\ comps' = [c \in Components |-> "pending"]
  /\ env' = [env EXCEPT !.observed = "reconciling"]
  /\ faults' = [faults EXCEPT !.retries = @ + 1]
  /\ UNCHANGED <<job, lock, db>>

------------------------------------------------------------------------------
(* Claiming: ControlStore.claim *)

Claimable_NoTakeover(row) == row.status = "queued"
Claimable(row) == row.status = "queued" \/ (row.status = "running" /\ ~row.live)

\* FOR UPDATE ... SKIP LOCKED: any claimable row of the current generation.
Claim(w) ==
  /\ At(w, "idle")
  /\ env.gen \in Gens
  /\ \E c \in Components :
       /\ Claimable(ops[c][env.gen])
       /\ ops' = [ops EXCEPT ![c][env.gen] =
            [@ EXCEPT !.status = "running", !.owner = InstanceOf[w], !.live = TRUE]]
       /\ comps' = [comps EXCEPT ![c] = "reconciling"]
       /\ job' = [job EXCEPT ![w] = [pc |-> "lock", component |-> c, gen |-> env.gen]]
  /\ env' = [env EXCEPT !.observed = "reconciling"]
  /\ UNCHANGED <<lock, db, faults>>

------------------------------------------------------------------------------
(* Reconciling the cluster: CustomerDatabaseProvisioner.reconcile *)

\* pg_advisory_lock blocks until the lock is free.
TakeLock(w) ==
  /\ At(w, "lock")
  /\ lock = NoOne
  /\ lock' = w
  /\ Goto(w, "check")
  /\ UNCHANGED <<control, db, faults>>

\* The identity row ensureDatabase leaves: the one there, or one at generation 1.
Identity == IF db.identity = 0 THEN 1 ELSE db.identity

\* A job whose generation the database has left behind is refused.
Stale_Never(w) == FALSE
Stale(w) == Identity > job[w].gen

CheckIdentity(w) ==
  /\ At(w, "check")
  /\ db' = [db EXCEPT !.identity = Identity]
  /\ IF Stale(w)
     THEN Goto(w, "fail") /\ Unlock(w)
     ELSE /\ Goto(w, IF Row(w).action = "suspend" THEN "suspend" ELSE "roles")
          /\ UNCHANGED lock
  /\ UNCHANGED <<control, faults>>

\* ensureRoles: LOGIN, the password of this generation, REVOKE ALL ...
EnsureRoles(w) ==
  /\ At(w, "roles")
  /\ db' = [db EXCEPT !.password[Target(w)] = job[w].gen, !.connect[Target(w)] = FALSE]
  /\ Goto(w, "connect")
  /\ UNCHANGED <<control, lock, faults>>

\* ... and GRANT CONNECT.
GrantConnect(w) ==
  /\ At(w, "connect")
  /\ db' = [db EXCEPT !.connect[Target(w)] = TRUE]
  /\ Goto(w, "record")
  /\ UNCHANGED <<control, lock, faults>>

\* install, after migrations and grants: the row of component_installations ...
RecordInstallation(w) ==
  /\ At(w, "record")
  /\ db' = [db EXCEPT !.installed[Target(w)] = job[w].gen]
  /\ Goto(w, "stamp")
  /\ UNCHANGED <<control, lock, faults>>

\* ... and the generation of the database.
Stamped(w) == [db EXCEPT !.identity = job[w].gen]

StampIdentity(w) ==
  /\ At(w, "stamp")
  /\ db' = Stamped(w)
  /\ Goto(w, "verify")
  /\ UNCHANGED <<control, lock, faults>>

\* A runtime connects with the password of a generation and finds that generation
\* installed: verify, and TenantPoolProvider.forGrant.
Serves(c, g) == db.connect[c] /\ db.password[c] = g /\ db.installed[c] = g

Verify(w) ==
  /\ At(w, "verify")
  /\ Goto(w, IF Serves(Target(w), job[w].gen) THEN "finish" ELSE "fail")
  /\ Unlock(w)
  /\ UNCHANGED <<control, db, faults>>

\* ensureRoles creates the component's function roles with their first password.
RolesExist(c) == db.password[c] # 0

\* suspend: REVOKE CONNECT, which throws for a role that was never created, and
\* terminate the sessions.  The generation is not recorded.
Suspend(w) ==
  /\ At(w, "suspend")
  /\ IF RolesExist(Target(w))
     THEN db' = [db EXCEPT !.connect[Target(w)] = FALSE] /\ Goto(w, "finish")
     ELSE Goto(w, "fail") /\ UNCHANGED db
  /\ Unlock(w)
  /\ UNCHANGED <<control, faults>>

------------------------------------------------------------------------------
(* Reporting: ControlStore.finish and fail *)

\* UPDATE ... WHERE status='running' AND lease_owner=$2.
Owns(w) == Row(w).status = "running" /\ Row(w).owner = InstanceOf[w]

Placed(w) == env.gen = job[w].gen

Ended(w, status) ==
  ops' = [ops EXCEPT ![Target(w)][job[w].gen] = [@ EXCEPT !.status = status, !.owner = NoOne, !.live = FALSE]]

\* The environment's observed_state, from its components'.
Summary_Any(desired, states) ==
  IF \E c \in Components : states[c] = desired THEN desired ELSE "reconciling"
Summary(desired, states) ==
  IF \A c \in Components : states[c] = desired THEN desired ELSE "reconciling"

Finish(w) ==
  /\ At(w, "finish")
  /\ IF Placed(w) /\ Owns(w)
     THEN /\ Ended(w, "succeeded")
          /\ comps' = [comps EXCEPT ![Target(w)] =
               IF Row(w).action = "suspend" THEN "suspended" ELSE "ready"]
          /\ env' = [env EXCEPT !.observed = Summary(env.desired, comps')]
          /\ job' = [job EXCEPT ![w] = Idle]
     ELSE Goto(w, "fail") /\ UNCHANGED control
  /\ UNCHANGED <<lock, db, faults>>

Fail(w) ==
  /\ At(w, "fail")
  /\ IF Owns(w) THEN Ended(w, "failed") ELSE UNCHANGED ops
  /\ IF Placed(w) /\ Owns(w)
     THEN /\ comps' = [comps EXCEPT ![Target(w)] = "failed"]
          /\ env' = [env EXCEPT !.observed = "failed"]
     ELSE UNCHANGED <<env, comps>>
  /\ job' = [job EXCEPT ![w] = Idle]
  /\ UNCHANGED <<lock, db, faults>>

------------------------------------------------------------------------------
(* Faults *)

\* A statement, the lock wait, the artifact store call or the finish transaction fails or
\* times out, or the operation does not match the catalog; work() goes to fail().
Break(w) ==
  /\ job[w].pc \in PCs \ {"idle", "fail"}
  /\ faults.errors < MaxErrors
  /\ Goto(w, "fail")
  /\ Unlock(w)
  /\ faults' = [faults EXCEPT !.errors = @ + 1]
  /\ UNCHANGED <<control, db>>

\* A process dies, and with it its sessions; a restarted one starts with nothing.
Crash(i) ==
  /\ faults.crashes < MaxCrashes
  /\ \E w \in Workers : InstanceOf[w] = i /\ ~At(w, "idle")
  /\ job' = [w \in Workers |-> IF InstanceOf[w] = i THEN Idle ELSE job[w]]
  /\ lock' = IF lock \in Workers /\ InstanceOf[lock] = i THEN NoOne ELSE lock
  /\ faults' = [faults EXCEPT !.crashes = @ + 1]
  /\ UNCHANGED <<control, db>>

Working(c, g) == \E w \in Workers : Target(w) = c /\ job[w].gen = g

\* A lease runs out; MaxStalls bounds how often it does so under a live worker.
Expire(c, g) ==
  /\ ops[c][g].status = "running"
  /\ ops[c][g].live
  /\ IF Working(c, g)
     THEN faults.stalls < MaxStalls /\ faults' = [faults EXCEPT !.stalls = @ + 1]
     ELSE UNCHANGED faults
  /\ ops' = [ops EXCEPT ![c][g].live = FALSE]
  /\ UNCHANGED <<env, comps, job, lock, db>>

------------------------------------------------------------------------------
(* Specification *)

Step(w) ==
  \/ TakeLock(w) \/ CheckIdentity(w) \/ EnsureRoles(w) \/ GrantConnect(w)
  \/ RecordInstallation(w) \/ StampIdentity(w) \/ Verify(w) \/ Suspend(w)
  \/ Finish(w) \/ Fail(w)

Next ==
  \/ \E d \in Desired : AcceptEntitlement(d)
  \/ Reconcile
  \/ \E w \in Workers : Claim(w) \/ Step(w) \/ Break(w)
  \/ \E i \in Instances : Crash(i)
  \/ \E c \in Components, g \in Gens : Expire(c, g)

Spec == Init /\ [][Next]_vars

\* The loop of index.ts keeps claiming; a claimed operation runs; time passes.
\* pg_advisory_lock queues its waiters, so none is passed over for ever.
Fairness ==
  /\ \A w \in Workers : WF_vars(Claim(w)) /\ WF_vars(Step(w)) /\ SF_vars(TakeLock(w))
  /\ \A c \in Components, g \in Gens : WF_vars(Expire(c, g))

LiveSpec == Spec /\ Fairness

------------------------------------------------------------------------------
(* Properties *)

\* The control rows, the jobs and the database stay within their columns' domains, and
\* a worker that is not idle has an operation of the environment in hand.
TypeOK ==
  /\ env \in Environments
  /\ comps \in [Components -> Observed]
  /\ ops \in [Components -> [Gens -> Operations]]
  /\ job \in [Workers -> Jobs]
  /\ lock \in Workers \cup {NoOne}
  /\ db \in Databases
  /\ faults \in [crashes : Nat, errors : Nat, stalls : Nat, retries : Nat]
  /\ \A w \in Workers : ~At(w, "idle") => job[w].gen \in Gens /\ Target(w) \in Components

\* A grant authorize() issues can be used: the component is installed with the password
\* of the current generation, whatever stale or repeated jobs are still running.  Only
\* CONNECT may be missing for the moment a repeated install revokes and grants it.
GrantIsServed ==
  \A c \in Components : Authorized(c) =>
    /\ db.password[c] = env.gen
    /\ db.installed[c] = env.gen
    /\ db.identity = env.gen

\* The database never goes back to an older generation, so a late job of an old
\* generation cannot undo what a newer one installed.
IdentityNeverRegresses == [][db'.identity >= db.identity]_vars

\* "ready" is observed only of a generation whose operations all succeeded.
ReadyIsEarned ==
  env.observed = "ready" => \A c \in Components : ops[c][env.gen].status = "succeeded"

\* An environment whose suspension was observed admits no component runtime: what the
\* suspension algorithm of docs/customer-database-platform.md revokes stays revoked.
SuspendedIsClosed ==
  env.observed = "suspended" => \A c \in Components : ~db.connect[c]

\* The exception of Converges: a revocation that failed for good, because a component no
\* earlier operation had installed has no role to REVOKE from.
RevokedBeforeInstall ==
  /\ env.desired = "suspended"
  /\ \E c \in Components :
       /\ ops[c][env.gen].status = "failed"
       /\ \A g \in 1 .. env.gen - 1 :
            ~(ops[c][g].action = "reconcile" /\ ops[c][g].status = "succeeded")

\* Without errors, provisioning converges to the last entitlement through crashes,
\* stalls and repeated claims; only a revocation that comes before the first installation
\* does not.
Converges == []<>(env.observed = env.desired \/ RevokedBeforeInstall)

\* A suspended customer's runtimes are eventually shut out, or it is entitled again.
SuspensionTakesEffect ==
  (env.desired = "suspended") ~>
    (env.desired = "ready" \/ \A c \in Components : ~db.connect[c])
=============================================================================
