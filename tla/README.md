# AvenOS: TLA+ models, model checks and proofs

AvenOS sells a customer a name, gives that customer an environment (a set of component
databases on a PostgreSQL cluster), runs actor plans inside it, and talks to its user through a
voice runtime in the desktop app. The parts that are hard to get right are not the computations but
the protocols: services that restart at any moment and coordinate only through rows, leases, advisory
locks and HTTP posts that may be late or repeated; and, in the app, threads and an audio callback
joined by bounded channels. This directory models those protocols, checks them with TLC on small instances,
and proves the central safety properties with TLAPS for every instance.

    tlc -config RunnerSafety.cfg MCSqlPlanRunner     # one run; see "Runs"
    tlapm SqlPlanRunnerProofs.tla                    # the proofs of one component
    tlapm SqlPlanRunnerRefinement.tla                # and that it implements PlanRun
    tlapm ProvisioningProofs.tla
    tlapm EntitlementOutboxProofs.tla
    tlapm CustomerMovementProofs.tla
    tlapm VoiceSessionProofs.tla
    tlapm VoiceTurnsProofs.tla                       # about ten minutes
    tlapm IntentStoreProofs.tla

`PROJECT.json` maps every definition to the source lines it stands for, and lists components,
runs, mutants, hazards, findings and theorems.

## 1. The system

A purchase flows left to right, and each arrow is a place where messages are lost, repeated or
reordered:

    payment provider --webhook--> checkout (names, outbox) --POST--> facade (customer directory)
        --rows--> platform provisioner --SQL--> customer database <--grant-- component runtimes
                                                      ^                      (Actor Runner, ...)
                                                      |
                                    movement controller (operator)

| Component | State it keeps | Operations | Interacts with |
|---|---|---|---|
| Checkout name registry (`services/checkout/.../names`) | `names`, `payment_events`, reservations, claim links | grant and revoke from webhooks, reserve, claim | writes the outbox in the same transaction |
| Checkout platform-event worker (`checkout/scripts/platform-event-worker.ts`) | `platform_event_outbox` with lease, attempts, backoff | claim, post, acknowledge, postpone, give up | posts to the facade |
| Checkout webhook inbox, subscriptions, email worker | delivery rows, subscription rows, email rows with leases | claim, retry, mark dead | payment and mail providers |
| Customer directory (`services/aven-api/src/customers`) | environments, components, operations, applied entitlement events | acceptEntitlement, authorize | provisioner through rows; runtimes through grants |
| Platform provisioner (`services/platform-provisioner`) | leases on operations; databases, roles, `environment_identity`, `component_installations` | claim, reconcile, suspend, verify, finish, fail | customer cluster, artifact store |
| Customer movement (`platform-provisioner/src/movement*.ts`, `move-cli.ts`) | movement row and phase, fence, copies | begin, fence, copy, verify, activate, return, retire | pauses every runtime of the environment |
| Tenant pools (`libs/aven-customer-runtime`) | cache of connection pools per grant | forGrant, evict, end | customer database |
| Actor Runner (`services/actor-runner`) | `aven_actor_runs.runs`, `execution_enabled`, `execution_unsettled`, advisory locks | start, status, cancel, resume, recovery | application executor; paused by movement |
| Voice runtime (`libs/aven-voice-core`, `libs/aven-voice-runtime`, `app/src-tauri/src/voice`) | session, route generation, candidate utterance, narration turns; host streams, workers' queues | start, stop, reset input; begin, enqueue, finish, cancel speech; route faults and retries | coordinator, executor, workers and render callback over channels |
| Intent service (`services/intent-service`) | intents with version and state, contributions, merge commands and relations | create, append, update, archive, restore, delete, merge | customer database; actors and apps as clients |
| Artifact store (Rust) | immutable artifacts, runs, publications | put, run, publish | everything |
| Actor kernel, document ingest, hosting, identity, HTTP vault, apps | in-process state | | |

### What makes it correct, and what makes that hard

*Actor Runner.* An effect of a plan must not be repeated because a process died, and must not be
forgotten. The ledger row is written before and after the effect, never atomically with it; in
between lie a process death, a lost session (which silently frees the advisory lock while the
executor keeps running), a cancellation, another request recovering the same row, and a movement
that wants the database quiet.

*Provisioning.* What the facade grants must be usable, and an old job must not undo a newer
one. Two provisioner processes, or the calls inside one process, can hold the same operation because
a lease ran out under a slow worker, and entitlements keep changing the target meanwhile.

*Entitlement delivery.* Every purchase reaches the customer's environment once, whatever times out
and whichever worker takes over; and a refund wins over the purchase it refunds.

*Movement.* At most one copy of a database is writable, no write is lost when it moves, and a begun
movement can be brought to an end. A controller that loses its lock connection does not know it until
its next check and runs on beside the one that took over; a provisioner's job whose lease ran out runs on
too, and may wait for a cluster's lock for long; and entitlements keep numbering generations.

*Voice.* An active session is one that is really served; a stop releases the microphone; the assistant
does not interrupt itself on its own echo; every narration turn gets one terminal event, and
"completed" means that all of it was heard. Every message in a channel may be one of a route or a turn
that no longer exists.

*Intents.* Versions decide between concurrent commands; merged intents form a forest, a merge takes in
what its client saw and no more, and a closed intent is final. `append` and `merge` read rows, lock
them one by one, and then write by id alone, without looking at version or state again.

*Pools, emails.* A pool in use is not ended; a leased email is sent or given up.

The list of hazards, each at its line and with the property that covers it (or the reason none does
yet), is in `PROJECT.json`.

Some that no model here reaches are kept in mind for later: two statements, REVOKE and GRANT, between
which a repeated install can die (`postgres.ts:261`); the advisory lock of an install, which lives on
a session of its own and can be lost alone (`postgres.ts:105`); a refund that carries a
name's metadata and revokes the other order that won it (`names/service.ts:405`; `RevokeFromEvent` takes the
step, but nothing says which refunds do); and, at 256 waiting messages, the coordinator and the executor of the voice runtime each blocked on
the other's channel (`runtime.rs:330`: `VoiceTurns` bounds the observations, not the actions).

## 2. Modules

| Module | Models | Role |
|---|---|---|
| `RunRecord` | `libs/aven-actors/src/run.ts`, record edits of `sql-runner.ts` | records of a run: transitions, continuations, results |
| `PlanRun` | the `PlanRunner` interface | abstract ledger: what any runner promises |
| `SqlPlanRunner` | `services/actor-runner/src/{sql-runner,handler,index}.ts`, `stopApplicationAccess` in `movement-postgres.ts` | the detailed ledger; implements `PlanRun` |
| `Provisioning` | `aven-api/src/customers/store.ts`, `platform-provisioner/src/{control,postgres,index}.ts` | one environment from entitlement to installed database |
| `EntitlementOutbox` | `checkout/.../names/service.ts`, `platform-events.ts`, `platform-event-worker.ts`, `store.ts` | one name from payment to applied entitlement |
| `CustomerMovement` | `platform-provisioner/src/{movement,movement-postgres,move-cli,control,postgres,index}.ts`, `store.ts` | one environment while it is moved, returned and rolled back, and the provisioners' jobs around it |
| `VoiceSession` | `aven-voice-core/src/state.rs`, `aven-voice-runtime/src/{runtime,pipeline}.rs`, `src-tauri/src/voice/service.rs` | session, route, retries and the utterance being heard |
| `VoiceTurns` | the same, `aven-voice-runtime/src/{workers,output,host}.rs` | narration turns from text to played sample |
| `IntentStore` | `intent-service/src/{store,handler}.ts`, `components/intents/0001_intents.sql` | one owner's intents under concurrent requests |
| `MC*` | | symmetry and the constant functions the configurations use |
| `SqlPlanRunnerProofs`, `ProvisioningProofs`, `EntitlementOutboxProofs`, `CustomerMovementProofs`, `VoiceSessionProofs`, `VoiceTurnsProofs`, `IntentStoreProofs` | | inductive invariants, theorems, proofs |
| `SqlPlanRunnerRefinement` | | the proof that `SqlPlanRunner` implements `PlanRun` |

### SqlPlanRunner

A thread is one HTTP request on any replica, with its program counter; a step is one SQL
statement, because the database is all that threads share. `runs` is the table; `enabled` and
`unsettled` are the two columns of `environment_identity`; `runLock` and `barrier` hold the session
advisory locks, which end with the session. `inflight` is a ghost counter: executor invocations
with no durable outcome.

Every request first recovers (`Request`, `RecoverNext`, `RecoverDone`), then serves one
command (`ServeStatus`, `ServeStart` and `Insert`, `ServeCancel` and `CancelWrite`, `ServeResume`).
`execute()` and `resume()` share the path lock, check, claim, read, begin, running; they differ in
how they give up (return or throw), in what they read, and in how the outcome is written
(`SettleAccepted`, guarded by state only; `SettleWaiting` and `PostponeWrite`, guarded by state and
revision). A throw inside recovery ends the whole request, as in the code. `SessionLost` while the
executor runs leaves a "zombie": the executor goes on, without locks, and its final write throws.
`MoverPause` ... `MoverReopen` are the pause, the exclusive lock, the inspection of
`execution_unsettled`, the closing of all sessions, and the takeover by the copy.

Abstracted: command material and its hash, checkpoints, progress payloads, authentication, and the
number of connections in a pool (a request that gets none throws, which is `Abort`). Two runs whose
advisory keys collide, and an unlock that fails on a pooled connection, are left out: the first
only delays, the second ends with the pool's session.

### Provisioning

`env`, `comps`, `ops` are the rows of the control database, `db` is what the cluster holds:
the identity generation and, per component, the generation of the role's password, of its
installation row, and whether it may CONNECT. A worker is one `work()` call; several calls of a
process share a lease owner (`InstanceOf`). The calls loop independently, which
includes the rounds `index.ts` makes of them, and claim any claimable row, which includes the order
of the query. `Break` is any statement or call that fails, and leads to `fail()` as the `catch`
does; `Crash` ends a process and frees its lock; `Expire` is the passing of a lease.

`Suspend` revokes CONNECT from the roles an installation created (`RolesExist`); PostgreSQL refuses the
REVOKE for a role that was never created, so a revocation before the first installation fails. The model
has this failure, and `Converges` names it (`RevokedBeforeInstall`).

Movement is absent here (`movement_id` is NULL), as is the loss of the lock's session alone.
`GrantIsServed` leaves CONNECT out, because a repeated install really revokes and re-grants it.

### EntitlementOutbox

One name, several orders for it. Webhooks are processed in any order and once (`recorded`); each
grant or revocation enqueues its outbox row in the same step. `Claim` and `Postpone` keep the
difference between the attempts the row counts and the attempts the worker read. A post stays in
`posts` after its sender timed out or died, and may be applied later; two posts of one worker
for the same event count as one, because applying it twice changes nothing.

### CustomerMovement

`env` is the directory row, `mv` the journal, `db` each runtime's copy (its marker, the generations
of identity and passwords, CONNECT, `execution_enabled`, the state of its executor, the writes it
holds), `archive` the kept dump, `lock` the advisory lock of a movement. A controller is one run of
`move-cli resume` or `return`; its program counter walks `resumeMovement`: `Claim`, `RequestReturn`,
`Read` of the phase, then the step of that phase (`Pause`, `Close`; `Copy`, `Create`, `Restore`;
`Verify`, `Reconcile`, `Stamp`, `Quiet`, `Hold`; `BeforeActivate`, `Activate`; `AfterActivate`, `EnableExecution`,
`Observe`; in the other direction `Pause` and `Close` of both copies, `PrepareSource`, `Reconcile`, `Stamp`,
`GiveBack`, `Republish`), then `Advance`, a compare-and-set on the phase that was read.
`Refuse` is every check that throws, with its conditions in `Refused`. `LoseLock` frees the lock under
a live controller; `Live` is `signal.throwIfAborted()`, asked only where the code asks it. `Authorize`
remembers every grant ever issued, because a client may keep one: a copy is writable when it
admits the password of *some* issued grant. `kept` is a ghost: the writes the customer may expect to find.

Preparing a copy is three steps, because the code checks the signal once (`Verify`, `PrepareSource`), then
waits for the environment's lock on the cluster, and then looks neither at the movement's lock nor at the
directory: `Reconcile` opens the roles, `Stamp` writes the identity and releases. `Locked` says who
holds the cluster's lock, which the fence holds as well.

A provisioner's worker goes through `ClaimJob`, `JobReconciles`, `JobStamps` and `JobFinishes`, or `JobFails`;
`JobBreaks` is a statement that fails, `ProvisionerDies` the end of a runtime's process. `running` is what
`begin` looks at, and a job whose lease expired (`MaxStalls`) runs on while `running` no longer shows it once
another worker finished the operation. The operations of one generation are one job here; module `Provisioning` takes a job apart.

A reconcile is *late* when its controller has lost the movement's lock, or when its job is no longer the
placement's; `count.late` counts them up to `MaxLate`.

The components of an environment move together, as in the code. Digests, manifests and the staging
database before its rename are one step. The drain of executors is `Drained`
here and the whole protocol in `SqlPlanRunner`. `ExecutorDies` leaves `execution_unsettled` set, and only an
operator's `ReconcileEffects` clears it.

### VoiceSession and VoiceTurns

Both are cut from one system: the coordinator (a pure reducer and a thread), the executor, which owns
the host's streams and the models, and the threads it starts. `VoiceSession` has sessions, routes, retry timers and the
candidate utterance, with narration a Boolean; `VoiceTurns` has one route and the turns on it.
`acts` and `obs` are the two channels. `Observe` dispatches on the head of `obs` as the reducer does,
`Execute` on the head of `acts` as the executor does.

In `VoiceSession`, route generations separate a late message from a current one (`Current`,
`Expected`, `Matches`); `HostFault` and `DetectorFails` are the errors; a frame of the input worker
is a choice of far end audible or not and echo canceller converged or not. `exposed` and `reported` are ghosts: the candidates that met an unsafe
frame, and those of which a published observation said so. Texts are reduced to whether they contain a lexical seed,
the models are prepared, the tester-only echo policy is off.

In `VoiceTurns`, a segment passes `EnqueueSpeech`, `EnqueueTts`, `Synthesize`, `Synthesized`,
`TtsFeedback`, `Prepare`, `OutputFeedback`, `Play`, `RenderFeedback`; every queue on the way is
bounded. `turns` is the executor's `OutputTurnState` map. A segment is counted, not named, since every queue is FIFO.
A turn may be finished before it was given a segment (`FinishSpeech`); such a turn is the exception of `TurnEnds`.
Retiring a turn, cancelling its synthesis and starting its fade are three consecutive actions, and one step here, because
the 80 ms fade outlasts them. `displaced` is a ghost for the one known loss (below).

### IntentStore

`row`, `notes` and `merges` are the tables (`merge_relations` is the sources of a row of
`merges`); `lock` is who holds a row FOR UPDATE; `req` is what each request of the handler has in
hand. `Create` and `Change` (update, archive, restore, tombstone) are one statement each. `append` and
`merge` are READ COMMITTED transactions: `Prior` looks for an earlier commit of the command, `Lock`
takes and reads one row of the scan, in any order since the query has no ORDER BY, and `AppendNote`
or `Merge` writes. What a transaction has written is
seen when it commits, so its writes and its commit are one step. `Free` makes a
statement wait for a locked row and look at it again; `Fails` is an error, a deadlock found by PostgreSQL,
`statement_timeout` or a death, each of which rolls back. A client
names versions it has seen, however old, and may repeat anything.

Left out: texts and payloads, and with them the comparison of a repeated request with the first, which
only chooses the answer; other owners (every statement names the owner); the reads.

## 3. Runs

"Pass" runs fire every action of their specification between them. Each property has a mutant in
`PROJECT.json`: a plausible bug in a mapped definition that makes TLC report that property.

| Run | Question | Bounds | Result |
|---|---|---|---|
| `RunnerSafety` | Is any effect repeated, unrecorded, run twice at once, or under way in a fenced copy? Do copies of records go stale? Is every behaviour one of the abstract ledger? | 1 run, 2 requests, 2 continuations, 2 faults, 4 revisions, all commands | holds |
| `RunnerLiveness` | Are admitted runs attempted although a process dies or a movement pauses them? Does a pause drain while requests keep coming? | 2 runs, 2 requests, a crash outside executors or a movement | holds under fairness |
| `ProvisioningSafety` | Can what is granted be served; is "ready" earned; does the database ever go back? | 2 components, 2 processes, 2 entitlements, an error, 2 stalls and an operator retry | holds (777,740 states) |
| `ProvisioningConverges` | Does the environment reach its last entitlement, with a shared lease owner? | 2 components, 2 calls of one process, a crash and a stall, no error | holds under fairness, unless a revocation came before the first installation (466,654 states) |
| `OutboxDelivery` | Is every event applied once, no outcome false or undone, and every event delivered or dead in the end? | 2 orders, 2 workers, 2 attempts, a failure, a crash, a stall | holds; the last under fairness |
| `MovementSafety` | One writer, nothing lost, no generation granted twice, does the source stay closed? | 2 runtimes, 2 movements (the second a move or a rollback), 2 controllers, a worker, a lost lock, an entitlement, a write; no return, no late reconcile | holds (927,522 states); `MovementReturnSafety.cfg` shows the same for a return and a death without a lost lock (1,034,168 states), `MovementStaleJob.cfg` for two workers and a lease that expires under a live job (3,260,873 states) |
| `MovementLateReopen` | May a job that lost its lease open a fenced copy? | 1 movement, 1 controller, 2 workers, an expired lease, a late reconcile, no crash | **violated**, finding 1 |
| `MovementReturn` | Does every movement end when resume is repeated, unless one of five obstructions stays? | 2 movements, one controller at a time, a worker, a return, a death, 2 entitlements | holds under fairness (717,051 states) |
| `MovementReturnStuck` | Is a returned movement of an entitled customer always cancelled? | 2 movements, 2 returns, a death, no entitlement | **violated**, finding 2 |
| `VoiceSession` | Is an active session served, is the microphone released, is a reported echo never confirmed, do sessions settle and candidates end? | 2 sessions, a candidate, a turn, 2 faults, a reset, 4 of these together, 1 retry | holds; the last two under fairness (255,739 states) |
| `VoiceTurns` | One terminal event per turn, completed means spoken, admission never overflows a queue, and does the end always come? | 2 turns, 2 segments, a failure, every queue of length 1 | holds; the last under fairness (264,768 states) |
| `IntentStore` | Are merges a forest of what clients saw, and closed intents final? | 3 intents, 2 requests at a time, 3 in all, 2 merge commands, a note, stale versions, any failure | holds (246,436 states) |

*Why the bounds are enough.* The runner's protocol is per run, so contention needs two requests on one run;
two faults allow a crash followed by a lost session in the recovery; four revisions allow two
rounds of asking and answering after the first attempt. Recovery order and stranding need two
runs. In provisioning, "old" and "new" need two generations, overtaking needs two workers, a mixture
needs two components. An outbox row needs two attempts to be postponed and given
up, and two workers to be taken over. A movement meets a predecessor's remains in a second
movement, and a successor in a second controller; four generations cover two movements, or
one with its return, and an entitlement in between. The passing runs of the movement allow no late reconcile,
because with one their properties are false, and the code does not prevent it: `MovementLateReopen` and `MovementLateController`
are two ways. In `MovementReturn`, `MovementReturnSafety` and `MovementReturnStuck` the bound excludes nothing: with no lost
connection and no expired lease a reconcile cannot be late, since `begin` waits for running operations. A stale route message needs two sessions or one retry; a retry
limit of one makes exhaustion happen after two faults. Queues of length one are the hardest case
for back-pressure: every bounded queue is full in some state. Merges cross with two requests; three intents
allow two merges to share a row without being the same, and a cycle of two or three; the third request
closes or changes a row between the locks of the others. For the theorems of section 4 the bounds do not matter.

*Deadlock* is checked in the runner's runs. The others say `CHECK_DEADLOCK FALSE`: with every
bounded event used up and every row, movement or turn settled, nothing is left to do.

*Symmetry* over runs, threads and continuations, components and workers, movements and controllers, or intents, commands and requests is used
only in runs that check no liveness.

*Fairness.* `SqlPlanRunner`: weak fairness of every thread (Node runs a promise whose statement was
answered, and executors return), of requests (clients poll their runs), and of the movement
controller (the operator retries a begun movement). `RunnerLiveness` sends no resume commands: a
stream of resumes could hold a run's try-lock whenever recovery asks for it; and it asks for
attempts only where the database is reopened for good, since a paused one admits nobody. `Provisioning`: the
loop keeps claiming, a claimed operation runs, leases run out; the lock is strongly fair because
PostgreSQL queues waiters. `EntitlementOutbox`: workers loop and are restarted, the facade answers what arrives,
time passes. `CustomerMovement`: a controller's process runs on, running executors settle, provisioners go on with what
they have claimed, and the host's lifecycle controller or an operator repeats `resume`. Nobody is assumed to reconcile
what a dead executor left unsettled (`docs/operations/backup-and-recovery.md:307` asks for it): a movement waits for it
for as long as it takes, which is an obstruction of `MovementEnds` and an exception of `ReturnCompletes`. The voice modules: the
threads and the device's callback keep running, and whoever speaks eventually pauses. No fairness is assumed of customers,
payments, clients' commands, operators' retries or faults.

### Findings

Each is a run with `expect: violation`; `PROJECT.json` quotes the document or comment it contradicts.

1. `postgres.ts:117`: `reconcile` refuses only a database of a later generation, and looks neither at the
   movement nor at the placement. A job whose lease expired, and whose operation a sibling finished, waits for the
   environment's lock while a movement fences, copies and activates; then it finds the fenced source at its own
   generation and gives LOGIN and CONNECT back (`:255`). A client with an earlier grant writes to the source while others write to the
   destination.
2. `movement-postgres.ts:568`: a restore interrupted right after `CREATE DATABASE` leaves a marked empty
   database that the return passes over. The next movement to that runtime can neither copy nor be returned.

### Further counterexamples

These configurations are kept beside the runs; TLC finds each property violated
(`tlc -config X.cfg MC...`).

| Configuration | Property | What happens |
|---|---|---|
| `RunnerStranded` | `AdmittedRunsProceed` | Recovery (`sql-runner.ts:146`) executes accepted rows in creation order and the first throw ends the loop. A row whose executor was interrupted keeps its marker, so `beginExecution` throws on every later request and the rows behind it are never attempted. The comment at `:139` says "Resume work that was durably admitted before this runner process started." |
| `RunnerLateCancel` | `NoAttemptAfterCancel` | `beginExecution` (`sql-runner.ts:296`) does not look at the run: a cancellation between the read and the marker is accepted and the executor starts anyway. `docs/actor-runtime-proof-strategy.md:214`: "No new attempts start". |
| `ProvisioningStaleReopen` | `SuspendedIsClosed` | `suspend()` (`postgres.ts:439`) records no generation. A reconcile claimed before the revocation passes the stale check (`:117`) after it and grants CONNECT again. `docs/customer-database-platform.md:742` and `:744`. |
| `ProvisioningSuspendFailed` | `SuspensionTakesEffect` | A failed suspend operation is never claimed again (`control.ts:80`) and the operator's command requeues only environments that should be ready (`:26`). `docs/customer-database-platform.md:885`: "suspension denies immediately and eventually revokes active sessions". |
| `OutboxReorder` | `NamesAgree` | Events of one name are applied in the order they arrive (`customers/store.ts:109`): a late grant reopens the environment of a revoked name. `names/service.ts:420`: "a suspended name and a suspended tenant can never disagree". |
| `OutboxEarlyRefund` | `RefundRevokes` | A refund processed before its payment is consumed without effect (`names/service.ts:407`), and the refunded order then owns the name. `:10`: "Refunds revoke AND lock the name." |
| `MovementTakeover` | `SingleWriter` | During a return, controller A loses its lock after its last signal check; B reads "returning"; A's publication commits and the movement has ended; B goes on to fence and prepare the source of an ended movement. A second move then activates elsewhere, and B's late prepare opens the old source: two writable copies. `docs/customer-release-lifecycle.md:90` promises one writer. No reconcile is late here: the harm comes from a phase that was read too early. |
| `MovementLateController` | `SourceStaysClosed` | A controller passes its signal check (`move-cli.ts:281`), loses its lock and waits for the cluster. Another one completes the movement, and a rollback fences the same database. The first one's reconcile then opens it. `docs/customer-release-lifecycle.md:118` asks for the contrary. |
| `VoiceEcho` | `EchoNeverConfirmed` | An unsafe frame falls between two observations; the worker latches `safe_echo_continuous = false`, but `far_end_interval_is_unsafe` (`state.rs:1235`) ignores it once the far end is silent and the turn is over, and the echo is confirmed. The test at `state.rs:1652` is named for the opposite. Where an observation did show the overlap, it is never confirmed (`ReportedEchoNeverConfirmed`). |
| `VoiceLongSpeech` | `LongSpeechIsNotRejected` | Synthesis faster than playback: the output worker sleeps on a full lead, its queue fills, and `OutputWorker::enqueue`, a `try_send` (`output.rs:533`), refuses the next completed segment, which fails the whole turn (`service.rs:1121`). The comment at `output.rs:241`: "sleeps on render capacity or cancellation when the lead is full instead of rejecting long speech". |

### Observations

Met while modelling, stated as exceptions of a property rather than as findings.

- A dead executor's unsettled effects hold a movement until an operator reconciles them (`movement-postgres.ts:206`).
- A provisioner that dies with an operation claimed leaves it `running`. `claim` takes only operations of the
  current generation (`control.ts:80`), so once an entitlement has opened the next one nobody takes it up again, and
  `begin` refuses for ever (`movement.ts:155`).
- A controller that lost its lock may still pause execution (`Hold`) on a destination that another one has published.
- A revocation before the first installation fails for good: REVOKE names a role that does not exist, and a failed
  suspension is not claimed again. Nothing is open then; only the observed state is wrong.
- A turn that is finished before it was given a segment never reaches the executor's map (`service.rs:1049`), so nobody
  reports it drained, and it stays active until something cancels it. The client can send this when a preview of speech
  overtakes the announcement of the turn.
- An entitlement that opens a generation between `activate` and `afterActivate` makes the latter refuse for
  ever; likewise a controller that lost its lock can re-enable a fenced source. Both are disjuncts of `Obstructed`.
- `move-cli` chooses the provisioner by the phase it reads before it takes the lock.
- The coordinator and the render callback each remember one retirement: a second one within the fade of
  the first loses the first turn's terminal event (`displaced` in `TurnEnds`).
- An announced utterance that waits in the channel while `ResetInput` or `StopSession` discards the
  candidate is accepted afterwards, and the worker no longer knows it (the exceptions of `CandidateEnds`).
  `StartSession` drops a candidate without an `InputDiscarded` event.
- The reducer's `RetryRoute` command has no sender.
- Intents: a merge repeated while the first one runs does not see its uncommitted command row; it waits for the
  locks, finds other versions, and is answered 409 although the merge was applied. Likewise an append
  repeated after a merge or deletion is answered 404, and a create repeated after an update is answered as
  a conflict. The tables are right in each case; only the answer is not.

## 4. Proofs

**SqlPlanRunnerProofs** assumes `CustomerExecutionBarrier`, as in the production composition
(`index.ts`), and that `Runs` is finite. None of the safety properties is inductive: the ghost counter says nothing of who will
decrement it. `IInv` adds

- `HasJob`: a thread past serving has exactly one run in hand;
- `Accounted`: a thread between the executor's invocation and the removal of the marker has its
  run marked, and accounts for its one uncertain invocation (none once the outcome is written);
- `Apart`: no two threads account for one run. This, not the advisory lock, is what survives a lost session:
  a second thread can take the lock, but `beginExecution` refuses a marked run;
- `Recorded`: every uncertain invocation is single and marked, also after its thread is gone;
- `HoldsBarrier`: a thread on the execution path holds the shared lock while it has a session;
- `Fenced`: the movement's pause, exclusive lock, empty marker set and closed sessions.

From it follow `NoDuplicateEffect` (`AtMostOneUncertain`), `EveryEffectRecorded`
(`UncertainIsRecorded`), `ExecutorExclusion` (`OneExecutor`), `FenceIsQuiet` (`DrainedIsQuiet`) and
`TypeCorrectness`.

**SqlPlanRunnerRefinement** goes on under the same assumption. `ImplementsPlanRun` needs more than
exclusion: the detailed ledger reads a row in one statement and writes what it computed from it in a later
one, where the abstract one reads and writes at once. `Currency` says that nothing came between:

- `Claims`: a thread that may still write holds its run's advisory lock;
- `Answers`: a resumption carries one continuation, an execution none;
- `Copies`: the copy a thread is going to write back is the row, unless the run was cancelled meanwhile;
- `Reads`: what a cancellation read may be stale, but then its revision is too, and its UPDATE matches nothing;
- `Rows`: which states are ever stored, and that a waiting run has exactly one open request.

Every statement then maps to an abstract step or a stutter, and the initial states to initial
states (`Implementation`). `OneAnswerable` and `CopyIsCurrent` follow (`WaitingHasOneAnswer`, `CopiesAreCurrent`).

**ProvisioningProofs** uses only that workers have processes, that `NoOne` is none of them, and that
the bounds are naturals. `IInv` says that the database is not ahead of the environment; that a job inside
the critical section holds the lock (`Locked`); that a job past the stale check is not behind the
database (`Current`) and what it has written is still there (`Progress`); that what is about to be
reported was installed (`Finished`); and that every component reported ready is installed at the
environment's generation (`Served`). The step that matters: once something was finished
at the current generation, a stale job is refused, and a repeated one of the same generation
writes what is there. It does not need lease ownership, so it covers any assignment of workers to
processes, the shared lease owner of `index.ts` included. `Earned` adds the same for the ready reports: whatever
reopens an operation or moves the environment on takes them back. Theorems: `GrantsAreServed`, `NoRegress`, `ReadyObserved` (`ReadyIsEarned`), `TypeCorrectness`.

**EntitlementOutboxProofs** assumes only what the constants are. A worker's lease may run out while its post is
under way, so neither the lease nor the answer in hand proves by itself that an event was applied. `IInv` adds
`LeaseIsSending` (a row has a lease owner only while it is being sent, so no late UPDATE matches a recorded outcome),
`AnswerIsApplied` (the answer a worker is about to acknowledge came from an applied event), `PostIsCommitted` (what is
on its way was committed by checkout) and `NameTellsRows` (the row of the name tells which events can have been enqueued,
so a webhook replaces none). Applying an event twice changes nothing. Theorems: `EventsAppliedOnce`, `DeliveryIsSound`, `OutcomesAreFinal` (the action property
`OutcomeIsFinal`), `TypeCorrectness`.

**CustomerMovementProofs** has two layers. `IInv`, with the types of the jobs, is inductive whatever crashes, lost locks,
expired leases, late reconciles and returns happen, and gives `GrantNamesOnePlacement` (`GrantsAreUnambiguous`) and `TypeCorrectness`:
an undecided movement holds its environment where it began (`Holds`), a controller is at a step of the phase it has read
(`Good`), and grants are of this and of earlier generations (`Granted`).

The other three properties are false in general, and section 3 shows how: a late reconcile opens a fenced source, and
a controller that lost its lock goes on while its movement is returned. Their theorems say what holds
up to there: `Spec => [](Undisturbed => P)`, where `Undisturbed` is a predicate on the history kept in `count`: no reconcile was late
(`Punctual`), and no connection was lost or no return was asked for (`NoLostReturn`). No bound is assumed to be zero, and
jobs may go stale and controllers overlap, as long as none of them begins a reconcile that is no longer its own.
`MInv` says that while the history is undisturbed, `Regime`, `Order` and `Contents` hold; `CountsGrow` says that a disturbance is never forgotten.
`Order` ranks the phases of the journal: no controller has read a phase ahead
of the journal, and the one that holds the lock is at most a phase behind it. `Contents` says what the databases hold:
a copy the directory does not name admits nobody, the source is shut from the fence to the switch, and the
dump and the destination restored from it have what the source has. Four arguments carry it.
A generation opened by `Reconcile` in a movement is above every grant given before, so no late writer returns.
The signal check, the opening and the stamp of a preparation are apart, but while the controller has its lock the journal is at
its phase at all three. At `Activate` the source is shut and equal to the destination, so the switch loses nothing. And a
late controller that has yet to create the destination finds it there, and creates nothing. Theorems: `OneWriter`
(`SingleWriter`), `NoWriteIsLost` (`NothingLost`), `ClosedUntilPublished` (`SourceStaysClosed`).

**VoiceSessionProofs** assumes only that the bounds are naturals. None of the properties is inductive, because all of them depend
on messages that are still under way. `IInv` adds

- `Channels`: what each message in the two channels may name;
- `Routes`: whatever was opened, or will be when the executor gets there, is named by the next close in the action
  channel, and there is one unless the generation is in use; so a close never takes a newer route, and an empty channel
  after a stop means that nothing is open;
- `Served`: that a route was started is told only of a route that is still there;
- `Stages`: a session is activated once, and until then, or once it is suspended, nothing of its current generation is underway;
- `Budget`: each generation is owed to a session or to a fault that was counted. With `Stages` it bounds
  `rgen`: a fault seen by a suspended session would be of a route that cannot exist;
- `Utterances`: an utterance is announced once, before its texts, under the generation of the pipeline that heard it;
- `Echo`: before each text of an utterance that was reported as echo comes the report, or the coordinator has read it
  and marked the candidate.

Theorems: `ActiveSessionServed` (`ActiveIsServed`), `StopReleases` (`StopReleasesMicrophone`), `EchoIsDiscarded`
(`ReportedEchoNeverConfirmed`), `TypeCorrectness`. TLC checked `IInv` on the instance of `VoiceSession.cfg`.

**VoiceTurnsProofs** assumes `TurnBounds`: the bounds are naturals, and the one fact about the configuration the code relies on,
`MaxQueued <= TtsCapacity` (both are 8). `N(q, x)` counts the occurrences of `x` in a queue, and lemmas say how appending,
taking and joining change it. There are two layers.

`Base` is enough for the first three theorems. `Terminal1` adds to `OneTerminalEvent` that no turn is active and
retiring at once. `Admitted` counts, of each turn, the segments the coordinator has not seen started, wherever they are: in
the action channel, the worker's queue, its events or the observations. They are never more than `MaxQueued`, and of the active turn together with
`started_segments` never more than were accepted, so the lagging count errs on the safe side. Every handler moves a
segment from one of the four places to the next, or drops it.

`CompletedIsSpoken` depends on every stage of the pipeline, and `IInv` follows a turn through it:

- `Sequel`: the executor is at work on the active turn, or that turn's `SetOutputGeneration` is the last in the
  action channel and only work of the turn follows;
- `SetFirst`, `FinishLast`, `Unset`: a turn's actions are in order, and before the first of them nothing of the turn is anywhere;
- `Retired`: a cancelled turn is active nowhere, and only a cancelled one fades;
- `Counted`: every segment accepted for the turn at work is in the action channel, upstream of the ring, in the ring or spoken,
  and the executor's `pending` is the number upstream plus the preparations not yet reported. It is claimed only until a failure of the turn
  is on its way to the coordinator, which will fail the turn;
- `Given`: a turn the executor knows was given a segment, so none can drain by having nothing to play;
- `Complete`: a turn the executor knows finished has no segment on the way to it;
- `Drained`: behind a drained report that no failure precedes, and behind a completed turn, everything was played (`Done`), and
  stays so.

A drained report is published when nothing is pending and the ring was seen empty; with `Counted` and `Complete` that
leaves every segment in `spoken`. TLC checked `IInv` on the instance of `VoiceTurns.cfg`.
Theorems: `SingleTerminalEvent` (`OneTerminalEvent`), `AdmissionIsSafe` (`AdmissionFitsQueue`), `CompletedTurnsAreSpoken`
(`CompletedIsSpoken`), `TypeCorrectness`.

**IntentStoreProofs** assumes only that `None` is no id and that the states a client may set include
"working" and none of the reserved ones. `MergesFormForest` and `MergedAsSeen` are not inductive: the writes look at
nothing, so all depends on what was read. `IInv` adds

- `Shaped`: what a request has in hand at each place of its program;
- `Held`: every row a transaction has read is locked by it and still as it was read, and open for an
  append. Other writers of an existing row ask for its lock, and `create` writes only where no row is;
- `Found`: a merge past its first look works on rows that exist;
- `Linked`: `merged_into` is set exactly on merged rows.

A merge then writes rows that are open and at the versions it names. Its target, being open, points
nowhere; so every set of intents with the target in it has a member that points outside, and in a
set without it a new source does. `EndingStep` and `GoingStep` carry the invariant over steps that end a
request and steps that go on. Theorems: `MergesForest`, `MergedSeen`, `ClosedFinal`, `TypeCorrect`.

**Only model-checked:** liveness (`AdmittedRunsProceed`, `PauseDrains`, `Converges`, `Settles`,
`MovementEnds`, `SessionSettles`, `CandidateEnds`, `TurnEnds`), which the prover does not reach.
Every invariant and every action property of the passing runs is stated by a theorem.

## 5. Plan

Done: the Actor ledger with its abstract specification, provisioning, the entitlement outbox, customer movement, the voice
session, narration turns and the intent store, all with proofs of their safety. Next, in order:

1. `ActorMailbox`: the actor kernel's bus and state machine, whose interface events are applied past the mailbox.
2. `TenantPools`: the cache with concurrent misses, eviction of a pool in use, and its limit.
3. `NameRegistry`: reservations, claim links and the webhook inbox; composes with `EntitlementOutbox`.
4. `EmailQueue`: leases recovered only at start, batches, dead mails.
5. `MemoryPlanRunner` as a second implementation of `PlanRun`; the artifact store's runs and publication.

## 6. Not modelled

Facade routing, hosting, the artifact client and the HTTP vault keep no state of their own beyond a
request; identity is delegated to a library; document ingest and the voice runtime's signal processing transform data (what
they decide is a nondeterministic choice in the models that use it); the apps are user
interface; deployment, infrastructure and the archive are configuration and retired code. Their entries in
`PROJECT.json` say so one by one. The components of section 5 are protocols and remain to be modelled.

The mapped lines are a small share of the repository, because most of it is not protocol: nearly half of its lines of code are
build output (`.svelte-kit`) and the archived game, and most of the rest is interface, scripts and
data transformation. The share would rise by mapping such code to definitions that do not
translate it, which would say nothing about it.
