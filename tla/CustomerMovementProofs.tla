----------------------- MODULE CustomerMovementProofs -----------------------
(***************************************************************************)
(* Safety of customer movements, for any number of runtimes, movements,    *)
(* controllers, provisioner workers, writes, entitlements and deaths.      *)
(*                                                                         *)
(* Types and grants are proved whatever happens.  One writer, nothing lost *)
(* and the closed source are proved of every state before the first        *)
(* disturbance: a late reconcile, or the second of a lost lock connection  *)
(* and a return.  Both happen in the code, and both break these            *)
(* properties: a late reconcile reopens a fenced source, and after a lost  *)
(* connection a controller can prepare the source of a returned movement.  *)
(***************************************************************************)
EXTENDS CustomerMovement, FiniteSetTheorems, TLAPS

Archives == [gen : Gens, enabled : BOOLEAN, data : SUBSET Writes]

Counts == [deaths : Nat, lost : Nat, stalls : Nat, late : Nat, events : Nat,
           writes : 0 .. MaxWrites, returns : Nat]

ReturnPCs == {"fenceDst", "closeDst", "fenceSrc", "closeSrc", "prepareSrc", "giveBack", "republish"}

\* Program counters of a controller that acts on the phase it has read.
Acting == PCs \ {"idle", "claim", "request", "read"}

\* The bounds of begin and requestReturn leave room for the generations to come.
RowOK(m) ==
  /\ mv[m].phase # "absent" => mv[m].sgen < MaxGen /\ mv[m].src # mv[m].dst
  /\ mv[m].phase = "returning" => Dgen(mv[m]) < MaxGen

\* A controller works on a recorded movement.
Known(c) ==
  ~At(c, "idle") =>
    /\ ctl[c].id \in Movements /\ Row(c).phase # "absent"
    /\ ctl[c].phase = "returning" => Dgen(Row(c)) < MaxGen

\* The step a controller is at belongs to the phase it has read.
Staged(c) ==
  /\ ctl[c].pc \in {"fence", "close"} => ctl[c].phase = "paused"
  /\ ctl[c].pc \in {"copy", "create", "restore"} => ctl[c].phase = "fenced"
  /\ ctl[c].pc \in {"verify", "quiet", "hold"} => ctl[c].phase = "copied"
  /\ ctl[c].pc \in {"reconcile", "stamp"} => ctl[c].phase \in {"copied", "returning"}
  /\ ctl[c].pc \in {"before", "activate"} => ctl[c].phase = "verified"
  /\ ctl[c].pc \in {"after", "enable", "observe"} => ctl[c].phase = "activated"
  /\ ctl[c].pc \in ReturnPCs => ctl[c].phase = "returning"
  /\ ctl[c].pc = "advance" => ctl[c].phase \in {"paused", "fenced", "copied", "activated"}

Dumped(c) == ctl[c].pc \in {"create", "restore"} => archive[ctl[c].id] \in Archives

Good(c) == Known(c) /\ Staged(c) /\ Dumped(c)

\* A movement that has not been decided holds the environment where it began.
Holds(m) ==
  mv[m].phase \in Returnable =>
    env.movement = m /\ env.runtime = mv[m].src /\ env.gen = mv[m].sgen

\* Grants are of this and of earlier generations.
Granted ==
  \A p \in grants : p[2] <= env.gen /\ (p[2] = env.gen => p[1] = env.runtime)

Types == MovementTypes /\ archive \in [Movements -> Archives \cup {None}] /\ count \in Counts

IInv ==
  /\ Types
  /\ \A m \in Movements : RowOK(m) /\ Holds(m)
  /\ \A c \in Controllers : Good(c)
  /\ Granted /\ GrantNamesOnePlacement

------------------------------------------------------------------------------
(* One controller at a time, as far as it matters *)

\* The phases of a movement only go up.
Rank == [absent |-> 0, paused |-> 1, fenced |-> 2, copied |-> 3, verified |-> 4,
         activated |-> 5, returning |-> 5, completed |-> 6, cancelled |-> 6, superseded |-> 6]

AllLive == \A c \in Controllers : Live(c)

NothingReturned ==
  /\ \A m \in Movements : mv[m].phase \notin {"returning", "cancelled"}
  /\ \A c \in Controllers : ~ctl[c].return /\ ~At(c, "request")

\* What no lost connection, and no return command, means.
Regime == (count.lost = 0 => AllLive) /\ (count.returns = 0 => NothingReturned)

\* A controller with its connection holds the lock of its movement.
HoldsLock(c) == ctl[c].pc \notin {"idle", "claim"} /\ Live(c) => lock[ctl[c].id] = c

\* What a controller has read is not ahead of the journal.
Behind(c) == ctl[c].pc \in Acting => Rank[ctl[c].phase] <= Rank[Row(c).phase]

\* The journal is at most one phase ahead of the controller that holds the lock, and that
\* one has read what any other controller of the movement has read, or later.
InStep(c) ==
  ctl[c].pc \in Acting /\ Live(c) =>
    /\ Rank[Row(c).phase] <= Rank[ctl[c].phase] + 1
    /\ ctl[c].phase = "returning" => Row(c).phase = "returning"
    /\ \A d \in Controllers : ctl[d].pc \in Acting /\ ctl[d].id = ctl[c].id =>
         Rank[ctl[d].phase] <= Rank[ctl[c].phase]

\* The provisioner was built for the destination, unless the movement is being returned.
BuiltFor(c) ==
  ~At(c, "idle") =>
    \/ ctl[c].prov = Row(c).dst
    \/ Row(c).phase \in {"returning", "cancelled"}
    \/ ctl[c].return /\ ctl[c].pc \in {"claim", "request"}

------------------------------------------------------------------------------
(* The copies *)

Moving == {"fenced", "copied", "verified"}

Shut(r) == ~db[r].open /\ db[r].exec # "running"

\* Copies the directory does not name admit nobody.
Elsewhere == \A r \in Runtimes : r # env.runtime => ~CanWrite(r) /\ db[r].exec # "running"

\* A controller that has closed the source is about to say so.
ClosedSource(c) == At(c, "advance") /\ ctl[c].phase = "paused" /\ Row(c).phase = "paused" => Shut(Row(c).src)

SourceShut(m) == mv[m].phase \in Moving => Shut(mv[m].src)

\* Nothing of a movement exists before the source is fenced.
Fresh(m) ==
  mv[m].phase \in {"absent", "paused"} => archive[m] = None /\ \A r \in Runtimes : db[r].mark # m

\* The dump, and the destination restored from it, have what the source has.
DumpIsSource(m) == mv[m].phase \in Moving /\ archive[m] # None => archive[m].data = db[mv[m].src].data

RestoredIsSource(m) ==
  mv[m].phase \in Moving /\ db[mv[m].dst].mark = m /\ db[mv[m].dst].state = "restored"
    => db[mv[m].dst].data = db[mv[m].src].data

\* The destination of a move is that movement's from the moment it is copied.
Own(m) == db[mv[m].dst].mark = m /\ db[mv[m].dst].state = "restored"

Copied(m) ==
  mv[m].mode = "move" /\ mv[m].phase \in {"copied", "verified", "activated", "completed", "superseded"}
    => Own(m)

Copying(c) ==
  /\ ctl[c].pc \in {"create", "restore"} =>
       /\ Row(c).mode = "move"
       /\ Row(c).phase \in Moving => archive[ctl[c].id].data = db[Row(c).src].data
  /\ At(c, "restore") => db[Row(c).dst].mark = ctl[c].id /\ db[Row(c).dst].state # "absent"
  /\ At(c, "advance") /\ ctl[c].phase = "fenced" /\ Row(c).mode = "move" => Own(ctl[c].id)

Order == \A c \in Controllers : HoldsLock(c) /\ Behind(c) /\ InStep(c) /\ BuiltFor(c)

Contents ==
  /\ Elsewhere
  /\ \A c \in Controllers : ClosedSource(c) /\ Copying(c)
  /\ \A m \in Movements : SourceShut(m) /\ Fresh(m) /\ DumpIsSource(m) /\ RestoredIsSource(m) /\ Copied(m)
  /\ NothingLost

\* Up to now no reconcile was late, and no connection was lost or nothing was returned.
Punctual     == count.late = 0
NoLostReturn == count.lost = 0 \/ count.returns = 0
Undisturbed  == Punctual /\ NoLostReturn

MInv == IInv /\ JobTypes /\ (Undisturbed => Regime /\ Order /\ Contents)

------------------------------------------------------------------------------
(* What single statements write *)

\* A statement on one cluster changes one database.
LEMMA DatabaseWritten ==
  ASSUME NEW r \in Runtimes, NEW d \in Databases, db \in [Runtimes -> Databases],
         db' = [db EXCEPT ![r] = d]
  PROVE  /\ db' \in [Runtimes -> Databases]
         /\ db'[r] = d /\ \A q \in Runtimes \ {r} : db'[q] = db[q]
  OBVIOUS

\* The fields that pausing, closing, preparing and executing write.
LEMMA DatabaseFields ==
  ASSUME NEW d \in Databases, NEW b \in BOOLEAN
  PROVE  [d EXCEPT !.open = b] \in Databases /\ [d EXCEPT !.enabled = b] \in Databases
  BY Zenon DEF Databases

\* What the steps of reconcile leave is a database again.
LEMMA DatabaseReconciled ==
  ASSUME NEW d \in Databases, NEW g \in Gens
  PROVE  Opened(d, g) \in Databases /\ Stamped(d, g) \in Databases
  BY Zenon DEF Databases, Opened, Stamped

\* pg_restore fills a database with a kept dump.
LEMMA DatabaseRestored ==
  ASSUME NEW d \in Databases, NEW a \in Archives
  PROVE  [d EXCEPT !.state = "restored", !.gen = a.gen, !.enabled = a.enabled, !.data = a.data] \in Databases
<1>1. a.gen \in Gens /\ a.enabled \in BOOLEAN /\ a.data \in SUBSET Writes
  BY Zenon DEF Archives
<1> QED
  BY <1>1, Zenon DEF Databases

\* create makes a database that carries the movement's marker and no tables.
LEMMA DatabaseMade ==
  ASSUME NEW m \in Movements
  PROVE  [NoDatabase EXCEPT !.state = "empty", !.mark = m] \in Databases
<1>1. 0 \in Gens
  BY MovementBounds DEF Gens
<1> QED
  BY <1>1 DEF NoDatabase, Databases

\* An executor starts, settles or dies.
LEMMA DatabaseExec ==
  ASSUME NEW d \in Databases, NEW e \in {"idle", "running", "unsettled"}
  PROVE  [d EXCEPT !.exec = e] \in Databases
  BY DEF Databases

\* A controller that moves on keeps its movement and what it has read.
LEMMA ControllerMoves ==
  ASSUME NEW c \in Controllers, NEW pc \in PCs, ctl \in [Controllers -> Controls], Goto(c, pc)
  PROVE  /\ ctl' \in [Controllers -> Controls]
         /\ ctl'[c].pc = pc /\ ctl'[c].id = ctl[c].id /\ ctl'[c].return = ctl[c].return
         /\ ctl'[c].prov = ctl[c].prov /\ ctl'[c].phase = ctl[c].phase /\ ctl'[c].lost = ctl[c].lost
         /\ \A d \in Controllers \ {c} : ctl'[d] = ctl[d]
  BY DEF Goto, Controls

\* A controller that leaves exclusive() gives back its lock and nobody else's.
LEMMA ControllerExits ==
  ASSUME NEW c \in Controllers, ctl \in [Controllers -> Controls],
         lock \in [Movements -> Controllers \cup {None}], Exit(c)
  PROVE  /\ ctl' \in [Controllers -> Controls]
         /\ lock' \in [Movements -> Controllers \cup {None}]
         /\ ctl'[c] = Idle /\ \A d \in Controllers \ {c} : ctl'[d] = ctl[d]
         /\ \A m \in Movements : lock[m] # c => lock'[m] = lock[m]
  BY HomeAssumption DEF Exit, Idle, Controls, PCs, Phases

\* An UPDATE of a movement writes its phase and nothing else.
LEMMA PhaseWritten ==
  ASSUME NEW row \in Rows, NEW p \in Phases, NEW new, new = [row EXCEPT !.phase = p]
  PROVE  /\ new \in Rows
         /\ new.phase = p /\ new.src = row.src /\ new.dst = row.dst
         /\ new.sgen = row.sgen /\ new.mode = row.mode
  BY DEF Rows

------------------------------------------------------------------------------
(* Types, the journal and the grants *)

\* A recorded movement keeps what begin recorded, and a dump is kept.
RowsKept ==
  \A m \in Movements : mv[m].phase # "absent" =>
    /\ mv'[m].phase # "absent"
    /\ mv'[m].src = mv[m].src /\ mv'[m].dst = mv[m].dst
    /\ mv'[m].sgen = mv[m].sgen /\ mv'[m].mode = mv[m].mode

DumpsKept == \A m \in Movements : archive[m] \in Archives => archive'[m] \in Archives

\* An idle controller promises nothing.
LEMMA Idles == ASSUME NEW c \in Controllers, ctl'[c] = Idle PROVE Good(c)'
  BY DEF Good, Known, Staged, Dumped, At, Idle, ReturnPCs

\* A controller that is not moving stays where it may be.
LEMMA OthersStay ==
  ASSUME NEW d \in Controllers, Good(d), ctl'[d] = ctl[d], ctl[d] \in Controls, RowsKept, DumpsKept
  PROVE  Good(d)'
<1>1. Known(d)'
  BY DEF Good, Known, At, Row, RowsKept, Dgen
<1>2. Staged(d)'
  BY DEF Good, Staged
<1>3. Dumped(d)'
  BY DEF Good, Dumped, Known, DumpsKept, At
<1> QED
  BY <1>1, <1>2, <1>3 DEF Good

\* The facade and the executors leave the journal and the controllers alone.
LEMMA JournalUntouched ==
  ASSUME IInv, UNCHANGED <<mv, archive, ctl, lock>>
  PROVE  /\ \A m \in Movements : RowOK(m)'
         /\ \A c \in Controllers : Good(c)'
<1>1. \A m \in Movements : RowOK(m)'
  BY DEF IInv, RowOK, Dgen
<1>2. RowsKept /\ DumpsKept
  BY DEF RowsKept, DumpsKept
<1> QED
  BY <1>1, <1>2, OthersStay DEF IInv, Types, MovementTypes

\* A new generation is above every grant's.
LEMMA AcceptStep == ASSUME IInv, NEW desired \in Desired, AcceptEntitlement(desired) PROVE IInv'
<1> DEFINE g == IF env.movement = None THEN env.gen + 1 ELSE env.gen
<1>1. /\ env \in Environments /\ env.gen \in Gens /\ MaxGen \in Nat /\ count \in Counts
      /\ grants \subseteq Runtimes \X Gens
  BY MovementBounds DEF IInv, Types, MovementTypes, Environments
<1>2. g \in Gens /\ g \in Nat /\ env.gen \in Nat /\ g >= env.gen
  <2>1. env.movement = None => env.gen < MaxGen
    BY DEF AcceptEntitlement
  <2> QED
    BY <1>1, <2>1 DEF Gens
<1>3. /\ env' = [env EXCEPT !.desired = desired, !.observed = "pending", !.gen = g]
      /\ count' = [count EXCEPT !.events = @ + 1]
      /\ UNCHANGED <<mv, db, archive, ctl, lock, grants, kept>>
  BY DEF AcceptEntitlement
<1>4. g = env.gen \/ (env.movement = None /\ g > env.gen)
  BY <1>2
<1> HIDE DEF g
<1>5. env' \in Environments /\ env'.runtime = env.runtime /\ env'.movement = env.movement /\ env'.gen = g
  BY <1>1, <1>2, <1>3 DEF Environments
<1>6. count' \in Counts
  BY <1>1, <1>3 DEF Counts
<1>7. Types'
  BY <1>3, <1>5, <1>6 DEF IInv, Types, MovementTypes
<1>8. \A m \in Movements : Holds(m)'
  BY <1>3, <1>4, <1>5, NoneAssumption DEF IInv, Holds
<1>9. \A p \in grants : p[2] \in Nat
  BY <1>1 DEF Gens
<1>10. Granted' /\ GrantNamesOnePlacement'
  <2>1. Granted /\ GrantNamesOnePlacement
    BY DEF IInv
  <2>2. Granted'
    BY <1>2, <1>3, <1>4, <1>5, <1>9, <2>1 DEF Granted
  <2>3. GrantNamesOnePlacement'
    BY <1>3, <2>1 DEF GrantNamesOnePlacement
  <2> QED
    BY <2>2, <2>3
<1> QED
  BY <1>3, <1>7, <1>8, <1>10, JournalUntouched DEF IInv

\* The facade: a grant is for the environment's own placement.
LEMMA FacadeStep ==
  ASSUME IInv, Authorize \/ \E desired \in Desired : AcceptEntitlement(desired)
  PROVE  IInv'
<1> USE DEF IInv, Types, MovementTypes
<1>1. CASE Authorize
  <2>1. Types'
    BY <1>1 DEF Authorize, Environments
  <2>2. \A m \in Movements : Holds(m)'
    BY <1>1 DEF Authorize, Holds
  <2>3. env \in Environments /\ env.gen \in Nat
    BY DEF Environments, Gens
  <2>4. \A p \in grants' : p \in grants \/ p = <<env.runtime, env.gen>>
    BY <1>1 DEF Authorize
  <2>5. Granted'
    BY <1>1, <2>3, <2>4 DEF Authorize, Granted
  <2>6. GrantNamesOnePlacement'
    BY <1>1, <2>4 DEF Authorize, Granted, GrantNamesOnePlacement
  <2> QED
    BY <1>1, <2>1, <2>2, <2>5, <2>6, JournalUntouched DEF Authorize
<1> QED
  BY <1>1, AcceptStep

\* The provisioners: a job changes what was observed, or one database.
LEMMA PlacementStep ==
  ASSUME IInv, UNCHANGED <<mv, archive, ctl, lock, grants, kept>>,
         env' \in Environments, env'.runtime = env.runtime, env'.gen = env.gen, env'.movement = env.movement,
         db' \in [Runtimes -> Databases], count' \in Counts
  PROVE  IInv'
<1>1. Types'
  BY DEF IInv, Types, MovementTypes
<1>2. (\A m \in Movements : Holds(m)') /\ Granted' /\ GrantNamesOnePlacement'
  BY DEF IInv, Holds, Granted, GrantNamesOnePlacement
<1> QED
  BY <1>1, <1>2, JournalUntouched DEF IInv

\* What a job's reconcile writes.
LEMMA JobWrites ==
  ASSUME IInv, JobTypes, NEW w \in Workers, JobReconciles(w) \/ JobStamps(w)
  PROVE  db' \in [Runtimes -> Databases] /\ count' \in Counts
<1> DEFINE r == job[w].runtime
           g == job[w].gen
<1>1. /\ r \in Runtimes /\ g \in Gens /\ db \in [Runtimes -> Databases] /\ db[r] \in Databases
      /\ count \in Counts
  BY DEF IInv, Types, MovementTypes, JobTypes, Jobs
<1>2. Opened(db[r], g) \in Databases /\ Stamped(db[r], g) \in Databases /\ [db[r] EXCEPT !.open = FALSE] \in Databases
  BY <1>1, DatabaseReconciled, DatabaseFields
<1>3. \/ UNCHANGED db \/ db' = [db EXCEPT ![r] = Opened(db[r], g)]
      \/ db' = [db EXCEPT ![r] = [db[r] EXCEPT !.open = FALSE]]
      \/ db' = [db EXCEPT ![r] = Stamped(db[r], g)]
  BY DEF JobReconciles, JobStamps
<1>4. UNCHANGED count \/ Counted(LateJob(w))
  BY DEF JobReconciles, JobStamps
<1>5. count' \in Counts
  BY <1>1, <1>4 DEF Counted, Counts
<1> HIDE DEF r, g
<1> QED
  BY <1>1, <1>2, <1>3, <1>5, DatabaseWritten

\* Claiming, reconciling and reporting keep types, journal and grants.
LEMMA JobStep ==
  ASSUME IInv, JobTypes,
         \/ \E w \in Workers : ClaimJob(w) \/ Work(w) \/ JobBreaks(w)
         \/ \E r \in Runtimes : ProvisionerDies(r)
  PROVE  IInv'
<1>1. /\ env \in Environments /\ db \in [Runtimes -> Databases] /\ count \in Counts
  BY DEF IInv, Types, MovementTypes
<1>2. ASSUME NEW w \in Workers, JobReconciles(w) \/ JobStamps(w) PROVE IInv'
  <2>1. UNCHANGED <<env, mv, archive, ctl, lock, grants, kept>>
    BY <1>2 DEF JobReconciles, JobStamps
  <2> QED
    BY <1>1, <1>2, <2>1, JobWrites, PlacementStep
<1>3. ASSUME NEW w \in Workers, JobFinishes(w) \/ JobFails(w) PROVE IInv'
  <2>1. UNCHANGED <<mv, db, archive, ctl, lock, grants, kept, count>>
    BY <1>3 DEF JobFinishes, JobFails
  <2>2. PICK o \in {"ready", "suspended", "failed"} : env' = env \/ env' = [env EXCEPT !.observed = o]
    BY <1>1, <1>3 DEF JobFinishes, JobFails, Environments, Desired
  <2>3. /\ env' \in Environments /\ env'.runtime = env.runtime /\ env'.gen = env.gen
        /\ env'.movement = env.movement
    BY <1>1, <2>2 DEF Environments
  <2> QED
    BY <1>1, <2>1, <2>3, PlacementStep
<1>4. CASE (\E w \in Workers : ClaimJob(w) \/ JobBreaks(w)) \/ \E r \in Runtimes : ProvisionerDies(r)
  <2>1. UNCHANGED <<env, mv, db, archive, ctl, lock, grants, kept>>
    BY <1>4 DEF ClaimJob, JobBreaks, ProvisionerDies
  <2>2. count' \in Counts
    BY <1>1, <1>4 DEF ClaimJob, JobBreaks, ProvisionerDies, Counts
  <2> QED
    BY <1>1, <2>1, <2>2, PlacementStep
<1> QED
  BY <1>2, <1>3, <1>4 DEF Work

\* Customer writes and executors change one database and no row.
LEMMA CustomerStep ==
  ASSUME IInv, NEW r \in Runtimes, Write(r) \/ Execute(r) \/ Settle(r) \/ ReconcileEffects(r) \/ ExecutorDies(r)
  PROVE  IInv'
<1> USE DEF IInv, Types, MovementTypes
<1>1. UNCHANGED <<env, mv, archive, ctl, lock, grants>>
  BY DEF Write, Execute, Settle, ReconcileEffects, ExecutorDies
<1>2. (\A m \in Movements : Holds(m)') /\ Granted' /\ GrantNamesOnePlacement'
  BY <1>1 DEF Holds, Granted, GrantNamesOnePlacement
<1>3. db' \in [Runtimes -> Databases] /\ kept' \in SUBSET Writes /\ count' \in Counts
  <2>1. CASE Write(r)
    <3>1. count.writes + 1 \in Writes /\ count' \in Counts
      BY <2>1, MovementBounds DEF Write, Counts, Writes
    <3>2. [db[r] EXCEPT !.data = @ \cup {count.writes + 1}] \in Databases
      BY <3>1 DEF Databases
    <3>3. db' = [db EXCEPT ![r] = [db[r] EXCEPT !.data = @ \cup {count.writes + 1}]]
      BY <2>1 DEF Write
    <3> QED
      BY <2>1, <3>1, <3>2, <3>3, DatabaseWritten DEF Write
  <2>2. ASSUME NEW e \in {"idle", "running", "unsettled"}, db' = [db EXCEPT ![r].exec = e]
        PROVE  db' \in [Runtimes -> Databases]
    <3>1. [db[r] EXCEPT !.exec = e] \in Databases
      BY DatabaseExec
    <3> QED
      BY <2>2, <3>1, DatabaseWritten
  <2>3. CASE Execute(r) \/ Settle(r) \/ ReconcileEffects(r)
    BY <2>2, <2>3 DEF Execute, Settle, ReconcileEffects
  <2>4. CASE ExecutorDies(r)
    <3>1. count' \in Counts
      BY <2>4 DEF ExecutorDies, Counts
    <3> QED
      BY <2>2, <2>4, <3>1 DEF ExecutorDies
  <2> QED
    BY <2>1, <2>3, <2>4
<1>4. Types'
  BY <1>1, <1>3
<1> QED
  BY <1>1, <1>2, <1>4, JournalUntouched

\* begin and rollback: the environment was free, so no other movement is undecided.
LEMMA OperatorStep ==
  ASSUME IInv, NEW m \in Movements, NEW dst \in Runtimes, NEW mode \in {"move", "rollback"},
         NEW superseded \in SUBSET Movements, m \notin superseded,
         \A n \in superseded : mv[n].phase = "activated",
         Record(m, dst, mode, superseded)
  PROVE  IInv'
<1> USE DEF IInv, Types, MovementTypes
<1>1. /\ UNCHANGED <<db, archive, ctl, lock, grants, kept, count>>
      /\ env' \in Environments /\ env'.movement = m /\ env'.runtime = env.runtime /\ env'.gen = env.gen
      /\ env.movement = None /\ env.gen \in Gens /\ env.runtime \in Runtimes
  BY DEF Record, BeginAllowed, Environments
<1>2. /\ mv'[m] = [phase |-> "paused", src |-> env.runtime, dst |-> dst, sgen |-> env.gen, mode |-> mode]
      /\ mv[m].phase = "absent" /\ dst # env.runtime /\ env.gen < MaxGen
      /\ \A n \in superseded : mv'[n] = [mv[n] EXCEPT !.phase = "superseded"]
      /\ \A n \in Movements \ superseded : n # m => mv'[n] = mv[n]
  BY DEF Record, BeginAllowed
<1>3. ASSUME NEW n \in superseded
      PROVE  /\ mv'[n] \in Rows
             /\ mv'[n].phase = "superseded" /\ mv'[n].src = mv[n].src /\ mv'[n].dst = mv[n].dst
             /\ mv'[n].sgen = mv[n].sgen /\ mv'[n].mode = mv[n].mode
  <2>1. "superseded" \in Phases
    BY DEF Phases, Ended
  <2>2. mv[n] \in Rows /\ mv'[n] = [mv[n] EXCEPT !.phase = "superseded"]
    BY <1>2
  <2> HIDE DEF IInv, Types, MovementTypes
  <2> QED
    BY <2>1, <2>2, PhaseWritten
<1>9. mv' \in [Movements -> Rows]
  <2>1. mv'[m] \in Rows
    BY <1>1, <1>2 DEF Rows, Phases, Returnable
  <2>2. \A n \in Movements : mv'[n] \in Rows
    BY <1>2, <1>3, <2>1
  <2> DEFINE f(n) == IF n = m THEN [phase |-> "paused", src |-> env.runtime, dst |-> dst,
                                    sgen |-> env.gen, mode |-> mode]
                     ELSE IF n \in superseded THEN [mv[n] EXCEPT !.phase = "superseded"] ELSE mv[n]
  <2>3. mv' = [n \in Movements |-> f(n)]
    BY DEF Record
  <2> HIDE DEF f
  <2> QED
    BY <2>2, <2>3
<1>4. Types'
  BY <1>1, <1>9
<1>5. \A n \in Movements : RowOK(n)' /\ Holds(n)'
  <2>1. RowOK(m)' /\ Holds(m)'
    BY <1>1, <1>2 DEF RowOK, Holds
  <2>2. ASSUME NEW n \in superseded PROVE RowOK(n)' /\ Holds(n)'
    BY <1>3, <2>2 DEF RowOK, Holds, Returnable
  <2>3. ASSUME NEW n \in Movements \ superseded, n # m PROVE RowOK(n)' /\ Holds(n)'
    BY <1>1, <1>2, <2>3, NoneAssumption DEF RowOK, Holds, Dgen
  <2> QED
    BY <2>1, <2>2, <2>3
<1>6. RowsKept /\ DumpsKept
  BY <1>1, <1>2, <1>3 DEF RowsKept, DumpsKept
<1>7. \A c \in Controllers : Good(c)'
  BY <1>1, <1>6, OthersStay
<1>8. Granted' /\ GrantNamesOnePlacement'
  BY <1>1 DEF Granted, GrantNamesOnePlacement
<1> QED
  BY <1>4, <1>5, <1>7, <1>8

\* What begin and rollback record, in one form.
LEMMA OperatorRecords ==
  ASSUME NEW m \in Movements, NEW dst \in Runtimes, Begin(m, dst) \/ Rollback(m, dst)
  PROVE  \E mode \in {"move", "rollback"}, superseded \in SUBSET Movements :
           /\ m \notin superseded
           /\ \A n \in superseded : mv[n].phase = "activated" /\ lock[n] = None
           /\ Record(m, dst, mode, superseded)
<1>1. CASE Begin(m, dst)
  BY <1>1 DEF Begin
<1>2. CASE Rollback(m, dst)
  <2>1. PICK old \in Retained(dst) :
          Record(m, dst, "rollback", {old} \cap {n \in Movements : mv[n].phase = "activated"})
    BY <1>2 DEF Rollback
  <2> DEFINE S == {old} \cap {n \in Movements : mv[n].phase = "activated"}
  <2>2. S \in SUBSET Movements /\ \A n \in S : mv[n].phase = "activated" /\ lock[n] = None
    BY DEF Retained
  <2>3. m \notin S
    BY <2>1 DEF Record
  <2> QED
    BY <2>1, <2>2, <2>3
<1> QED
  BY <1>1, <1>2

\* A new run of move-cli names a recorded movement.
LEMMA StartStep ==
  ASSUME IInv, NEW c \in Controllers, NEW m \in Movements, NEW return \in BOOLEAN, Start(c, m, return)
  PROVE  IInv'
<1> USE DEF IInv, Types, MovementTypes
<1>1. UNCHANGED <<env, mv, db, archive, lock, grants, kept>>
  BY DEF Start
<1>2. count' \in Counts
  BY DEF Start, Counts
<1>3. PICK prov \in Runtimes : ctl' = [ctl EXCEPT ![c] = [Idle EXCEPT !.pc = "claim", !.id = m,
        !.return = return, !.prov = prov]]
  BY DEF Start, Rows, ProvisionerFor
<1>4. [Idle EXCEPT !.pc = "claim", !.id = m, !.return = return, !.prov = prov] \in Controls
  BY HomeAssumption DEF Idle, Controls, PCs, Phases
<1>5. /\ ctl' \in [Controllers -> Controls]
      /\ ctl'[c].pc = "claim" /\ ctl'[c].id = m /\ ctl'[c].phase = "absent"
      /\ \A d \in Controllers \ {c} : ctl'[d] = ctl[d]
  BY <1>3, <1>4 DEF Idle
<1>6. mv[m].phase # "absent"
  BY DEF Start
<1>7. Good(c)'
  BY <1>1, <1>5, <1>6 DEF Good, Known, Staged, Dumped, Row, ReturnPCs, At
<1>8. RowsKept /\ DumpsKept
  BY <1>1 DEF RowsKept, DumpsKept
<1>9. \A d \in Controllers : Good(d)'
  BY <1>5, <1>7, <1>8, OthersStay
<1>10. Types'
  BY <1>1, <1>2, <1>5
<1>11. \A n \in Movements : RowOK(n)' /\ Holds(n)'
  BY <1>1 DEF RowOK, Holds, Dgen
<1>12. Granted' /\ GrantNamesOnePlacement'
  BY <1>1 DEF Granted, GrantNamesOnePlacement
<1> QED
  BY <1>9, <1>10, <1>11, <1>12

\* The steps of the driver: they touch one cluster, or the kept dump, and no row.
Driver(c) ==
  \/ Pause(c) \/ Close(c) \/ Copy(c) \/ Create(c) \/ Restore(c)
  \/ Verify(c) \/ PrepareSource(c) \/ Reconcile(c) \/ Stamp(c) \/ Quiet(c) \/ Hold(c)
  \/ BeforeActivate(c) \/ AfterActivate(c) \/ EnableExecution(c) \/ Observe(c) \/ GiveBack(c)

Works(c) ==
  /\ ctl[c].pc \in Acting /\ \E pc \in Acting : Goto(c, pc)
  /\ UNCHANGED <<env, mv, lock, grants, kept>>
  /\ UNCHANGED count \/ Counted(ctl[c].lost)

\* A controller in the driver stays in the driver, at a step of the phase it has read.
LEMMA DriverWorks ==
  ASSUME NEW c \in Controllers, ctl \in [Controllers -> Controls], Staged(c), Driver(c)
  PROVE  Works(c) /\ Staged(c)'
<1> USE DEF Staged, ReturnPCs
<1>1. ASSUME NEW pc \in Acting, ctl[c].pc \in Acting, Goto(c, pc), UNCHANGED <<env, mv, lock, grants, kept>>,
             UNCHANGED count \/ Counted(ctl[c].lost)
      PROVE  /\ Works(c)
             /\ ctl'[c].pc = pc /\ ctl'[c].phase = ctl[c].phase
  <2>1. pc \in PCs
    BY DEF Acting
  <2> QED
    BY <1>1, <2>1, ControllerMoves DEF Works
<1> USE DEF Acting, PCs, At
<1>2. CASE Pause(c)
  <2>1. PICK pc \in {"close", "closeDst", "closeSrc", "fenceSrc"} :
          /\ Goto(c, pc)
          /\ pc = "close" => ctl[c].pc = "fence"
          /\ pc # "close" => ctl[c].pc \in {"fenceDst", "fenceSrc"}
    BY <1>2 DEF Pause, Untouched
  <2> QED
    BY <1>1, <1>2, <2>1 DEF Pause
<1>3. CASE Close(c)
  <2>1. PICK pc \in {"advance", "fenceSrc", "prepareSrc"} :
          /\ Goto(c, pc)
          /\ pc = "advance" => ctl[c].pc = "close"
          /\ pc # "advance" => ctl[c].pc \in {"closeDst", "closeSrc"}
    BY <1>3 DEF Close
  <2> QED
    BY <1>1, <1>3, <2>1 DEF Close
<1>4. CASE Copy(c)
  <2>1. PICK pc \in {"create", "advance"} : Goto(c, pc)
    BY <1>4 DEF Copy
  <2> QED
    BY <1>1, <1>4, <2>1 DEF Copy
<1>5. CASE Create(c)
  BY <1>1, <1>5 DEF Create
<1>6. CASE Restore(c)
  BY <1>1, <1>6 DEF Restore
<1>7. CASE Verify(c)
  BY <1>1, <1>7 DEF Verify
<1>8. CASE Quiet(c)
  BY <1>1, <1>8 DEF Quiet
<1>9. CASE BeforeActivate(c)
  BY <1>1, <1>9 DEF BeforeActivate
<1>10. CASE AfterActivate(c)
  BY <1>1, <1>10 DEF AfterActivate
<1>11. CASE EnableExecution(c)
  BY <1>1, <1>11 DEF EnableExecution
<1>12. CASE Observe(c)
  BY <1>1, <1>12 DEF Observe
<1>13. CASE PrepareSource(c)
  BY <1>1, <1>13 DEF PrepareSource
<1>14. CASE GiveBack(c)
  BY <1>1, <1>14 DEF GiveBack
<1>15. CASE Reconcile(c)
  BY <1>1, <1>15 DEF Reconcile
<1>16. CASE Stamp(c)
  <2>1. PICK pc \in {"giveBack", "quiet"} : Goto(c, pc) /\ (pc = "giveBack" <=> ctl[c].phase = "returning")
    BY <1>16 DEF Stamp
  <2> QED
    BY <1>1, <1>16, <2>1 DEF Stamp
<1>17. CASE Hold(c)
  BY <1>1, <1>17 DEF Hold
<1> QED
  BY <1>2, <1>3, <1>4, <1>5, <1>6, <1>7, <1>8, <1>9, <1>10, <1>11, <1>12, <1>13, <1>14, <1>15, <1>16, <1>17
     DEF Driver

\* The row of a working controller, as the types and the bounds of begin leave it.
LEMMA WorkingRow ==
  ASSUME IInv, NEW c \in Controllers, ~At(c, "idle")
  PROVE  /\ ctl[c].id \in Movements /\ Row(c) \in Rows /\ Row(c).phase # "absent"
         /\ Row(c).src \in Runtimes /\ Row(c).dst \in Runtimes /\ Row(c).src # Row(c).dst
         /\ ctl[c].prov \in Runtimes /\ FenceTarget(c) \in Runtimes
         /\ Row(c).sgen \in Nat /\ MaxGen \in Nat /\ Row(c).sgen < MaxGen
         /\ Dgen(Row(c)) = Row(c).sgen + 1 /\ Dgen(Row(c)) \in Gens
         /\ ctl[c].phase = "returning" => Dgen(Row(c)) + 1 \in Gens
         /\ PreparedGen(c) \in Gens /\ PreparedGen(c) > Row(c).sgen
<1>1. /\ ctl[c].id \in Movements /\ Row(c) \in Rows /\ Row(c).phase # "absent"
      /\ ctl[c] \in Controls /\ RowOK(ctl[c].id)
      /\ ctl[c].phase = "returning" => Dgen(Row(c)) < MaxGen
  BY DEF IInv, Types, MovementTypes, Good, Known, Row
<1>2. /\ Row(c).src \in Runtimes /\ Row(c).dst \in Runtimes /\ ctl[c].prov \in Runtimes
      /\ Row(c).sgen \in Gens
  BY <1>1 DEF Rows, Controls
<1>3. Row(c).src # Row(c).dst /\ Row(c).sgen < MaxGen
  BY <1>1 DEF RowOK, Row
<1> QED
  BY <1>1, <1>2, <1>3, MovementBounds DEF FenceTarget, Gens, Dgen, PreparedGen

\* What the driver leaves on the clusters and of the dump.
LEMMA DriverWrites ==
  ASSUME IInv, NEW c \in Controllers, Driver(c)
  PROVE  /\ db' \in [Runtimes -> Databases]
         /\ archive' \in [Movements -> Archives \cup {None}]
         /\ DumpsKept
         /\ ctl'[c].pc \in {"create", "restore"} => archive'[ctl[c].id] \in Archives
<1>1. /\ db \in [Runtimes -> Databases] /\ archive \in [Movements -> Archives \cup {None}]
      /\ ctl \in [Controllers -> Controls] /\ Staged(c) /\ Dumped(c)
  BY DEF IInv, Types, MovementTypes, Good
<1>2. ~At(c, "idle")
  BY DEF Driver, At, Pause, Close, Copy, Create, Restore, Verify, PrepareSource, Reconcile, Stamp, Quiet,
     Hold, BeforeActivate, AfterActivate, EnableExecution, Observe, GiveBack
<1> DEFINE id == ctl[c].id
           src == Row(c).src
           dst == Row(c).dst
           prov == ctl[c].prov
           target == FenceTarget(c)
<1>3. /\ id \in Movements /\ src \in Runtimes /\ dst \in Runtimes /\ prov \in Runtimes /\ target \in Runtimes
      /\ PreparedGen(c) \in Gens
  BY <1>2, WorkingRow
<1>4. ASSUME UNCHANGED archive PROVE DumpsKept /\ archive' \in [Movements -> Archives \cup {None}]
  BY <1>1, <1>4 DEF DumpsKept
<1>5. ASSUME NEW pc \in PCs, Goto(c, pc) PROVE ctl'[c].pc = pc
  BY <1>1, <1>5, ControllerMoves
<1>6. ASSUME NEW r \in Runtimes, NEW d \in Databases, db' = [db EXCEPT ![r] = d] PROVE db' \in [Runtimes -> Databases]
  BY <1>1, <1>6, DatabaseWritten
<1>7. ASSUME NEW r \in Runtimes, NEW b \in BOOLEAN,
             db' = [db EXCEPT ![r].open = b] \/ db' = [db EXCEPT ![r].enabled = b]
      PROVE  db' \in [Runtimes -> Databases]
  <2>1. [db[r] EXCEPT !.open = b] \in Databases /\ [db[r] EXCEPT !.enabled = b] \in Databases
    BY <1>1, DatabaseFields
  <2> QED
    BY <1>6, <1>7, <2>1
<1> HIDE DEF id, src, dst, prov, target
<1>10. CASE Pause(c)
  <2>1. UNCHANGED archive /\ (UNCHANGED db \/ db' = [db EXCEPT ![target].enabled = FALSE])
    BY <1>10 DEF Pause, target
  <2>2. ctl'[c].pc \notin {"create", "restore"}
    BY <1>10, <1>5 DEF Pause, PCs, At, Untouched
  <2> QED
    BY <1>1, <1>3, <1>4, <1>7, <2>1, <2>2
<1>11. CASE Close(c)
  <2>1. UNCHANGED archive /\ db' = [db EXCEPT ![target].open = FALSE]
    BY <1>11 DEF Close, target
  <2>2. ctl'[c].pc \notin {"create", "restore"}
    BY <1>11, <1>5 DEF Close, PCs, At
  <2> QED
    BY <1>1, <1>3, <1>4, <1>7, <2>1, <2>2
<1>12. CASE Copy(c)
  <2>1. UNCHANGED db /\ ctl'[c].pc \in {"create", "advance"}
    BY <1>12, <1>5 DEF Copy, PCs
  <2>2. CASE Row(c).mode = "move" /\ archive[id] = None
    <3>1. archive' = [archive EXCEPT ![id] = [gen |-> db[src].gen, enabled |-> db[src].enabled, data |-> db[src].data]]
      BY <1>12, <2>2 DEF Copy, id, src
    <3>2. [gen |-> db[src].gen, enabled |-> db[src].enabled, data |-> db[src].data] \in Archives
      BY <1>1, <1>3 DEF Databases, Archives
    <3> QED
      BY <1>1, <1>3, <2>1, <3>1, <3>2 DEF DumpsKept, id
  <2>3. CASE ~(Row(c).mode = "move" /\ archive[id] = None)
    <3>1. UNCHANGED archive
      BY <1>12, <2>3 DEF Copy, id
    <3>2. ctl'[c].pc = "create" => Row(c).mode = "move"
      BY <1>12, <1>5 DEF Copy, PCs
    <3> QED
      BY <1>1, <1>3, <1>4, <2>1, <2>3, <3>1, <3>2 DEF id
  <2> QED
    BY <2>2, <2>3
<1>13. CASE Create(c)
  <2>1. UNCHANGED archive /\ ctl[c].pc = "create"
    BY <1>13 DEF Create, At
  <2>2. [NoDatabase EXCEPT !.state = "empty", !.mark = id] \in Databases
    BY <1>3, DatabaseMade
  <2>3. [db[dst] EXCEPT !.open = FALSE] \in Databases
    BY <1>1, <1>3, DatabaseFields
  <2>4. PICK d \in Databases : db' = [db EXCEPT ![dst] = d]
    BY <1>13, <2>2, <2>3 DEF Create, dst, id
  <2> QED
    BY <1>1, <1>3, <1>4, <1>6, <2>1, <2>4 DEF Dumped, id
<1>14. CASE Restore(c)
  <2>1. UNCHANGED archive /\ ctl[c].pc = "restore"
    BY <1>14 DEF Restore, At
  <2>2. archive[id] \in Archives
    BY <1>1, <2>1 DEF Dumped, id
  <2>3. [db[dst] EXCEPT !.state = "restored", !.gen = archive[id].gen, !.enabled = archive[id].enabled,
                        !.data = archive[id].data] \in Databases
    BY <1>1, <1>3, <2>2, DatabaseRestored
  <2>4. db[dst] \in Databases
    BY <1>1, <1>3
  <2>5. PICK d \in Databases : db' = [db EXCEPT ![dst] = d]
    BY <1>14, <2>3, <2>4 DEF Restore, dst, id
  <2> QED
    BY <1>1, <1>3, <1>4, <1>6, <2>1, <2>2, <2>5 DEF id
<1>15. CASE Reconcile(c) \/ Stamp(c)
  <2>1. Opened(db[prov], PreparedGen(c)) \in Databases /\ Stamped(db[prov], PreparedGen(c)) \in Databases
    BY <1>1, <1>3, DatabaseReconciled
  <2>2. /\ UNCHANGED archive
        /\ \/ db' = [db EXCEPT ![prov] = Opened(db[prov], PreparedGen(c))]
           \/ db' = [db EXCEPT ![prov] = Stamped(db[prov], PreparedGen(c))]
        /\ ctl'[c].pc \in {"stamp", "quiet", "giveBack"}
    BY <1>15, <1>5 DEF Reconcile, Stamp, prov, PCs
  <2> QED
    BY <1>1, <1>3, <1>4, <1>6, <2>1, <2>2
<1>16. CASE Hold(c)
  <2>1. UNCHANGED archive /\ db' = [db EXCEPT ![dst].enabled = FALSE] /\ ctl'[c].pc = "advance"
    BY <1>16, <1>5 DEF Hold, dst, PCs
  <2> QED
    BY <1>3, <1>4, <1>7, <2>1
<1>17. CASE \/ Verify(c) \/ PrepareSource(c) \/ Quiet(c)
            \/ BeforeActivate(c) \/ AfterActivate(c) \/ Observe(c) \/ GiveBack(c)
  <2>1. /\ UNCHANGED <<archive, db>>
        /\ ctl'[c].pc \in {"reconcile", "hold", "activate", "enable", "advance", "republish"}
    BY <1>17, <1>5 DEF Verify, PrepareSource, Quiet, BeforeActivate, AfterActivate, Observe, GiveBack, PCs
  <2> QED
    BY <1>1, <1>4, <2>1
<1>18. CASE EnableExecution(c)
  <2>1. /\ UNCHANGED archive /\ db' = [db EXCEPT ![dst].enabled = (Row(c).mode # "rollback")]
        /\ ctl'[c].pc = "observe"
    BY <1>18, <1>5 DEF EnableExecution, dst, PCs
  <2>2. PICK b \in BOOLEAN : db' = [db EXCEPT ![dst].enabled = b]
    BY <2>1
  <2> QED
    BY <1>3, <1>4, <1>7, <2>1, <2>2
<1> QED
  BY <1>10, <1>11, <1>12, <1>13, <1>14, <1>15, <1>16, <1>17, <1>18 DEF Driver

\* The driver keeps types, journal and grants.
LEMMA DriverStep == ASSUME IInv, NEW c \in Controllers, Driver(c) PROVE IInv'
<1>1. /\ ctl \in [Controllers -> Controls] /\ Good(c) /\ MovementTypes
  BY DEF IInv, Types, MovementTypes
<1>2. Works(c) /\ Staged(c)'
  BY <1>1, DriverWorks DEF Good
<1>3. PICK pc \in Acting : Goto(c, pc) /\ ctl[c].pc \in Acting /\ UNCHANGED <<env, mv, lock, grants, kept>>
  BY <1>2 DEF Works
<1>4. /\ ctl' \in [Controllers -> Controls]
      /\ ctl'[c].pc = pc /\ ctl'[c].id = ctl[c].id /\ ctl'[c].phase = ctl[c].phase
      /\ \A d \in Controllers \ {c} : ctl'[d] = ctl[d]
  <2>1. pc \in PCs
    BY DEF Acting
  <2> QED
    BY <1>1, <1>3, <2>1, ControllerMoves
<1>5. /\ db' \in [Runtimes -> Databases] /\ archive' \in [Movements -> Archives \cup {None}] /\ DumpsKept
      /\ Dumped(c)'
  BY <1>4, DriverWrites DEF Dumped
<1>6. Types'
  <2>1. count' \in Counts
    BY <1>2 DEF Works, Counted, Counts, IInv, Types
  <2> QED
    BY <1>1, <1>3, <1>4, <1>5, <2>1 DEF IInv, Types, MovementTypes, Archives
<1>7. RowsKept
  BY <1>3 DEF RowsKept
<1>8. Known(c)'
  BY <1>1, <1>3, <1>4 DEF Good, Known, Row, At, Acting, Dgen
<1>9. \A d \in Controllers : Good(d)'
  <2>1. \A d \in Controllers \ {c} : Good(d)'
    BY <1>1, <1>4, <1>5, <1>7, OthersStay DEF IInv
  <2> QED
    BY <1>2, <1>5, <1>8, <2>1 DEF Good
<1>10. \A n \in Movements : RowOK(n)' /\ Holds(n)'
  BY <1>3 DEF IInv, RowOK, Holds, Dgen
<1>11. Granted' /\ GrantNamesOnePlacement'
  BY <1>3 DEF IInv, Granted, GrantNamesOnePlacement
<1> QED
  BY <1>6, <1>9, <1>10, <1>11 DEF IInv

\* A step of controller c that writes the phase of its own row, or no row.
LEMMA JournalKept ==
  ASSUME IInv, NEW c \in Controllers, ~At(c, "idle"), NEW p \in Phases, p # "absent",
         mv' = [mv EXCEPT ![ctl[c].id].phase = p]
  PROVE  /\ mv' \in [Movements -> Rows] /\ RowsKept
         /\ mv'[ctl[c].id].phase = p /\ \A n \in Movements \ {ctl[c].id} : mv'[n] = mv[n]
<1> DEFINE id == ctl[c].id
<1>1. id \in Movements /\ mv \in [Movements -> Rows] /\ mv[id].phase # "absent"
  BY WorkingRow DEF IInv, Types, MovementTypes, Row
<1>2. mv' = [mv EXCEPT ![id] = [mv[id] EXCEPT !.phase = p]]
  OBVIOUS
<1> HIDE DEF id
<1>3. /\ mv'[id] = [mv[id] EXCEPT !.phase = p] /\ mv[id] \in Rows
      /\ \A n \in Movements \ {id} : mv'[n] = mv[n]
  BY <1>1, <1>2
<1>4. /\ mv'[id] \in Rows /\ mv'[id].phase = p
      /\ mv'[id].src = mv[id].src /\ mv'[id].dst = mv[id].dst
      /\ mv'[id].sgen = mv[id].sgen /\ mv'[id].mode = mv[id].mode
  BY <1>3, PhaseWritten
<1>5. mv' \in [Movements -> Rows]
  BY <1>1, <1>2, <1>3, <1>4
<1> QED
  BY <1>3, <1>4, <1>5 DEF RowsKept, id

\* A controller between two phases has no step under way.
LEMMA BetweenPhases ==
  ASSUME NEW c \in Controllers, Good(c), NEW pc \in {"request", "read"}, ~At(c, "idle"),
         ctl \in [Controllers -> Controls], Goto(c, pc), RowsKept
  PROVE  /\ ctl' \in [Controllers -> Controls] /\ Good(c)'
         /\ ctl'[c].pc = pc /\ ctl'[c].id = ctl[c].id
         /\ \A d \in Controllers \ {c} : ctl'[d] = ctl[d]
<1>1. pc \in PCs
  BY DEF PCs
<1>2. /\ ctl' \in [Controllers -> Controls]
      /\ ctl'[c].pc = pc /\ ctl'[c].id = ctl[c].id /\ ctl'[c].phase = ctl[c].phase
      /\ \A d \in Controllers \ {c} : ctl'[d] = ctl[d]
  BY <1>1, ControllerMoves
<1>3. Known(c)'
  BY <1>2 DEF Good, Known, Row, At, RowsKept, Dgen
<1> QED
  BY <1>2, <1>3 DEF Good, Staged, Dumped, ReturnPCs

\* Taking the advisory lock.
LEMMA ClaimStep == ASSUME IInv, NEW c \in Controllers, Claim(c) PROVE IInv'
<1> USE DEF IInv, Types, MovementTypes
<1>1. /\ ~At(c, "idle") /\ UNCHANGED <<env, mv, db, archive, grants, kept, count>>
      /\ \E pc \in {"request", "read"} : Goto(c, pc)
  BY DEF Claim, At
<1>2. RowsKept /\ DumpsKept
  BY <1>1 DEF RowsKept, DumpsKept
<1>3. /\ ctl' \in [Controllers -> Controls] /\ Good(c)'
      /\ \A d \in Controllers \ {c} : ctl'[d] = ctl[d]
  BY <1>1, <1>2, BetweenPhases
<1>4. \A d \in Controllers : Good(d)'
  BY <1>2, <1>3, OthersStay
<1>5. lock' \in [Movements -> Controllers \cup {None}]
  BY DEF Claim
<1>6. Types'
  BY <1>1, <1>3, <1>5
<1>7. \A n \in Movements : RowOK(n)' /\ Holds(n)'
  BY <1>1 DEF RowOK, Holds, Dgen
<1>8. Granted' /\ GrantNamesOnePlacement'
  BY <1>1 DEF Granted, GrantNamesOnePlacement
<1> QED
  BY <1>4, <1>6, <1>7, <1>8

\* A controller goes to the step of the phase it reads.
LEMMA ReadStep == ASSUME IInv, NEW c \in Controllers, Read(c), Row(c).phase \notin Ended PROVE IInv'
<1> USE DEF IInv, Types, MovementTypes
<1> DEFINE p == Row(c).phase
<1>1. /\ ~At(c, "idle") /\ UNCHANGED <<env, mv, db, archive, lock, grants, kept, count>>
      /\ ctl' = [ctl EXCEPT ![c].phase = p, ![c].pc = StepFor(p)]
  BY DEF Read, At
<1>2. ctl[c].id \in Movements /\ p \in Phases /\ p # "absent" /\ p \notin Ended /\ RowOK(ctl[c].id)
  BY <1>1, WorkingRow DEF Rows
<1>3. \/ p = "paused" /\ StepFor(p) = "fence"
      \/ p = "fenced" /\ StepFor(p) = "copy"
      \/ p = "copied" /\ StepFor(p) = "verify"
      \/ p = "verified" /\ StepFor(p) = "before"
      \/ p = "activated" /\ StepFor(p) = "after"
      \/ p = "returning" /\ StepFor(p) = "fenceDst"
  <2>1. p \in {"paused", "fenced", "copied", "verified", "activated", "returning"}
    BY <1>2 DEF Phases, Returnable, Ended
  <2> HIDE DEF p
  <2> QED
    BY <2>1 DEF StepFor
<1>4. StepFor(p) \in PCs
  BY <1>3 DEF PCs
<1> HIDE DEF p
<1>5. /\ ctl' \in [Controllers -> Controls]
      /\ ctl'[c].pc = StepFor(p) /\ ctl'[c].phase = p /\ ctl'[c].id = ctl[c].id
      /\ \A d \in Controllers \ {c} : ctl'[d] = ctl[d]
  BY <1>1, <1>2, <1>4 DEF Controls
<1>6. RowsKept /\ DumpsKept
  BY <1>1 DEF RowsKept, DumpsKept
<1>7. Known(c)'
  BY <1>1, <1>2, <1>5 DEF Known, Row, RowOK, Dgen, At, p
<1>8. Staged(c)' /\ Dumped(c)'
  BY <1>3, <1>5 DEF Staged, Dumped, ReturnPCs
<1>9. \A d \in Controllers : Good(d)'
  <2>1. \A d \in Controllers \ {c} : Good(d)'
    BY <1>5, <1>6, OthersStay
  <2> QED
    BY <1>7, <1>8, <2>1 DEF Good
<1>10. Types'
  BY <1>1, <1>5
<1>11. \A n \in Movements : RowOK(n)' /\ Holds(n)'
  BY <1>1 DEF RowOK, Holds, Dgen
<1>12. Granted' /\ GrantNamesOnePlacement'
  BY <1>1 DEF Granted, GrantNamesOnePlacement
<1> QED
  BY <1>9, <1>10, <1>11, <1>12

\* Advance and requestReturn: an undecided movement stays undecided, a decided one decided.
LEMMA PhaseStep ==
  ASSUME IInv, NEW c \in Controllers, ~At(c, "idle"), NEW p \in Phases, p # "absent",
         mv' = [mv EXCEPT ![ctl[c].id].phase = p], Goto(c, "read"),
         p \in Returnable => Row(c).phase \in Returnable,
         p = "returning" => Dgen(Row(c)) < MaxGen,
         UNCHANGED <<env, db, archive, lock, grants, kept, count>>
  PROVE  IInv'
<1>1. /\ mv' \in [Movements -> Rows] /\ RowsKept
      /\ mv'[ctl[c].id].phase = p /\ \A n \in Movements \ {ctl[c].id} : mv'[n] = mv[n]
  BY JournalKept
<1>2. ctl[c].id \in Movements /\ Row(c).phase # "absent" /\ ctl \in [Controllers -> Controls] /\ Good(c)
  BY WorkingRow DEF IInv, Types, MovementTypes
<1>3. /\ ctl' \in [Controllers -> Controls] /\ Good(c)'
      /\ \A d \in Controllers \ {c} : ctl'[d] = ctl[d]
  BY <1>1, <1>2, BetweenPhases
<1>4. \A d \in Controllers : Good(d)'
  BY <1>1, <1>2, <1>3, OthersStay DEF DumpsKept, IInv
<1>5. Types'
  BY <1>1, <1>3 DEF IInv, Types, MovementTypes
<1>6. \A n \in Movements : RowOK(n)' /\ Holds(n)'
  <2> SUFFICES ASSUME NEW n \in Movements PROVE RowOK(n)' /\ Holds(n)'
    OBVIOUS
  <2>1. RowOK(n) /\ Holds(n)
    BY DEF IInv
  <2>2. CASE n = ctl[c].id
    BY <1>1, <1>2, <2>1, <2>2 DEF RowOK, Holds, Row, RowsKept, Dgen
  <2>3. CASE n # ctl[c].id
    BY <1>1, <2>1, <2>3 DEF RowOK, Holds, Dgen
  <2> QED
    BY <2>2, <2>3
<1>7. Granted' /\ GrantNamesOnePlacement'
  BY DEF IInv, Granted, GrantNamesOnePlacement
<1> QED
  BY <1>4, <1>5, <1>6, <1>7 DEF IInv

\* The phase each journal step writes.
LEMMA AdvancePhase ==
  ASSUME IInv, NEW c \in Controllers, Advance(c)
  PROVE  /\ Row(c).phase = ctl[c].phase /\ ~At(c, "idle")
         /\ Successor[ctl[c].phase] \in Phases \ {"absent"}
         /\ \/ ctl[c].phase = "paused" /\ Successor[ctl[c].phase] = "fenced"
            \/ ctl[c].phase = "fenced" /\ Successor[ctl[c].phase] = "copied"
            \/ ctl[c].phase = "copied" /\ Successor[ctl[c].phase] = "verified"
            \/ ctl[c].phase = "activated" /\ Successor[ctl[c].phase] = "completed"
<1>1. ctl[c].phase \in {"paused", "fenced", "copied", "activated"}
  BY DEF IInv, Good, Staged, Advance, At
<1> QED
  BY <1>1 DEF Advance, CanAdvance, At, Successor, Phases, Returnable, Ended

\* requestReturn ends in returning, unless the return was already published.
LEMMA RequestPhase ==
  ASSUME IInv, NEW c \in Controllers, RequestReturn(c)
  PROVE  \E p \in {"returning", "cancelled"} :
           /\ mv' = [mv EXCEPT ![ctl[c].id].phase = p]
           /\ p = "returning" => Row(c).phase \in Returnable /\ Dgen(Row(c)) < MaxGen
           /\ p = "cancelled" => Row(c).phase = "cancelled"
<1>1. CASE Row(c).phase = "cancelled"
  BY <1>1 DEF RequestReturn, Row
<1>2. CASE Row(c).phase # "cancelled"
  BY <1>2 DEF RequestReturn, CanRequest, Row
<1> QED
  BY <1>1, <1>2

\* advance and requestReturn, as phase steps.
LEMMA JournalStep == ASSUME IInv, NEW c \in Controllers, Advance(c) \/ RequestReturn(c) PROVE IInv'
<1>1. CASE Advance(c)
  BY <1>1, AdvancePhase, PhaseStep DEF Advance, Returnable
<1>2. CASE RequestReturn(c)
  BY <1>2, RequestPhase, PhaseStep DEF RequestReturn, At, Phases, Returnable, Ended
<1> QED
  BY <1>1, <1>2

\* A publication ends the movement's hold on the environment with a generation above every
\* grant's.
LEMMA PublishStep ==
  ASSUME IInv, NEW c \in Controllers, Activate(c) \/ Republish(c)
  PROVE  IInv'
<1>1. PICK phase \in {"verified", "returning"}, decided \in {"activated", "cancelled"},
           runtime \in Runtimes, gen \in Gens :
        /\ CanPublish(c, phase) /\ Publish(c, runtime, gen, decided)
        /\ gen > Row(c).sgen /\ ~At(c, "idle") /\ kept' \subseteq Writes
  <2>1. /\ ~At(c, "idle") /\ env \in Environments /\ db \in [Runtimes -> Databases] /\ kept \subseteq Writes
        /\ Staged(c)
    BY DEF Activate, Republish, At, IInv, Types, MovementTypes, Good
  <2>2. /\ Row(c).sgen \in Nat /\ Dgen(Row(c)) = Row(c).sgen + 1 /\ Dgen(Row(c)) \in Gens
        /\ (ctl[c].phase = "returning" => Dgen(Row(c)) + 1 \in Gens)
        /\ Row(c).dst \in Runtimes /\ Row(c).src \in Runtimes
    BY <2>1, WorkingRow
  <2>3. CASE Activate(c)
    <3>1. db[Row(c).dst].data \in SUBSET Writes
      BY <2>1, <2>2 DEF Databases
    <3> QED
      BY <2>1, <2>2, <2>3, <3>1 DEF Activate
  <2>4. CASE Republish(c)
    <3>1. ctl[c].phase = "returning"
      BY <2>1, <2>4 DEF Republish, Staged, At, ReturnPCs
    <3> QED
      BY <2>1, <2>2, <2>4, <3>1 DEF Republish
  <2> QED
    BY <2>3, <2>4
<1>2. PICK id \in Movements : id = ctl[c].id
  BY <1>1, WorkingRow
<1>3. /\ env' \in Environments /\ env'.runtime = runtime /\ env'.gen = gen /\ env'.movement = None
      /\ env.gen = Row(c).sgen /\ env.gen \in Nat /\ gen \in Nat /\ env.movement = id
  <2>1. env' = [env EXCEPT !.runtime = runtime, !.gen = gen, !.movement = None, !.observed = "ready"]
    BY <1>1 DEF Publish
  <2>2. env \in Environments
    BY DEF IInv, Types, MovementTypes
  <2>3. env.gen \in Nat /\ gen \in Nat
    BY <2>2 DEF Environments, Gens
  <2> QED
    BY <1>1, <1>2, <2>1, <2>2, <2>3 DEF CanPublish, Environments
<1>4. /\ mv' \in [Movements -> Rows] /\ RowsKept
      /\ mv'[id].phase = decided /\ \A n \in Movements \ {id} : mv'[n] = mv[n]
  <2>1. decided \in Phases /\ decided # "absent"
    BY DEF Phases, Ended
  <2> QED
    BY <1>1, <1>2, <2>1, JournalKept DEF Publish
<1>5. UNCHANGED <<db, archive, lock, grants, count>> /\ Goto(c, "read")
  BY <1>1 DEF Publish
<1>6. ctl \in [Controllers -> Controls] /\ Good(c)
  BY DEF IInv, Types, MovementTypes
<1>7. /\ ctl' \in [Controllers -> Controls] /\ Good(c)'
      /\ \A d \in Controllers \ {c} : ctl'[d] = ctl[d]
  BY <1>1, <1>4, <1>5, <1>6, BetweenPhases
<1>8. \A d \in Controllers : Good(d)'
  BY <1>4, <1>5, <1>6, <1>7, OthersStay DEF DumpsKept, IInv
<1>9. Types'
  BY <1>1, <1>3, <1>4, <1>5, <1>7 DEF IInv, Types, MovementTypes
<1>10. ASSUME NEW n \in Movements PROVE RowOK(n)' /\ Holds(n)'
  <2>1. RowOK(n) /\ Holds(n)
    BY DEF IInv
  <2>2. CASE n = id
    BY <1>1, <1>2, <1>4, <2>1, <2>2, WorkingRow DEF RowOK, Holds, RowsKept, Row, Returnable
  <2>3. CASE n # id
    BY <1>3, <1>4, <2>1, <2>3 DEF RowOK, Holds, Dgen
  <2> QED
    BY <2>2, <2>3
<1>11. Granted'
  <2>1. \A p \in grants : p[2] \in Nat
    BY DEF IInv, Types, MovementTypes, Gens
  <2> QED
    BY <1>1, <1>3, <1>5, <2>1 DEF IInv, Granted
<1>12. GrantNamesOnePlacement'
  BY <1>5 DEF IInv, GrantNamesOnePlacement
<1> QED
  BY <1>8, <1>9, <1>10, <1>11, <1>12 DEF IInv

\* A controller that leaves, by itself or not.
LEMMA ExitStep ==
  ASSUME IInv, NEW c \in Controllers, Exit(c), count' \in Counts,
         UNCHANGED <<env, mv, db, archive, grants, kept>>
  PROVE  IInv'
<1> USE DEF IInv, Types, MovementTypes
<1>1. /\ ctl' \in [Controllers -> Controls]
      /\ lock' \in [Movements -> Controllers \cup {None}]
      /\ ctl'[c] = Idle /\ \A d \in Controllers \ {c} : ctl'[d] = ctl[d]
  BY ControllerExits
<1>2. RowsKept /\ DumpsKept
  BY DEF RowsKept, DumpsKept
<1>3. \A d \in Controllers : Good(d)'
  BY <1>1, <1>2, Idles, OthersStay
<1>4. Types'
  BY <1>1
<1>5. \A n \in Movements : RowOK(n)' /\ Holds(n)'
  BY DEF RowOK, Holds, Dgen
<1>6. Granted' /\ GrantNamesOnePlacement'
  BY DEF Granted, GrantNamesOnePlacement
<1> QED
  BY <1>3, <1>4, <1>5, <1>6

\* What losing the connection changes of a controller.
LEMMA LoseLockWrites ==
  ASSUME NEW c \in Controllers, ctl \in [Controllers -> Controls], LoseLock(c)
  PROVE  /\ ctl' \in [Controllers -> Controls]
         /\ ctl'[c].pc = ctl[c].pc /\ ctl'[c].id = ctl[c].id /\ ctl'[c].return = ctl[c].return
         /\ ctl'[c].prov = ctl[c].prov /\ ctl'[c].phase = ctl[c].phase /\ ctl'[c].lost = TRUE
         /\ \A d \in Controllers \ {c} : ctl'[d] = ctl[d]
  BY DEF LoseLock, Controls

\* A controller that lost its connection is the same controller.
LEMMA LoseLockStep == ASSUME IInv, NEW c \in Controllers, LoseLock(c) PROVE IInv'
<1> USE DEF IInv, Types, MovementTypes
<1>1. /\ UNCHANGED <<env, mv, db, archive, grants, kept>>
      /\ lock' \in [Movements -> Controllers \cup {None}]
  BY DEF LoseLock
<1>2. count' \in Counts
  BY DEF LoseLock, Counts
<1>3. /\ ctl' \in [Controllers -> Controls]
      /\ ctl'[c].pc = ctl[c].pc /\ ctl'[c].id = ctl[c].id /\ ctl'[c].phase = ctl[c].phase
      /\ \A d \in Controllers \ {c} : ctl'[d] = ctl[d]
  BY LoseLockWrites
<1>4. RowsKept /\ DumpsKept
  BY <1>1 DEF RowsKept, DumpsKept
<1>5. Good(c)'
  BY <1>1, <1>3 DEF Good, Known, Staged, Dumped, Row, At, ReturnPCs, Dgen
<1>6. \A d \in Controllers : Good(d)'
  BY <1>3, <1>4, <1>5, OthersStay
<1>7. Types'
  BY <1>1, <1>2, <1>3
<1>8. \A n \in Movements : RowOK(n)' /\ Holds(n)'
  BY <1>1 DEF RowOK, Holds, Dgen
<1>9. Granted' /\ GrantNamesOnePlacement'
  BY <1>1 DEF Granted, GrantNamesOnePlacement
<1> QED
  BY <1>6, <1>7, <1>8, <1>9

\* The three ways a controller is idle again.
LEMMA Leaves ==
  ASSUME IInv, NEW c \in Controllers,
         Refuse(c) \/ Die(c) \/ (Read(c) /\ Row(c).phase \in Ended)
  PROVE  /\ Exit(c) /\ count' \in Counts /\ UNCHANGED <<env, mv, db, archive, grants, kept>>
<1>1. count \in Counts
  BY DEF IInv, Types
<1>2. CASE Refuse(c) \/ (Read(c) /\ Row(c).phase \in Ended)
  BY <1>1, <1>2 DEF Refuse, Read
<1>3. CASE Die(c)
  BY <1>1, <1>3 DEF Die, Counts
<1> QED
  BY <1>2, <1>3

\* A step of the provisioners.
Jobbing ==
  \/ \E w \in Workers : ClaimJob(w) \/ Work(w) \/ JobBreaks(w)
  \/ \E r \in Runtimes : ProvisionerDies(r)

\* Next, by what a step means to the journal.
LEMMA Steps ==
  ASSUME Next
  PROVE  \/ Authorize \/ \E desired \in Desired : AcceptEntitlement(desired)
         \/ Jobbing
         \/ \E r \in Runtimes : Write(r) \/ Execute(r) \/ Settle(r) \/ ReconcileEffects(r) \/ ExecutorDies(r)
         \/ \E m \in Movements, r \in Runtimes : Begin(m, r) \/ Rollback(m, r)
         \/ \E c \in Controllers, m \in Movements : \E return \in BOOLEAN : Start(c, m, return)
         \/ \E c \in Controllers :
              \/ Claim(c) \/ Driver(c) \/ Advance(c) \/ RequestReturn(c) \/ Activate(c) \/ Republish(c)
              \/ LoseLock(c) \/ (Read(c) /\ Row(c).phase \notin Ended)
              \/ Refuse(c) \/ Die(c) \/ (Read(c) /\ Row(c).phase \in Ended)
<1>1. ASSUME NEW c \in Controllers, Step(c)
      PROVE  \/ Claim(c) \/ Driver(c) \/ Advance(c) \/ RequestReturn(c) \/ Activate(c) \/ Republish(c)
             \/ (Read(c) /\ Row(c).phase \notin Ended)
             \/ Refuse(c) \/ (Read(c) /\ Row(c).phase \in Ended)
  BY <1>1 DEF Step, Driver
<1> QED
  BY <1>1 DEF Next, Jobbing

\* Only the provisioners write what the provisioners have claimed.
LEMMA JobsTyped == ASSUME IInv, JobTypes, [Next]_vars PROVE JobTypes'
<1>1. ASSUME NEW w \in Workers, NEW pc \in JobPCs, JobGoto(w, pc) PROVE job' \in [Workers -> Jobs]
  <2>1. [job[w] EXCEPT !.pc = pc] \in Jobs
    BY DEF JobTypes, Jobs
  <2> QED
    BY <1>1, <2>1 DEF JobGoto, JobTypes
<1>2. NoJob \in Jobs
  BY HomeAssumption, MovementBounds DEF NoJob, Jobs, JobPCs, Desired, Gens
<1>3. ASSUME NEW w \in Workers, ClaimJob(w) PROVE JobTypes'
  <2>1. env \in Environments /\ env.runtime \in Runtimes /\ env.gen \in Gens /\ env.desired \in Desired
    BY DEF IInv, Types, MovementTypes, Environments
  <2>2. [pc |-> "reconcile", runtime |-> env.runtime, gen |-> env.gen, desired |-> env.desired] \in Jobs
    BY <2>1 DEF Jobs, JobPCs
  <2> QED
    BY <1>3, <2>1, <2>2 DEF ClaimJob, JobTypes
<1>4. ASSUME NEW w \in Workers, JobReconciles(w) \/ JobStamps(w) \/ JobBreaks(w) PROVE JobTypes'
  <2>1. \E pc \in JobPCs : JobGoto(w, pc)
    BY <1>4 DEF JobReconciles, JobStamps, JobBreaks, JobPCs
  <2>2. UNCHANGED running
    BY <1>4 DEF JobReconciles, JobStamps, JobBreaks
  <2> QED
    BY <1>1, <2>1, <2>2 DEF JobTypes
<1>5. ASSUME NEW w \in Workers, JobFinishes(w) \/ JobFails(w) PROVE JobTypes'
  <2>1. job' = [job EXCEPT ![w] = NoJob] \/ \E pc \in JobPCs : JobGoto(w, pc)
    BY <1>5 DEF JobFinishes, JobFails, JobPCs
  <2>2. running' \subseteq running
    BY <1>5 DEF JobFinishes, JobFails
  <2> QED
    BY <1>1, <1>2, <2>1, <2>2 DEF JobTypes
<1>6. ASSUME NEW r \in Runtimes, ProvisionerDies(r) PROVE JobTypes'
  BY <1>2, <1>6 DEF ProvisionerDies, JobTypes
<1>7. ASSUME UNCHANGED provision PROVE JobTypes'
  BY <1>7 DEF provision, JobTypes
<1>8. ASSUME NEW c \in Controllers, Step(c) \/ Die(c) \/ LoseLock(c) PROVE UNCHANGED provision
  BY <1>8 DEF Step, Claim, RequestReturn, Read, Advance, Refuse, Pause, Close, Copy, Create, Restore,
     Verify, PrepareSource, Reconcile, Stamp, Quiet, Hold, BeforeActivate, Activate, AfterActivate,
     EnableExecution, Observe, GiveBack, Republish, Publish, Die, LoseLock
<1>9. CASE UNCHANGED vars
  BY <1>7, <1>9 DEF vars, provision
<1>10. ASSUME NEW r \in Runtimes, Write(r) \/ Execute(r) \/ Settle(r) \/ ReconcileEffects(r) \/ ExecutorDies(r)
       PROVE  UNCHANGED provision
  BY <1>10 DEF Write, Execute, Settle, ReconcileEffects, ExecutorDies
<1>11. ASSUME NEW m \in Movements, NEW r \in Runtimes, Begin(m, r) \/ Rollback(m, r) PROVE UNCHANGED provision
  BY <1>11 DEF Begin, Rollback, Record
<1>12. ASSUME NEW c \in Controllers, NEW m \in Movements, NEW return \in BOOLEAN, Start(c, m, return)
       PROVE  UNCHANGED provision
  BY <1>12 DEF Start
<1>13. CASE Authorize \/ \E desired \in Desired : AcceptEntitlement(desired)
  BY <1>7, <1>13 DEF Authorize, AcceptEntitlement
<1> QED
  BY <1>3, <1>4, <1>5, <1>6, <1>7, <1>8, <1>9, <1>10, <1>11, <1>12, <1>13 DEF Next, Work

\* The journal, the controllers, the provisioners and the grants fit together, whatever is
\* lost, late or returned.
THEOREM Invariance == Spec => [](IInv /\ JobTypes)
<1>1. Init => IInv /\ JobTypes
  <2> SUFFICES ASSUME Init PROVE IInv /\ JobTypes
    OBVIOUS
  <2>1. 0 \in Gens /\ 1 \in Gens /\ 0 \in 0 .. MaxWrites
    BY MovementBounds DEF Gens
  <2>2. NoRow \in Rows /\ NoRow.phase = "absent"
    BY <2>1, HomeAssumption DEF NoRow, Rows, Phases
  <2>3. NoDatabase \in Databases
    BY <2>1 DEF NoDatabase, Databases
  <2>4. [NoDatabase EXCEPT !.state = "restored", !.gen = 1, !.pw = 1, !.open = TRUE, !.enabled = TRUE] \in Databases
    BY <2>1 DEF NoDatabase, Databases
  <2>5. db \in [Runtimes -> Databases]
    BY <2>3, <2>4 DEF Init
  <2>6. Idle \in Controls
    BY HomeAssumption DEF Idle, Controls, PCs, Phases
  <2>7. env \in Environments
    BY <2>1, HomeAssumption DEF Init, Environments, Desired
  <2>8. count \in Counts
    BY <2>1 DEF Init, Counts
  <2>9. Types
    BY <2>2, <2>5, <2>6, <2>7, <2>8 DEF Init, Types, MovementTypes
  <2>10. \A m \in Movements : RowOK(m) /\ Holds(m)
    BY <2>2 DEF Init, RowOK, Holds, Returnable
  <2>11. \A c \in Controllers : Good(c)
    BY DEF Init, Good, Known, Staged, Dumped, At, Idle, ReturnPCs
  <2>12. Granted /\ GrantNamesOnePlacement
    BY DEF Init, Granted, GrantNamesOnePlacement
  <2>13. JobTypes
    BY <2>1, HomeAssumption DEF Init, JobTypes, NoJob, Jobs, JobPCs, Desired
  <2> QED
    BY <2>9, <2>10, <2>11, <2>12, <2>13 DEF IInv
<1>2. IInv /\ JobTypes /\ [Next]_vars => IInv'
  <2> SUFFICES ASSUME IInv, JobTypes, [Next]_vars PROVE IInv'
    OBVIOUS
  <2>1. CASE UNCHANGED vars
    <3>1. Types' /\ \A m \in Movements : RowOK(m)' /\ Holds(m)'
      BY <2>1 DEF IInv, vars, Types, MovementTypes, RowOK, Holds, Dgen
    <3>2. Granted' /\ GrantNamesOnePlacement'
      BY <2>1 DEF IInv, vars, Granted, GrantNamesOnePlacement
    <3> QED
      BY <2>1, <3>1, <3>2, JournalUntouched DEF vars, IInv
  <2>2. ASSUME NEW m \in Movements, NEW r \in Runtimes, Begin(m, r) \/ Rollback(m, r) PROVE IInv'
    BY <2>2, OperatorRecords, OperatorStep
  <2>3. ASSUME NEW c \in Controllers, Refuse(c) \/ Die(c) \/ (Read(c) /\ Row(c).phase \in Ended) PROVE IInv'
    BY <2>3, Leaves, ExitStep
  <2>4. Jobbing => IInv'
    BY JobStep DEF Jobbing
  <2> QED
    BY <2>1, <2>2, <2>3, <2>4, Steps, FacadeStep, CustomerStep, StartStep, ClaimStep, DriverStep,
       JournalStep, PublishStep, ReadStep, LoseLockStep
<1>3. IInv /\ JobTypes /\ [Next]_vars => JobTypes'
  BY JobsTyped
<1> QED
  BY <1>1, <1>2, <1>3, PTL DEF Spec

\* The directory, the journal, the clusters, the controllers and the provisioners hold values
\* of their types.
THEOREM TypeCorrectness == Spec => []TypeOK
<1>1. IInv /\ JobTypes => TypeOK
  BY DEF IInv, Types, TypeOK
<1> QED
  BY <1>1, Invariance, PTL

\* docs/customer-release-lifecycle.md, "Historical grants never become current again": no
\* generation is granted on two runtimes, whatever is returned, rolled back or lost.
THEOREM GrantsAreUnambiguous == Spec => []GrantNamesOnePlacement
<1>1. IInv /\ JobTypes => GrantNamesOnePlacement
  BY DEF IInv
<1> QED
  BY <1>1, Invariance, PTL

------------------------------------------------------------------------------
(* The order of controllers *)

\* The order of the phases.
LEMMA Ranks ==
  /\ \A p \in Phases : Rank[p] \in Nat
  /\ Rank["paused"] = 1 /\ Rank["fenced"] = 2 /\ Rank["copied"] = 3 /\ Rank["verified"] = 4
  /\ Rank["activated"] = 5 /\ Rank["returning"] = 5
  /\ Rank["completed"] = 6 /\ Rank["cancelled"] = 6 /\ Rank["superseded"] = 6
  BY DEF Rank, Phases, Returnable, Ended

\* A controller that stays where it is, while its row only goes up and its lock stays.
LEMMA OthersInOrder ==
  ASSUME IInv, IInv', NEW d \in Controllers, ctl'[d] = ctl[d], HoldsLock(d), Behind(d), BuiltFor(d),
         ~At(d, "idle") => /\ lock'[ctl[d].id] = lock[ctl[d].id] \/ lock[ctl[d].id] # d
                           /\ mv'[ctl[d].id].dst = Row(d).dst
                           /\ Rank[Row(d).phase] <= Rank[mv'[ctl[d].id].phase]
                           /\ Row(d).phase \in {"returning", "cancelled"} =>
                                mv'[ctl[d].id].phase \in {"returning", "cancelled"}
  PROVE  HoldsLock(d)' /\ Behind(d)' /\ BuiltFor(d)'
<1>1. CASE At(d, "idle")
  BY <1>1 DEF HoldsLock, Behind, BuiltFor, At, Acting
<1>2. CASE ~At(d, "idle")
  <2>1. /\ ctl[d].id \in Movements /\ ctl[d].phase \in Phases
        /\ mv[ctl[d].id].phase \in Phases /\ mv'[ctl[d].id].phase \in Phases
    BY <1>2, WorkingRow DEF IInv, Types, MovementTypes, Controls, Rows
  <2>2. HoldsLock(d)'
    BY <1>2 DEF HoldsLock, Live
  <2>3. Behind(d)'
    BY <1>2, <2>1, Ranks DEF Behind, Row
  <2>4. BuiltFor(d)'
    BY <1>2 DEF BuiltFor, Row, At
  <2> QED
    BY <2>2, <2>3, <2>4
<1> QED
  BY <1>1, <1>2

OrderInv == Order /\ (AllLive \/ NothingReturned)

\* A step keeps what the counters still allow to say.
Kept == (AllLive /\ count'.lost = 0 => AllLive') /\ (NothingReturned /\ count'.returns = 0 => NothingReturned')

\* Steps that leave the journal, the locks and the controllers alone.
LEMMA OrderUntouched == ASSUME Order, UNCHANGED <<mv, ctl, lock>> PROVE Order' /\ Kept
<1>1. Kept
  BY DEF Kept, AllLive, NothingReturned, Live, At
<1>2. Order'
  BY DEF Order, HoldsLock, Behind, InStep, BuiltFor, Live, At, Row
<1> QED
  BY <1>1, <1>2

\* A controller in the driver keeps its row, its lock and what it has read.
LEMMA OrderDriver ==
  ASSUME IInv, OrderInv, NEW c \in Controllers, Works(c)
  PROVE  Order' /\ Kept
<1> USE DEF OrderInv
<1>1. PICK pc \in Acting : Goto(c, pc) /\ ctl[c].pc \in Acting /\ UNCHANGED <<mv, lock>>
  BY DEF Works
<1>2. /\ ctl'[c].pc = pc /\ ctl'[c].id = ctl[c].id /\ ctl'[c].phase = ctl[c].phase
      /\ ctl'[c].return = ctl[c].return /\ ctl'[c].prov = ctl[c].prov /\ ctl'[c].lost = ctl[c].lost
      /\ \A d \in Controllers \ {c} : ctl'[d] = ctl[d]
  <2>1. pc \in PCs /\ ctl \in [Controllers -> Controls]
    BY DEF Acting, IInv, Types, MovementTypes
  <2> QED
    BY <1>1, <2>1, ControllerMoves
<1>3. /\ \A d \in Controllers : ctl'[d].pc \in Acting <=> ctl[d].pc \in Acting
      /\ \A d \in Controllers : /\ ctl'[d].id = ctl[d].id /\ ctl'[d].phase = ctl[d].phase
                                /\ ctl'[d].return = ctl[d].return /\ ctl'[d].prov = ctl[d].prov
                                /\ ctl'[d].lost = ctl[d].lost
      /\ \A d \in Controllers, p \in {"idle", "claim", "request"} : ctl'[d].pc = p <=> ctl[d].pc = p
  BY <1>1, <1>2 DEF Acting
<1>4. Kept
  BY <1>1, <1>3 DEF Kept, AllLive, NothingReturned, Live, At
<1>5. \A d \in Controllers : HoldsLock(d)'
  BY <1>1, <1>3 DEF Order, HoldsLock, Live
<1>6. \A d \in Controllers : Behind(d)' /\ InStep(d)'
  BY <1>1, <1>3 DEF Order, Behind, InStep, Row, Live
<1>7. \A d \in Controllers : BuiltFor(d)'
  BY <1>1, <1>3 DEF Order, BuiltFor, Row, At
<1> QED
  BY <1>4, <1>5, <1>6, <1>7 DEF Order

\* A controller that leaves frees only its own lock.
LEMMA OrderExit ==
  ASSUME IInv, IInv', OrderInv, NEW c \in Controllers, Exit(c), UNCHANGED mv
  PROVE  Order' /\ Kept
<1> USE DEF OrderInv
<1>1. /\ ctl'[c] = Idle /\ \A d \in Controllers \ {c} : ctl'[d] = ctl[d]
      /\ \A m \in Movements : lock[m] # c => lock'[m] = lock[m]
  BY ControllerExits DEF IInv, Types, MovementTypes
<1>2. Kept
  BY <1>1 DEF Kept, AllLive, NothingReturned, Live, At, Idle
<1>3. HoldsLock(c)' /\ Behind(c)' /\ BuiltFor(c)' /\ InStep(c)'
  BY <1>1 DEF HoldsLock, Behind, BuiltFor, InStep, Idle, Acting, At
<1>4. ASSUME NEW d \in Controllers \ {c} PROVE HoldsLock(d)' /\ Behind(d)' /\ BuiltFor(d)'
  <2>1. ~At(d, "idle") => ctl[d].id \in Movements /\ Row(d).phase \in Phases
    BY WorkingRow DEF Rows
  <2> QED
    BY <1>1, <1>4, <2>1, Ranks, OthersInOrder DEF Order, Row
<1>5. ASSUME NEW d \in Controllers \ {c} PROVE InStep(d)'
  <2>1. InStep(d)
    BY DEF Order
  <2> QED
    BY <1>1, <1>5, <2>1 DEF InStep, Row, Live, Idle, Acting
<1> QED
  BY <1>2, <1>3, <1>4, <1>5 DEF Order

\* A lost connection frees the lock; under it nothing is returned.
LEMMA OrderLoseLock ==
  ASSUME IInv, OrderInv, NEW c \in Controllers, LoseLock(c)
  PROVE  Order' /\ Kept
<1> USE DEF OrderInv
<1>1. /\ ctl'[c].pc = ctl[c].pc /\ ctl'[c].id = ctl[c].id /\ ctl'[c].return = ctl[c].return
      /\ ctl'[c].prov = ctl[c].prov /\ ctl'[c].phase = ctl[c].phase /\ ctl'[c].lost = TRUE
      /\ \A d \in Controllers \ {c} : ctl'[d] = ctl[d]
  BY LoseLockWrites DEF IInv, Types, MovementTypes
<1>2. /\ UNCHANGED mv /\ ctl[c].id \in Movements /\ lock[ctl[c].id] = c
      /\ \A m \in Movements : m # ctl[c].id => lock'[m] = lock[m]
  BY WorkingRow DEF LoseLock, IInv, Types, MovementTypes
<1>3. count'.lost # 0
  BY DEF LoseLock, IInv, Types, Counts
<1>4. Kept
  BY <1>1, <1>2, <1>3 DEF Kept, AllLive, NothingReturned, At
<1>5. HoldsLock(c)' /\ Behind(c)' /\ BuiltFor(c)' /\ InStep(c)'
  BY <1>1, <1>2 DEF Order, HoldsLock, Behind, BuiltFor, InStep, At, Live, Row
<1>6. ASSUME NEW d \in Controllers \ {c} PROVE HoldsLock(d)' /\ Behind(d)' /\ BuiltFor(d)' /\ InStep(d)'
  <2>1. ~At(d, "idle") => ctl[d].id \in Movements
    BY WorkingRow
  <2>2. HoldsLock(d)'
    BY <1>1, <1>2, <1>6, <2>1 DEF Order, HoldsLock, Live, At
  <2>3. Behind(d)' /\ BuiltFor(d)'
    BY <1>1, <1>2, <1>6 DEF Order, Behind, BuiltFor, Row, At
  <2>4. InStep(d)'
    BY <1>1, <1>2, <1>6 DEF Order, InStep, Row, Live
  <2> QED
    BY <2>2, <2>3, <2>4
<1> QED
  BY <1>4, <1>5, <1>6 DEF Order

\* A new controller has read nothing yet.
LEMMA OrderStart ==
  ASSUME IInv, IInv', OrderInv, NEW c \in Controllers, NEW m \in Movements, NEW return \in BOOLEAN,
         Start(c, m, return)
  PROVE  Order' /\ Kept
<1> USE DEF OrderInv
<1>1. UNCHANGED <<mv, lock>> /\ ctl \in [Controllers -> Controls] /\ mv[m] \in Rows
  BY DEF Start, IInv, Types, MovementTypes
<1>2. /\ ctl'[c].pc = "claim" /\ ctl'[c].id = m /\ ctl'[c].return = return /\ ctl'[c].lost = FALSE
      /\ ctl'[c].prov = IF return \/ mv[m].phase = "returning" THEN mv[m].src ELSE mv[m].dst
      /\ \A d \in Controllers \ {c} : ctl'[d] = ctl[d]
  BY <1>1 DEF Start, Idle, ProvisionerFor
<1>3. count'.returns = 0 => ~return
  BY DEF Start, IInv, Types, Counts
<1>4. Kept
  BY <1>1, <1>2, <1>3 DEF Kept, AllLive, NothingReturned, Live, At
<1>5. HoldsLock(c)' /\ Behind(c)' /\ InStep(c)' /\ BuiltFor(c)'
  BY <1>1, <1>2 DEF HoldsLock, Behind, InStep, BuiltFor, Acting, At, Row
<1>6. ASSUME NEW d \in Controllers \ {c} PROVE HoldsLock(d)' /\ Behind(d)' /\ BuiltFor(d)'
  <2>1. ~At(d, "idle") => ctl[d].id \in Movements /\ Row(d).phase \in Phases
    BY WorkingRow DEF Rows
  <2> QED
    BY <1>1, <1>2, <1>6, <2>1, Ranks, OthersInOrder DEF Order, Row
<1>7. ASSUME NEW d \in Controllers \ {c} PROVE InStep(d)'
  <2>1. InStep(d)
    BY DEF Order
  <2> QED
    BY <1>1, <1>2, <1>7, <2>1 DEF InStep, Row, Live, Acting
<1> QED
  BY <1>4, <1>5, <1>6, <1>7 DEF Order

\* Nobody else with a connection works on a movement whose lock is free or this controller's.
LEMMA Alone ==
  ASSUME Order, NEW c \in Controllers, NEW d \in Controllers \ {c}, ctl[d].id = ctl[c].id,
         lock[ctl[c].id] \in {None, c}, ctl[d].pc \notin {"idle", "claim"}
  PROVE  ~Live(d)
  BY NoneAssumption DEF Order, HoldsLock

\* The lock was free, so no other controller of the movement has its connection.
LEMMA OrderClaim ==
  ASSUME IInv, IInv', OrderInv, NEW c \in Controllers, Claim(c)
  PROVE  Order' /\ Kept
<1> USE DEF OrderInv
<1>1. /\ UNCHANGED mv /\ ~At(c, "idle") /\ At(c, "claim") /\ lock[ctl[c].id] = None
      /\ \E pc \in {"request", "read"} : Goto(c, pc) /\ (pc = "request" <=> ctl[c].return)
  BY DEF Claim, At
<1>2. PICK pc \in {"request", "read"} : Goto(c, pc) /\ (pc = "request" <=> ctl[c].return)
  BY <1>1
<1>3. /\ ctl'[c].pc = pc /\ ctl'[c].id = ctl[c].id /\ ctl'[c].return = ctl[c].return
      /\ ctl'[c].prov = ctl[c].prov /\ ctl'[c].lost = ctl[c].lost
      /\ \A d \in Controllers \ {c} : ctl'[d] = ctl[d]
  <2>1. pc \in PCs
    BY DEF PCs
  <2> QED
    BY <1>2, <2>1, ControllerMoves DEF IInv, Types, MovementTypes
<1>4. /\ ctl[c].id \in Movements /\ lock'[ctl[c].id] = c
      /\ \A m \in Movements : m # ctl[c].id => lock'[m] = lock[m]
  BY <1>1, WorkingRow DEF Claim, IInv, Types, MovementTypes
<1>5. Kept
  BY <1>1, <1>2, <1>3 DEF Kept, AllLive, NothingReturned, Live, At
<1>6. HoldsLock(c)' /\ Behind(c)' /\ InStep(c)'
  BY <1>3, <1>4 DEF HoldsLock, Behind, InStep, Acting
<1>7. BuiltFor(c)'
  BY <1>1, <1>2, <1>3 DEF Order, BuiltFor, At, Row
<1>8. ASSUME NEW d \in Controllers \ {c} PROVE HoldsLock(d)' /\ Behind(d)' /\ BuiltFor(d)'
  <2>1. ~At(d, "idle") => ctl[d].id \in Movements /\ Row(d).phase \in Phases
    BY WorkingRow DEF Rows
  <2>2. lock[ctl[c].id] # d
    BY <1>1, NoneAssumption
  <2> QED
    BY <1>1, <1>3, <1>4, <1>8, <2>1, <2>2, Ranks, OthersInOrder DEF Order, Row
<1>9. ASSUME NEW d \in Controllers \ {c} PROVE InStep(d)'
  <2>1. InStep(d)
    BY DEF Order
  <2> QED
    BY <1>1, <1>2, <1>3, <1>9, <2>1 DEF InStep, Row, Live, Acting
<1> QED
  BY <1>5, <1>6, <1>7, <1>8, <1>9 DEF Order

\* The holder of the lock reads the newest phase, and is the only one to read.
LEMMA OrderRead ==
  ASSUME IInv, IInv', OrderInv, NEW c \in Controllers, Read(c), Row(c).phase \notin Ended
  PROVE  Order' /\ Kept
<1> USE DEF OrderInv
<1>1. /\ ~At(c, "idle") /\ At(c, "read") /\ Live(c) /\ UNCHANGED <<mv, lock>>
      /\ ctl' = [ctl EXCEPT ![c].phase = Row(c).phase, ![c].pc = StepFor(Row(c).phase)]
  BY DEF Read, At
<1>2. ctl[c].id \in Movements /\ Row(c).phase \in Phases /\ Row(c).phase # "absent"
  BY <1>1, WorkingRow DEF Rows
<1>3. StepFor(Row(c).phase) \in Acting
  BY <1>2 DEF Phases, Returnable, Ended, StepFor, Acting, PCs
<1>4. /\ ctl'[c].pc \in Acting /\ ctl'[c].phase = Row(c).phase /\ ctl'[c].id = ctl[c].id
      /\ ctl'[c].return = ctl[c].return /\ ctl'[c].prov = ctl[c].prov /\ ctl'[c].lost = ctl[c].lost
      /\ \A d \in Controllers \ {c} : ctl'[d] = ctl[d]
  BY <1>1, <1>3 DEF IInv, Types, MovementTypes, Controls
<1>5. Kept
  BY <1>1, <1>4 DEF Kept, AllLive, NothingReturned, Live, At, Acting
<1>6. lock[ctl[c].id] = c
  BY <1>1 DEF Order, HoldsLock, At
<1>7. HoldsLock(c)' /\ Behind(c)'
  BY <1>1, <1>2, <1>4, <1>6, Ranks DEF HoldsLock, Behind, Row
<1>8. BuiltFor(c)'
  BY <1>1, <1>4 DEF Order, BuiltFor, At, Row
<1>9. InStep(c)'
  <2>1. Rank[Row(c).phase] \in Nat /\ Row(c)' = Row(c)
    BY <1>1, <1>2, <1>4, Ranks DEF Row
  <2>2. ASSUME NEW d \in Controllers \ {c}, ctl'[d].pc \in Acting, ctl'[d].id = ctl'[c].id
        PROVE  Rank[ctl'[d].phase] <= Rank[ctl'[c].phase]
    BY <1>4, <2>2 DEF Order, Behind, Row
  <2> QED
    BY <1>4, <2>1, <2>2 DEF InStep
<1>10. ASSUME NEW d \in Controllers \ {c} PROVE HoldsLock(d)' /\ Behind(d)' /\ BuiltFor(d)'
  <2>1. ~At(d, "idle") => ctl[d].id \in Movements /\ Row(d).phase \in Phases
    BY WorkingRow DEF Rows
  <2>2. /\ ctl'[d] = ctl[d] /\ HoldsLock(d) /\ Behind(d) /\ BuiltFor(d)
        /\ mv'[ctl[d].id] = Row(d) /\ lock'[ctl[d].id] = lock[ctl[d].id]
    BY <1>1, <1>4 DEF Order, Row
  <2>3. ~At(d, "idle") => Rank[Row(d).phase] <= Rank[Row(d).phase]
    BY <2>1, Ranks
  <2> QED
    BY <2>2, <2>3, OthersInOrder
<1>11. ASSUME NEW d \in Controllers \ {c} PROVE InStep(d)'
  <2>1. InStep(d)
    BY DEF Order
  <2>2. CASE ctl[d].id = ctl[c].id
    BY <1>4, <1>6, <1>11, <2>2, Alone DEF InStep, Acting, Live
  <2>3. CASE ctl[d].id # ctl[c].id
    BY <1>1, <1>4, <1>11, <2>1, <2>3 DEF InStep, Row, Live, Acting
  <2> QED
    BY <2>2, <2>3
<1> QED
  BY <1>5, <1>7, <1>8, <1>9, <1>10, <1>11 DEF Order

\* A journal step of controller c: its row goes up, to a phase no live controller of the
\* movement is further than one behind.
LEMMA OrderPhase ==
  ASSUME IInv, IInv', OrderInv, NEW c \in Controllers, ~At(c, "idle"), NEW p \in Phases, p # "absent",
         mv' = [mv EXCEPT ![ctl[c].id].phase = p], Goto(c, "read"), UNCHANGED lock,
         ctl[c].pc # "claim", Rank[Row(c).phase] <= Rank[p],
         Row(c).phase \in {"returning", "cancelled"} => p \in {"returning", "cancelled"},
         p \in {"returning", "cancelled"} => ~NothingReturned,
         ctl[c].return /\ At(c, "request") => p \in {"returning", "cancelled"},
         p \notin {"returning", "cancelled"} => ctl[c].pc \in Acting /\ Row(c).phase = ctl[c].phase
                                                /\ Rank[p] <= Rank[ctl[c].phase] + 1
  PROVE  Order' /\ Kept
<1> USE DEF OrderInv
<1>1. /\ RowsKept /\ mv'[ctl[c].id].phase = p /\ \A n \in Movements \ {ctl[c].id} : mv'[n] = mv[n]
  BY JournalKept
<1>2. /\ ctl'[c].pc = "read" /\ ctl'[c].id = ctl[c].id /\ ctl'[c].return = ctl[c].return
      /\ ctl'[c].prov = ctl[c].prov /\ ctl'[c].lost = ctl[c].lost
      /\ \A d \in Controllers \ {c} : ctl'[d] = ctl[d]
  <2>1. "read" \in PCs
    BY DEF PCs
  <2> QED
    BY <2>1, ControllerMoves DEF IInv, Types, MovementTypes
<1>3. ctl[c].id \in Movements /\ Row(c).phase # "absent" /\ Row(c).phase \in Phases /\ ctl[c].phase \in Phases
  BY WorkingRow DEF Rows, IInv, Types, MovementTypes, Controls
<1>4. Kept
  <2>1. AllLive => AllLive'
    BY <1>2 DEF AllLive, Live
  <2>2. NothingReturned => NothingReturned'
    BY <1>1, <1>2, <1>3 DEF NothingReturned, At
  <2> QED
    BY <2>1, <2>2 DEF Kept
<1>5. HoldsLock(c)' /\ Behind(c)' /\ InStep(c)'
  BY <1>2 DEF Order, HoldsLock, Behind, InStep, Acting, At, Live
<1>6. BuiltFor(c)'
  BY <1>1, <1>2, <1>3 DEF Order, BuiltFor, At, Row, RowsKept
<1>7. ASSUME NEW d \in Controllers \ {c} PROVE HoldsLock(d)' /\ Behind(d)' /\ BuiltFor(d)'
  <2>1. ~At(d, "idle") => ctl[d].id \in Movements /\ Row(d).phase \in Phases /\ Row(d).phase # "absent"
    BY WorkingRow DEF Rows
  <2> QED
    BY <1>1, <1>2, <1>7, <2>1, Ranks, OthersInOrder DEF Order, Row, RowsKept
<1>8. ASSUME NEW d \in Controllers \ {c}, ctl[d].pc \in Acting, Live(d), ctl[d].id = ctl[c].id PROVE InStep(d)'
  <2>1. InStep(d) /\ ctl[d].phase \in Phases
    BY DEF Order, IInv, Types, MovementTypes, Controls
  <2>2. p \notin {"returning", "cancelled"}
    <3>1. Live(c) => lock[ctl[c].id] = c
      BY DEF Order, HoldsLock, At
    <3> QED
      BY <1>8, <3>1, Alone DEF Acting, AllLive
  <2>3. Rank[p] <= Rank[ctl[d].phase] + 1 /\ ctl[d].phase # "returning"
    BY <1>3, <1>8, <2>1, <2>2, Ranks DEF InStep, Row
  <2> QED
    BY <1>1, <1>2, <1>8, <2>1, <2>3 DEF InStep, Row, Live, Acting
<1>9. ASSUME NEW d \in Controllers \ {c} PROVE InStep(d)'
  <2>1. InStep(d) /\ ctl[d].pc \in Acting => ctl[d].id \in Movements
    BY WorkingRow DEF Acting, At
  <2>2. CASE ctl[d].pc \in Acting /\ Live(d) /\ ctl[d].id = ctl[c].id
    BY <1>8, <2>2
  <2>3. CASE ctl[d].pc \in Acting /\ Live(d) /\ ctl[d].id # ctl[c].id
    BY <1>1, <1>2, <1>9, <2>1, <2>3 DEF Order, InStep, Row, Live, Acting
  <2>4. CASE ~(ctl[d].pc \in Acting /\ Live(d))
    BY <1>2, <1>9, <2>4 DEF InStep, Live
  <2> QED
    BY <2>2, <2>3, <2>4
<1> QED
  BY <1>4, <1>5, <1>6, <1>7, <1>9 DEF Order

\* Each UPDATE of a phase is such a journal step.
LEMMA OrderJournal ==
  ASSUME IInv, IInv', OrderInv, NEW c \in Controllers,
         Advance(c) \/ RequestReturn(c) \/ Activate(c) \/ Republish(c)
  PROVE  Order' /\ Kept
<1> USE DEF OrderInv
<1>1. CASE Advance(c)
  <2>1. /\ mv' = [mv EXCEPT ![ctl[c].id].phase = Successor[ctl[c].phase]]
        /\ Goto(c, "read") /\ UNCHANGED lock /\ ctl[c].pc = "advance" /\ "advance" \in Acting
    BY <1>1 DEF Advance, At, Acting, PCs
  <2>2. /\ Row(c).phase = ctl[c].phase /\ ~At(c, "idle") /\ Successor[ctl[c].phase] \in Phases \ {"absent"}
        /\ Row(c).phase \notin {"returning", "cancelled"}
        /\ Successor[ctl[c].phase] \notin {"returning", "cancelled"}
        /\ Rank[Row(c).phase] <= Rank[Successor[ctl[c].phase]]
        /\ Rank[Successor[ctl[c].phase]] <= Rank[ctl[c].phase] + 1
    BY <1>1, AdvancePhase, Ranks
  <2> QED
    BY <2>1, <2>2, OrderPhase DEF At
<1>2. CASE RequestReturn(c)
  <2>1. PICK p \in {"returning", "cancelled"} :
          /\ mv' = [mv EXCEPT ![ctl[c].id].phase = p]
          /\ p = "returning" => Row(c).phase \in Returnable
          /\ p = "cancelled" => Row(c).phase = "cancelled"
    BY <1>2, RequestPhase
  <2>2. /\ Goto(c, "read") /\ UNCHANGED lock /\ At(c, "request") /\ ~At(c, "idle") /\ ctl[c].pc # "claim"
    BY <1>2 DEF RequestReturn, At
  <2>3. ~NothingReturned
    BY <2>2 DEF NothingReturned
  <2>4. Rank[Row(c).phase] <= Rank[p] /\ p \in Phases /\ p # "absent"
    BY <2>1, Ranks DEF Returnable, Phases, Ended
  <2> QED
    BY <2>1, <2>2, <2>3, <2>4, OrderPhase
<1>3. CASE Activate(c)
  <2>1. /\ mv' = [mv EXCEPT ![ctl[c].id].phase = "activated"]
        /\ Goto(c, "read") /\ UNCHANGED lock /\ ctl[c].pc = "activate" /\ "activate" \in Acting
        /\ Row(c).phase = "verified"
    BY <1>3 DEF Activate, Publish, CanPublish, At, Acting, PCs
  <2>2. ctl[c].phase = "verified"
    BY <2>1 DEF IInv, Good, Staged
  <2>3. /\ "activated" \in Phases /\ Rank[Row(c).phase] <= Rank["activated"]
        /\ Rank["activated"] <= Rank[ctl[c].phase] + 1 /\ ~At(c, "idle") /\ ~At(c, "request")
    BY <2>1, <2>2, Ranks DEF At, Phases
  <2> QED
    BY <2>1, <2>2, <2>3, OrderPhase
<1>4. CASE Republish(c)
  <2>1. /\ mv' = [mv EXCEPT ![ctl[c].id].phase = "cancelled"]
        /\ Goto(c, "read") /\ UNCHANGED lock /\ ctl[c].pc = "republish" /\ Row(c).phase = "returning"
    BY <1>4 DEF Republish, Publish, CanPublish, At
  <2>2. ctl[c].id \in Movements
    BY <2>1, WorkingRow DEF At
  <2>3. ~NothingReturned
    BY <2>1, <2>2 DEF NothingReturned, Row
  <2>4. "cancelled" \in Phases /\ Rank[Row(c).phase] <= Rank["cancelled"] /\ ~At(c, "idle")
    BY <2>1, Ranks DEF At, Phases, Ended
  <2> QED
    BY <2>1, <2>3, <2>4, OrderPhase
<1> QED
  BY <1>1, <1>2, <1>3, <1>4

\* Rollback supersedes a movement whose lock it found free: nobody with a connection works on it.
LEMMA OrderOperator ==
  ASSUME IInv, IInv', OrderInv, NEW m \in Movements, NEW dst \in Runtimes, NEW mode \in {"move", "rollback"},
         NEW superseded \in SUBSET Movements, m \notin superseded,
         \A n \in superseded : mv[n].phase = "activated" /\ lock[n] = None,
         Record(m, dst, mode, superseded)
  PROVE  Order' /\ Kept
<1> USE DEF OrderInv
<1>1. /\ UNCHANGED <<ctl, lock>> /\ mv \in [Movements -> Rows] /\ mv[m].phase = "absent" /\ mv'[m].phase = "paused"
      /\ \A n \in superseded : mv'[n] = [mv[n] EXCEPT !.phase = "superseded"]
      /\ \A n \in Movements \ superseded : n # m => mv'[n] = mv[n]
  BY DEF Record, IInv, Types, MovementTypes
<1>2. ASSUME NEW n \in superseded PROVE mv'[n].phase = "superseded" /\ mv'[n].dst = mv[n].dst
  <2>1. mv[n] \in Rows /\ mv'[n] = [mv[n] EXCEPT !.phase = "superseded"]
    BY <1>1
  <2> QED
    BY <2>1 DEF Rows
<1>3. Kept
  BY <1>1, <1>2 DEF Kept, AllLive, NothingReturned, Live, At
<1>4. ASSUME NEW d \in Controllers PROVE HoldsLock(d)' /\ Behind(d)' /\ BuiltFor(d)'
  <2>1. ~At(d, "idle") => ctl[d].id \in Movements /\ Row(d).phase \in Phases /\ ctl[d].id # m
    BY <1>1, WorkingRow DEF Rows, Row
  <2>2. ~At(d, "idle") =>
          /\ mv'[ctl[d].id].dst = Row(d).dst
          /\ Rank[Row(d).phase] <= Rank[mv'[ctl[d].id].phase]
          /\ Row(d).phase \in {"returning", "cancelled"} =>
               mv'[ctl[d].id].phase \in {"returning", "cancelled"}
    BY <1>1, <1>2, <2>1, Ranks DEF Row
  <2> QED
    BY <1>1, <2>2, OthersInOrder DEF Order
<1>5. ASSUME NEW d \in Controllers PROVE InStep(d)'
  <2>1. CASE ctl[d].pc \in Acting /\ Live(d)
    <3>1. ctl[d].id \in Movements /\ ctl[d].id # m
      BY <1>1, <2>1, WorkingRow DEF Acting, At, Row
    <3>2. ctl[d].id \notin superseded
      BY <2>1, NoneAssumption DEF Order, HoldsLock, Acting
    <3>3. mv'[ctl[d].id] = mv[ctl[d].id]
      BY <1>1, <3>1, <3>2
    <3> QED
      BY <1>1, <3>3 DEF Order, InStep, Row, Live
  <2>2. CASE ~(ctl[d].pc \in Acting /\ Live(d))
    BY <1>1, <2>2 DEF InStep, Live
  <2> QED
    BY <2>1, <2>2
<1> QED
  BY <1>3, <1>4, <1>5 DEF Order

\* Every step keeps the order of controllers.
LEMMA OrderStep == ASSUME IInv, IInv', OrderInv, [Next]_vars PROVE Order' /\ Kept
<1> USE DEF OrderInv
<1>1. CASE UNCHANGED vars
  BY <1>1, OrderUntouched DEF vars
<1>2. CASE Authorize \/ \E desired \in Desired : AcceptEntitlement(desired)
  BY <1>2, OrderUntouched DEF Authorize, AcceptEntitlement
<1>7. CASE Jobbing
  BY <1>7, OrderUntouched DEF Jobbing, ClaimJob, Work, JobReconciles, JobStamps, JobFinishes, JobFails,
     JobBreaks, ProvisionerDies
<1>3. ASSUME NEW r \in Runtimes, Write(r) \/ Execute(r) \/ Settle(r) \/ ReconcileEffects(r) \/ ExecutorDies(r) PROVE Order' /\ Kept
  BY <1>3, OrderUntouched DEF Write, Execute, Settle, ReconcileEffects, ExecutorDies
<1>4. ASSUME NEW m \in Movements, NEW r \in Runtimes, Begin(m, r) \/ Rollback(m, r) PROVE Order' /\ Kept
  BY <1>4, OperatorRecords, OrderOperator
<1>5. ASSUME NEW c \in Controllers, Refuse(c) \/ Die(c) \/ (Read(c) /\ Row(c).phase \in Ended) PROVE Order' /\ Kept
  BY <1>5, Leaves, OrderExit
<1>6. ASSUME NEW c \in Controllers, Driver(c) PROVE Order' /\ Kept
  <2>1. Works(c)
    BY <1>6, DriverWorks DEF IInv, Types, MovementTypes, Good
  <2> QED
    BY <2>1, OrderDriver
<1> QED
  BY <1>1, <1>2, <1>3, <1>4, <1>5, <1>6, <1>7, Steps, OrderStart, OrderClaim, OrderRead, OrderJournal,
     OrderLoseLock

\* What is counted is not taken back.
Grows ==
  \A f \in {"late", "lost", "returns"} : count'[f] = 0 => count[f] = 0

LEMMA CountsGrow == ASSUME IInv, [Next]_vars PROVE Grows
<1>1. /\ count \in Counts
      /\ \A f \in {"late", "lost", "returns"} : count[f] \in Nat
  BY DEF IInv, Types, Counts
<1>2. CASE UNCHANGED count
  BY <1>2 DEF Grows
<1>5. CASE UNCHANGED vars
  BY <1>2, <1>5 DEF vars
<1>6. CASE Authorize \/ \E desired \in Desired : AcceptEntitlement(desired)
  BY <1>1, <1>6 DEF Authorize, AcceptEntitlement, Grows, Counts
<1>7. CASE Jobbing
  <2>1. ASSUME NEW w \in Workers, ClaimJob(w) PROVE Grows
    BY <1>1, <2>1 DEF ClaimJob, Grows, Counts
  <2>2. ASSUME NEW w \in Workers, JobReconciles(w) PROVE Grows
    BY <1>1, <2>2 DEF JobReconciles, Counted, Grows, Counts
  <2>3. ASSUME NEW w \in Workers, JobStamps(w) \/ JobFinishes(w) \/ JobFails(w) PROVE Grows
    BY <1>2, <2>3 DEF JobStamps, JobFinishes, JobFails
  <2>4. ASSUME NEW w \in Workers, JobBreaks(w) PROVE Grows
    BY <1>1, <2>4 DEF JobBreaks, Grows, Counts
  <2>5. ASSUME NEW r \in Runtimes, ProvisionerDies(r) PROVE Grows
    BY <1>1, <2>5 DEF ProvisionerDies, Grows, Counts
  <2> QED
    BY <1>7, <2>1, <2>2, <2>3, <2>4, <2>5 DEF Jobbing, Work
<1>8. ASSUME NEW r \in Runtimes, Write(r) \/ Execute(r) \/ Settle(r) \/ ReconcileEffects(r) \/ ExecutorDies(r)
      PROVE  Grows
  BY <1>1, <1>8 DEF Write, Execute, Settle, ReconcileEffects, ExecutorDies, Grows, Counts
<1>9. ASSUME NEW m \in Movements, NEW r \in Runtimes, Begin(m, r) \/ Rollback(m, r) PROVE Grows
  BY <1>2, <1>9 DEF Begin, Rollback, Record
<1>10. ASSUME NEW c \in Controllers, NEW m \in Movements, NEW return \in BOOLEAN, Start(c, m, return)
       PROVE  Grows
  BY <1>1, <1>10 DEF Start, Grows, Counts
<1>11. ASSUME NEW c \in Controllers, Step(c) PROVE Grows
  <2>1. CASE Reconcile(c)
    BY <1>1, <2>1 DEF Reconcile, Counted, Grows, Counts
  <2>2. CASE ~Reconcile(c)
    BY <1>2, <1>11, <2>2 DEF Step, Claim, RequestReturn, Read, Advance, Refuse, Pause, Close, Copy, Create,
       Restore, Verify, PrepareSource, Stamp, Quiet, Hold, BeforeActivate, Activate, AfterActivate,
       EnableExecution, Observe, GiveBack, Republish, Publish
  <2> QED
    BY <2>1, <2>2
<1>12. ASSUME NEW c \in Controllers, Die(c) \/ LoseLock(c) PROVE Grows
  BY <1>1, <1>12 DEF Die, LoseLock, Grows, Counts
<1> QED
  BY <1>5, <1>6, <1>7, <1>8, <1>9, <1>10, <1>11, <1>12 DEF Next, Jobbing

------------------------------------------------------------------------------
(* The copies: steps that leave their contents alone *)

SameContents ==
  \A r \in Runtimes : /\ db'[r].state = db[r].state /\ db'[r].mark = db[r].mark
                      /\ db'[r].data = db[r].data

\* Where a database was shut it stays shut.
StayShut == \A r \in Runtimes : Shut(r) => Shut(r)'

\* A controller is about to say that it has closed the source.
Closing(c) == At(c, "advance") /\ ctl[c].phase = "paused" /\ Row(c).phase = "paused"

Same(d) == ctl'[d].pc = ctl[d].pc /\ ctl'[d].id = ctl[d].id /\ ctl'[d].phase = ctl[d].phase

\* A controller none of whose promises is about the copies.
Bare(c) ==
  /\ ctl[c].pc \notin {"create", "restore"}
  /\ At(c, "advance") => ctl[c].phase \notin {"paused", "fenced"}

\* Such a controller keeps its promises whatever happens to the copies.
LEMMA BareKeeps == ASSUME NEW c \in Controllers, Bare(c)' PROVE ClosedSource(c)' /\ Copying(c)'
  BY DEF Bare, ClosedSource, Copying, At

\* With the contents the facts about dumps, destinations and the placement stay.
LEMMA SameCopies ==
  ASSUME IInv, Contents, SameContents, UNCHANGED <<mv, archive, kept>>, env'.runtime = env.runtime
  PROVE  /\ NothingLost'
         /\ \A m \in Movements : Fresh(m)' /\ DumpIsSource(m)' /\ RestoredIsSource(m)' /\ Copied(m)'
<1>1. env.runtime \in Runtimes
  BY DEF IInv, Types, MovementTypes, Environments
<1>2. NothingLost'
  BY <1>1 DEF Contents, NothingLost, SameContents
<1>3. ASSUME NEW m \in Movements PROVE Fresh(m)' /\ DumpIsSource(m)' /\ RestoredIsSource(m)' /\ Copied(m)'
  <2>1. /\ Fresh(m) /\ DumpIsSource(m) /\ RestoredIsSource(m) /\ Copied(m)
        /\ mv[m].src \in Runtimes /\ mv[m].dst \in Runtimes
    BY DEF Contents, IInv, Types, MovementTypes, Rows
  <2> QED
    BY <2>1 DEF SameContents, Fresh, DumpIsSource, RestoredIsSource, Copied, Own
<1> QED
  BY <1>2, <1>3

\* ... and the promises of a controller that copies ...
LEMMA SameCopying ==
  ASSUME IInv, NEW d \in Controllers, Copying(d), Same(d), SameContents, UNCHANGED <<mv, archive>>
  PROVE  Copying(d)'
<1>1. CASE At(d, "idle")
  BY <1>1 DEF Copying, At, Same
<1>2. CASE ~At(d, "idle")
  <2>1. Row(d).src \in Runtimes /\ Row(d).dst \in Runtimes
    BY <1>2, WorkingRow
  <2> QED
    BY <2>1 DEF Copying, At, Same, SameContents, Row, Own
<1> QED
  BY <1>1, <1>2

\* ... and of one that closed the source, if the source stays shut.
LEMMA SameClosed ==
  ASSUME IInv, NEW d \in Controllers, ClosedSource(d), Same(d), UNCHANGED mv,
         Closing(d) => (Shut(Row(d).src) => Shut(Row(d).src)')
  PROVE  ClosedSource(d)'
  BY DEF ClosedSource, At, Same, Row, Shut, Closing

\* Steps of controllers, operators and the facade that touch neither copies nor rows.
LEMMA ContentsUntouched ==
  ASSUME IInv, Contents, UNCHANGED <<mv, db, archive, kept>>, env'.runtime = env.runtime, Elsewhere',
         \A d \in Controllers : Same(d) \/ Bare(d)'
  PROVE  Contents'
<1>1. SameContents
  BY DEF SameContents
<1>2. \A m \in Movements : SourceShut(m)'
  BY DEF Contents, SourceShut, Shut
<1>3. ASSUME NEW d \in Controllers PROVE ClosedSource(d)' /\ Copying(d)'
  <2>1. CASE Same(d)
    BY <1>1, <2>1, SameCopying, SameClosed DEF Contents, Shut, Row, Same
  <2> QED
    BY <2>1, BareKeeps
<1> QED
  BY <1>1, <1>2, <1>3, SameCopies DEF Contents

\* A grant is for the placement, so no other copy comes to admit anyone.
LEMMA ContentsFacade ==
  ASSUME IInv, Contents, Authorize \/ \E desired \in Desired : AcceptEntitlement(desired)
  PROVE  Contents'
<1>1. UNCHANGED <<mv, db, archive, kept, ctl>>
  BY DEF Authorize, AcceptEntitlement
<1>2. /\ env'.runtime = env.runtime
      /\ \A r \in Runtimes \ {env.runtime}, g \in Gens : <<r, g>> \in grants' => <<r, g>> \in grants
  <2>1. CASE Authorize
    BY <2>1 DEF Authorize
  <2>2. ASSUME NEW desired \in Desired, AcceptEntitlement(desired) PROVE env'.runtime = env.runtime
    BY <2>2 DEF AcceptEntitlement, IInv, Types, MovementTypes, Environments
  <2> QED
    BY <2>1, <2>2 DEF AcceptEntitlement
<1>3. Elsewhere'
  <2>1. \A r \in Runtimes : db[r].pw \in Gens
    BY DEF IInv, Types, MovementTypes, Databases
  <2> QED
    BY <1>1, <1>2, <2>1 DEF Contents, Elsewhere, CanWrite
<1> QED
  BY <1>1, <1>2, <1>3, ContentsUntouched DEF Same

\* A database that is not the placement's does not come to admit anyone.
LEMMA CalmElsewhere ==
  ASSUME Elsewhere, UNCHANGED <<env, grants>>,
         \A r \in Runtimes : /\ db'[r].open => db[r].open
                             /\ db'[r].pw = db[r].pw
                             /\ db'[r].exec = "running" => db[r].exec = "running"
  PROVE  Elsewhere' /\ StayShut
  BY DEF Elsewhere, CanWrite, StayShut, Shut

\* Settling, dying, pausing, closing, enabling and observing.
LEMMA ContentsCalm ==
  ASSUME IInv, Contents, UNCHANGED <<env, mv, archive, grants, kept>>, SameContents,
         \A r \in Runtimes : /\ db'[r].open => db[r].open
                             /\ db'[r].pw = db[r].pw
                             /\ db'[r].exec = "running" => db[r].exec = "running",
         \A d \in Controllers : Same(d) \/ (ClosedSource(d)' /\ Copying(d)')
  PROVE  Contents'
<1>1. Elsewhere' /\ StayShut
  BY CalmElsewhere DEF Contents
<1>2. \A m \in Movements : SourceShut(m)'
  <2>1. \A m \in Movements : mv[m].src \in Runtimes
    BY DEF IInv, Types, MovementTypes, Rows
  <2> QED
    BY <1>1, <2>1 DEF Contents, SourceShut, StayShut, Shut
<1>3. ASSUME NEW d \in Controllers PROVE ClosedSource(d)' /\ Copying(d)'
  <2>1. CASE Same(d)
    <3>1. Closing(d) => Row(d).src \in Runtimes
      BY WorkingRow DEF Closing, At
    <3>2. Row(d)' = Row(d)
      BY <2>1 DEF Same, Row
    <3>3. Closing(d) => (Shut(Row(d).src) => Shut(Row(d).src)')
      BY <1>1, <3>1, <3>2 DEF StayShut, Shut
    <3> QED
      BY <2>1, <3>3, SameCopying, SameClosed DEF Contents
  <2> QED
    BY <2>1
<1> QED
  BY <1>1, <1>2, <1>3, SameCopies DEF Contents

------------------------------------------------------------------------------
(* The customer, the executors and the placement's provisioner *)

\* At most one movement is undecided.
LEMMA OneUndecided ==
  ASSUME IInv, NEW m \in Movements, NEW n \in Movements,
         mv[m].phase \in Returnable, mv[n].phase \in Returnable
  PROVE  m = n
  BY DEF IInv, Holds

\* Between fence and publication, the placement is the closed source.
LEMMA Resting ==
  ASSUME IInv, Contents, env.movement = None \/ db[env.runtime].open
  PROVE  /\ \A m \in Movements : mv[m].phase \notin Moving
         /\ \A d \in Controllers : ~Closing(d)
<1>1. ASSUME NEW m \in Movements, mv[m].phase \in Moving PROVE FALSE
  <2>1. env.movement = m /\ env.runtime = mv[m].src /\ ~db[mv[m].src].open
    BY <1>1 DEF IInv, Holds, Contents, SourceShut, Shut, Moving, Returnable
  <2> QED
    BY <2>1, NoneAssumption
<1>2. ASSUME NEW d \in Controllers, Closing(d) PROVE FALSE
  <2>1. ctl[d].id \in Movements /\ Row(d).phase = "paused"
    BY <1>2, WorkingRow DEF Closing, At
  <2>2. env.movement = ctl[d].id /\ env.runtime = Row(d).src
    BY <2>1 DEF IInv, Holds, Returnable, Row
  <2>3. ~db[Row(d).src].open
    BY <1>2 DEF Contents, ClosedSource, Closing, Shut
  <2> QED
    BY <2>1, <2>2, <2>3, NoneAssumption
<1> QED
  BY <1>1, <1>2

\* While nothing moves, the placement's database may be opened, written and executed on.
LEMMA PlacementChanges ==
  ASSUME IInv, Contents, env'.runtime = env.runtime, UNCHANGED <<mv, archive, ctl, grants>>,
         env.movement = None \/ db[env.runtime].open,
         \A r \in Runtimes \ {env.runtime} : db'[r] = db[r],
         db'[env.runtime].mark = db[env.runtime].mark,
         db'[env.runtime].state = db[env.runtime].state,
         NothingLost'
  PROVE  Contents'
<1>1. /\ \A m \in Movements : mv[m].phase \notin Moving
      /\ \A d \in Controllers : ~Closing(d)
  BY Resting
<1>2. Elsewhere'
  BY DEF Contents, Elsewhere, CanWrite
<1>3. \A r \in Runtimes : db'[r].mark = db[r].mark /\ db'[r].state = db[r].state
  OBVIOUS
<1>4. ASSUME NEW m \in Movements
      PROVE  SourceShut(m)' /\ Fresh(m)' /\ DumpIsSource(m)' /\ RestoredIsSource(m)' /\ Copied(m)'
  <2>1. Fresh(m) /\ Copied(m) /\ mv[m].dst \in Runtimes
    BY DEF Contents, IInv, Types, MovementTypes, Rows
  <2>2. SourceShut(m)' /\ DumpIsSource(m)' /\ RestoredIsSource(m)'
    BY <1>1 DEF SourceShut, DumpIsSource, RestoredIsSource
  <2> QED
    BY <1>3, <2>1, <2>2 DEF Fresh, Copied, Own
<1>5. ASSUME NEW d \in Controllers PROVE ClosedSource(d)' /\ Copying(d)'
  <2>1. ClosedSource(d)'
    BY <1>1 DEF ClosedSource, Closing, At, Row
  <2>2. Copying(d) /\ (~At(d, "idle") => ctl[d].id \in Movements /\ Row(d).dst \in Runtimes)
    BY WorkingRow DEF Contents
  <2>3. Copying(d)'
    BY <1>1, <1>3, <2>2 DEF Copying, At, Row, Own
  <2> QED
    BY <2>1, <2>3
<1> QED
  BY <1>2, <1>4, <1>5 DEF Contents

\* A client or an executor is on the placement, and then nothing is being moved.
LEMMA ContentsCustomer ==
  ASSUME IInv, Contents, NEW r \in Runtimes, Write(r) \/ Execute(r) \/ Settle(r) \/ ReconcileEffects(r) \/ ExecutorDies(r)
  PROVE  Contents'
<1>1. /\ UNCHANGED <<env, mv, archive, ctl, grants>> /\ db \in [Runtimes -> Databases]
      /\ env.runtime \in Runtimes /\ db[r] \in Databases
  BY DEF Write, Execute, Settle, ReconcileEffects, ExecutorDies, IInv, Types, MovementTypes, Environments
<1>2. CanWrite(r) => r = env.runtime /\ db[env.runtime].open
  BY DEF Contents, Elsewhere, CanWrite
<1>3. CASE Write(r)
  <2>1. /\ \A q \in Runtimes \ {r} : db'[q] = db[q]
        /\ db'[r].mark = db[r].mark /\ db'[r].state = db[r].state
        /\ db'[r].data = db[r].data \cup {count.writes + 1} /\ kept' = kept \cup {count.writes + 1}
    BY <1>1, <1>3 DEF Write, Databases
  <2>2. r = env.runtime /\ db[env.runtime].open
    BY <1>2, <1>3 DEF Write
  <2>3. NothingLost'
    BY <1>1, <2>1, <2>2 DEF Contents, NothingLost
  <2> QED
    BY <1>1, <2>1, <2>2, <2>3, PlacementChanges
<1>4. CASE Execute(r)
  <2>1. /\ \A q \in Runtimes \ {r} : db'[q] = db[q]
        /\ db'[r].mark = db[r].mark /\ db'[r].state = db[r].state /\ db'[r].data = db[r].data
        /\ UNCHANGED kept
    BY <1>1, <1>4 DEF Execute, Databases
  <2>2. r = env.runtime /\ db[env.runtime].open
    BY <1>2, <1>4 DEF Execute
  <2>3. NothingLost'
    BY <1>1, <2>1, <2>2 DEF Contents, NothingLost
  <2> QED
    BY <1>1, <2>1, <2>2, <2>3, PlacementChanges
<1>5. CASE Settle(r) \/ ReconcileEffects(r) \/ ExecutorDies(r)
  <2>1. PICK e \in {"idle", "unsettled"} : db' = [db EXCEPT ![r].exec = e]
    BY <1>5 DEF Settle, ReconcileEffects, ExecutorDies
  <2>2. /\ \A q \in Runtimes \ {r} : db'[q] = db[q]
        /\ db'[r].mark = db[r].mark /\ db'[r].state = db[r].state /\ db'[r].data = db[r].data
        /\ db'[r].open = db[r].open /\ db'[r].pw = db[r].pw /\ db'[r].exec = e
    BY <1>1, <2>1 DEF Databases
  <2>3. UNCHANGED kept /\ \A d \in Controllers : Same(d)
    BY <1>1, <1>5 DEF Settle, ReconcileEffects, ExecutorDies, Same
  <2>4. SameContents
    BY <2>2 DEF SameContents
  <2> QED
    BY <1>1, <2>2, <2>3, <2>4, ContentsCalm
<1> QED
  BY <1>3, <1>4, <1>5

\* Opening a database keeps its contents and changes its passwords; the stamp changes its
\* generation alone.
LEMMA ReconciledFields ==
  ASSUME NEW d \in Databases, NEW g \in Gens, NEW new
  PROVE  /\ new = Opened(d, g) =>
              /\ new.state = d.state /\ new.mark = d.mark /\ new.data = d.data /\ new.exec = d.exec
              /\ new.pw = g
         /\ new = Stamped(d, g) =>
              /\ new.state = d.state /\ new.mark = d.mark /\ new.data = d.data /\ new.exec = d.exec
              /\ new.pw = d.pw /\ new.open = d.open
  BY DEF Opened, Stamped, Databases

\* A step on a database that leaves contents, passwords and executors, and opens nothing.
LEMMA ContentsShutting ==
  ASSUME IInv, Contents, UNCHANGED <<env, mv, archive, grants, kept>>, NEW r \in Runtimes,
         \A q \in Runtimes \ {r} : db'[q] = db[q],
         db'[r].state = db[r].state, db'[r].mark = db[r].mark, db'[r].data = db[r].data,
         db'[r].exec = db[r].exec, db'[r].pw = db[r].pw, db'[r].open => db[r].open,
         \A d \in Controllers : Same(d) \/ Bare(d)'
  PROVE  Contents'
<1>1. SameContents
  BY DEF SameContents
<1> QED
  BY <1>1, BareKeeps, ContentsCalm

\* A job that is not late reconciles the placement while no movement holds the environment.
LEMMA ContentsJob == ASSUME Punctual', IInv, JobTypes, Contents, Jobbing PROVE Contents'
<1>1. /\ UNCHANGED <<mv, archive, ctl, grants, kept>> /\ db \in [Runtimes -> Databases]
      /\ env \in Environments /\ env.runtime \in Runtimes /\ count.late \in Nat
      /\ \A d \in Controllers : Same(d)
  BY DEF Jobbing, ClaimJob, Work, JobReconciles, JobStamps, JobFinishes, JobFails, JobBreaks, ProvisionerDies,
     IInv, Types, MovementTypes, Environments, Counts, Same
<1>2. ASSUME NEW w \in Workers, JobReconciles(w), UNCHANGED db PROVE Contents'
  BY <1>1, <1>2, ContentsUntouched DEF JobReconciles, Contents, Elsewhere, CanWrite
<1>3. ASSUME NEW w \in Workers, JobReconciles(w), db' # db PROVE Contents'
  <2>1. PICK r \in Runtimes, g \in Gens : r = job[w].runtime /\ g = job[w].gen
    BY DEF JobTypes, Jobs
  <2>2. /\ env' = env /\ ~LateJob(w)
        /\ db' = [db EXCEPT ![r] = Opened(db[r], g)] \/ db' = [db EXCEPT ![r] = [db[r] EXCEPT !.open = FALSE]]
    <3>1. UNCHANGED env /\ Counted(LateJob(w))
      BY <1>3 DEF JobReconciles
    <3>2. count \in Counts
      BY DEF IInv, Types
    <3>3. ~LateJob(w)
      BY <3>1, <3>2 DEF Counted, Punctual, Counts
    <3> QED
      BY <1>3, <2>1, <3>1, <3>3 DEF JobReconciles
  <2>3. env.movement = None /\ r = env.runtime
    BY <2>1, <2>2 DEF LateJob
  <2>4. /\ \A q \in Runtimes \ {r} : db'[q] = db[q]
        /\ db'[r] = Opened(db[r], g) \/ db'[r] = [db[r] EXCEPT !.open = FALSE]
    BY <1>1, <2>2
  <2>5. db[r] \in Databases
    BY <1>1
  <2>6. [db[r] EXCEPT !.open = FALSE].state = db[r].state /\ [db[r] EXCEPT !.open = FALSE].mark = db[r].mark
        /\ [db[r] EXCEPT !.open = FALSE].data = db[r].data
    BY <2>5 DEF Databases
  <2>7. db'[r].state = db[r].state /\ db'[r].mark = db[r].mark /\ db'[r].data = db[r].data
    <3>1. CASE db'[r] = Opened(db[r], g)
      BY <2>5, <3>1, ReconciledFields
    <3>2. CASE db'[r] = [db[r] EXCEPT !.open = FALSE]
      BY <2>6, <3>2
    <3> QED
      BY <2>4, <3>1, <3>2
  <2>8. NothingLost'
    BY <1>1, <2>2, <2>3, <2>7 DEF Contents, NothingLost
  <2> QED
    BY <1>1, <2>2, <2>3, <2>4, <2>7, <2>8, PlacementChanges
<1>4. ASSUME NEW w \in Workers, JobStamps(w) PROVE Contents'
  <2>1. PICK r \in Runtimes, g \in Gens : r = job[w].runtime /\ g = job[w].gen
    BY DEF JobTypes, Jobs
  <2>2. env' = env /\ db' = [db EXCEPT ![r] = Stamped(db[r], g)]
    BY <1>4, <2>1 DEF JobStamps
  <2>3. db'[r] = Stamped(db[r], g) /\ (\A q \in Runtimes \ {r} : db'[q] = db[q]) /\ db[r] \in Databases
    BY <1>1, <2>2
  <2>4. /\ db'[r].state = db[r].state /\ db'[r].mark = db[r].mark /\ db'[r].data = db[r].data
        /\ db'[r].exec = db[r].exec /\ db'[r].pw = db[r].pw /\ db'[r].open = db[r].open
    BY <2>3, ReconciledFields
  <2> QED
    BY <1>1, <2>2, <2>3, <2>4, ContentsShutting
<1>5. ASSUME env'.runtime = env.runtime, UNCHANGED db PROVE Contents'
  BY <1>1, <1>5, ContentsUntouched DEF Contents, Elsewhere, CanWrite
<1>6. ASSUME NEW w \in Workers, ClaimJob(w) \/ JobFinishes(w) \/ JobFails(w) \/ JobBreaks(w) PROVE Contents'
  <2>1. UNCHANGED db
    BY <1>6 DEF ClaimJob, JobFinishes, JobFails, JobBreaks
  <2>2. env' = env \/ \E o : env' = [env EXCEPT !.observed = o]
    BY <1>6 DEF ClaimJob, JobFinishes, JobFails, JobBreaks
  <2>3. env'.runtime = env.runtime
    BY <1>1, <2>2 DEF Environments
  <2> QED
    BY <1>5, <2>1, <2>3
<1>7. ASSUME NEW r \in Runtimes, ProvisionerDies(r) PROVE Contents'
  BY <1>5, <1>7 DEF ProvisionerDies
<1> QED
  BY <1>2, <1>3, <1>4, <1>6, <1>7 DEF Jobbing, Work

------------------------------------------------------------------------------
(* The journal *)

\* Starting, claiming, reading, leaving and losing the lock say nothing about the copies.
LEMMA ContentsControl ==
  ASSUME IInv, Contents, UNCHANGED <<env, mv, db, archive, grants, kept>>,
         \A d \in Controllers : Same(d) \/ Bare(d)'
  PROVE  Contents'
<1>1. Elsewhere'
  BY DEF Contents, Elsewhere, CanWrite
<1> QED
  BY <1>1, ContentsUntouched

\* A controller that starts.
LEMMA ContentsStart ==
  ASSUME IInv, Contents, NEW c \in Controllers, NEW m \in Movements, NEW return \in BOOLEAN, Start(c, m, return)
  PROVE  Contents'
<1>1. /\ ctl'[c].pc = "claim" /\ \A d \in Controllers \ {c} : ctl'[d] = ctl[d]
  BY DEF Start, Idle, ProvisionerFor, IInv, Types, MovementTypes
<1>2. \A d \in Controllers : Same(d) \/ Bare(d)'
  BY <1>1 DEF Same, Bare, At
<1> QED
  BY <1>2, ContentsControl DEF Start

\* A controller that takes the lock.
LEMMA ContentsClaim == ASSUME IInv, Contents, NEW c \in Controllers, Claim(c) PROVE Contents'
<1>1. ctl'[c].pc \in {"request", "read"} /\ \A d \in Controllers \ {c} : ctl'[d] = ctl[d]
  <2>1. "request" \in PCs /\ "read" \in PCs
    BY DEF PCs
  <2> QED
    BY <2>1, ControllerMoves DEF Claim, IInv, Types, MovementTypes
<1>2. \A d \in Controllers : Same(d) \/ Bare(d)'
  BY <1>1 DEF Same, Bare, At
<1> QED
  BY <1>2, ContentsControl DEF Claim

\* A controller that reads its row.
LEMMA ContentsRead ==
  ASSUME IInv, Contents, NEW c \in Controllers, Read(c), Row(c).phase \notin Ended
  PROVE  Contents'
<1>1. /\ Row(c).phase \in Phases /\ Row(c).phase # "absent"
      /\ ctl' = [ctl EXCEPT ![c].phase = Row(c).phase, ![c].pc = StepFor(Row(c).phase)]
  BY WorkingRow DEF Read, At, Rows
<1>2. StepFor(Row(c).phase) \notin {"advance", "create", "restore"}
  <2>1. Row(c).phase \in {"paused", "fenced", "copied", "verified", "activated", "returning"}
    BY <1>1 DEF Phases, Returnable, Ended
  <2> QED
    BY <2>1 DEF StepFor
<1>3. ctl'[c].pc = StepFor(Row(c).phase) /\ \A d \in Controllers \ {c} : ctl'[d] = ctl[d]
  BY <1>1 DEF IInv, Types, MovementTypes, Controls
<1>4. \A d \in Controllers : Same(d) \/ Bare(d)'
  BY <1>2, <1>3 DEF Same, Bare, At
<1> QED
  BY <1>4, ContentsControl DEF Read

\* A controller that leaves.
LEMMA ContentsExit ==
  ASSUME IInv, Contents, NEW c \in Controllers, Exit(c), UNCHANGED <<env, mv, db, archive, grants, kept>>
  PROVE  Contents'
<1>1. ctl'[c] = Idle /\ \A d \in Controllers \ {c} : ctl'[d] = ctl[d]
  BY ControllerExits DEF IInv, Types, MovementTypes
<1>2. \A d \in Controllers : Same(d) \/ Bare(d)'
  BY <1>1 DEF Same, Bare, At, Idle
<1> QED
  BY <1>2, ContentsControl

\* A controller that loses its connection.
LEMMA ContentsLoseLock == ASSUME IInv, Contents, NEW c \in Controllers, LoseLock(c) PROVE Contents'
<1>1. \A d \in Controllers : Same(d)
  BY LoseLockWrites DEF Same, IInv, Types, MovementTypes
<1> QED
  BY <1>1, ContentsControl DEF LoseLock

\* A new movement is fresh; a superseded one keeps its destination.
LEMMA ContentsOperator ==
  ASSUME IInv, IInv', Contents, NEW m \in Movements, NEW dst \in Runtimes, NEW mode \in {"move", "rollback"},
         NEW superseded \in SUBSET Movements, m \notin superseded,
         \A n \in superseded : mv[n].phase = "activated",
         Record(m, dst, mode, superseded)
  PROVE  Contents'
<1>1. /\ UNCHANGED <<db, archive, ctl, grants, kept>> /\ mv \in [Movements -> Rows]
      /\ mv[m].phase = "absent" /\ mv'[m].phase = "paused"
      /\ env'.runtime = env.runtime /\ env.movement = None
      /\ \A n \in superseded : mv'[n] = [mv[n] EXCEPT !.phase = "superseded"]
      /\ \A n \in Movements \ superseded : n # m => mv'[n] = mv[n]
  BY DEF Record, BeginAllowed, IInv, Types, MovementTypes, Environments
<1>2. ASSUME NEW n \in superseded
      PROVE  /\ mv'[n].phase = "superseded" /\ mv'[n].dst = mv[n].dst /\ mv'[n].src = mv[n].src
             /\ mv'[n].mode = mv[n].mode
  <2>1. mv[n] \in Rows /\ mv'[n] = [mv[n] EXCEPT !.phase = "superseded"]
    BY <1>1
  <2> QED
    BY <2>1 DEF Rows
<1>3. Elsewhere' /\ NothingLost'
  BY <1>1 DEF Contents, Elsewhere, NothingLost, CanWrite
<1>4. \A n \in Movements : mv'[n].phase \notin Moving
  BY <1>1, <1>2, Resting DEF Moving
<1>5. ASSUME NEW n \in Movements
      PROVE  SourceShut(n)' /\ Fresh(n)' /\ DumpIsSource(n)' /\ RestoredIsSource(n)' /\ Copied(n)'
  <2>1. Fresh(n) /\ Copied(n)
    BY DEF Contents
  <2>2. SourceShut(n)' /\ DumpIsSource(n)' /\ RestoredIsSource(n)'
    BY <1>4 DEF SourceShut, DumpIsSource, RestoredIsSource
  <2>3. Fresh(n)'
    BY <1>1, <1>2, <2>1 DEF Fresh
  <2>4. Copied(n)'
    BY <1>1, <1>2, <2>1 DEF Copied, Own
  <2> QED
    BY <2>2, <2>3, <2>4
<1>6. ASSUME NEW d \in Controllers PROVE ClosedSource(d)' /\ Copying(d)'
  <2>1. ~At(d, "idle") => ctl[d].id \in Movements /\ ctl[d].id # m /\ ctl'[d] = ctl[d]
    BY <1>1, WorkingRow DEF Row
  <2>2. Copying(d) /\ ~Closing(d)
    BY <1>1, Resting DEF Contents
  <2>3. ~At(d, "idle") => /\ mv'[ctl[d].id].dst = Row(d).dst /\ mv'[ctl[d].id].mode = Row(d).mode
                          /\ mv'[ctl[d].id].phase \notin Moving
                          /\ mv'[ctl[d].id].phase = "paused" => Row(d).phase = "paused"
    BY <1>1, <1>2, <1>4, <2>1 DEF Row
  <2>4. ClosedSource(d)'
    BY <1>1, <2>1, <2>2, <2>3 DEF ClosedSource, Closing, At, Row
  <2>5. Copying(d)'
    BY <1>1, <2>1, <2>2, <2>3 DEF Copying, At, Row, Own
  <2> QED
    BY <2>4, <2>5
<1> QED
  BY <1>3, <1>5, <1>6 DEF Contents

\* A journal step of controller c to phase p, given what it promises of its own movement.
LEMMA ContentsPhase ==
  ASSUME IInv, Contents, NEW c \in Controllers, ~At(c, "idle"), NEW p \in Phases \ {"absent", "paused"},
         mv' = [mv EXCEPT ![ctl[c].id].phase = p], Goto(c, "read"), UNCHANGED <<db, archive>>,
         Elsewhere', NothingLost', NEW id \in Movements, id = ctl[c].id,
         SourceShut(id)', DumpIsSource(id)', RestoredIsSource(id)', Copied(id)',
         p \in Moving /\ Row(c).phase \notin Moving =>
           \A d \in Controllers : ctl[d].id = id => ctl[d].pc \notin {"create", "restore"}
  PROVE  Contents'
<1>1. /\ RowsKept /\ mv'[id].phase = p /\ \A n \in Movements \ {id} : mv'[n] = mv[n]
  BY JournalKept
<1>2. ctl'[c].pc = "read" /\ \A d \in Controllers \ {c} : ctl'[d] = ctl[d]
  <2>1. "read" \in PCs
    BY DEF PCs
  <2> QED
    BY <2>1, ControllerMoves DEF IInv, Types, MovementTypes
<1>3. ASSUME NEW n \in Movements
      PROVE  SourceShut(n)' /\ Fresh(n)' /\ DumpIsSource(n)' /\ RestoredIsSource(n)' /\ Copied(n)'
  <2>1. CASE n = id
    BY <1>1, <2>1 DEF Fresh
  <2>2. CASE n # id
    BY <1>1, <2>2 DEF Contents, SourceShut, Shut, Fresh, DumpIsSource, RestoredIsSource, Copied, Own
  <2> QED
    BY <2>1, <2>2
<1>4. ASSUME NEW d \in Controllers PROVE ClosedSource(d)' /\ Copying(d)'
  <2>1. CASE d = c
    BY <1>2, <2>1, BareKeeps DEF Bare, At
  <2>2. CASE d # c /\ At(d, "idle")
    BY <1>2, <2>2, BareKeeps DEF Bare, At
  <2>3. CASE d # c /\ ~At(d, "idle") /\ ctl[d].id # id
    <3>1. ctl'[d] = ctl[d] /\ mv'[ctl[d].id] = mv[ctl[d].id] /\ ClosedSource(d) /\ Copying(d)
      BY <1>1, <1>2, <2>3, WorkingRow DEF Contents
    <3> QED
      BY <3>1 DEF ClosedSource, Copying, At, Row, Shut, Own
  <2>4. CASE d # c /\ ~At(d, "idle") /\ ctl[d].id = id
    <3>1. /\ ctl'[d] = ctl[d] /\ Copying(d) /\ Row(d).phase # "absent"
          /\ mv'[id].src = mv[id].src /\ mv'[id].dst = mv[id].dst /\ mv'[id].mode = mv[id].mode
      BY <1>1, <1>2, <2>4, WorkingRow DEF Contents, RowsKept, Row
    <3>2. ClosedSource(d)'
      BY <1>1, <2>4, <3>1 DEF ClosedSource, Row
    <3>3. Copying(d)'
      BY <1>1, <2>4, <3>1 DEF Copying, At, Row, Own
    <3> QED
      BY <3>2, <3>3
  <2> QED
    BY <2>1, <2>2, <2>3, <2>4
<1> QED
  BY <1>3, <1>4 DEF Contents

\* advance records what the controller has done: the source closed, the destination copied.
LEMMA ContentsAdvance == ASSUME IInv, OrderInv, Contents, NEW c \in Controllers, Advance(c) PROVE Contents'
<1>1. PICK id \in Movements : id = ctl[c].id
  BY AdvancePhase, WorkingRow
<1>2. PICK p \in Phases \ {"absent", "paused"} :
        /\ p = Successor[ctl[c].phase] /\ mv[id].phase = ctl[c].phase
        /\ \/ mv[id].phase = "paused" /\ p = "fenced"
           \/ mv[id].phase = "fenced" /\ p = "copied"
           \/ mv[id].phase = "copied" /\ p = "verified"
           \/ mv[id].phase = "activated" /\ p = "completed"
  BY <1>1, AdvancePhase DEF Row
<1>3. /\ mv' = [mv EXCEPT ![ctl[c].id].phase = p] /\ Goto(c, "read") /\ ~At(c, "idle") /\ At(c, "advance")
      /\ UNCHANGED <<env, db, archive, grants, kept>>
  BY <1>2 DEF Advance, At
<1>4. /\ mv'[id].phase = p /\ mv'[id].src = mv[id].src /\ mv'[id].dst = mv[id].dst /\ mv'[id].mode = mv[id].mode
  <2>1. RowsKept /\ mv'[id].phase = p
    BY <1>1, <1>3, JournalKept
  <2> QED
    BY <1>2, <2>1 DEF RowsKept
<1>5. Elsewhere' /\ NothingLost'
  BY <1>3 DEF Contents, Elsewhere, NothingLost, CanWrite
<1>6. /\ SourceShut(id) /\ DumpIsSource(id) /\ RestoredIsSource(id) /\ Copied(id) /\ Fresh(id)
      /\ ClosedSource(c) /\ Copying(c) /\ mv[id].dst \in Runtimes
  BY DEF Contents, IInv, Types, MovementTypes, Rows
<1>7. SourceShut(id)'
  BY <1>1, <1>2, <1>3, <1>4, <1>6 DEF SourceShut, ClosedSource, Row, Shut, Moving
<1>8. DumpIsSource(id)' /\ RestoredIsSource(id)'
  BY <1>2, <1>3, <1>4, <1>6 DEF DumpIsSource, RestoredIsSource, Fresh, Moving
<1>9. Copied(id)'
  BY <1>1, <1>2, <1>3, <1>4, <1>6 DEF Copied, Copying, Own, Row
<1>10. ASSUME p \in Moving, Row(c).phase \notin Moving, NEW d \in Controllers, ctl[d].id = id
       PROVE  ctl[d].pc \notin {"create", "restore"}
  <2>1. Row(d).phase = "paused"
    BY <1>1, <1>2, <1>10 DEF Row, Moving
  <2>2. ctl[d].pc \in {"create", "restore"} => ctl[d].phase = "fenced" /\ ctl[d].pc \in Acting
    BY DEF IInv, Good, Staged, Acting, PCs
  <2> QED
    BY <2>1, <2>2, Ranks DEF OrderInv, Order, Behind
<1> QED
  BY <1>1, <1>3, <1>5, <1>7, <1>8, <1>9, <1>10, ContentsPhase

\* A movement being returned promises nothing of its destination.
LEMMA ContentsRequest == ASSUME IInv, Contents, NEW c \in Controllers, RequestReturn(c) PROVE Contents'
<1>1. PICK p \in {"returning", "cancelled"} : mv' = [mv EXCEPT ![ctl[c].id].phase = p]
  BY RequestPhase
<1>2. /\ Goto(c, "read") /\ ~At(c, "idle") /\ UNCHANGED <<env, db, archive, grants, kept>>
      /\ p \in Phases \ {"absent", "paused"}
  BY DEF RequestReturn, At, Phases, Returnable, Ended
<1>3. PICK id \in Movements : id = ctl[c].id
  BY <1>2, WorkingRow
<1>4. mv'[id].phase = p
  BY <1>1, <1>2, <1>3, JournalKept
<1>5. Elsewhere' /\ NothingLost'
  BY <1>2 DEF Contents, Elsewhere, NothingLost, CanWrite
<1>6. SourceShut(id)' /\ DumpIsSource(id)' /\ RestoredIsSource(id)' /\ Copied(id)'
  BY <1>4 DEF SourceShut, DumpIsSource, RestoredIsSource, Copied, Moving
<1>7. p \notin Moving
  BY DEF Moving
<1> QED
  BY <1>1, <1>2, <1>3, <1>5, <1>6, <1>7, ContentsPhase

\* Publishing the destination: the source is shut, and the destination has what it has.
LEMMA ContentsActivate == ASSUME IInv, Contents, NEW c \in Controllers, Activate(c) PROVE Contents'
<1>1. /\ ~At(c, "idle") /\ CanPublish(c, "verified") /\ Publish(c, Row(c).dst, Dgen(Row(c)), "activated")
      /\ kept' = IF Row(c).mode = "rollback" THEN db[Row(c).dst].data ELSE kept
  BY DEF Activate, At
<1>2. PICK id \in Movements : id = ctl[c].id
  BY <1>1, WorkingRow
<1>3. /\ mv[id].phase = "verified" /\ env.runtime = mv[id].src
      /\ mv' = [mv EXCEPT ![ctl[c].id].phase = "activated"] /\ Goto(c, "read")
      /\ UNCHANGED <<db, archive, grants>> /\ env'.runtime = mv[id].dst
      /\ kept' = IF mv[id].mode = "rollback" THEN db[mv[id].dst].data ELSE kept
      /\ "activated" \in Phases \ {"absent", "paused"}
  BY <1>1, <1>2 DEF CanPublish, Publish, Row, IInv, Types, MovementTypes, Environments, Phases
<1>4. /\ mv'[id].phase = "activated" /\ mv'[id].src = mv[id].src /\ mv'[id].dst = mv[id].dst
      /\ mv'[id].mode = mv[id].mode
  BY <1>1, <1>2, <1>3, JournalKept DEF RowsKept
<1>5. /\ SourceShut(id) /\ RestoredIsSource(id) /\ Copied(id) /\ mv[id].dst \in Runtimes /\ mv[id] \in Rows
  BY DEF Contents, IInv, Types, MovementTypes, Rows
<1>6. Shut(mv[id].src)
  BY <1>3, <1>5 DEF SourceShut, Moving
<1>7. Elsewhere'
  BY <1>3, <1>6 DEF Contents, Elsewhere, CanWrite, Shut
<1>8. NothingLost'
  <2>1. CASE mv[id].mode = "rollback"
    BY <1>3, <2>1 DEF NothingLost
  <2>2. CASE mv[id].mode = "move"
    BY <1>3, <1>5, <2>2 DEF Contents, NothingLost, Copied, Own, RestoredIsSource, Moving
  <2> QED
    BY <1>5, <2>1, <2>2 DEF Rows
<1>9. SourceShut(id)' /\ DumpIsSource(id)' /\ RestoredIsSource(id)' /\ Copied(id)'
  BY <1>3, <1>4, <1>5 DEF SourceShut, DumpIsSource, RestoredIsSource, Copied, Own, Moving
<1>10. "activated" \notin Moving
  BY DEF Moving
<1> QED
  BY <1>1, <1>2, <1>3, <1>7, <1>8, <1>9, <1>10, ContentsPhase

\* Giving the source back keeps the placement where it is.
LEMMA ContentsRepublish == ASSUME IInv, Contents, NEW c \in Controllers, Republish(c) PROVE Contents'
<1>1. /\ ~At(c, "idle") /\ CanPublish(c, "returning") /\ Publish(c, Row(c).src, Dgen(Row(c)) + 1, "cancelled")
      /\ UNCHANGED kept
  BY DEF Republish, At
<1>2. PICK id \in Movements : id = ctl[c].id
  BY <1>1, WorkingRow
<1>3. /\ env'.runtime = env.runtime
      /\ mv' = [mv EXCEPT ![ctl[c].id].phase = "cancelled"] /\ Goto(c, "read")
      /\ UNCHANGED <<db, archive, grants, kept>> /\ "cancelled" \in Phases \ {"absent", "paused"}
  BY <1>1 DEF CanPublish, Publish, IInv, Types, MovementTypes, Environments, Phases, Ended
<1>4. mv'[id].phase = "cancelled"
  BY <1>1, <1>2, <1>3, JournalKept
<1>5. Elsewhere' /\ NothingLost'
  BY <1>3 DEF Contents, Elsewhere, NothingLost, CanWrite
<1>6. SourceShut(id)' /\ DumpIsSource(id)' /\ RestoredIsSource(id)' /\ Copied(id)'
  BY <1>4 DEF SourceShut, DumpIsSource, RestoredIsSource, Copied, Moving
<1>7. "cancelled" \notin Moving
  BY DEF Moving
<1> QED
  BY <1>1, <1>2, <1>3, <1>5, <1>6, <1>7, ContentsPhase

------------------------------------------------------------------------------
(* The driver *)

\* Where a driver step leaves the controllers.
LEMMA DriverMoves ==
  ASSUME IInv, NEW c \in Controllers, NEW pc \in PCs, Goto(c, pc)
  PROVE  /\ ctl'[c].pc = pc /\ ctl'[c].id = ctl[c].id /\ ctl'[c].phase = ctl[c].phase
         /\ \A d \in Controllers \ {c} : ctl'[d] = ctl[d] /\ Same(d)
  BY ControllerMoves DEF IInv, Types, MovementTypes, Same

\* Pausing execution, starting it, and looking.
Looks(c) ==
  \/ Verify(c) \/ PrepareSource(c) \/ Quiet(c) \/ BeforeActivate(c) \/ AfterActivate(c)
  \/ Observe(c) \/ GiveBack(c)

LEMMA ContentsQuiet ==
  ASSUME IInv, Contents, NEW c \in Controllers, Pause(c) \/ Hold(c) \/ EnableExecution(c) \/ Looks(c)
  PROVE  Contents'
<1>1. /\ UNCHANGED <<env, mv, archive, grants, kept>> /\ db \in [Runtimes -> Databases] /\ Staged(c)
      /\ ~At(c, "idle")
  BY DEF Pause, Hold, EnableExecution, Looks, Verify, PrepareSource, Quiet, BeforeActivate, AfterActivate,
     Observe, GiveBack, IInv, Types, MovementTypes, Good, At
<1>2. FenceTarget(c) \in Runtimes /\ Row(c).dst \in Runtimes
  BY <1>1, WorkingRow
<1>3. UNCHANGED db \/ \E r \in Runtimes, b \in BOOLEAN : db' = [db EXCEPT ![r].enabled = b]
  BY <1>2 DEF Pause, Hold, EnableExecution, Looks, Verify, PrepareSource, Quiet, BeforeActivate,
     AfterActivate, Observe, GiveBack
<1>4. \A r \in Runtimes : /\ db'[r].state = db[r].state /\ db'[r].mark = db[r].mark /\ db'[r].data = db[r].data
                          /\ db'[r].open = db[r].open /\ db'[r].pw = db[r].pw /\ db'[r].exec = db[r].exec
  <2>1. ASSUME NEW r \in Runtimes, NEW b \in BOOLEAN, db' = [db EXCEPT ![r].enabled = b], NEW q \in Runtimes
        PROVE  /\ db'[q].state = db[q].state /\ db'[q].mark = db[q].mark /\ db'[q].data = db[q].data
               /\ db'[q].open = db[q].open /\ db'[q].pw = db[q].pw /\ db'[q].exec = db[q].exec
    <3>1. db[q] \in Databases
      BY <1>1
    <3> QED
      BY <1>1, <2>1, <3>1 DEF Databases
  <2> QED
    BY <1>3, <2>1
<1>5. /\ \A d \in Controllers \ {c} : Same(d)
      /\ Bare(c)'
  <2>1. PICK pc \in PCs : Goto(c, pc) /\ pc \notin {"create", "restore"}
                          /\ (pc = "advance" => ctl[c].phase \notin {"paused", "fenced"})
    BY <1>1 DEF Pause, Untouched, Hold, EnableExecution, Looks, Verify, PrepareSource, Quiet, BeforeActivate,
       AfterActivate, Observe, GiveBack, Staged, At, PCs
  <2> QED
    BY <2>1, DriverMoves DEF Bare, At
<1>6. SameContents
  BY <1>4 DEF SameContents
<1> QED
  BY <1>1, <1>4, <1>5, <1>6, BareKeeps, ContentsCalm

\* Closing: no executor is left, the roles are shut.
LEMMA ContentsClose == ASSUME IInv, Contents, NEW c \in Controllers, Close(c) PROVE Contents'
<1>1. /\ UNCHANGED <<env, mv, archive, grants, kept>> /\ db \in [Runtimes -> Databases] /\ Staged(c)
      /\ ~At(c, "idle")
  BY DEF Close, IInv, Types, MovementTypes, Good, At
<1>2. PICK t \in Runtimes : t = FenceTarget(c)
  BY <1>1, WorkingRow
<1>3. /\ db' = [db EXCEPT ![t].open = FALSE] /\ db[t].exec = "idle" /\ db[t] \in Databases
  BY <1>1, <1>2 DEF Close, Drained
<1>4. /\ db'[t].state = db[t].state /\ db'[t].mark = db[t].mark /\ db'[t].data = db[t].data
      /\ db'[t].open = FALSE /\ db'[t].pw = db[t].pw /\ db'[t].exec = "idle"
      /\ \A q \in Runtimes \ {t} : db'[q] = db[q]
  BY <1>1, <1>3 DEF Databases
<1>5. SameContents
  BY <1>4 DEF SameContents
<1>6. PICK pc \in PCs : /\ Goto(c, pc) /\ pc \notin {"create", "restore"}
                        /\ pc = "advance" => ctl[c].phase = "paused" /\ t = Row(c).src
  BY <1>1, <1>2 DEF Close, Staged, At, PCs, FenceTarget
<1>7. /\ ctl'[c].pc = pc /\ ctl'[c].id = ctl[c].id /\ ctl'[c].phase = ctl[c].phase
      /\ \A d \in Controllers \ {c} : Same(d)
  BY <1>6, DriverMoves
<1>8. ClosedSource(c)' /\ Copying(c)'
  <2>1. Row(c)' = Row(c)
    BY <1>1, <1>7 DEF Row
  <2> QED
    BY <1>4, <1>6, <1>7, <2>1 DEF ClosedSource, Copying, Shut, At
<1> QED
  BY <1>1, <1>4, <1>5, <1>7, <1>8, ContentsCalm

\* What the journal says while a controller acts: with its connection, the phase it has read
\* or the next one; without it, at least the phase it has read.
LEMMA LiveRow ==
  ASSUME IInv, OrderInv, NEW c \in Controllers, ctl[c].pc \in Acting, Live(c)
  PROVE  /\ ctl[c].phase = "fenced" => Row(c).phase \in {"fenced", "copied"}
         /\ ctl[c].phase = "copied" => Row(c).phase \in {"copied", "verified"}
         /\ ctl[c].phase = "returning" => Row(c).phase = "returning"
<1>1. Row(c).phase \in Phases /\ Row(c).phase # "absent"
  BY WorkingRow DEF Acting, At, Rows
<1>2. Behind(c) /\ InStep(c)
  BY DEF OrderInv, Order
<1> QED
  BY <1>1, <1>2, Ranks DEF Behind, InStep, Phases, Returnable, Ended

\* A controller that read fenced, even a late one, finds its movement fenced, or later and
\* not given back.
LEMMA FencedRow ==
  ASSUME IInv, OrderInv, NEW c \in Controllers, ctl[c].pc \in Acting, ctl[c].phase = "fenced"
  PROVE  /\ Row(c).phase \in Phases \ {"absent", "paused"}
         /\ Row(c).phase # "cancelled"
<1>1. Row(c).phase \in Phases /\ Row(c).phase # "absent" /\ ctl[c].id \in Movements
  BY WorkingRow DEF Acting, At, Rows
<1>2. Behind(c)
  BY DEF OrderInv, Order
<1>3. Row(c).phase # "paused"
  BY <1>2, Ranks DEF Behind
<1>4. Row(c).phase = "cancelled" => Live(c)
  BY <1>1 DEF OrderInv, AllLive, NothingReturned, Row
<1> QED
  BY <1>1, <1>3, <1>4, LiveRow

\* The dump is of the closed source; a kept dump still is what the source holds.
LEMMA ContentsCopy == ASSUME IInv, OrderInv, Contents, NEW c \in Controllers, Copy(c) PROVE Contents'
<1>1. /\ UNCHANGED <<env, mv, db, grants, kept>> /\ At(c, "copy") /\ ~At(c, "idle") /\ ctl[c].pc \in Acting
      /\ ctl[c].phase = "fenced" /\ archive \in [Movements -> Archives \cup {None}]
  BY DEF Copy, IInv, Good, Staged, At, Acting, PCs, Types
<1>2. PICK id \in Movements : id = ctl[c].id
  BY <1>1, WorkingRow
<1>3. Row(c).phase \in Phases \ {"absent", "paused"}
  BY <1>1, FencedRow
<1>4. PICK pc \in PCs : /\ Goto(c, pc) /\ pc \in {"create", "advance"}
                        /\ IF mv[id].mode = "move" THEN pc = "create" ELSE pc = "advance"
  BY <1>2 DEF Copy, PCs, Row
<1>5. /\ ctl'[c].pc = pc /\ ctl'[c].id = id /\ ctl'[c].phase = "fenced"
      /\ \A d \in Controllers \ {c} : ctl'[d] = ctl[d] /\ Same(d)
  BY <1>1, <1>2, <1>4, DriverMoves
<1>6. ASSUME mv[id].mode = "move" /\ mv[id].phase \in Moving => archive'[id].data = db[mv[id].src].data
      PROVE  ClosedSource(c)' /\ Copying(c)'
  BY <1>1, <1>4, <1>5, <1>6 DEF ClosedSource, Copying, At, Row
<1>7. CASE mv[id].mode = "move" /\ archive[id] = None
  <2>1. archive' = [archive EXCEPT ![id] =
          [gen |-> db[mv[id].src].gen, enabled |-> db[mv[id].src].enabled, data |-> db[mv[id].src].data]]
    BY <1>2, <1>7 DEF Copy, Row
  <2>2. archive'[id].data = db[mv[id].src].data /\ \A n \in Movements \ {id} : archive'[n] = archive[n]
    BY <1>1, <2>1
  <2>3. Elsewhere' /\ NothingLost'
    BY <1>1 DEF Contents, Elsewhere, CanWrite, NothingLost
  <2>4. ASSUME NEW n \in Movements
        PROVE  SourceShut(n)' /\ Fresh(n)' /\ DumpIsSource(n)' /\ RestoredIsSource(n)' /\ Copied(n)'
    <3>1. SourceShut(n) /\ Fresh(n) /\ DumpIsSource(n) /\ RestoredIsSource(n) /\ Copied(n)
      BY DEF Contents
    <3>2. SourceShut(n)' /\ RestoredIsSource(n)' /\ Copied(n)'
      BY <1>1, <3>1 DEF SourceShut, Shut, RestoredIsSource, Copied, Own
    <3>3. Fresh(n)' /\ DumpIsSource(n)'
      BY <1>1, <1>2, <1>3, <2>2, <3>1 DEF Fresh, DumpIsSource, Row
    <3> QED
      BY <3>2, <3>3
  <2>5. ASSUME NEW d \in Controllers \ {c} PROVE ClosedSource(d)' /\ Copying(d)'
    <3>1. ctl'[d] = ctl[d] /\ ClosedSource(d) /\ Copying(d) /\ (~At(d, "idle") => ctl[d].id \in Movements)
      BY <1>5, <2>5, WorkingRow DEF Contents
    <3>2. ClosedSource(d)'
      BY <1>1, <3>1 DEF ClosedSource, Shut, At, Row
    <3>3. Copying(d)'
      BY <1>1, <2>2, <3>1 DEF Copying, At, Row, Own
    <3> QED
      BY <3>2, <3>3
  <2> QED
    BY <1>6, <2>2, <2>3, <2>4, <2>5 DEF Contents
<1>8. CASE ~(mv[id].mode = "move" /\ archive[id] = None)
  <2>1. UNCHANGED archive
    BY <1>2, <1>8 DEF Copy, Row
  <2>2. DumpIsSource(id)
    BY DEF Contents
  <2>3. ClosedSource(c)' /\ Copying(c)'
    BY <1>6, <1>8, <2>1, <2>2 DEF DumpIsSource
  <2>4. SameContents
    BY <1>1 DEF SameContents
  <2> QED
    BY <1>1, <1>5, <2>1, <2>3, <2>4, ContentsCalm
<1> QED
  BY <1>7, <1>8

\* A controller at create, however late, does not find the placement without a database: an
\* undecided movement's placement is its source, and a published destination was copied.
LEMMA CreateTarget ==
  ASSUME IInv, OrderInv, Contents, NEW c \in Controllers, At(c, "create"), db[Row(c).dst].state = "absent"
  PROVE  Row(c).dst # env.runtime
<1>1. ctl[c].pc \in Acting /\ ctl[c].phase = "fenced" /\ Row(c).mode = "move"
  BY DEF At, Acting, PCs, IInv, Good, Staged, Contents, Copying
<1>2. /\ Row(c).phase \in Phases \ {"absent", "paused", "cancelled"}
      /\ ctl[c].id \in Movements /\ Row(c).src # Row(c).dst
  BY <1>1, FencedRow, WorkingRow DEF At
<1>3. CASE Row(c).phase \in Returnable
  BY <1>2, <1>3 DEF IInv, Holds, Row
<1>4. CASE Row(c).phase \in {"activated", "completed", "superseded"}
  BY <1>1, <1>2, <1>4 DEF Contents, Copied, Own, Row
<1> QED
  BY <1>2, <1>3, <1>4 DEF Phases, Ended

\* create makes a destination that was absent, or closes the movement's own.
LEMMA ContentsCreate == ASSUME IInv, OrderInv, Contents, NEW c \in Controllers, Create(c) PROVE Contents'
<1>1. /\ UNCHANGED <<env, mv, archive, grants, kept>> /\ db \in [Runtimes -> Databases]
      /\ At(c, "create") /\ ~At(c, "idle") /\ ctl[c].pc \in Acting /\ ctl[c].phase = "fenced"
      /\ env.runtime \in Runtimes /\ Copying(c)
  BY DEF Create, IInv, Types, MovementTypes, Environments, Good, Staged, At, Acting, PCs, Contents
<1>2. PICK id \in Movements : id = ctl[c].id
  BY <1>1, WorkingRow
<1>3. PICK dst \in Runtimes : dst = mv[id].dst /\ mv[id].src # dst /\ mv[id].src \in Runtimes
  BY <1>1, <1>2, WorkingRow DEF Row
<1>4. mv[id].phase \in Phases \ {"absent", "paused"}
  BY <1>1, <1>2, FencedRow DEF Row
<1>5. /\ ctl'[c].pc = "restore" /\ ctl'[c].id = id /\ ctl'[c].phase = "fenced"
      /\ \A d \in Controllers \ {c} : ctl'[d] = ctl[d] /\ Same(d)
  <2>1. "restore" \in PCs /\ Goto(c, "restore")
    BY DEF PCs, Create
  <2> QED
    BY <1>1, <1>2, <2>1, DriverMoves
<1>6. ASSUME db'[dst].mark = id, db'[dst].state # "absent", db'[mv[id].src] = db[mv[id].src]
      PROVE  ClosedSource(c)' /\ Copying(c)'
  BY <1>1, <1>2, <1>3, <1>5, <1>6 DEF ClosedSource, Copying, At, Row
<1>7. CASE db[dst].state # "absent"
  <2>1. db' = [db EXCEPT ![dst] = [db[dst] EXCEPT !.open = FALSE]] /\ db[dst].mark = id /\ db[dst] \in Databases
    BY <1>1, <1>2, <1>3, <1>7 DEF Create, CanCreate, Row
  <2>2. /\ db'[dst].state = db[dst].state /\ db'[dst].mark = db[dst].mark /\ db'[dst].data = db[dst].data
        /\ db'[dst].open = FALSE /\ db'[dst].pw = db[dst].pw /\ db'[dst].exec = db[dst].exec
        /\ \A q \in Runtimes \ {dst} : db'[q] = db[q]
    BY <1>1, <2>1 DEF Databases
  <2>3. SameContents
    BY <2>2 DEF SameContents
  <2>4. ClosedSource(c)' /\ Copying(c)'
    BY <1>3, <1>6, <1>7, <2>1, <2>2
  <2> QED
    BY <1>1, <1>5, <2>2, <2>3, <2>4, ContentsCalm
<1>8. CASE db[dst].state = "absent"
  <2>1. db' = [db EXCEPT ![dst] = [NoDatabase EXCEPT !.state = "empty", !.mark = id]]
    BY <1>1, <1>2, <1>3, <1>8 DEF Create, Row
  <2>2. /\ db'[dst].state = "empty" /\ db'[dst].mark = id /\ ~db'[dst].open /\ db'[dst].exec = "idle"
        /\ \A q \in Runtimes \ {dst} : db'[q] = db[q]
    BY <1>1, <2>1 DEF NoDatabase
  <2>3. dst # env.runtime
    BY <1>1, <1>2, <1>3, <1>8, CreateTarget DEF Row
  <2>4. Elsewhere' /\ StayShut /\ NothingLost'
    BY <1>1, <2>2, <2>3 DEF Contents, Elsewhere, CanWrite, StayShut, Shut, NothingLost
  <2>5. ASSUME NEW n \in Movements
        PROVE  SourceShut(n)' /\ Fresh(n)' /\ DumpIsSource(n)' /\ RestoredIsSource(n)' /\ Copied(n)'
    <3>1. /\ SourceShut(n) /\ Fresh(n) /\ DumpIsSource(n) /\ RestoredIsSource(n) /\ Copied(n)
          /\ mv[n].src \in Runtimes /\ mv[n].dst \in Runtimes
      BY DEF Contents, IInv, Types, MovementTypes, Rows
    <3>2. mv[n].phase \in Moving => db'[mv[n].src] = db[mv[n].src]
      BY <2>2, <2>3, <3>1 DEF IInv, Holds, Moving, Returnable
    <3>3. SourceShut(n)' /\ DumpIsSource(n)'
      BY <1>1, <3>1, <3>2 DEF SourceShut, Shut, DumpIsSource
    <3>4. RestoredIsSource(n)'
      BY <1>1, <2>2, <3>1, <3>2 DEF RestoredIsSource
    <3>5. Fresh(n)'
      BY <1>1, <1>4, <2>2, <3>1 DEF Fresh
    <3>6. Copied(n)'
      BY <1>1, <1>8, <2>2, <3>1 DEF Copied, Own
    <3> QED
      BY <3>3, <3>4, <3>5, <3>6
  <2>6. ASSUME NEW d \in Controllers \ {c}, ~At(d, "idle") PROVE ClosedSource(d)' /\ Copying(d)'
    <3>1. /\ ctl'[d] = ctl[d] /\ ClosedSource(d) /\ Copying(d) /\ Row(d)' = Row(d)
          /\ ctl[d].id \in Movements /\ Row(d).src \in Runtimes /\ Row(d).dst \in Runtimes
      BY <1>1, <1>5, <2>6, WorkingRow DEF Contents, Row
    <3>2. Row(d).phase \in Moving \cup {"paused"} => db'[Row(d).src] = db[Row(d).src]
      BY <2>2, <2>3, <3>1 DEF IInv, Holds, Moving, Returnable, Row
    <3>3. ClosedSource(d)'
      BY <3>1, <3>2 DEF ClosedSource, Shut, At
    <3>4. Copying(d)'
      BY <1>1, <1>8, <2>2, <3>1, <3>2 DEF Copying, At, Own, Row
    <3> QED
      BY <3>3, <3>4
  <2>7. ASSUME NEW d \in Controllers \ {c}, At(d, "idle") PROVE ClosedSource(d)' /\ Copying(d)'
    BY <1>5, <2>7, BareKeeps DEF Bare, At
  <2>8. ClosedSource(c)' /\ Copying(c)'
    BY <1>3, <1>6, <2>2
  <2> QED
    BY <2>4, <2>5, <2>6, <2>7, <2>8 DEF Contents
<1> QED
  BY <1>7, <1>8

\* The lock's holder restores the dump while its movement is still undecided.
LEMMA ContentsRestore == ASSUME IInv, OrderInv, Contents, NEW c \in Controllers, Restore(c) PROVE Contents'
<1>1. /\ UNCHANGED <<env, mv, archive, grants, kept>> /\ db \in [Runtimes -> Databases]
      /\ At(c, "restore") /\ ~At(c, "idle") /\ ctl[c].pc \in Acting /\ ctl[c].phase = "fenced"
      /\ env.runtime \in Runtimes /\ Copying(c) /\ Dumped(c) /\ Live(c)
  BY DEF Restore, IInv, Types, MovementTypes, Environments, Good, Staged, At, Acting, PCs, Contents
<1>2. PICK id \in Movements : id = ctl[c].id
  BY <1>1, WorkingRow
<1>3. PICK dst \in Runtimes : dst = mv[id].dst /\ mv[id].src # dst /\ mv[id].src \in Runtimes
  BY <1>1, <1>2, WorkingRow DEF Row
<1>4. /\ mv[id].phase \in {"fenced", "copied"} /\ env.runtime = mv[id].src
  <2>1. mv[id].phase \in {"fenced", "copied"}
    BY <1>1, <1>2, LiveRow DEF Row
  <2> QED
    BY <2>1 DEF IInv, Holds, Returnable
<1>5. /\ ctl'[c].pc = "advance" /\ ctl'[c].id = id /\ ctl'[c].phase = "fenced"
      /\ \A d \in Controllers \ {c} : ctl'[d] = ctl[d] /\ Same(d)
  <2>1. "advance" \in PCs /\ Goto(c, "advance")
    BY DEF PCs, Restore
  <2> QED
    BY <1>1, <1>2, <2>1, DriverMoves
<1>6. /\ db[dst].mark = id /\ db[dst].state # "absent" /\ archive[id].data = db[mv[id].src].data
  BY <1>1, <1>2, <1>3, <1>4 DEF Copying, Row, At, Moving
<1>7. ASSUME db'[dst].mark = id, db'[dst].state = "restored" PROVE ClosedSource(c)' /\ Copying(c)'
  BY <1>1, <1>2, <1>3, <1>5, <1>7 DEF ClosedSource, Copying, At, Row, Own
<1>8. CASE db[dst].state = "restored"
  <2>1. db' = db
    BY <1>1, <1>2, <1>3, <1>8 DEF Restore, Row
  <2>2. SameContents
    BY <2>1 DEF SameContents
  <2>3. ClosedSource(c)' /\ Copying(c)'
    BY <1>6, <1>7, <1>8, <2>1
  <2> QED
    BY <1>1, <1>5, <2>1, <2>2, <2>3, ContentsCalm
<1>9. CASE db[dst].state # "restored"
  <2>1. db' = [db EXCEPT ![dst] = [db[dst] EXCEPT !.state = "restored", !.gen = archive[id].gen,
                 !.enabled = archive[id].enabled, !.data = archive[id].data]]
    BY <1>1, <1>2, <1>3, <1>9 DEF Restore, Row
  <2>2. /\ db'[dst].state = "restored" /\ db'[dst].mark = id /\ db'[dst].data = archive[id].data
        /\ db'[dst].open = db[dst].open /\ db'[dst].pw = db[dst].pw /\ db'[dst].exec = db[dst].exec
        /\ \A q \in Runtimes \ {dst} : db'[q] = db[q]
    <3>1. db[dst] \in Databases
      BY <1>1
    <3> QED
      BY <1>1, <1>6, <2>1, <3>1 DEF Databases
  <2>3. dst # env.runtime
    BY <1>3, <1>4
  <2>4. Elsewhere' /\ StayShut /\ NothingLost'
    BY <1>1, <2>2, <2>3 DEF Contents, Elsewhere, CanWrite, StayShut, Shut, NothingLost
  <2>5. ASSUME NEW n \in Movements
        PROVE  SourceShut(n)' /\ Fresh(n)' /\ DumpIsSource(n)' /\ RestoredIsSource(n)' /\ Copied(n)'
    <3>1. /\ SourceShut(n) /\ Fresh(n) /\ DumpIsSource(n) /\ RestoredIsSource(n) /\ Copied(n)
          /\ mv[n].src \in Runtimes /\ mv[n].dst \in Runtimes
      BY DEF Contents, IInv, Types, MovementTypes, Rows
    <3>2. mv[n].phase \in Moving => n = id
      BY <1>4, OneUndecided DEF Moving, Returnable
    <3>3. mv[n].phase \in Moving => db'[mv[n].src] = db[mv[n].src]
      BY <1>4, <2>2, <2>3, <3>1, <3>2
    <3>4. SourceShut(n)' /\ DumpIsSource(n)'
      BY <1>1, <3>1, <3>3 DEF SourceShut, Shut, DumpIsSource
    <3>5. RestoredIsSource(n)'
      BY <1>1, <1>3, <1>6, <2>2, <3>2, <3>3 DEF RestoredIsSource
    <3>6. Fresh(n)'
      BY <1>1, <1>6, <2>2, <3>1 DEF Fresh
    <3>7. Copied(n)'
      BY <1>1, <1>6, <2>2, <3>1 DEF Copied, Own
    <3> QED
      BY <3>4, <3>5, <3>6, <3>7
  <2>6. ASSUME NEW d \in Controllers \ {c}, ~At(d, "idle") PROVE ClosedSource(d)' /\ Copying(d)'
    <3>1. /\ ctl'[d] = ctl[d] /\ ClosedSource(d) /\ Copying(d) /\ Row(d)' = Row(d)
          /\ ctl[d].id \in Movements /\ Row(d).src \in Runtimes /\ Row(d).dst \in Runtimes
      BY <1>1, <1>5, <2>6, WorkingRow DEF Contents, Row
    <3>2. Row(d).phase \in Moving \cup {"paused"} => db'[Row(d).src] = db[Row(d).src]
      BY <2>2, <2>3, <3>1 DEF IInv, Holds, Moving, Returnable, Row
    <3>3. ClosedSource(d)'
      BY <3>1, <3>2 DEF ClosedSource, Shut, At
    <3>4. Copying(d)'
      BY <1>1, <1>6, <2>2, <3>1, <3>2 DEF Copying, At, Own, Row
    <3> QED
      BY <3>3, <3>4
  <2>7. ASSUME NEW d \in Controllers \ {c}, At(d, "idle") PROVE ClosedSource(d)' /\ Copying(d)'
    BY <1>5, <2>7, BareKeeps DEF Bare, At
  <2>8. ClosedSource(c)' /\ Copying(c)'
    BY <1>7, <2>2
  <2> QED
    BY <2>4, <2>5, <2>6, <2>7, <2>8 DEF Contents
<1> QED
  BY <1>8, <1>9

\* The provisioner opens a database at a generation nobody has a grant for.
LEMMA ContentsOpened ==
  ASSUME IInv, Contents, NEW c \in Controllers, NEW prov \in Runtimes, NEW g \in Gens, g > env.gen,
         db' = [db EXCEPT ![prov] = Opened(db[prov], g)],
         UNCHANGED <<env, mv, archive, grants, kept>>,
         \A m \in Movements : mv[m].phase \in Moving => mv[m].src # prov,
         \A d \in Controllers : ~Closing(d),
         \A d \in Controllers \ {c} : Same(d), Bare(c)'
  PROVE  Contents'
<1>1. /\ db \in [Runtimes -> Databases] /\ db[prov] \in Databases /\ env.gen \in Nat /\ g \in Nat
      /\ \A p \in grants : p[2] \in Nat /\ p[2] <= env.gen
  BY DEF IInv, Types, MovementTypes, Environments, Gens, Granted
<1>2. db'[prov] = Opened(db[prov], g) /\ \A q \in Runtimes \ {prov} : db'[q] = db[q]
  BY <1>1
<1>3. /\ db'[prov].state = db[prov].state /\ db'[prov].mark = db[prov].mark /\ db'[prov].data = db[prov].data
      /\ db'[prov].exec = db[prov].exec /\ db'[prov].pw = g
  BY <1>1, <1>2, ReconciledFields
<1>4. SameContents
  BY <1>2, <1>3 DEF SameContents
<1>5. <<prov, g>> \notin grants
  BY <1>1
<1>6. Elsewhere'
  <2> SUFFICES ASSUME NEW r \in Runtimes, r # env.runtime PROVE ~CanWrite(r)' /\ db'[r].exec # "running"
    BY DEF Elsewhere
  <2>1. ~CanWrite(r) /\ db[r].exec # "running"
    BY DEF Contents, Elsewhere
  <2>2. CASE r = prov
    BY <1>3, <1>5, <2>1, <2>2 DEF CanWrite
  <2>3. CASE r # prov
    BY <1>2, <2>1, <2>3 DEF CanWrite
  <2> QED
    BY <2>2, <2>3
<1>7. \A m \in Movements : SourceShut(m)'
  <2>1. \A m \in Movements : mv[m].src \in Runtimes
    BY DEF IInv, Types, MovementTypes, Rows
  <2> QED
    BY <1>2, <2>1 DEF Contents, SourceShut, Shut
<1>8. ASSUME NEW d \in Controllers PROVE ClosedSource(d)' /\ Copying(d)'
  <2>1. CASE d = c
    BY <2>1, BareKeeps
  <2>2. CASE d # c
    BY <1>4, <2>2, SameCopying, SameClosed DEF Contents
  <2> QED
    BY <2>1, <2>2
<1> QED
  BY <1>4, <1>6, <1>7, <1>8, SameCopies DEF Contents

\* verify reconciles the destination; returnToSource reconciles whichever runtime the command
\* was built for, once nothing is between fence and publication.  Neither is late: the
\* controller has its connection.
LEMMA ContentsReconcile ==
  ASSUME Punctual', IInv, OrderInv, Contents, NEW c \in Controllers, Reconcile(c)
  PROVE  Contents'
<1>1. /\ UNCHANGED <<env, mv, archive, grants, kept>> /\ ~At(c, "idle") /\ ctl[c].pc \in Acting
      /\ ctl[c].phase \in {"copied", "returning"} /\ Goto(c, "stamp")
      /\ db' = [db EXCEPT ![ctl[c].prov] = Opened(db[ctl[c].prov], PreparedGen(c))]
  BY DEF Reconcile, IInv, Good, Staged, At, Acting, PCs
<1>2. Live(c)
  BY DEF Reconcile, Counted, Punctual, IInv, Types, Counts, Live
<1>3. PICK id \in Movements : id = ctl[c].id
  BY <1>1, WorkingRow
<1>4. /\ ctl[c].phase = "copied" => mv[id].phase \in {"copied", "verified"}
      /\ ctl[c].phase = "returning" => mv[id].phase = "returning"
  BY <1>1, <1>2, <1>3, LiveRow DEF Row
<1>5. /\ mv[id].phase \in Returnable /\ mv[id].phase # "paused"
  BY <1>1, <1>4 DEF Returnable
<1>6. env.gen = mv[id].sgen
  BY <1>5 DEF IInv, Holds
<1>7. /\ ctl[c].prov \in Runtimes /\ mv[id].src # mv[id].dst
      /\ PreparedGen(c) \in Gens /\ PreparedGen(c) > env.gen
  BY <1>1, <1>3, <1>6, WorkingRow DEF Row
<1>8. ctl[c].phase = "copied" => ctl[c].prov = mv[id].dst
  BY <1>1, <1>3, <1>4 DEF OrderInv, Order, BuiltFor, Row, Reconcile, At
<1>9. \A m \in Movements : mv[m].phase \in Moving => mv[m].src # ctl[c].prov
  <2>1. ASSUME NEW m \in Movements, mv[m].phase \in Moving PROVE m = id
    BY <1>5, <2>1, OneUndecided DEF Moving, Returnable
  <2> QED
    BY <1>1, <1>4, <1>7, <1>8, <2>1 DEF Moving
<1>10. \A d \in Controllers : ~Closing(d)
  <2>1. ASSUME NEW d \in Controllers, Closing(d) PROVE FALSE
    <3>1. ctl[d].id \in Movements /\ mv[ctl[d].id].phase = "paused"
      BY <2>1, WorkingRow DEF Closing, At, Row
    <3>2. ctl[d].id = id
      BY <1>5, <3>1, OneUndecided DEF Returnable
    <3> QED
      BY <1>5, <3>1, <3>2
  <2> QED
    BY <2>1
<1>11. (\A d \in Controllers \ {c} : Same(d)) /\ Bare(c)'
  <2>1. "stamp" \in PCs
    BY DEF PCs
  <2> QED
    BY <1>1, <2>1, DriverMoves DEF Bare, At
<1> QED
  BY <1>1, <1>7, <1>9, <1>10, <1>11, ContentsOpened

\* The stamp at the end of a reconcile says which generation is installed.
LEMMA ContentsStamp == ASSUME IInv, Contents, NEW c \in Controllers, Stamp(c) PROVE Contents'
<1>1. /\ UNCHANGED <<env, mv, archive, grants, kept>> /\ ~At(c, "idle")
      /\ db \in [Runtimes -> Databases]
  BY DEF Stamp, IInv, Types, MovementTypes, At
<1>2. PICK r \in Runtimes, g \in Gens : r = ctl[c].prov /\ g = PreparedGen(c)
  BY <1>1, WorkingRow
<1>3. db'[r] = Stamped(db[r], g) /\ (\A q \in Runtimes \ {r} : db'[q] = db[q]) /\ db[r] \in Databases
  BY <1>1, <1>2 DEF Stamp
<1>4. /\ db'[r].state = db[r].state /\ db'[r].mark = db[r].mark /\ db'[r].data = db[r].data
      /\ db'[r].exec = db[r].exec /\ db'[r].pw = db[r].pw /\ db'[r].open = db[r].open
  BY <1>3, ReconciledFields
<1>5. \A d \in Controllers : Same(d) \/ Bare(d)'
  <2>1. PICK pc \in PCs : Goto(c, pc) /\ pc \in {"quiet", "giveBack"}
    BY DEF Stamp, PCs
  <2> QED
    BY <2>1, DriverMoves DEF Bare, At
<1> QED
  BY <1>1, <1>3, <1>4, <1>5, ContentsShutting

\* The driver's steps together.
LEMMA ContentsDriver ==
  ASSUME Punctual', IInv, OrderInv, Contents, NEW c \in Controllers, Driver(c) PROVE Contents'
  BY ContentsQuiet, ContentsClose, ContentsCopy, ContentsCreate, ContentsRestore, ContentsReconcile,
     ContentsStamp DEF Driver, Looks

\* Every step keeps the copies apart and complete.
LEMMA ContentsStep ==
  ASSUME Punctual', IInv, IInv', JobTypes, OrderInv, Contents, [Next]_vars PROVE Contents'
<1>1. CASE UNCHANGED vars
  BY <1>1, ContentsControl DEF vars, Same
<1>2. ASSUME NEW m \in Movements, NEW r \in Runtimes, Begin(m, r) \/ Rollback(m, r) PROVE Contents'
  BY <1>2, OperatorRecords, ContentsOperator
<1>3. ASSUME NEW c \in Controllers, Refuse(c) \/ Die(c) \/ (Read(c) /\ Row(c).phase \in Ended) PROVE Contents'
  BY <1>3, Leaves, ContentsExit
<1> QED
  BY <1>1, <1>2, <1>3, Steps, ContentsFacade, ContentsJob, ContentsCustomer, ContentsStart, ContentsClaim,
     ContentsRead, ContentsLoseLock, ContentsDriver, ContentsAdvance, ContentsRequest, ContentsActivate,
     ContentsRepublish

------------------------------------------------------------------------------
(* Theorems *)

\* Until the first disturbance the order of controllers and the facts about the copies hold.
\* Jobs may go stale before, and controllers overlap: what nobody has done is begin a reconcile
\* for a placement, or in a movement, that is no longer its own.
THEOREM MovementInvariance == Spec => []MInv
<1>1. Init => (Undisturbed => Regime /\ Order /\ Contents)
  <2> SUFFICES ASSUME Init PROVE Regime /\ Order /\ Contents
    OBVIOUS
  <2>1. /\ \A c \in Controllers : /\ ctl[c].pc = "idle" /\ ctl[c].phase = "absent" /\ ~ctl[c].return /\ ~ctl[c].lost
        /\ \A m \in Movements : mv[m].phase = "absent" /\ archive[m] = None
    BY DEF Init, Idle, NoRow
  <2>2. Regime
    BY <2>1 DEF Regime, AllLive, NothingReturned, Live, At
  <2>3. Order
    BY <2>1 DEF Order, HoldsLock, Behind, InStep, BuiltFor, Acting, At
  <2>4. \A r \in Runtimes : db[r].mark = None /\ db[r].exec = "idle"
    BY DEF Init, NoDatabase
  <2>5. Elsewhere
    BY <2>4 DEF Init, Elsewhere, CanWrite
  <2>6. \A m \in Movements : SourceShut(m) /\ Fresh(m) /\ DumpIsSource(m) /\ RestoredIsSource(m) /\ Copied(m)
    BY <2>1, <2>4, NoneAssumption DEF SourceShut, Fresh, DumpIsSource, RestoredIsSource, Copied, Moving
  <2>7. \A c \in Controllers : ClosedSource(c) /\ Copying(c)
    BY <2>1 DEF ClosedSource, Copying, At
  <2>8. NothingLost
    BY DEF Init, NothingLost
  <2> QED
    BY <2>2, <2>3, <2>5, <2>6, <2>7, <2>8 DEF Contents
<1>2. MInv /\ IInv' /\ JobTypes' /\ [Next]_vars => MInv'
  <2> SUFFICES ASSUME MInv, IInv', [Next]_vars, Undisturbed' PROVE Regime' /\ Order' /\ Contents'
    BY DEF MInv
  <2>1. Grows
    BY CountsGrow DEF MInv
  <2>2. Undisturbed
    BY <2>1 DEF Grows, Undisturbed, Punctual, NoLostReturn
  <2>3. IInv /\ JobTypes /\ Regime /\ Order /\ Contents
    BY <2>2 DEF MInv
  <2>4. OrderInv
    BY <2>2, <2>3 DEF OrderInv, Regime, Undisturbed, NoLostReturn
  <2>5. Order' /\ Kept
    BY <2>3, <2>4, OrderStep
  <2>6. Regime'
    BY <2>1, <2>3, <2>5 DEF Grows, Kept, Regime
  <2>7. Contents'
    BY <2>3, <2>4, ContentsStep DEF Undisturbed
  <2> QED
    BY <2>5, <2>6, <2>7
<1>3. IInv /\ JobTypes /\ (Undisturbed => Regime /\ Order /\ Contents) => MInv
  BY DEF MInv
<1> QED
  BY <1>1, <1>2, <1>3, Invariance, PTL DEF Spec

\* docs/customer-release-lifecycle.md, "Single-writer and execution ownership": until a reconcile
\* is late, or a connection is lost and a movement returned, at most one copy admits a client that
\* holds any grant ever issued, or has an executor at work.
THEOREM OneWriter == Spec => [](Undisturbed => SingleWriter)
<1>1. MInv => (Undisturbed => SingleWriter)
  <2> SUFFICES ASSUME MInv, Undisturbed PROVE SingleWriter
    OBVIOUS
  <2> DEFINE W == {r \in Runtimes : CanWrite(r) \/ db[r].exec = "running"}
  <2>1. W \subseteq {env.runtime}
    BY DEF MInv, Contents, Elsewhere
  <2>2. IsFiniteSet({env.runtime}) /\ Cardinality({env.runtime}) = 1
    BY FS_Singleton
  <2>3. Cardinality(W) <= 1
    BY <2>1, <2>2, FS_Subset
  <2> QED
    BY <2>3 DEF SingleWriter
<1> QED
  BY <1>1, MovementInvariance, PTL

\* Until then the copy the directory names has every write the customer made, unless a rollback
\* that gave them up was accepted: the dump is taken behind the fence and restored once, and a
\* controller that lost its lock neither replaces nor empties what was published.
THEOREM NoWriteIsLost == Spec => [](Undisturbed => NothingLost)
<1>1. MInv => (Undisturbed => NothingLost)
  BY DEF MInv, Contents
<1> QED
  BY <1>1, MovementInvariance, PTL

\* Until then the source of a movement admits no client between fence and publication, and holds
\* what was dumped.
THEOREM ClosedUntilPublished == Spec => [](Undisturbed => SourceStaysClosed)
<1>1. MInv => (Undisturbed => SourceStaysClosed)
  BY DEF MInv, Contents, SourceStaysClosed, SourceShut, DumpIsSource, Shut, Moving
<1> QED
  BY <1>1, MovementInvariance, PTL
=============================================================================
