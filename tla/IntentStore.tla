---------------------------- MODULE IntentStore ----------------------------
(***************************************************************************)
(* The intents of one owner in a customer database and the requests that   *)
(* change them: services/intent-service/src/store.ts, called by            *)
(* handler.ts, over the tables of                                          *)
(* platform-provisioner/components/intents/0001_intents.sql.               *)
(*                                                                         *)
(* create, update, archive, restore and tombstone are one statement each.  *)
(* append and merge are READ COMMITTED transactions: they lock rows one by *)
(* one in the order of the scan, keep what they read, and write on it.     *)
(* What a transaction has written is seen when it commits, so its writes   *)
(* and the commit are one step.  A statement that meets a locked row waits *)
(* and then looks at the row again; it fails when PostgreSQL finds a       *)
(* deadlock or statement_timeout ends it.                                  *)
(*                                                                         *)
(* A client sends the versions it has seen, which may be old, and may send *)
(* anything again.  Texts, deadlines and payloads are left out, and with   *)
(* them the comparison of a repeated request with the first one, which     *)
(* only chooses the answer.                                                *)
(***************************************************************************)
EXTENDS Naturals, FiniteSets, Sequences

CONSTANTS
  Intents,      \* intent ids
  Notes,        \* contribution ids chosen by clients
  Commands,     \* merge command ids
  Requests,     \* requests served at the same time
  Active,       \* states a client may set: working, waiting, done, error in the code
  None,
  MaxRequests   \* bound: requests in all

ASSUME NoneAssumption ==
  None \notin Intents \cup Notes \cup Commands \cup Requests
ASSUME ActiveAssumption ==
  "working" \in Active /\ Active \cap {"archive", "merged", "deleted", "absent", None} = {}
ASSUME IntentBounds == MaxRequests \in Nat

VARIABLES
  row,      \* intents
  notes,    \* contributions of an intent by sequence
  merges,   \* merge_commands with their merge_relations
  lock,     \* the request that holds the lock of a row
  req,      \* requests
  issued

vars == <<row, notes, merges, lock, req, issued>>

Closed == {"merged", "deleted"}
States == Active \cup Closed \cup {"archive"}

Changes == {"update", "archive", "restore", "delete"}

Absent == [state |-> "absent", before |-> None, into |-> None, version |-> 0]
Fresh  == [state |-> "working", before |-> None, into |-> None, version |-> 1]

Idle == [op |-> "idle", pc |-> "idle", id |-> None, note |-> None, cmd |-> None,
         seen |-> [i \in {} |-> 0], want |-> None, read |-> [i \in {} |-> Absent]]

\* Some intents were created before.
Init ==
  /\ row \in [Intents -> {Absent, Fresh}]
  /\ notes = [i \in Intents |-> IF row[i] = Fresh THEN <<"intent-created">> ELSE <<>>]
  /\ merges = [c \in Commands |-> None]
  /\ lock = [i \in Intents |-> None]
  /\ req = [r \in Requests |-> Idle]
  /\ issued = 0

------------------------------------------------------------------------------
(* Requests *)

\* Versions a client may have read of these intents: no version exceeds issued + 1.
Seen(ids) == {f \in [ids -> 1 .. issued + 1] :
                \A i \in ids : f[i] <= row[i].version \/ f[i] = 1}

Arrive(r, fields) ==
  /\ req[r].op = "idle" /\ issued < MaxRequests
  /\ req' = [req EXCEPT ![r] = fields]
  /\ issued' = issued + 1
  /\ UNCHANGED <<row, notes, merges, lock>>

\* createIntentHandler's routes that change something.
Request(r) ==
  \E i \in Intents :
    \/ Arrive(r, [Idle EXCEPT !.op = "create", !.pc = "write", !.id = i])
    \/ \E n \in Notes :
         Arrive(r, [Idle EXCEPT !.op = "append", !.pc = "lock", !.id = i, !.note = n, !.want = i])
    \/ \E op \in Changes, f \in Seen({i}) :
         Arrive(r, [Idle EXCEPT !.op = op, !.pc = "write", !.id = i, !.seen = f])
    \/ \E c \in Commands, S \in (SUBSET (Intents \ {i})) \ {{}} : \E f \in Seen(S \cup {i}) :
         Arrive(r, [Idle EXCEPT !.op = "merge", !.pc = "prior", !.id = i, !.cmd = c, !.seen = f])

\* COMMIT or ROLLBACK frees the transaction's locks; the request is answered.
Finish(r) ==
  /\ lock' = [i \in Intents |-> IF lock[i] = r THEN None ELSE lock[i]]
  /\ req' = [req EXCEPT ![r] = Idle]
  /\ UNCHANGED issued

Writes(r, op) == req[r].op = op /\ req[r].pc = "write"

Free_Shared(r, i) == TRUE
\* A row another transaction has locked FOR UPDATE makes the statement wait.
Free(r, i) == lock[i] \in {None, r}

------------------------------------------------------------------------------
(* One-statement commands *)

Create(r) ==
  /\ Writes(r, "create") /\ Finish(r)
  /\ LET i == req[r].id IN
     IF row[i] = Absent
       THEN /\ row' = [row EXCEPT ![i] = Fresh]
            /\ notes' = [notes EXCEPT ![i] = <<"intent-created">>]
       ELSE UNCHANGED <<row, notes>>
  /\ UNCHANGED merges

Open(state) == state \in Active \cup {"archive"}

Archivable(state) == state \in Active

\* The WHERE clause of each UPDATE, next to the version.
Applies(op, state) ==
  CASE op \in {"update", "delete"} -> Open(state)
    [] op = "archive" -> Archivable(state)
    [] op = "restore" -> state = "archive"

\* The rows its SET clause may leave; an update may name any active state, or none.
Results(op, old) ==
  CASE op = "update"  -> {[old EXCEPT !.state = s] : s \in Active \cup {old.state}}
    [] op = "archive" -> {[old EXCEPT !.state = "archive", !.before = old.state]}
    [] op = "restore" -> {[old EXCEPT !.before = None,
                             !.state = IF old.before = None THEN "working" ELSE old.before]}
    [] op = "delete"  -> {[old EXCEPT !.state = "deleted"]}

\* update, archiveOrRestore, tombstone: rowCount 0 is a conflict.
Change(r) ==
  LET i == req[r].id
      current == row[i].version = req[r].seen[i] /\ Applies(req[r].op, row[i].state)
  IN /\ req[r].op \in Changes /\ Free(r, i)
     /\ \/ /\ current
           /\ \E new \in Results(req[r].op, row[i]) :
                row' = [row EXCEPT ![i] = [new EXCEPT !.version = @ + 1]]
        \/ ~current /\ UNCHANGED row
     /\ Finish(r)
     /\ UNCHANGED <<notes, merges>>

------------------------------------------------------------------------------
(* append and merge *)

\* An earlier commit of the same command decides; otherwise every intent must exist.
Prior(r) ==
  /\ req[r].pc = "prior"
  /\ \/ /\ merges[req[r].cmd] # None \/ \E i \in DOMAIN req[r].seen : row[i] = Absent
        /\ Finish(r)
     \/ /\ merges[req[r].cmd] = None /\ \A i \in DOMAIN req[r].seen : row[i] # Absent
        /\ \E i \in DOMAIN req[r].seen :
             req' = [req EXCEPT ![r].pc = "lock", ![r].want = i]
        /\ UNCHANGED <<lock, issued>>
  /\ UNCHANGED <<row, notes, merges>>

\* The rows still to be locked after this one.
Rest(r) == (DOMAIN req[r].seen \ DOMAIN req[r].read) \ {req[r].want}

Selected_Deleted(r, state) == req[r].op = "append" => Open(state) \/ state = "deleted"
\* The WHERE clause of append's SELECT; merge looks at the states afterwards.
Selected(r, state) == req[r].op = "append" => Open(state)

\* SELECT ... FOR UPDATE: one row of the scan is locked and read.
Lock(r) ==
  LET i == req[r].want
      got == [j \in DOMAIN req[r].read \cup {i} |->
                IF j = i THEN row[i] ELSE req[r].read[j]]
  IN /\ req[r].pc = "lock" /\ Free(r, i)
     /\ \/ ~Selected(r, row[i].state) /\ Finish(r)
        \/ /\ Selected(r, row[i].state)
           /\ lock' = [lock EXCEPT ![i] = r]
           /\ \/ /\ Rest(r) = {}
                 /\ req' = [req EXCEPT ![r].pc = "write", ![r].want = None, ![r].read = got]
              \/ \E j \in Rest(r) : req' = [req EXCEPT ![r].want = j, ![r].read = got]
           /\ UNCHANGED issued
     /\ UNCHANGED <<row, notes, merges>>

\* contributions.id is the primary key.
Recorded(n) == \E i \in Intents : \E k \in DOMAIN notes[i] : notes[i][k] = n

AppendNote(r) ==
  /\ Writes(r, "append") /\ Finish(r)
  /\ LET i == req[r].id IN
     IF Recorded(req[r].note)
       THEN UNCHANGED <<row, notes>>
       ELSE /\ row' = [row EXCEPT ![i].version = @ + 1]
            /\ notes' = [notes EXCEPT ![i] = Append(@, req[r].note)]
  /\ UNCHANGED merges

Sources(body) == DOMAIN body.seen \ {body.target}

\* The rows as they were locked are open and at the versions the client expects.
Agreed_TargetAnyState(r) == \A i \in DOMAIN req[r].seen :
  /\ req[r].read[i].version = req[r].seen[i]
  /\ i = req[r].id \/ Open(req[r].read[i].state)
Agreed(r) == \A i \in DOMAIN req[r].seen :
  req[r].read[i].version = req[r].seen[i] /\ Open(req[r].read[i].state)

\* merge_commands.command_id and merge_relations.source_intent_id are unique.
Unique(r) ==
  /\ merges[req[r].cmd] = None
  /\ \A c \in Commands : merges[c] # None =>
       Sources(merges[c]) \cap (DOMAIN req[r].seen \ {req[r].id}) = {}

MergedInto(old, t) == [state |-> "merged", before |-> old.before, into |-> t,
                       version |-> old.version + 1]

Merge(r) ==
  /\ Writes(r, "merge") /\ Finish(r)
  /\ LET t == req[r].id
         body == [target |-> t, seen |-> req[r].seen]
     IN IF Agreed(r) /\ Unique(r)
          THEN /\ merges' = [merges EXCEPT ![req[r].cmd] = body]
               /\ row' = [i \in Intents |->
                    IF i \in Sources(body)
                      THEN MergedInto(row[i], t)
                      ELSE IF i = t THEN [row[i] EXCEPT !.version = @ + 1] ELSE row[i]]
               /\ notes' = [notes EXCEPT ![t] = Append(@, "intents-merged")]
          ELSE UNCHANGED <<row, notes, merges>>

------------------------------------------------------------------------------
(* Failures *)

\* A statement fails, the deadlock detector or statement_timeout ends a wait, or the process
\* dies: the transaction is rolled back.
Fails(r) ==
  /\ req[r].op # "idle" /\ Finish(r)
  /\ UNCHANGED <<row, notes, merges>>

Next == \E r \in Requests :
  \/ Request(r) \/ Create(r) \/ Change(r) \/ Prior(r) \/ Lock(r)
  \/ AppendNote(r) \/ Merge(r) \/ Fails(r)

Spec == Init /\ [][Next]_vars

------------------------------------------------------------------------------
(* Properties *)

Stored == [state : States, before : Active \cup {None},
           into : Intents \cup {None}, version : Nat \ {0}]
Rows == {Absent} \cup Stored

\* A function on some intents.
Partial(f, values) == DOMAIN f \subseteq Intents /\ f \in [DOMAIN f -> values]

MergeOK(m) == m \in [target : Intents, seen : {m.seen}] /\ Partial(m.seen, Nat)

RequestOK(q) ==
  /\ q \in [op : {"idle", "create", "append", "merge"} \cup Changes,
           pc : {"idle", "prior", "lock", "write"}, id : Intents \cup {None},
           note : Notes \cup {None}, cmd : Commands \cup {None}, seen : {q.seen},
           want : Intents \cup {None}, read : {q.read}]
  /\ Partial(q.seen, Nat) /\ Partial(q.read, Rows)

\* The column checks of the tables, and what a request carries.
TypeOK ==
  /\ row \in [Intents -> Rows]
  /\ notes \in [Intents -> Seq(Notes \cup {"intent-created", "intents-merged"})]
  /\ merges = [c \in Commands |-> merges[c]]
  /\ \A c \in Commands : merges[c] # None => MergeOK(merges[c])
  /\ lock \in [Intents -> Requests \cup {None}]
  /\ req = [r \in Requests |-> req[r]] /\ \A r \in Requests : RequestOK(req[r])
  /\ issued \in 0 .. MaxRequests

\* Merged intents form a forest, whichever merges cross: every set of intents has a member
\* that is not merged into a member of it, so following merged_into always ends (store.ts
\* merge, whose two UPDATEs no longer look at the state).
MergesFormForest ==
  \A S \in SUBSET Intents : S # {} => \E i \in S : row[i].into \notin S

\* What was merged is what the client saw: a source stays at the version the command named,
\* plus the merge itself, and belongs to that command alone; nothing another request wrote
\* meanwhile disappears into the target.
MergedAsSeen ==
  \A c \in Commands : merges[c] # None => \A i \in Sources(merges[c]) :
    /\ row[i].into = merges[c].target
    /\ row[i].version = merges[c].seen[i] + 1

\* A merged or deleted intent is final: no request that read it open writes to it later.
ClosedIsFinal ==
  [][\A i \in Intents : row[i].state \in Closed =>
       row'[i] = row[i] /\ notes'[i] = notes[i]]_vars
=============================================================================
