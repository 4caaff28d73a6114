------------------------- MODULE IntentStoreProofs -------------------------
(***************************************************************************)
(* Proofs about IntentStore: for any number of intents, requests and       *)
(* commands, merged intents form a forest, what was merged is what the     *)
(* client saw, and a closed intent is final.                               *)
(*                                                                         *)
(* The inductive invariant says what a transaction may rely on: every row  *)
(* it has read is still as it read it, because it holds the row's lock and *)
(* every writer of an existing row asks for the lock.                      *)
(***************************************************************************)
EXTENDS IntentStore, TLAPS

\* What a request has in hand, by its operation and its place in it.
Shaped(q) ==
  /\ q.op \in Changes => q.id \in Intents /\ DOMAIN q.read = {}
  /\ q.op = "create" => q.id \in Intents /\ DOMAIN q.read = {}
  /\ q.op = "idle" => DOMAIN q.read = {}
  /\ q.op = "append" => q.id \in Intents /\ q.note \in Notes /\ DOMAIN q.seen = {}
  /\ q.op = "merge" => q.id \in DOMAIN q.seen /\ q.cmd \in Commands
  /\ q.pc = "prior" => q.op = "merge" /\ DOMAIN q.read = {}
  /\ q.pc = "lock" => q.op \in {"append", "merge"} /\ q.want \in Intents
  /\ q.pc = "lock" /\ q.op = "append" => q.want = q.id /\ DOMAIN q.read = {}
  /\ q.pc = "lock" /\ q.op = "merge" => q.want \in DOMAIN q.seen /\ DOMAIN q.read \subseteq DOMAIN q.seen
  /\ q.pc = "write" /\ q.op = "append" => DOMAIN q.read = {q.id}
  /\ q.pc = "write" /\ q.op = "merge" => DOMAIN q.read = DOMAIN q.seen

\* A row that a request has read is locked by it and has not changed.
Held(r) == \A i \in DOMAIN req[r].read :
  /\ lock[i] = r /\ row[i] = req[r].read[i] /\ row[i] # Absent
  /\ req[r].op = "append" => Open(row[i].state)

\* A merge that locks has found all its rows.
Found(r) ==
  req[r].op = "merge" /\ req[r].pc # "prior" => \A i \in DOMAIN req[r].seen : row[i] # Absent

\* merged_into is set exactly on merged rows.
Linked == \A i \in Intents : row[i].into # None <=> row[i].state = "merged"

\* The inductive invariant.
IInv ==
  /\ TypeOK
  /\ \A r \in Requests : Shaped(req[r])
  /\ \A r \in Requests : Held(r) /\ Found(r)
  /\ Linked
  /\ MergedAsSeen
  /\ MergesFormForest

------------------------------------------------------------------------------
(* Lemmas *)

\* The request that transaction() leaves behind is well formed and holds nothing.
LEMMA IdleOK == RequestOK(Idle) /\ Shaped(Idle)
  BY NoneAssumption DEF RequestOK, Shaped, Idle, Partial, Changes

\* Ending a transaction frees its own locks only.
LEMMA FinishKeeps ==
  ASSUME TypeOK, \A s \in Requests : Shaped(req[s]), NEW r \in Requests, Finish(r)
  PROVE  /\ lock' \in [Intents -> Requests \cup {None}]
         /\ req' = [s \in Requests |-> req'[s]]
         /\ \A s \in Requests : RequestOK(req'[s]) /\ Shaped(req'[s])
         /\ issued' \in 0 .. MaxRequests
         /\ req'[r] = Idle
         /\ \A s \in Requests \ {r} : req'[s] = req[s]
         /\ \A i \in Intents : \A s \in Requests \ {r} : lock[i] = s => lock'[i] = s
<1>1. req'[r] = Idle /\ \A s \in Requests \ {r} : req'[s] = req[s]
  BY DEF TypeOK, Finish
<1>2. req' = [s \in Requests |-> req'[s]]
  BY DEF TypeOK, Finish
<1>3. \A s \in Requests : RequestOK(req'[s]) /\ Shaped(req'[s])
  BY <1>1, IdleOK DEF TypeOK
<1>4. /\ lock' \in [Intents -> Requests \cup {None}]
      /\ \A i \in Intents : \A s \in Requests \ {r} : lock[i] = s => lock'[i] = s
      /\ issued' \in 0 .. MaxRequests
  BY DEF TypeOK, Finish
<1> QED  BY <1>1, <1>2, <1>3, <1>4

\* Other transactions keep what they hold when a step of r changes only rows that did not
\* exist or that nobody else has locked.
LEMMA OthersHold ==
  ASSUME TypeOK, \A s \in Requests : Held(s) /\ Found(s), NEW r \in Requests,
         \A s \in Requests \ {r} : req'[s] = req[s],
         \A i \in Intents : \A s \in Requests \ {r} : lock[i] = s => lock'[i] = s,
         \A i \in Intents : row'[i] # row[i] =>
           row'[i] # Absent /\ (row[i] = Absent \/ lock[i] \in {None, r})
  PROVE  \A s \in Requests \ {r} : Held(s)' /\ Found(s)'
<1>a. \A s \in Requests \ {r} : Found(s)'
  BY DEF Found, TypeOK, RequestOK, Partial
<1> SUFFICES ASSUME NEW s \in Requests \ {r}, NEW i \in DOMAIN req[s].read
             PROVE  /\ lock'[i] = s /\ row'[i] = req[s].read[i] /\ row'[i] # Absent
                    /\ req[s].op = "append" => Open(row'[i].state)
  BY <1>a DEF Held
<1>1. i \in Intents
  BY DEF TypeOK, RequestOK, Partial
<1>2. /\ lock[i] = s /\ row[i] = req[s].read[i] /\ row[i] # Absent
      /\ req[s].op = "append" => Open(row[i].state)
  BY DEF Held
<1>3. row'[i] = row[i]
  BY <1>1, <1>2, NoneAssumption
<1> QED  BY <1>1, <1>2, <1>3

\* The facts about merges survive a step that merges nothing and leaves merged rows alone.
LEMMA MergesKept ==
  ASSUME TypeOK, Linked, MergedAsSeen, MergesFormForest, merges' = merges,
         \A i \in Intents : row'[i].into = row[i].into,
         \A i \in Intents : row[i].state = "merged" => row'[i] = row[i]
  PROVE  MergedAsSeen' /\ MergesFormForest'
<1>1. MergesFormForest'
  BY DEF MergesFormForest
<1>2. SUFFICES ASSUME NEW c \in Commands, merges[c] # None, NEW i \in Sources(merges[c])
               PROVE  row'[i].into = merges[c].target /\ row'[i].version = merges[c].seen[i] + 1
  BY <1>1 DEF MergedAsSeen, Sources
<1>3. i \in Intents /\ merges[c].target \in Intents
  BY <1>2 DEF Sources, TypeOK, MergeOK, Partial
<1>4. row[i].into = merges[c].target /\ row[i].version = merges[c].seen[i] + 1
  BY <1>2 DEF MergedAsSeen
<1>5. row[i].state = "merged"
  BY <1>3, <1>4, NoneAssumption DEF Linked
<1> QED  BY <1>3, <1>4, <1>5

\* A stored row is not the absent one.
LEMMA StoredExists == ASSUME NEW x \in Stored PROVE x # Absent
  BY DEF Stored, Absent

------------------------------------------------------------------------------
(* Steps that end a request *)

\* The parts of the invariant about tables and merges.
Tables ==
  /\ row \in [Intents -> Rows]
  /\ notes \in [Intents -> Seq(Notes \cup {"intent-created", "intents-merged"})]
  /\ merges = [c \in Commands |-> merges[c]]
  /\ \A c \in Commands : merges[c] # None => MergeOK(merges[c])
  /\ Linked
  /\ MergedAsSeen
  /\ MergesFormForest

\* A request that ends keeps the invariant when it leaves the tables well formed and changed
\* only rows that did not exist or that it could lock.
LEMMA EndingStep ==
  ASSUME IInv, NEW r \in Requests, Finish(r), Tables',
         \A i \in Intents : row'[i] # row[i] =>
           row'[i] # Absent /\ (row[i] = Absent \/ lock[i] \in {None, r})
  PROVE  IInv'
<1>1. /\ lock' \in [Intents -> Requests \cup {None}]
      /\ req' = [s \in Requests |-> req'[s]]
      /\ \A s \in Requests : RequestOK(req'[s]) /\ Shaped(req'[s])
      /\ issued' \in 0 .. MaxRequests
      /\ req'[r] = Idle
      /\ \A s \in Requests \ {r} : req'[s] = req[s]
      /\ \A i \in Intents : \A s \in Requests \ {r} : lock[i] = s => lock'[i] = s
  BY FinishKeeps DEF IInv
<1>2. TypeOK'
  BY <1>1 DEF TypeOK, Tables
<1>3. \A s \in Requests : Shaped(req[s])'
  BY <1>1
<1>4. \A s \in Requests \ {r} : Held(s)' /\ Found(s)'
  BY <1>1, OthersHold DEF IInv
<1>5. Held(r)' /\ Found(r)'
  BY <1>1 DEF Held, Found, Idle
<1> QED  BY <1>2, <1>3, <1>4, <1>5 DEF IInv, Tables

\* A request that is answered without writing keeps the invariant.
LEMMA QuietEnd ==
  ASSUME IInv, NEW r \in Requests, Finish(r), UNCHANGED <<row, notes, merges>>
  PROVE  IInv'
<1>1. row' = row /\ notes' = notes /\ merges' = merges
  OBVIOUS
<1>2. /\ row' \in [Intents -> Rows]
      /\ notes' \in [Intents -> Seq(Notes \cup {"intent-created", "intents-merged"})]
      /\ merges' = [c \in Commands |-> merges'[c]]
      /\ \A c \in Commands : merges'[c] # None => MergeOK(merges'[c])
  BY <1>1 DEF IInv, TypeOK
<1>3. Linked'
  BY <1>1 DEF IInv, Linked
<1>4. MergedAsSeen' /\ MergesFormForest'
  BY <1>1, MergesKept DEF IInv
<1>5. Tables'
  BY <1>2, <1>3, <1>4 DEF Tables
<1> QED  BY <1>1, <1>5, EndingStep

\* create inserts a row only where there is none (ON CONFLICT DO NOTHING).
LEMMA CreateStep == ASSUME IInv, NEW r \in Requests, Create(r) PROVE IInv'
<1> DEFINE i == req[r].id
<1>1. i \in Intents /\ Finish(r) /\ merges' = merges
  BY DEF IInv, Create, Writes, Shaped
<1>2. CASE row[i] # Absent
  BY <1>1, <1>2, QuietEnd DEF Create
<1>3. CASE row[i] = Absent
  <2>1. /\ row' = [row EXCEPT ![i] = Fresh]
        /\ notes' = [notes EXCEPT ![i] = <<"intent-created">>]
    BY <1>3 DEF Create
  <2>2. Fresh \in Rows
    BY ActiveAssumption DEF Fresh, Rows, Stored, States
  <2>3. row' \in [Intents -> Rows]
    BY <1>1, <2>1, <2>2 DEF IInv, TypeOK
  <2>4. notes' \in [Intents -> Seq(Notes \cup {"intent-created", "intents-merged"})]
    <3>1. <<"intent-created">> \in Seq(Notes \cup {"intent-created", "intents-merged"})
      OBVIOUS
    <3> QED  BY <1>1, <2>1, <3>1 DEF IInv, TypeOK
  <2>5. /\ \A j \in Intents : row'[j].into = row[j].into
        /\ \A j \in Intents : row[j].state = "merged" => row'[j] = row[j]
    BY <1>1, <1>3, <2>1 DEF IInv, TypeOK, Absent, Fresh
  <2>6. Linked'
    BY <1>1, <1>3, <2>1 DEF IInv, TypeOK, Linked, Absent, Fresh
  <2>7. MergedAsSeen' /\ MergesFormForest'
    BY <1>1, <2>5, MergesKept DEF IInv
  <2>8. Tables'
    BY <1>1, <2>3, <2>4, <2>6, <2>7 DEF Tables, IInv, TypeOK
  <2>9. \A j \in Intents : row'[j] # row[j] => row'[j] # Absent /\ row[j] = Absent
    BY <1>1, <1>3, <2>1 DEF IInv, TypeOK, Fresh, Absent
  <2> QED  BY <1>1, <2>8, <2>9, EndingStep
<1> QED  BY <1>2, <1>3

\* update, archive, restore and tombstone write only an open row that nobody has locked.
LEMMA ChangeStep == ASSUME IInv, NEW r \in Requests, Change(r) PROVE IInv'
<1> DEFINE i == req[r].id
           op == req[r].op
<1>1. i \in Intents /\ op \in Changes /\ Free(r, i) /\ Finish(r) /\ UNCHANGED <<notes, merges>>
  BY DEF IInv, Change, Shaped
<1>2. CASE row' = row
  BY <1>1, <1>2, QuietEnd
<1>3. CASE row' # row
  <2>1. PICK new \in Results(op, row[i]) :
          row' = [row EXCEPT ![i] = [new EXCEPT !.version = @ + 1]]
    BY <1>3 DEF Change
  <2>2. Applies(op, row[i].state)
    BY <1>3 DEF Change
  <2>3. Open(row[i].state)
    BY <1>1, <2>2 DEF Applies, Archivable, Open, Changes
  <2>4. /\ row[i] \in Stored
        /\ row[i].state # "merged" /\ row[i].into = None
    BY <1>1, <2>3, ActiveAssumption DEF IInv, TypeOK, Rows, Absent, Open, Linked
  <2>5. /\ new \in Stored
        /\ new.state # "merged" /\ new.into = None
    <3>1. CASE op = "update"
      BY <2>1, <2>4, <3>1, ActiveAssumption DEF Results, Stored, States
    <3>2. CASE op = "archive"
      <4>1. row[i].state \in Active
        BY <2>2, <3>2 DEF Applies, Archivable
      <4> QED  BY <2>1, <2>4, <3>2, <4>1 DEF Results, Stored, States
    <3>3. CASE op = "restore"
      BY <2>1, <2>4, <3>3, ActiveAssumption DEF Results, Stored, States
    <3>4. CASE op = "delete"
      BY <2>1, <2>4, <3>4 DEF Results, Stored, States, Closed
    <3> QED  BY <1>1, <3>1, <3>2, <3>3, <3>4 DEF Changes
  <2> DEFINE put == [new EXCEPT !.version = @ + 1]
  <2>6. /\ put \in Stored
        /\ put.state # "merged" /\ put.into = None
    BY <2>5 DEF Stored
  <2>7. row'[i] = put /\ \A j \in Intents \ {i} : row'[j] = row[j]
    BY <1>1, <2>1 DEF IInv, TypeOK
  <2>8. row' \in [Intents -> Rows]
    BY <1>1, <2>1, <2>6 DEF IInv, TypeOK, Rows
  <2> HIDE DEF put
  <2>9. /\ \A j \in Intents : row'[j].into = row[j].into
        /\ \A j \in Intents : row[j].state = "merged" => row'[j] = row[j]
    BY <2>4, <2>6, <2>7
  <2>10. Linked'
    BY <2>6, <2>7 DEF IInv, Linked
  <2>11. MergedAsSeen' /\ MergesFormForest'
    BY <1>1, <2>9, MergesKept DEF IInv
  <2>12. Tables'
    BY <1>1, <2>8, <2>10, <2>11 DEF Tables, IInv, TypeOK
  <2>13. put # Absent
    BY <2>6, StoredExists
  <2> QED  BY <1>1, <2>7, <2>12, <2>13, EndingStep DEF Free
<1> QED  BY <1>2, <1>3

\* The two edits that append and merge make of a row.
LEMMA RowEdits ==
  ASSUME NEW x \in Stored, NEW t \in Intents
  PROVE  /\ [x EXCEPT !.version = @ + 1] \in Stored
         /\ [x EXCEPT !.version = @ + 1].state = x.state
         /\ [x EXCEPT !.version = @ + 1].into = x.into
         /\ MergedInto(x, t) \in Stored
<1>1. /\ x.state \in States /\ x.before \in Active \cup {None}
      /\ x.into \in Intents \cup {None} /\ x.version \in Nat \ {0}
  BY DEF Stored
<1>2. /\ [x EXCEPT !.version = @ + 1] \in Stored
      /\ [x EXCEPT !.version = @ + 1].state = x.state
      /\ [x EXCEPT !.version = @ + 1].into = x.into
  BY DEF Stored
<1>3. "merged" \in States /\ x.version + 1 \in Nat \ {0}
  BY <1>1 DEF States, Closed
<1>4. MergedInto(x, t) \in Stored
  BY <1>1, <1>3 DEF MergedInto, Stored
<1> QED  BY <1>2, <1>4

\* append writes to the row it has locked, which was open and still is.
LEMMA AppendStep == ASSUME IInv, NEW r \in Requests, AppendNote(r) PROVE IInv'
<1> DEFINE i == req[r].id
<1>1. /\ i \in Intents /\ Finish(r) /\ merges' = merges /\ req[r].note \in Notes
      /\ req[r].op = "append" /\ i \in DOMAIN req[r].read
  BY DEF IInv, AppendNote, Writes, Shaped
<1>2. lock[i] = r /\ Open(row[i].state)
  BY <1>1 DEF IInv, Held
<1>3. CASE Recorded(req[r].note)
  BY <1>1, <1>3, QuietEnd DEF AppendNote
<1>4. CASE ~Recorded(req[r].note)
  <2>1. /\ row' = [row EXCEPT ![i].version = @ + 1]
        /\ notes' = [notes EXCEPT ![i] = Append(@, req[r].note)]
    BY <1>4 DEF AppendNote
  <2>2. /\ row[i] \in Stored
        /\ row[i].state # "merged"
    BY <1>1, <1>2, ActiveAssumption DEF IInv, TypeOK, Rows, Absent, Open
  <2>3. /\ row'[i] \in Stored
        /\ row'[i].state = row[i].state /\ row'[i].into = row[i].into
        /\ \A j \in Intents \ {i} : row'[j] = row[j]
        /\ row' = [j \in Intents |-> row'[j]]
    <3>1. row'[i] = [row[i] EXCEPT !.version = @ + 1]
      BY <1>1, <2>1 DEF IInv, TypeOK
    <3>2. /\ \A j \in Intents \ {i} : row'[j] = row[j]
          /\ row' = [j \in Intents |-> row'[j]]
      BY <1>1, <2>1 DEF IInv, TypeOK
    <3> QED  BY <1>1, <2>2, <3>1, <3>2, RowEdits
  <2>4. row' \in [Intents -> Rows]
    BY <1>1, <2>3 DEF IInv, TypeOK, Rows
  <2>5. notes' \in [Intents -> Seq(Notes \cup {"intent-created", "intents-merged"})]
    <3>1. Append(notes[i], req[r].note) \in Seq(Notes \cup {"intent-created", "intents-merged"})
      BY <1>1 DEF IInv, TypeOK
    <3> QED  BY <1>1, <2>1, <3>1 DEF IInv, TypeOK
  <2>6. Linked'
    BY <2>3 DEF IInv, Linked
  <2>7. MergedAsSeen' /\ MergesFormForest'
    BY <1>1, <2>2, <2>3, MergesKept DEF IInv
  <2>8. Tables'
    BY <1>1, <2>4, <2>5, <2>6, <2>7 DEF Tables, IInv, TypeOK
  <2>9. row'[i] # Absent
    BY <2>3, StoredExists
  <2> QED  BY <1>1, <1>2, <2>3, <2>8, <2>9, EndingStep
<1> QED  BY <1>3, <1>4

\* A merge: the target is open, so it points nowhere; every set of intents then has a member
\* that points outside, the target when it belongs to the set, a source when only sources do.
LEMMA MergeStep == ASSUME IInv, NEW r \in Requests, Merge(r) PROVE IInv'
<1> DEFINE t == req[r].id
           body == [target |-> t, seen |-> req[r].seen]
           Src == DOMAIN req[r].seen \ {t}
<1>1. /\ Finish(r) /\ req[r].op = "merge" /\ req[r].pc = "write"
      /\ t \in DOMAIN req[r].seen /\ req[r].cmd \in Commands
      /\ DOMAIN req[r].read = DOMAIN req[r].seen
  BY DEF IInv, Merge, Writes, Shaped
<1>2. /\ DOMAIN req[r].seen \subseteq Intents
      /\ req[r].seen \in [DOMAIN req[r].seen -> Nat]
  BY DEF IInv, TypeOK, RequestOK, Partial
<1>3. Sources(body) = Src
  BY DEF Sources
<1>4. CASE ~(Agreed(r) /\ Unique(r))
  BY <1>1, <1>4, QuietEnd DEF Merge
<1>5. CASE Agreed(r) /\ Unique(r)
  <2>1. /\ merges' = [merges EXCEPT ![req[r].cmd] = body]
        /\ row' = [i \in Intents |->
             IF i \in Src
               THEN MergedInto(row[i], t)
               ELSE IF i = t THEN [row[i] EXCEPT !.version = @ + 1] ELSE row[i]]
        /\ notes' = [notes EXCEPT ![t] = Append(@, "intents-merged")]
    BY <1>3, <1>5 DEF Merge
  <2>2. \A i \in DOMAIN req[r].seen :
          /\ lock[i] = r /\ Open(row[i].state) /\ row[i].version = req[r].seen[i]
          /\ row[i] \in Stored
          /\ row[i].state # "merged" /\ row[i].into = None
    <3> SUFFICES ASSUME NEW i \in DOMAIN req[r].seen
                 PROVE  /\ lock[i] = r /\ Open(row[i].state) /\ row[i].version = req[r].seen[i]
                        /\ row[i] \in Stored
                        /\ row[i].state # "merged" /\ row[i].into = None
      OBVIOUS
    <3>1. i \in DOMAIN req[r].read /\ i \in Intents
      BY <1>1, <1>2
    <3>2. lock[i] = r /\ row[i] = req[r].read[i] /\ row[i] # Absent
      BY <3>1 DEF IInv, Held
    <3>3. Open(row[i].state) /\ row[i].version = req[r].seen[i]
      BY <1>5, <3>2 DEF Agreed
    <3>4. row[i].state # "merged"
      BY <3>3, ActiveAssumption DEF Open
    <3> QED  BY <3>1, <3>2, <3>3, <3>4 DEF IInv, TypeOK, Rows, Linked
  <2>3. \A i \in Src :
          /\ row'[i] \in Stored
          /\ row'[i].state = "merged" /\ row'[i].into = t
          /\ row'[i].version = req[r].seen[i] + 1
    <3> SUFFICES ASSUME NEW i \in Src
                 PROVE  /\ row'[i] \in Stored
                        /\ row'[i].state = "merged" /\ row'[i].into = t
                        /\ row'[i].version = req[r].seen[i] + 1
      OBVIOUS
    <3>1. i \in Intents /\ t \in Intents /\ row[i] \in Stored /\ row[i].version = req[r].seen[i]
      BY <1>1, <1>2, <2>2
    <3>2. row'[i] = MergedInto(row[i], t)
      BY <2>1, <3>1
    <3>3. row'[i] \in Stored
      BY <3>1, <3>2, RowEdits
    <3>4. /\ row'[i].state = "merged" /\ row'[i].into = t
          /\ row'[i].version = row[i].version + 1
      BY <3>2 DEF MergedInto
    <3> QED  BY <3>1, <3>3, <3>4
  <2>4. /\ row'[t] \in Stored
        /\ row'[t].state = row[t].state /\ row'[t].into = None
    <3>1. t \in Intents /\ row[t] \in Stored /\ row[t].into = None
      BY <1>1, <1>2, <2>2
    <3>2. row'[t] = [row[t] EXCEPT !.version = @ + 1]
      BY <2>1, <3>1
    <3> QED  BY <3>1, <3>2, RowEdits
  <2>5. \A i \in Intents \ DOMAIN req[r].seen : row'[i] = row[i]
    BY <1>1, <1>2, <2>1
  <2>6. row' \in [Intents -> Rows]
    <3>1. \A i \in Intents : row'[i] \in Rows
      BY <2>3, <2>4, <2>5 DEF IInv, TypeOK, Rows
    <3>2. row' = [i \in Intents |-> row'[i]]
      BY <2>1
    <3> QED  BY <3>1, <3>2
  <2>7. notes' \in [Intents -> Seq(Notes \cup {"intent-created", "intents-merged"})]
    <3>1. t \in Intents
      BY <1>1, <1>2
    <3>2. Append(notes[t], "intents-merged") \in Seq(Notes \cup {"intent-created", "intents-merged"})
      BY <3>1 DEF IInv, TypeOK
    <3> QED  BY <2>1, <3>1, <3>2 DEF IInv, TypeOK
  <2>8. /\ merges' = [c \in Commands |-> merges'[c]]
        /\ merges'[req[r].cmd] = body
        /\ \A c \in Commands \ {req[r].cmd} : merges'[c] = merges[c]
    BY <1>1, <2>1 DEF IInv, TypeOK
  <2>9. MergeOK(body)
    BY <1>1, <1>2 DEF MergeOK, Partial
  <2>10. \A c \in Commands : merges'[c] # None => MergeOK(merges'[c])
    BY <2>8, <2>9 DEF IInv, TypeOK
  <2>11. Linked'
    <3> SUFFICES ASSUME NEW i \in Intents PROVE row'[i].into # None <=> row'[i].state = "merged"
      BY DEF Linked
    <3>1. t \in Intents /\ t # None
      BY <1>1, <1>2, NoneAssumption
    <3>2. CASE i \in Src
      BY <2>3, <3>1, <3>2
    <3>3. CASE i = t
      BY <1>1, <2>2, <2>4, <3>3
    <3>4. CASE i \notin DOMAIN req[r].seen
      BY <2>5, <3>4 DEF IInv, Linked
    <3> QED  BY <3>2, <3>3, <3>4
  <2>12. MergedAsSeen'
    <3> SUFFICES ASSUME NEW c \in Commands, merges'[c] # None, NEW i \in Sources(merges'[c])
                 PROVE  /\ row'[i].into = merges'[c].target
                        /\ row'[i].version = merges'[c].seen[i] + 1
      BY DEF MergedAsSeen, Sources
    <3>1. CASE c = req[r].cmd
      <4>1. i \in Src /\ merges'[c] = body
        BY <1>3, <2>8, <3>1
      <4> QED  BY <2>3, <4>1
    <3>2. CASE c # req[r].cmd
      <4>1. merges'[c] = merges[c] /\ merges[c] # None /\ i \in Sources(merges[c])
        BY <2>8, <3>2 DEF Sources
      <4>2. i \in Intents /\ merges[c].target \in Intents
        BY <4>1 DEF IInv, TypeOK, MergeOK, Partial, Sources
      <4>3. /\ row[i].into = merges[c].target
            /\ row[i].version = merges[c].seen[i] + 1
        BY <4>1 DEF IInv, MergedAsSeen
      <4>4. i \notin DOMAIN req[r].seen
        BY <2>2, <4>2, <4>3, NoneAssumption
      <4> QED  BY <2>5, <4>1, <4>2, <4>3, <4>4
    <3> QED  BY <3>1, <3>2
  <2>13. MergesFormForest'
    <3> SUFFICES ASSUME NEW S \in SUBSET Intents, S # {}
                 PROVE  \E i \in S : row'[i].into \notin S
      BY DEF MergesFormForest
    <3>1. CASE t \in S
      BY <1>2, <2>4, <3>1, NoneAssumption
    <3>2. CASE t \notin S /\ S \cap Src # {}
      BY <2>3, <3>2
    <3>3. CASE t \notin S /\ S \cap Src = {}
      <4>1. \A i \in S : row'[i] = row[i]
        BY <2>5, <3>3
      <4> QED  BY <4>1 DEF IInv, MergesFormForest
    <3> QED  BY <3>1, <3>2, <3>3
  <2>14. Tables'
    BY <2>6, <2>7, <2>8, <2>10, <2>11, <2>12, <2>13 DEF Tables
  <2>15. \A i \in Intents : row'[i] # row[i] => row'[i] # Absent /\ lock[i] = r
    BY <1>1, <2>2, <2>3, <2>4, <2>5, StoredExists
  <2> QED  BY <1>1, <2>14, <2>15, EndingStep
<1> QED  BY <1>4, <1>5

------------------------------------------------------------------------------
(* Steps that go on *)

\* A step that changes only one request and locks only free rows for it keeps the invariant
\* when the request stays well formed and holds what it has read.
LEMMA GoingStep ==
  ASSUME IInv, NEW r \in Requests, UNCHANGED <<row, notes, merges>>,
         NEW q, req' = [req EXCEPT ![r] = q], RequestOK(q), Shaped(q),
         lock' \in [Intents -> Requests \cup {None}],
         \A i \in Intents : \A s \in Requests \ {r} : lock[i] = s => lock'[i] = s,
         \A i \in DOMAIN q.read : /\ lock'[i] = r /\ row[i] = q.read[i] /\ row[i] # Absent
                                  /\ q.op = "append" => Open(row[i].state),
         q.op = "merge" /\ q.pc # "prior" => \A i \in DOMAIN q.seen : row[i] # Absent,
         issued' \in 0 .. MaxRequests
  PROVE  IInv'
<1>1. /\ req'[r] = q /\ \A s \in Requests \ {r} : req'[s] = req[s]
      /\ req' = [s \in Requests |-> req'[s]]
  BY DEF IInv, TypeOK
<1>2. \A s \in Requests : RequestOK(req'[s]) /\ Shaped(req'[s])
  BY <1>1 DEF IInv, TypeOK
<1>3. TypeOK'
  BY <1>1, <1>2 DEF IInv, TypeOK
<1>4. \A s \in Requests : Shaped(req[s])'
  BY <1>2
<1>5. \A s \in Requests \ {r} : Held(s)' /\ Found(s)'
  BY <1>1, OthersHold DEF IInv
<1>6. Held(r)'
  <2> SUFFICES ASSUME NEW i \in DOMAIN q.read
               PROVE  /\ lock'[i] = r /\ row'[i] = q.read[i] /\ row'[i] # Absent
                      /\ q.op = "append" => Open(row'[i].state)
    BY <1>1 DEF Held
  <2>1. row' = row
    OBVIOUS
  <2> QED  BY <2>1
<1>7. Found(r)'
  BY <1>1 DEF Found
<1>8. Linked' /\ MergedAsSeen' /\ MergesFormForest'
  BY DEF IInv, Linked, MergedAsSeen, MergesFormForest, Sources
<1> QED  BY <1>3, <1>4, <1>5, <1>6, <1>7, <1>8 DEF IInv

\* An arriving request holds nothing and is well formed.
LEMMA RequestStep == ASSUME IInv, NEW r \in Requests, Request(r) PROVE IInv'
<1>1. SUFFICES ASSUME NEW q, Arrive(r, q), RequestOK(q), Shaped(q), DOMAIN q.read = {},
                      q.op = "merge" => q.pc = "prior"
               PROVE  IInv'
  <2>1. PICK i \in Intents :
          \/ Arrive(r, [Idle EXCEPT !.op = "create", !.pc = "write", !.id = i])
          \/ \E n \in Notes :
               Arrive(r, [Idle EXCEPT !.op = "append", !.pc = "lock", !.id = i, !.note = n,
                                      !.want = i])
          \/ \E op \in Changes, f \in Seen({i}) :
               Arrive(r, [Idle EXCEPT !.op = op, !.pc = "write", !.id = i, !.seen = f])
          \/ \E c \in Commands, S \in (SUBSET (Intents \ {i})) \ {{}} : \E f \in Seen(S \cup {i}) :
               Arrive(r, [Idle EXCEPT !.op = "merge", !.pc = "prior", !.id = i, !.cmd = c,
                                      !.seen = f])
    BY DEF Request
  <2>2. ASSUME NEW S \in SUBSET Intents, NEW f \in Seen(S)
        PROVE  Partial(f, Nat) /\ DOMAIN f = S
    BY DEF Seen, Partial, IInv, TypeOK
  <2>3. CASE Arrive(r, [Idle EXCEPT !.op = "create", !.pc = "write", !.id = i])
    <3> DEFINE q == [Idle EXCEPT !.op = "create", !.pc = "write", !.id = i]
    <3>1. RequestOK(q) /\ Shaped(q) /\ DOMAIN q.read = {} /\ (q.op = "merge" => q.pc = "prior")
      BY DEF RequestOK, Shaped, Idle, Partial, Changes
    <3> QED  BY <1>1, <2>3, <3>1
  <2>4. ASSUME NEW n \in Notes,
               Arrive(r, [Idle EXCEPT !.op = "append", !.pc = "lock", !.id = i, !.note = n,
                                      !.want = i])
        PROVE  IInv'
    <3> DEFINE q == [Idle EXCEPT !.op = "append", !.pc = "lock", !.id = i, !.note = n, !.want = i]
    <3>1. RequestOK(q) /\ Shaped(q) /\ DOMAIN q.read = {} /\ (q.op = "merge" => q.pc = "prior")
      BY DEF RequestOK, Shaped, Idle, Partial, Changes
    <3> QED  BY <1>1, <2>4, <3>1
  <2>5. ASSUME NEW op \in Changes, NEW f \in Seen({i}),
               Arrive(r, [Idle EXCEPT !.op = op, !.pc = "write", !.id = i, !.seen = f])
        PROVE  IInv'
    <3> DEFINE q == [Idle EXCEPT !.op = op, !.pc = "write", !.id = i, !.seen = f]
    <3>1. Partial(f, Nat)
      BY <2>2
    <3>2. RequestOK(q) /\ Shaped(q) /\ DOMAIN q.read = {} /\ (q.op = "merge" => q.pc = "prior")
      BY <3>1 DEF RequestOK, Shaped, Idle, Partial, Changes
    <3> QED  BY <1>1, <2>5, <3>2
  <2>6. ASSUME NEW c \in Commands, NEW S \in (SUBSET (Intents \ {i})) \ {{}},
               NEW f \in Seen(S \cup {i}),
               Arrive(r, [Idle EXCEPT !.op = "merge", !.pc = "prior", !.id = i, !.cmd = c,
                                      !.seen = f])
        PROVE  IInv'
    <3> DEFINE q == [Idle EXCEPT !.op = "merge", !.pc = "prior", !.id = i, !.cmd = c, !.seen = f]
    <3>1. Partial(f, Nat) /\ i \in DOMAIN f
      BY <2>2
    <3>2. RequestOK(q) /\ Shaped(q) /\ DOMAIN q.read = {} /\ (q.op = "merge" => q.pc = "prior")
      BY <3>1 DEF RequestOK, Shaped, Idle, Partial, Changes
    <3> QED  BY <1>1, <2>6, <3>2
  <2> QED  BY <2>1, <2>3, <2>4, <2>5, <2>6
<1>2. /\ UNCHANGED <<row, notes, merges, lock>> /\ req' = [req EXCEPT ![r] = q]
      /\ issued' \in 0 .. MaxRequests
  BY <1>1, IntentBounds DEF Arrive, IInv, TypeOK
<1> QED  BY <1>1, <1>2, GoingStep DEF IInv, TypeOK

\* A merge that goes on to its locks has found every row.
LEMMA PriorStep == ASSUME IInv, NEW r \in Requests, Prior(r) PROVE IInv'
<1>1. CASE Finish(r)
  BY <1>1, QuietEnd DEF Prior
<1>2. CASE ~Finish(r)
  <2>1. PICK i \in DOMAIN req[r].seen : req' = [req EXCEPT ![r].pc = "lock", ![r].want = i]
    BY <1>2 DEF Prior
  <2>2. UNCHANGED <<row, notes, merges, lock, issued>> /\ req[r].pc = "prior"
    BY <1>2 DEF Prior
  <2> DEFINE q == [req[r] EXCEPT !.pc = "lock", !.want = i]
  <2>3. req' = [req EXCEPT ![r] = q]
    BY <2>1 DEF IInv, TypeOK
  <2>4. RequestOK(req[r]) /\ Shaped(req[r]) /\ req[r].op = "merge" /\ DOMAIN req[r].read = {}
    BY <2>2 DEF IInv, TypeOK, Shaped
  <2>5. i \in Intents /\ \A j \in DOMAIN req[r].seen : row[j] # Absent
    BY <1>2, <2>4 DEF RequestOK, Partial, Prior
  <2>6. /\ q.op = "merge" /\ q.pc = "lock" /\ q.want = i /\ q.id = req[r].id
        /\ q.cmd = req[r].cmd /\ q.seen = req[r].seen /\ q.read = req[r].read
    BY <2>4 DEF RequestOK
  <2>7. RequestOK(q)
    BY <2>4, <2>5 DEF RequestOK
  <2> HIDE DEF q
  <2>8. Shaped(q)
    BY <2>4, <2>5, <2>6 DEF Shaped, Changes
  <2> QED  BY <2>2, <2>3, <2>4, <2>5, <2>6, <2>7, <2>8, GoingStep DEF IInv, TypeOK
<1> QED  BY <1>1, <1>2

\* SELECT ... FOR UPDATE reads a row that nobody else has locked, and keeps it locked.
LEMMA LockStep == ASSUME IInv, NEW r \in Requests, Lock(r) PROVE IInv'
<1> DEFINE i == req[r].want
           got == [j \in DOMAIN req[r].read \cup {i} |->
                     IF j = i THEN row[i] ELSE req[r].read[j]]
<1>1. CASE Finish(r)
  BY <1>1, QuietEnd DEF Lock
<1>2. CASE ~Finish(r)
  <2>1. /\ req[r].pc = "lock" /\ Free(r, i) /\ Selected(r, row[i].state)
        /\ lock' = [lock EXCEPT ![i] = r] /\ UNCHANGED <<row, notes, merges, issued>>
        /\ \/ /\ Rest(r) = {}
              /\ req' = [req EXCEPT ![r].pc = "write", ![r].want = None, ![r].read = got]
           \/ \E j \in Rest(r) : req' = [req EXCEPT ![r].want = j, ![r].read = got]
    BY <1>2 DEF Lock
  <2>2. i \in Intents /\ req[r].op \in {"append", "merge"}
    BY <2>1 DEF IInv, Shaped
  <2>3. /\ lock' \in [Intents -> Requests \cup {None}]
        /\ \A j \in Intents : \A s \in Requests \ {r} : lock[j] = s => lock'[j] = s
        /\ lock'[i] = r /\ \A j \in Intents \ {i} : lock'[j] = lock[j]
    BY <2>1, <2>2, NoneAssumption DEF IInv, TypeOK, Free
  <2>4. Partial(got, Rows) /\ DOMAIN got = DOMAIN req[r].read \cup {i}
    BY <2>2 DEF IInv, TypeOK, RequestOK, Partial
  <2>5. row[i] # Absent /\ (req[r].op = "append" => Open(row[i].state))
    <3>1. CASE req[r].op = "append"
      BY <2>1, <3>1, ActiveAssumption DEF Selected, Open, Absent
    <3>2. CASE req[r].op = "merge"
      BY <2>1, <3>2 DEF IInv, Found, Shaped
    <3> QED  BY <2>2, <3>1, <3>2
  <2>6. \A j \in DOMAIN got : /\ lock'[j] = r /\ row[j] = got[j] /\ row[j] # Absent
                              /\ req[r].op = "append" => Open(row[j].state)
    <3> SUFFICES ASSUME NEW j \in DOMAIN got
                 PROVE  /\ lock'[j] = r /\ row[j] = got[j] /\ row[j] # Absent
                        /\ req[r].op = "append" => Open(row[j].state)
      OBVIOUS
    <3>1. CASE j = i
      BY <2>3, <2>5, <3>1
    <3>2. CASE j # i
      <4>1. j \in DOMAIN req[r].read /\ got[j] = req[r].read[j] /\ j \in Intents
        BY <2>4, <3>2 DEF Partial
      <4> QED  BY <2>3, <3>2, <4>1 DEF IInv, Held
    <3> QED  BY <3>1, <3>2
  <2> HIDE DEF got
  <2>7. RequestOK(req[r]) /\ Shaped(req[r])
    BY DEF IInv, TypeOK
  <2>8. req[r].op = "merge" => \A j \in DOMAIN req[r].seen : row[j] # Absent
    BY <2>1 DEF IInv, Found
  <2>9. CASE /\ Rest(r) = {}
             /\ req' = [req EXCEPT ![r].pc = "write", ![r].want = None, ![r].read = got]
    <3> DEFINE q == [req[r] EXCEPT !.pc = "write", !.want = None, !.read = got]
    <3>1. req' = [req EXCEPT ![r] = q]
      BY <2>9 DEF IInv, TypeOK
    <3>2. /\ q.op = req[r].op /\ q.pc = "write" /\ q.id = req[r].id /\ q.note = req[r].note
          /\ q.cmd = req[r].cmd /\ q.seen = req[r].seen /\ q.read = got
      BY <2>7 DEF RequestOK
    <3>3. RequestOK(q)
      BY <2>4, <2>7 DEF RequestOK
    <3> HIDE DEF q
    <3>4. Shaped(q)
      BY <2>1, <2>2, <2>4, <2>7, <2>9, <3>2 DEF Shaped, Rest, Changes
    <3>5. /\ \A k \in DOMAIN q.read : /\ lock'[k] = r /\ row[k] = q.read[k] /\ row[k] # Absent
                                      /\ q.op = "append" => Open(row[k].state)
          /\ q.op = "merge" /\ q.pc # "prior" => \A k \in DOMAIN q.seen : row[k] # Absent
          /\ UNCHANGED <<row, notes, merges>> /\ issued' \in 0 .. MaxRequests
      BY <2>1, <2>6, <2>8, <3>2 DEF IInv, TypeOK
    <3> QED  BY <2>3, <3>1, <3>3, <3>4, <3>5, GoingStep
  <2>10. ASSUME NEW j \in Rest(r), req' = [req EXCEPT ![r].want = j, ![r].read = got]
         PROVE  IInv'
    <3> DEFINE q == [req[r] EXCEPT !.want = j, !.read = got]
    <3>1. req' = [req EXCEPT ![r] = q]
      BY <2>10 DEF IInv, TypeOK
    <3>2. /\ q.op = req[r].op /\ q.pc = "lock" /\ q.id = req[r].id /\ q.note = req[r].note
          /\ q.cmd = req[r].cmd /\ q.seen = req[r].seen /\ q.read = got /\ q.want = j
      BY <2>1, <2>7 DEF RequestOK
    <3>3. j \in DOMAIN req[r].seen /\ j \in Intents /\ req[r].op = "merge"
      BY <2>1, <2>2, <2>7 DEF Rest, RequestOK, Partial, Shaped
    <3>4. RequestOK(q)
      BY <2>4, <2>7, <3>3 DEF RequestOK
    <3> HIDE DEF q
    <3>5. Shaped(q)
      BY <2>1, <2>2, <2>4, <2>7, <3>2, <3>3 DEF Shaped, Changes
    <3>6. /\ \A k \in DOMAIN q.read : /\ lock'[k] = r /\ row[k] = q.read[k] /\ row[k] # Absent
                                      /\ q.op = "append" => Open(row[k].state)
          /\ q.op = "merge" /\ q.pc # "prior" => \A k \in DOMAIN q.seen : row[k] # Absent
          /\ UNCHANGED <<row, notes, merges>> /\ issued' \in 0 .. MaxRequests
      BY <2>1, <2>6, <2>8, <3>2 DEF IInv, TypeOK
    <3> QED  BY <2>3, <3>1, <3>4, <3>5, <3>6, GoingStep
  <2> QED  BY <2>1, <2>9, <2>10
<1> QED  BY <1>1, <1>2

------------------------------------------------------------------------------
(* Theorems *)

\* The invariant holds before any request: no intent is merged and nobody holds a lock.
LEMMA InitIInv == Init => IInv
<1> SUFFICES ASSUME Init PROVE IInv
  OBVIOUS
<1>1. Absent \in Rows /\ Fresh \in Rows
  BY ActiveAssumption DEF Fresh, Rows, Stored, States
<1>2. row \in [Intents -> Rows] /\ \A i \in Intents : row[i].into = None /\ row[i].state # "merged"
  BY <1>1 DEF Init, Fresh, Absent
<1>3. notes \in [Intents -> Seq(Notes \cup {"intent-created", "intents-merged"})]
  <2>1. /\ <<"intent-created">> \in Seq(Notes \cup {"intent-created", "intents-merged"})
        /\ << >> \in Seq(Notes \cup {"intent-created", "intents-merged"})
    OBVIOUS
  <2> QED  BY <2>1 DEF Init
<1>4. \A r \in Requests : req[r] = Idle
  BY DEF Init
<1>5. TypeOK
  BY <1>2, <1>3, <1>4, IdleOK, IntentBounds DEF Init, TypeOK
<1>6. \A r \in Requests : Shaped(req[r]) /\ Held(r) /\ Found(r)
  BY <1>4, IdleOK DEF Held, Found, Idle
<1>7. Linked /\ MergedAsSeen
  BY <1>2 DEF Init, Linked, MergedAsSeen
<1>8. MergesFormForest
  BY <1>2, NoneAssumption DEF MergesFormForest
<1> QED  BY <1>5, <1>6, <1>7, <1>8 DEF IInv

\* Every step of every request keeps the invariant.
LEMMA NextIInv == IInv /\ [Next]_vars => IInv'
<1> SUFFICES ASSUME IInv, [Next]_vars PROVE IInv'
  OBVIOUS
<1>1. CASE UNCHANGED vars
  BY <1>1 DEF vars, IInv, TypeOK, Held, Found, Linked, MergedAsSeen, MergesFormForest
<1>2. ASSUME NEW r \in Requests, Fails(r) PROVE IInv'
  BY <1>2, QuietEnd DEF Fails
<1> QED  BY <1>1, <1>2, RequestStep, CreateStep, ChangeStep, PriorStep, LockStep, AppendStep,
            MergeStep DEF Next

\* Every reachable state satisfies the invariant.
THEOREM InvariantHolds == Spec => []IInv
  BY InitIInv, NextIInv, PTL DEF Spec

\* The column checks of 0001_intents.sql are never what stops a statement of store.ts: an
\* archived intent always remembers an active state, a version is positive.
THEOREM TypeCorrect == Spec => []TypeOK
<1>1. IInv => TypeOK
  BY DEF IInv
<1> QED  BY <1>1, InvariantHolds, PTL

\* Whatever merges cross and whichever of them fail, merged intents form a forest.
THEOREM MergesForest == Spec => []MergesFormForest
<1>1. IInv => MergesFormForest
  BY DEF IInv
<1> QED  BY <1>1, InvariantHolds, PTL

\* What merge() folded into a target is exactly what its client saw.
THEOREM MergedSeen == Spec => []MergedAsSeen
<1>1. IInv => MergedAsSeen
  BY DEF IInv
<1> QED  BY <1>1, InvariantHolds, PTL

\* No step writes to a merged or a deleted intent.
LEMMA ClosedStep ==
  ASSUME IInv, Next, NEW i \in Intents, row[i].state \in Closed
  PROVE  row'[i] = row[i] /\ notes'[i] = notes[i]
<1>1. row[i] # Absent /\ ~Open(row[i].state)
  BY ActiveAssumption DEF Closed, Open, Absent
<1>2. PICK r \in Requests : \/ Request(r) \/ Create(r) \/ Change(r) \/ Prior(r) \/ Lock(r)
                           \/ AppendNote(r) \/ Merge(r) \/ Fails(r)
  BY DEF Next
<1>3. CASE Request(r) \/ Prior(r) \/ Lock(r) \/ Fails(r)
  BY <1>3 DEF Request, Arrive, Prior, Lock, Fails
<1>4. CASE Create(r)
  BY <1>1, <1>4 DEF Create, IInv, TypeOK
<1>5. CASE Change(r)
  <2>1. notes' = notes /\ req[r].op \in Changes
    BY <1>5 DEF Change
  <2>2. CASE row' = row
    BY <2>1, <2>2
  <2>3. CASE row' # row
    <3>1. PICK new : row' = [row EXCEPT ![req[r].id] = new]
      BY <1>5, <2>3 DEF Change
    <3>2. Open(row[req[r].id].state)
      BY <1>5, <2>1, <2>3 DEF Change, Applies, Archivable, Open, Changes
    <3> QED  BY <1>1, <2>1, <3>1, <3>2 DEF IInv, TypeOK
  <2> QED  BY <2>2, <2>3
<1>6. CASE AppendNote(r)
  <2>1. Open(row[req[r].id].state)
    BY <1>6 DEF IInv, AppendNote, Writes, Shaped, Held
  <2> QED  BY <1>1, <1>6, <2>1 DEF AppendNote, IInv, TypeOK
<1>7. CASE Merge(r)
  <2>1. CASE ~(Agreed(r) /\ Unique(r))
    BY <1>7, <2>1 DEF Merge
  <2>2. CASE Agreed(r) /\ Unique(r)
    <3>1. req[r].id \in DOMAIN req[r].seen /\ DOMAIN req[r].read = DOMAIN req[r].seen
      BY <1>7 DEF IInv, Merge, Writes, Shaped
    <3>2. \A j \in DOMAIN req[r].seen : Open(row[j].state)
      BY <2>2, <3>1 DEF IInv, Held, Agreed
    <3>3. i \notin DOMAIN req[r].seen
      BY <1>1, <3>2
    <3>4. row'[i] = row[i]
      BY <1>7, <2>2, <3>1, <3>3 DEF Merge, Sources
    <3>5. notes' = [notes EXCEPT ![req[r].id] = Append(@, "intents-merged")]
      BY <1>7, <2>2 DEF Merge
    <3> QED  BY <3>1, <3>3, <3>4, <3>5 DEF IInv, TypeOK
  <2> QED  BY <2>1, <2>2
<1> QED  BY <1>2, <1>3, <1>4, <1>5, <1>6, <1>7

\* A request that read an intent open never writes to it after it was merged or deleted.
THEOREM ClosedFinal == Spec => ClosedIsFinal
<1>1. IInv /\ [Next]_vars =>
        [\A i \in Intents : row[i].state \in Closed => row'[i] = row[i] /\ notes'[i] = notes[i]]_vars
  BY ClosedStep
<1> QED  BY <1>1, InvariantHolds, PTL DEF Spec, ClosedIsFinal
=============================================================================
