----------------------- MODULE EntitlementOutboxProofs -----------------------
(***************************************************************************)
(* Safety of the outbox between checkout and the customer facade, for any  *)
(* number of orders, workers, attempts and faults.                         *)
(***************************************************************************)
EXTENDS EntitlementOutbox, TLAPS

\* A row has a lease owner only while it is being sent: a recorded outcome and a
\* postponement both clear lease_owner, so no late UPDATE matches them.
LeaseIsSending == \A k \in Kinds : outbox[k].owner # NoOne => outbox[k].status = "sending"

\* The answer a worker is about to acknowledge came from an applied event.
AnswerIsApplied ==
  \A w \in Workers : sender[w].pc = "answered" => sender[w].kind \in AppliedKinds

\* What is on its way to the facade was committed by checkout.
PostIsCommitted == \A w \in Workers, k \in Kinds : <<w, k>> \in posts => outbox[k].status # "absent"

\* The row of the name tells which events can have been enqueued; enqueueing another
\* one therefore never replaces a row.
NameTellsRows ==
  /\ name.status = "free" => outbox["granted"].status = "absent"
  /\ name.status # "revoked" => outbox["revoked"].status = "absent"

IInv ==
  /\ TypeOK /\ LeaseIsSending /\ AnswerIsApplied /\ PostIsCommitted /\ NameTellsRows
  /\ AppliedOnce /\ DeliveredIsApplied

------------------------------------------------------------------------------
(* Applying an event *)

\* Apply keeps the environment's history a sequence without repetitions, which holds
\* what it held before and the event.
LEMMA ApplyOnce ==
  ASSUME NEW k \in Kinds, applied \in Seq(Kinds), AppliedOnce, applied' = Apply(k)
  PROVE  /\ applied' \in Seq(Kinds)
         /\ AppliedOnce'
         /\ AppliedKinds' = AppliedKinds \cup {k}
<1>1. CASE k \in AppliedKinds
  BY <1>1 DEF Apply, AppliedOnce, AppliedKinds
<1>2. CASE k \notin AppliedKinds
  <2>1. applied' = Append(applied, k)
    BY <1>2 DEF Apply
  <2>2. /\ applied' \in Seq(Kinds)
        /\ Len(applied) \in Nat /\ Len(applied') = Len(applied) + 1
        /\ DOMAIN applied = 1 .. Len(applied) /\ DOMAIN applied' = 1 .. Len(applied')
        /\ \A i \in 1 .. Len(applied) : applied'[i] = applied[i]
        /\ applied'[Len(applied')] = k
    BY <2>1
  <2>3. \A i \in DOMAIN applied : applied[i] # k
    BY <1>2 DEF AppliedKinds
  <2>4. AppliedOnce'
    BY <2>2, <2>3 DEF AppliedOnce
  <2>5. AppliedKinds' = AppliedKinds \cup {k}
    <3>1. DOMAIN applied' = DOMAIN applied \cup {Len(applied')}
      BY <2>2
    <3> QED
      BY <2>2, <3>1 DEF AppliedKinds
  <2> QED
    BY <2>2, <2>4, <2>5
<1> QED
  BY <1>1, <1>2

------------------------------------------------------------------------------
(* One lemma per actor *)

\* The provider and the webhooks: a webhook enqueues an event that has no row yet.
LEMMA BuyingStep == ASSUME IInv, Buying PROVE IInv'
<1> USE DEF IInv, TypeOK
<1>1. ASSUME NEW o \in Orders, Pay(o) \/ Refund(o) PROVE IInv'
  BY <1>1 DEF Pay, Refund, LeaseIsSending, AnswerIsApplied, PostIsCommitted, NameTellsRows,
     AppliedOnce, DeliveredIsApplied, AppliedKinds
<1>2. ASSUME NEW k \in Kinds, Enqueue(k), outbox[k].status = "absent",
             name' \in [status : {"free", "owned", "revoked"}, order : Orders \cup {NoOne}],
             NameTellsRows', recorded' \subseteq Webhooks,
             UNCHANGED <<payments, sender, posts, applied, faults>>
      PROVE  IInv'
  <2>1. outbox' \in [Kinds -> Rows] /\ outbox'[k].owner = NoOne /\ outbox'[k].status = "pending"
    BY <1>2 DEF Enqueue, Absent, Rows
  <2>2. \A j \in Kinds \ {k} : outbox'[j] = outbox[j]
    BY <1>2 DEF Enqueue
  <2> QED
    BY <1>2, <2>1, <2>2 DEF LeaseIsSending, AnswerIsApplied, PostIsCommitted,
       AppliedOnce, DeliveredIsApplied, AppliedKinds
<1>3. ASSUME UNCHANGED <<name, outbox, payments, sender, posts, applied, faults>>,
             recorded' \subseteq Webhooks
      PROVE  IInv'
  BY <1>3 DEF LeaseIsSending, AnswerIsApplied, PostIsCommitted, NameTellsRows,
     AppliedOnce, DeliveredIsApplied, AppliedKinds
<1>4. ASSUME NEW o \in Orders, GrantFromEvent(o) PROVE IInv'
  <2>1. recorded' \subseteq Webhooks
    BY <1>4 DEF GrantFromEvent, Webhooks
  <2>2. CASE name.status = "free"
    <3>1. /\ name' = [status |-> "owned", order |-> o] /\ Enqueue("granted")
          /\ UNCHANGED <<payments, sender, posts, applied, faults>>
      BY <1>4, <2>2 DEF GrantFromEvent
    <3>2. outbox'["revoked"] = outbox["revoked"]
      BY <3>1 DEF Enqueue, Kinds
    <3>3. NameTellsRows'
      BY <2>2, <3>1, <3>2 DEF NameTellsRows
    <3> QED
      BY <1>2, <2>1, <2>2, <3>1, <3>3 DEF NameTellsRows, Kinds
  <2> QED
    BY <1>3, <1>4, <2>1, <2>2 DEF GrantFromEvent
<1>5. ASSUME NEW o \in Orders, NEW named \in BOOLEAN, RevokeFromEvent(o, named) PROVE IInv'
  <2>1. recorded' \subseteq Webhooks
    BY <1>5 DEF RevokeFromEvent, Webhooks
  <2>2. CASE name.status = "owned" /\ (named \/ name.order = o)
    <3>1. /\ name' = [name EXCEPT !.status = "revoked"] /\ Enqueue("revoked")
          /\ UNCHANGED <<payments, sender, posts, applied, faults>>
      BY <1>5, <2>2 DEF RevokeFromEvent
    <3>2. NameTellsRows'
      BY <3>1 DEF NameTellsRows
    <3> QED
      BY <1>2, <2>1, <2>2, <3>1, <3>2 DEF NameTellsRows, Kinds
  <2> QED
    BY <1>3, <1>5, <2>1, <2>2 DEF RevokeFromEvent
<1> QED
  BY <1>1, <1>4, <1>5 DEF Buying

\* A worker: claiming a row, and settling it while the lease is its own.
LEMMA WorkingStep == ASSUME IInv, NEW w \in Workers, Working(w) PROVE IInv'
<1> USE DEF IInv, TypeOK
<1>1. ASSUME NEW k \in Kinds, Claim(w, k) PROVE IInv'
  <2> DEFINE row == [outbox[k] EXCEPT !.status = "sending", !.attempts = @ + 1,
                                      !.owner = w, !.live = TRUE]
  <2>0. row \in Rows /\ row.status = "sending"
    <3>1. outbox[k] \in Rows
      OBVIOUS
    <3>2. outbox[k].attempts + 1 \in Nat
      BY <3>1 DEF Rows
    <3> QED
      BY <3>1, <3>2 DEF Rows
  <2>1. /\ outbox' \in [Kinds -> Rows] /\ outbox'[k].status = "sending"
        /\ \A j \in Kinds \ {k} : outbox'[j] = outbox[j]
    <3>1. outbox' = [outbox EXCEPT ![k] = row]
      BY <1>1 DEF Claim
    <3> HIDE DEF row
    <3> QED
      BY <2>0, <3>1
  <2>2. outbox[k].status # "absent"
    BY <1>1 DEF Claim, Claimable
  <2>3. /\ sender' \in [Workers -> Senders] /\ sender'[w].pc = "posting"
        /\ \A v \in Workers \ {w} : sender'[v] = sender[v]
    BY <1>1 DEF Claim, Senders, Rows
  <2>4. posts' = posts \cup {<<w, k>>} /\ UNCHANGED <<payments, recorded, name, applied, faults>>
    BY <1>1 DEF Claim, checkout
  <2>5. LeaseIsSending' /\ NameTellsRows'
    BY <2>1, <2>2, <2>4 DEF LeaseIsSending, NameTellsRows, Kinds
  <2>6. AnswerIsApplied' /\ AppliedOnce'
    BY <2>3, <2>4 DEF AnswerIsApplied, AppliedOnce, AppliedKinds
  <2>7. PostIsCommitted'
    BY <2>1, <2>4 DEF PostIsCommitted
  <2>8. DeliveredIsApplied'
    BY <2>1, <2>4 DEF DeliveredIsApplied, AppliedKinds
  <2> QED
    BY <2>1, <2>3, <2>4, <2>5, <2>6, <2>7, <2>8
<1>2. ASSUME NEW row \in Rows, Settle(w, row), row.owner = NoOne,
             row.status \in {"delivered", "pending", "dead"},
             row.status = "delivered" => sender[w].pc = "answered"
      PROVE  IInv'
  <2> DEFINE k == sender[w].kind
  <2>1. k \in Kinds
    BY DEF Senders
  <2>2. /\ outbox' \in [Kinds -> Rows]
        /\ \A j \in Kinds : outbox'[j] = outbox[j] \/ (j = k /\ outbox'[j] = row /\ Owns(w))
    BY <1>2, <2>1 DEF Settle
  <2>3. Owns(w) => outbox[k].status = "sending"
    BY <2>1, NoOneAssumption DEF Owns, LeaseIsSending
  <2>4. /\ sender' \in [Workers -> Senders] /\ sender'[w].pc = "idle"
        /\ \A v \in Workers \ {w} : sender'[v] = sender[v]
    BY <1>2 DEF Settle, Idle, Senders, Kinds
  <2>5. UNCHANGED <<payments, recorded, name, posts, applied, faults>>
    BY <1>2 DEF Settle, checkout
  <2> HIDE DEF k
  <2>6. LeaseIsSending' /\ NameTellsRows'
    BY <1>2, <2>2, <2>3, <2>5 DEF LeaseIsSending, NameTellsRows, Kinds
  <2>7. AnswerIsApplied' /\ AppliedOnce'
    BY <2>4, <2>5 DEF AnswerIsApplied, AppliedOnce, AppliedKinds
  <2>8. PostIsCommitted'
    BY <1>2, <2>2, <2>5 DEF PostIsCommitted
  <2>9. DeliveredIsApplied'
    BY <1>2, <2>2, <2>5 DEF DeliveredIsApplied, AppliedKinds, AnswerIsApplied, k
  <2> QED
    BY <2>2, <2>4, <2>5, <2>6, <2>7, <2>8, <2>9
<1>3. ASSUME Acknowledge(w) PROVE IInv'
  <2> DEFINE row == [outbox[sender[w].kind] EXCEPT !.status = "delivered", !.owner = NoOne, !.live = FALSE]
  <2>1. outbox[sender[w].kind] \in Rows
    BY DEF Senders
  <2>2. row \in Rows /\ row.owner = NoOne /\ row.status = "delivered"
    BY <2>1 DEF Rows
  <2>3. Settle(w, row) /\ sender[w].pc = "answered"
    BY <1>3 DEF Acknowledge
  <2> QED
    BY <1>2, <2>2, <2>3
<1>4. ASSUME Postpone(w) PROVE IInv'
  <2> DEFINE row == [outbox[sender[w].kind] EXCEPT
                       !.status = IF Exhausted(sender[w].attempts) THEN "dead" ELSE "pending",
                       !.due = FALSE, !.owner = NoOne, !.live = FALSE]
  <2>1. outbox[sender[w].kind] \in Rows
    BY DEF Senders
  <2>2. row \in Rows /\ row.owner = NoOne /\ row.status \in {"dead", "pending"}
    BY <2>1 DEF Rows
  <2>3. Settle(w, row)
    BY <1>4 DEF Postpone
  <2> QED
    BY <1>2, <2>2, <2>3
<1> QED
  BY <1>1, <1>3, <1>4 DEF Working

\* The facade, and what goes wrong with a request or with its worker.
LEMMA FacadeStep ==
  ASSUME IInv, NEW w \in Workers, NEW k \in Kinds,
         Accept(w, k) \/ Refuse(w, k) \/ TimeOut(w) \/ Crash(w)
  PROVE  IInv'
<1> USE DEF IInv, TypeOK
<1>1. ASSUME UNCHANGED <<payments, recorded, name, outbox>>, posts' \subseteq posts,
             faults' \in [failures : Nat, crashes : Nat, stalls : Nat],
             sender' \in [Workers -> Senders],
             applied' \in Seq(Kinds), AppliedOnce', AnswerIsApplied', AppliedKinds \subseteq AppliedKinds',
             \A j \in AppliedKinds' : j \in AppliedKinds \/ \E v \in Workers : <<v, j>> \in posts
      PROVE  IInv'
  BY <1>1 DEF LeaseIsSending, PostIsCommitted, NameTellsRows, DeliveredIsApplied
<1>2. CASE Accept(w, k)
  <2>1. applied' \in Seq(Kinds) /\ AppliedOnce' /\ AppliedKinds' = AppliedKinds \cup {k}
    BY <1>2, ApplyOnce DEF Accept
  <2>2. sender' \in [Workers -> Senders]
    BY <1>2 DEF Accept, Senders
  <2>3. \A v \in Workers : sender'[v].kind = sender[v].kind /\
           (sender'[v].pc = sender[v].pc \/ sender'[v].kind = k)
    BY <1>2 DEF Accept, Senders
  <2>4. AnswerIsApplied'
    BY <2>1, <2>3 DEF AnswerIsApplied
  <2> QED
    BY <1>1, <1>2, <2>1, <2>2, <2>4 DEF Accept, checkout
<1>3. ASSUME UNCHANGED <<payments, recorded, name, outbox, applied>>, posts' \subseteq posts,
             faults' \in [failures : Nat, crashes : Nat, stalls : Nat],
             sender' \in [Workers -> Senders],
             \A v \in Workers : sender'[v] = sender[v] \/ sender'[v].pc # "answered"
      PROVE  IInv'
  <2>1. AppliedKinds' = AppliedKinds /\ AppliedOnce'
    BY <1>3 DEF AppliedKinds, AppliedOnce
  <2>2. AnswerIsApplied'
    BY <1>3, <2>1 DEF AnswerIsApplied
  <2> QED
    BY <1>1, <1>3, <2>1, <2>2
<1>4. CASE Refuse(w, k)
  <2>1. /\ sender' \in [Workers -> Senders]
        /\ \A v \in Workers : sender'[v] = sender[v] \/ sender'[v].pc # "answered"
    BY <1>4 DEF Refuse, Refused, Senders
  <2>2. faults' \in [failures : Nat, crashes : Nat, stalls : Nat]
    BY <1>4 DEF Refuse
  <2> QED
    BY <1>3, <1>4, <2>1, <2>2 DEF Refuse, checkout
<1>5. CASE TimeOut(w)
  <2>1. /\ sender' \in [Workers -> Senders]
        /\ \A v \in Workers : sender'[v] = sender[v] \/ sender'[v].pc # "answered"
    BY <1>5 DEF TimeOut, Senders
  <2> QED
    BY <1>3, <1>5, <2>1 DEF TimeOut, checkout
<1>6. CASE Crash(w)
  <2>1. /\ sender' \in [Workers -> Senders]
        /\ \A v \in Workers : sender'[v] = sender[v] \/ sender'[v].pc # "answered"
    BY <1>6 DEF Crash, Idle, Senders, Kinds
  <2> QED
    BY <1>3, <1>6, <2>1 DEF Crash, checkout
<1> QED
  BY <1>2, <1>4, <1>5, <1>6

\* Time: a backoff or a lease runs out, and no status changes.
LEMMA TimeStep == ASSUME IInv, NEW k \in Kinds, Elapse(k) \/ Expire(k) PROVE IInv'
<1> USE DEF IInv, TypeOK
<1>1. /\ outbox' \in [Kinds -> Rows]
      /\ \A j \in Kinds : outbox'[j].status = outbox[j].status /\ outbox'[j].owner = outbox[j].owner
  <2>1. \A j \in Kinds : outbox[j] \in Rows
    OBVIOUS
  <2>2. \A row \in Rows : /\ [row EXCEPT !.due = TRUE] \in Rows
                           /\ [row EXCEPT !.live = FALSE] \in Rows
    BY DEF Rows
  <2>3. \/ outbox' = [outbox EXCEPT ![k] = [outbox[k] EXCEPT !.due = TRUE]]
        \/ outbox' = [outbox EXCEPT ![k] = [outbox[k] EXCEPT !.live = FALSE]]
    BY DEF Elapse, Expire
  <2>4. outbox' \in [Kinds -> Rows]
    <3>1. PICK row \in Rows : outbox' = [outbox EXCEPT ![k] = row]
      BY <2>1, <2>2, <2>3, Zenon
    <3> QED
      BY <3>1
  <2>5. \A j \in Kinds \ {k} : outbox'[j] = outbox[j]
    BY <2>3
  <2>6. \/ outbox'[k] = [outbox[k] EXCEPT !.due = TRUE]
        \/ outbox'[k] = [outbox[k] EXCEPT !.live = FALSE]
    BY <2>3
  <2>7. outbox'[k].status = outbox[k].status /\ outbox'[k].owner = outbox[k].owner
    BY <2>1, <2>6 DEF Rows
  <2> QED
    BY <2>4, <2>5, <2>7
<1>2. faults' \in [failures : Nat, crashes : Nat, stalls : Nat]
  BY DEF Elapse, Expire
<1>3. UNCHANGED <<payments, recorded, name, sender, posts, applied>>
  BY DEF Elapse, Expire, checkout
<1> QED
  BY <1>1, <1>2, <1>3 DEF LeaseIsSending, AnswerIsApplied, PostIsCommitted, NameTellsRows,
     AppliedOnce, DeliveredIsApplied, AppliedKinds, Kinds

------------------------------------------------------------------------------
(* Theorems *)

\* IInv is an inductive invariant of the outbox.
THEOREM Invariance == Spec => []IInv
<1>1. Init => IInv
  BY DEF Init, IInv, TypeOK, Rows, Absent, Senders, Idle, Kinds, Webhooks, LeaseIsSending,
     AnswerIsApplied, PostIsCommitted, NameTellsRows, AppliedOnce, DeliveredIsApplied, AppliedKinds
<1>2. IInv /\ [Next]_vars => IInv'
  <2>1. ASSUME IInv, Next PROVE IInv'
    <3>1. CASE Buying
      BY <2>1, <3>1, BuyingStep
    <3>2. CASE \E w \in Workers : Working(w)
      BY <2>1, <3>2, WorkingStep
    <3>3. CASE \E w \in Workers : TimeOut(w) \/ Crash(w)
      <4>1. "granted" \in Kinds
        BY DEF Kinds
      <4> QED
        BY <2>1, <3>3, <4>1, FacadeStep
    <3>4. CASE \E w \in Workers, k \in Kinds : Accept(w, k) \/ Refuse(w, k)
      BY <2>1, <3>4, FacadeStep
    <3>5. CASE \E k \in Kinds : Elapse(k) \/ Expire(k)
      BY <2>1, <3>5, TimeStep
    <3> QED
      BY <2>1, <3>1, <3>2, <3>3, <3>4, <3>5 DEF Next
  <2>2. ASSUME IInv, UNCHANGED vars PROVE IInv'
    BY <2>2 DEF vars, IInv, TypeOK, LeaseIsSending, AnswerIsApplied, PostIsCommitted,
       NameTellsRows, AppliedOnce, DeliveredIsApplied, AppliedKinds
  <2> QED
    BY <2>1, <2>2
<1> QED
  BY <1>1, <1>2, PTL DEF Spec

\* Type correctness of the outbox rows, the workers and the requests under way.
THEOREM TypeCorrectness == Spec => []TypeOK
<1>1. IInv => TypeOK
  BY DEF IInv
<1> QED
  BY <1>1, Invariance, PTL

\* However often a post is retried, repeated or late, acceptEntitlement applies its event
\* once.
THEOREM EventsAppliedOnce == Spec => []AppliedOnce
<1>1. IInv => AppliedOnce
  BY DEF IInv
<1> QED
  BY <1>1, Invariance, PTL

\* Only what the facade applied is acknowledged as delivered, and only what checkout
\* committed is applied.
THEOREM DeliveryIsSound == Spec => []DeliveredIsApplied
<1>1. IInv => DeliveredIsApplied
  BY DEF IInv
<1> QED
  BY <1>1, Invariance, PTL

\* A recorded outcome is never undone: a worker whose lease was taken over finds no row
\* of its own, and webhooks enqueue only what has no row.
THEOREM OutcomesAreFinal == Spec => OutcomeIsFinal
<1> DEFINE Final == \A k \in Kinds :
                      outbox[k].status \in {"delivered", "dead"} => outbox'[k] = outbox[k]
<1>1. ASSUME IInv, [Next]_vars PROVE Final
  <2> SUFFICES ASSUME NEW k \in Kinds, outbox[k].status \in {"delivered", "dead"}
               PROVE  outbox'[k] = outbox[k]
    OBVIOUS
  <2> USE <1>1 DEF IInv, TypeOK
  <2>1. CASE Buying
    <3>1. "granted" \in Kinds /\ "revoked" \in Kinds
      BY DEF Kinds
    <3>2. CASE \E o \in Orders : GrantFromEvent(o)
      BY <3>1, <3>2 DEF GrantFromEvent, Enqueue, NameTellsRows
    <3>3. CASE \E o \in Orders : \E named \in BOOLEAN : RevokeFromEvent(o, named)
      BY <3>1, <3>3 DEF RevokeFromEvent, Enqueue, NameTellsRows
    <3> QED
      BY <2>1, <3>2, <3>3 DEF Buying, Pay, Refund
  <2>2. ASSUME NEW w \in Workers, Working(w) PROVE outbox'[k] = outbox[k]
    <3>1. CASE \E j \in Kinds : Claim(w, j)
      BY <3>1 DEF Claim, Claimable
    <3>2. ASSUME NEW row, Settle(w, row) PROVE outbox'[k] = outbox[k]
      <4>1. Owns(w) => sender[w].kind # k
        BY NoOneAssumption DEF Owns, LeaseIsSending
      <4> QED
        BY <3>2, <4>1 DEF Settle
    <3> QED
      BY <2>2, <3>1, <3>2 DEF Working, Acknowledge, Postpone
  <2>3. CASE \E w \in Workers : TimeOut(w) \/ Crash(w)
    BY <2>3 DEF TimeOut, Crash
  <2>4. CASE \E w \in Workers, j \in Kinds : Accept(w, j) \/ Refuse(w, j)
    BY <2>4 DEF Accept, Refuse
  <2>5. CASE \E j \in Kinds : Elapse(j) \/ Expire(j)
    BY <2>5 DEF Elapse, Expire
  <2>6. CASE UNCHANGED vars
    BY <2>6 DEF vars
  <2> QED
    BY <2>1, <2>2, <2>3, <2>4, <2>5, <2>6 DEF Next
<1>2. ASSUME IInv, [Next]_vars PROVE [Final]_vars
  BY <1>1, <1>2
<1> QED
  BY <1>2, Invariance, PTL DEF Spec, OutcomeIsFinal
=============================================================================
