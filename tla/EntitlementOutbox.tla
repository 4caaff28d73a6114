-------------------------- MODULE EntitlementOutbox --------------------------
(***************************************************************************)
(* How the purchase of one name becomes the customer's entitlement.        *)
(* Checkout turns payment webhooks into the name's row and, in the same    *)
(* transaction, an outbox row (names/service.ts, platform-events.ts); the  *)
(* platform event workers post outbox rows to the customer facade          *)
(* (platform-event-worker.ts), which applies each event once               *)
(* (aven-api, customers/store.ts: acceptEntitlement).                      *)
(*                                                                         *)
(* A name is granted and revoked at most once, so its outbox rows are      *)
(* named by their event type.  What acceptEntitlement does to the          *)
(* environment is Provisioning's AcceptEntitlement; here an environment is *)
(* the sequence of events applied to it.                                   *)
(***************************************************************************)
EXTENDS Naturals, Sequences

CONSTANTS
  Orders,       \* paid orders for the name
  Workers,      \* platform event worker processes
  NoOne,        \* no lease owner, no order
  MaxAttempts,  \* PLATFORM_EVENT_WORKER_MAX_ATTEMPTS
  MaxFailures,  \* bound: posts and acknowledgements that fail
  MaxCrashes,   \* bound: worker deaths
  MaxStalls     \* bound: leases that expire under a live worker

ASSUME MaxAttemptsAssumption == MaxAttempts \in Nat \ {0}
ASSUME NoOneAssumption == NoOne \notin Workers \cup Orders
ASSUME BoundsAssumption == MaxFailures \in Nat /\ MaxCrashes \in Nat /\ MaxStalls \in Nat

VARIABLES
  payments,  \* orders paid and refunded at the payment provider
  recorded,  \* payment_events: the webhooks processed
  name,      \* the row of names
  outbox,    \* platform_event_outbox, per event type
  sender,    \* per worker, its program counter and the row it delivers
  posts,     \* requests on their way to the facade
  applied,   \* customer_entitlement_events, in the order they were applied
  faults     \* faults so far

vars == <<payments, recorded, name, outbox, sender, posts, applied, faults>>
checkout == <<payments, recorded, name>>

Kinds == {"granted", "revoked"}

Webhooks == [type : {"paid", "refund"}, order : Orders]

\* due: available_at has passed; live: lease_expires_at has not.
Rows == [status : {"absent", "pending", "sending", "delivered", "dead"}, attempts : Nat,
         owner : Workers \cup {NoOne}, live : BOOLEAN, due : BOOLEAN]

Absent == [status |-> "absent", attempts |-> 0, owner |-> NoOne, live |-> FALSE, due |-> FALSE]

\* attempts: the column as claim() read it, before it counted this attempt.
Senders == [pc : {"idle", "posting", "answered", "failed"}, kind : Kinds, attempts : Nat]

Idle == [pc |-> "idle", kind |-> "granted", attempts |-> 0]

Init ==
  /\ payments = [paid |-> {}, refunded |-> {}]
  /\ recorded = {}
  /\ name = [status |-> "free", order |-> NoOne]
  /\ outbox = [k \in Kinds |-> Absent]
  /\ sender = [w \in Workers |-> Idle]
  /\ posts = {}
  /\ applied = <<>>
  /\ faults = [failures |-> 0, crashes |-> 0, stalls |-> 0]

------------------------------------------------------------------------------
(* The payment provider *)

Pay(o) ==
  /\ o \notin payments.paid
  /\ payments' = [payments EXCEPT !.paid = @ \cup {o}]
  /\ UNCHANGED <<recorded, name, outbox, sender, posts, applied, faults>>

Refund(o) ==
  /\ o \in payments.paid \ payments.refunded
  /\ payments' = [payments EXCEPT !.refunded = @ \cup {o}]
  /\ UNCHANGED <<recorded, name, outbox, sender, posts, applied, faults>>

------------------------------------------------------------------------------
(* Webhooks: names/service.ts.  The provider delivers them in any order; one whose *)
(* transaction rolls back is delivered again, and a repeated one changes nothing.  *)

Fresh(e) == e \notin recorded

\* enqueuePlatformEvent, on the transaction of the caller.
Enqueue_Queued(k) ==
  outbox' = [outbox EXCEPT ![k] = [Absent EXCEPT !.status = "queued", !.due = TRUE]]
Enqueue(k) ==
  outbox' = [outbox EXCEPT ![k] = [Absent EXCEPT !.status = "pending", !.due = TRUE]]

\* grantFromEvent: a name that has a row is not granted again.
GrantFromEvent(o) ==
  LET e == [type |-> "paid", order |-> o] IN
  /\ o \in payments.paid
  /\ Fresh(e)
  /\ recorded' = recorded \cup {e}
  /\ IF name.status = "free"
     THEN name' = [status |-> "owned", order |-> o] /\ Enqueue("granted")
     ELSE UNCHANGED <<name, outbox>>
  /\ UNCHANGED <<payments, sender, posts, applied, faults>>

\* revokeFromEvent of a refund, which carries its order and may carry the name.
RevokeFromEvent(o, named) ==
  LET e == [type |-> "refund", order |-> o] IN
  /\ o \in payments.refunded
  /\ Fresh(e)
  /\ recorded' = recorded \cup {e}
  /\ IF name.status = "owned" /\ (named \/ name.order = o)
     THEN name' = [name EXCEPT !.status = "revoked"] /\ Enqueue("revoked")
     ELSE UNCHANGED <<name, outbox>>
  /\ UNCHANGED <<payments, sender, posts, applied, faults>>

------------------------------------------------------------------------------
(* The worker: platform-event-worker.ts *)

Claimable_NoTakeover(row) == row.status = "pending" /\ row.due
Claimable(row) ==
  \/ row.status = "pending" /\ row.due
  \/ row.status = "sending" /\ ~row.live

\* ORDER BY created_at: the grant was enqueued first.
Earliest(k) == k = "revoked" => ~Claimable(outbox["granted"])

\* claim(), and the post deliver() starts with.
Claim(w, k) ==
  /\ sender[w].pc = "idle"
  /\ Claimable(outbox[k])
  /\ Earliest(k)
  /\ outbox' = [outbox EXCEPT ![k] =
       [outbox[k] EXCEPT !.status = "sending", !.attempts = @ + 1, !.owner = w, !.live = TRUE]]
  /\ sender' = [sender EXCEPT ![w] = [pc |-> "posting", kind |-> k, attempts |-> outbox[k].attempts]]
  /\ posts' = posts \cup {<<w, k>>}
  /\ UNCHANGED <<checkout, applied, faults>>

\* acceptEntitlement inserts the event id ON CONFLICT DO NOTHING; occurred_at is not
\* compared with what was applied before.
AppliedKinds == {applied[i] : i \in DOMAIN applied}
Apply_Always(k) == Append(applied, k)
Apply(k) == IF k \in AppliedKinds THEN applied ELSE Append(applied, k)

\* The facade handles a request, and its answer reaches the worker if it still waits.
Accept(w, k) ==
  /\ <<w, k>> \in posts
  /\ posts' = posts \ {<<w, k>>}
  /\ applied' = Apply(k)
  /\ sender' = IF sender[w].pc = "posting" /\ sender[w].kind = k
               THEN [sender EXCEPT ![w].pc = "answered"] ELSE sender
  /\ UNCHANGED <<checkout, outbox, faults>>

\* A response that is not ok makes deliver() throw.
Refused_Unchecked == "answered"
Refused == "failed"

\* A request that is refused (a failed transaction) or lost on the way.
Refuse(w, k) ==
  /\ <<w, k>> \in posts
  /\ faults.failures < MaxFailures
  /\ posts' = posts \ {<<w, k>>}
  /\ sender' = IF sender[w].pc = "posting" /\ sender[w].kind = k
               THEN [sender EXCEPT ![w].pc = Refused] ELSE sender
  /\ faults' = [faults EXCEPT !.failures = @ + 1]
  /\ UNCHANGED <<checkout, outbox, applied>>

\* The fetch times out, its request still on the way, or the answer is lost, or the
\* UPDATE that would acknowledge it fails: the catch block of deliver().
TimeOut(w) ==
  /\ sender[w].pc \in {"posting", "answered"}
  /\ faults.failures < MaxFailures
  /\ sender' = [sender EXCEPT ![w].pc = "failed"]
  /\ faults' = [faults EXCEPT !.failures = @ + 1]
  /\ UNCHANGED <<checkout, outbox, posts, applied>>

\* UPDATE ... WHERE id=$1 AND lease_owner=$2.
Owns_Always(w) == TRUE
Owns(w) == outbox[sender[w].kind].owner = w

Settle(w, row) ==
  /\ outbox' = IF Owns(w) THEN [outbox EXCEPT ![sender[w].kind] = row] ELSE outbox
  /\ sender' = [sender EXCEPT ![w] = Idle]
  /\ UNCHANGED <<checkout, posts, applied, faults>>

Acknowledge(w) ==
  /\ sender[w].pc = "answered"
  /\ Settle(w, [outbox[sender[w].kind] EXCEPT !.status = "delivered", !.owner = NoOne, !.live = FALSE])

\* The attempt just made was the last one allowed.
Exhausted(attempts) == attempts + 1 >= MaxAttempts

Postpone(w) ==
  /\ sender[w].pc = "failed"
  /\ Settle(w, [outbox[sender[w].kind] EXCEPT
       !.status = IF Exhausted(sender[w].attempts) THEN "dead" ELSE "pending",
       !.due = FALSE, !.owner = NoOne, !.live = FALSE])

------------------------------------------------------------------------------
(* Time and faults *)

\* The backoff of a postponed row runs out.
Elapse(k) ==
  /\ outbox[k].status = "pending" /\ ~outbox[k].due
  /\ outbox' = [outbox EXCEPT ![k].due = TRUE]
  /\ UNCHANGED <<checkout, sender, posts, applied, faults>>

Held(k) == \E w \in Workers : outbox[k].owner = w /\ sender[w].pc # "idle" /\ sender[w].kind = k

\* A lease runs out; MaxStalls bounds how often it does so under its worker.
Expire(k) ==
  /\ outbox[k].status = "sending" /\ outbox[k].live
  /\ IF Held(k)
     THEN faults.stalls < MaxStalls /\ faults' = [faults EXCEPT !.stalls = @ + 1]
     ELSE UNCHANGED faults
  /\ outbox' = [outbox EXCEPT ![k].live = FALSE]
  /\ UNCHANGED <<checkout, sender, posts, applied>>

\* A worker dies; its requests may still arrive.
Crash(w) ==
  /\ sender[w].pc # "idle"
  /\ faults.crashes < MaxCrashes
  /\ sender' = [sender EXCEPT ![w] = Idle]
  /\ faults' = [faults EXCEPT !.crashes = @ + 1]
  /\ UNCHANGED <<checkout, outbox, posts, applied>>

------------------------------------------------------------------------------
(* Specification *)

Buying ==
  \E o \in Orders :
    \/ Pay(o) \/ Refund(o) \/ GrantFromEvent(o)
    \/ \E named \in BOOLEAN : RevokeFromEvent(o, named)

Working(w) == (\E k \in Kinds : Claim(w, k)) \/ Acknowledge(w) \/ Postpone(w)

Next ==
  \/ Buying
  \/ \E w \in Workers : Working(w) \/ TimeOut(w) \/ Crash(w)
  \/ \E w \in Workers, k \in Kinds : Accept(w, k) \/ Refuse(w, k)
  \/ \E k \in Kinds : Elapse(k) \/ Expire(k)

Spec == Init /\ [][Next]_vars

\* A worker loops while it runs (a dead one is restarted), the facade answers what
\* arrives, and time passes.
Fairness ==
  /\ \A w \in Workers : WF_vars(Working(w))
  /\ \A w \in Workers, k \in Kinds : WF_vars(Accept(w, k))
  /\ \A k \in Kinds : WF_vars(Elapse(k)) /\ WF_vars(Expire(k))

LiveSpec == Spec /\ Fairness

------------------------------------------------------------------------------
(* Properties *)

\* The rows and the senders stay within their columns' domains.
TypeOK ==
  /\ payments \in [paid : SUBSET Orders, refunded : SUBSET Orders]
  /\ recorded \subseteq Webhooks
  /\ name \in [status : {"free", "owned", "revoked"}, order : Orders \cup {NoOne}]
  /\ outbox \in [Kinds -> Rows]
  /\ sender \in [Workers -> Senders]
  /\ posts \subseteq Workers \X Kinds
  /\ applied \in Seq(Kinds)
  /\ faults \in [failures : Nat, crashes : Nat, stalls : Nat]

\* Retried, late and repeated posts of an event open one generation of the environment:
\* acceptEntitlement applies it once.
AppliedOnce == \A i, j \in DOMAIN applied : applied[i] = applied[j] => i = j

\* An acknowledged row was applied by the facade, and nothing is applied that checkout
\* did not commit, whichever worker's answer or timeout came last.
DeliveredIsApplied ==
  \A k \in Kinds :
    /\ outbox[k].status = "delivered" => k \in AppliedKinds
    /\ k \in AppliedKinds => outbox[k].status # "absent"

\* A worker whose lease was taken over cannot undo the outcome another one recorded.
OutcomeIsFinal ==
  [][\A k \in Kinds : outbox[k].status \in {"delivered", "dead"} => outbox'[k] = outbox[k]]_vars

\* Every committed purchase or revocation is eventually delivered or given up as dead.
Settles ==
  \A k \in Kinds : outbox[k].status # "absent" ~> outbox[k].status \in {"delivered", "dead"}

\* "a suspended name and a suspended tenant can never disagree": once everything was
\* delivered, a revoked name's environment was last suspended.
NamesAgree ==
  name.status = "revoked" /\ (\A k \in Kinds : outbox[k].status = "delivered") =>
    applied[Len(applied)] = "revoked"

\* "Refunds revoke AND lock the name": when both webhooks of an order were processed,
\* the order does not own the name.
RefundRevokes ==
  \A o \in Orders :
    {[type |-> "paid", order |-> o], [type |-> "refund", order |-> o]} \subseteq recorded =>
      ~(name.status = "owned" /\ name.order = o)
=============================================================================
