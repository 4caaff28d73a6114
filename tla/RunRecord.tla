------------------------------ MODULE RunRecord ------------------------------
(***************************************************************************)
(* The run record of the Actor Runner (libs/aven-actors/src/run.ts) and    *)
(* the in-memory edits SqlPlanRunner makes to it before it is written back *)
(* (services/actor-runner/src/sql-runner.ts).                              *)
(*                                                                         *)
(* Abstracted: the command's material, checkpoints, progress payloads,     *)
(* failure text and timestamps.  Kept: the state, the revision, the state  *)
(* of every continuation, and the creation order that recovery sorts by.   *)
(***************************************************************************)
EXTENDS Naturals, FiniteSets

CONSTANT Conts          \* the continuation ids an executor may ask for

\* run.ts PlanRunState; "absent" is a run id with no row yet.
RunStates == {"absent", "accepted", "planning", "running", "waiting_for_input",
              "succeeded", "failed", "cancelled"}

\* run.ts PlanRunContinuation.state; "none" is an id not in the record.
ContStates == {"none", "open", "postponed", "resolved", "cancelled"}

RunRecords == [state     : RunStates,
               revision  : Nat,
               createdAt : Nat,
               conts     : [Conts -> ContStates]]

NoConts == [c \in Conts |-> "none"]

AbsentRun == [state |-> "absent", revision |-> 0, createdAt |-> 0, conts |-> NoConts]

\* The record SqlPlanRunner.start inserts.
AcceptedRun(now) ==
  [state |-> "accepted", revision |-> 1, createdAt |-> now, conts |-> NoConts]

\* clock_timestamp() of the next insert, counted in rows.
NextCreatedAt(table) ==
  1 + Cardinality({r \in DOMAIN table : table[r].state # "absent"})

\* run.ts TRANSITIONS.
TRANSITIONS ==
  [s \in RunStates |->
     CASE s = "accepted"          -> {"planning", "cancelled", "failed"}
       [] s = "planning"          -> {"running", "waiting_for_input", "cancelled", "failed"}
       [] s = "running"           -> {"planning", "waiting_for_input", "succeeded",
                                      "cancelled", "failed"}
       [] s = "waiting_for_input" -> {"planning", "running", "cancelled", "failed"}
       [] s = "failed"            -> {"planning", "cancelled"}
       [] OTHER                   -> {}]

\* assertPlanRunTransition returns instead of throwing.
TransitionAllowed(from, to) == from = to \/ to \in TRANSITIONS[from]

\* requiredContinuation(record, c) finds an entry.
Answerable(rec, c) == rec.conts[c] \in {"open", "postponed"}

Answerables(rec) == {c \in Conts : Answerable(rec, c)}

\* #applyResult: the executor asked for the continuations in "asked" (none or one),
\* and the invocation answered those in "answered" (none or one).  The answered one
\* is resolved unless it is asked for again, which reopens it.
ApplyResult_LeftOpen(rec, answered, asked) ==
  [rec EXCEPT !.state = IF asked = {} THEN "succeeded" ELSE "waiting_for_input",
              !.conts = [c \in Conts |-> IF c \in asked THEN "open" ELSE rec.conts[c]]]
ApplyResult(rec, answered, asked) ==
  [rec EXCEPT !.state = IF asked = {} THEN "succeeded" ELSE "waiting_for_input",
              !.conts = [c \in Conts |->
                           IF c \in asked THEN "open"
                           ELSE IF c \in answered THEN "resolved" ELSE rec.conts[c]]]

\* What the in-memory record can be when the invocation is over, before the revision
\* is bumped: a result was applied, or the executor or the result check threw and the
\* catch block marked the record failed.  The checkpoint is built last, so a throw
\* there leaves the continuations already edited.
Outcomes(rec, answered) ==
  LET applied == {ApplyResult(rec, answered, asked) : asked \in {{}} \cup {{c} : c \in Conts}}
  IN  applied \cup {[a EXCEPT !.state = "failed"] : a \in applied \cup {rec}}

Bump(rec) == [rec EXCEPT !.revision = @ + 1]

\* resumeClaimed, action "postpone".
Postponed(rec, answered) ==
  [rec EXCEPT !.conts = [c \in Conts |-> IF c \in answered THEN "postponed" ELSE rec.conts[c]]]
=============================================================================
