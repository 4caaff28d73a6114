------------------------------- MODULE PlanRun -------------------------------
(***************************************************************************)
(* What the PlanRunner interface (libs/aven-actors/src/run.ts) promises    *)
(* about the ledger of runs and about the attempts made on them, with no   *)
(* process, connection or lock in sight.                                   *)
(*                                                                         *)
(* An attempt is an invocation of the executor.  It stays uncertain from   *)
(* the moment it starts until its outcome is in the ledger; an attempt     *)
(* whose process died or whose outcome could not be written stays          *)
(* uncertain for ever.                                                     *)
(***************************************************************************)
EXTENDS RunRecord

CONSTANT Runs

VARIABLES runs,        \* [Runs -> RunRecords], the durable ledger
          uncertain    \* [Runs -> Nat], attempts with no durable outcome

vars == <<runs, uncertain>>

Init ==
  /\ runs = [r \in Runs |-> AbsentRun]
  /\ uncertain = [r \in Runs |-> 0]

\* A command is admitted once per idempotency key; repeating it changes nothing.
Admit(r) ==
  /\ runs[r].state = "absent"
  /\ runs' = [runs EXCEPT ![r] = AcceptedRun(NextCreatedAt(runs))]
  /\ UNCHANGED uncertain

\* An attempt starts only when no earlier attempt of the run is uncertain.
Attempt(r) ==
  /\ runs[r].state \in {"accepted", "waiting_for_input", "cancelled"}
  /\ uncertain[r] = 0
  /\ uncertain' = [uncertain EXCEPT ![r] = 1]
  /\ UNCHANGED runs

\* Progress is a new revision of a run that is still accepted.
Report(r) ==
  /\ runs[r].state = "accepted"
  /\ uncertain[r] = 1
  /\ runs' = [runs EXCEPT ![r] = Bump(@)]
  /\ UNCHANGED uncertain

\* The outcome of the only uncertain attempt becomes durable, as one new revision.
Settle(r) ==
  /\ runs[r].state \in {"accepted", "waiting_for_input"}
  /\ uncertain[r] = 1
  /\ \E answered \in {{}} \cup {{c} : c \in Answerables(runs[r])} :
       /\ answered = {} <=> runs[r].state = "accepted"
       /\ \E out \in Outcomes(runs[r], answered) : runs' = [runs EXCEPT ![r] = Bump(out)]
  /\ uncertain' = [uncertain EXCEPT ![r] = 0]

Postpone(r) ==
  /\ runs[r].state = "waiting_for_input"
  /\ \E c \in Answerables(runs[r]) :
       runs' = [runs EXCEPT ![r] = Bump(Postponed(@, {c}))]
  /\ UNCHANGED uncertain

\* Cancelling cannot undo an attempt, and never revives a finished run.
Cancel(r) ==
  /\ runs[r].state \in {"accepted", "waiting_for_input", "failed"}
  /\ runs' = [runs EXCEPT ![r] = Bump([@ EXCEPT !.state = "cancelled"])]
  /\ UNCHANGED uncertain

Next == \E r \in Runs :
  Admit(r) \/ Attempt(r) \/ Report(r) \/ Settle(r) \/ Postpone(r) \/ Cancel(r)

Spec == Init /\ [][Next]_vars
=============================================================================
