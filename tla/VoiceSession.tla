--------------------------- MODULE VoiceSession ---------------------------
(***************************************************************************)
(* A voice session, its audio route and the utterance being heard, from   *)
(* libs/aven-voice-core/src/state.rs (the reducer), its coordinator thread *)
(* in libs/aven-voice-runtime/src/runtime.rs, the action executor of       *)
(* app/src-tauri/src/voice/service.rs and the input worker of              *)
(* libs/aven-voice-runtime/src/pipeline.rs.                                *)
(*                                                                         *)
(* The coordinator takes client commands and observations in any order and *)
(* turns each into a state change and a run of actions.  Actions reach the *)
(* executor through one FIFO channel, observations come back through       *)
(* another.  The executor owns the host's streams; opening a route moves   *)
(* the input models into a pipeline, closing it moves them back.  Every    *)
(* route has a generation, and a late message of an older one must change  *)
(* nothing.  The input worker runs beside both: it announces a candidate   *)
(* utterance, sends partial texts and an end, each with what it knows of   *)
(* the echo (far, safe).                                                   *)
(*                                                                         *)
(* Texts are reduced to whether they have a lexical seed.  The models are  *)
(* prepared from the start.  The tester-only echo policy is off, its       *)
(* default.  A narration turn is a Boolean here; VoiceTurns models it.     *)
(***************************************************************************)
EXTENDS Integers, Sequences

CONSTANTS
  MaxSessions,      \* StartSession commands
  MaxCandidates,    \* utterances the input worker announces
  MaxTurns,         \* BeginSpeech commands
  MaxFaults,        \* host errors
  MaxResets,        \* ResetInput commands
  MaxEvents,        \* all of these together
  RetryLimit,       \* RETRY_DELAYS_MS.len(): 5 in the code
  FullDuplex        \* config.allow_full_duplex_barge_in

ASSUME SessionBounds ==
  /\ {MaxSessions, MaxCandidates, MaxTurns, MaxFaults, MaxResets,
      MaxEvents, RetryLimit} \subseteq Nat
  /\ FullDuplex \in BOOLEAN

VARIABLES
  session,     \* session_id, 0 for None
  status,      \* session_status
  rgen,        \* route_generation
  retry,       \* retry_attempt
  turn,        \* whether a narration turn is active
  cand,        \* the candidate, NoCandidate for None
  acts,        \* the action channel
  obs,         \* the observation channel
  route,       \* the executor's open_route, NoRoute for None
  host,        \* generation of the streams the host holds, 0 for none
  pipe,        \* generation of the executor's pipeline, 0 for None
  models,      \* whether input_models is Some
  timers,      \* sleeping route-retry threads: <<generation, attempt>>
  heard,       \* the input worker's own candidate, 0 for none
  safe,        \* candidate_echo_safe
  resetting,   \* an InputControl::Reset is waiting in the worker's channel
  exposed,     \* candidates that met an audible far end before convergence
  reported,    \* those of them that a published observation showed it of
  breach,      \* "exposed", "reported": what was known of a confirmed candidate
  used         \* how much of each bound is spent

core == <<session, status, rgen, retry, turn, cand>>
executor == <<route, host, pipe, models, timers>>
worker == <<heard, safe, resetting, exposed, reported>>
vars == <<core, acts, obs, executor, worker, breach, used>>

NoRoute == [g |-> 0, s |-> 0]
NoCandidate == [id |-> 0, gen |-> 0, unsafe |-> FALSE, confirmed |-> FALSE]

Init ==
  /\ session = 0 /\ status = "Closed" /\ rgen = 0 /\ retry = 0
  /\ turn = FALSE /\ cand = NoCandidate
  /\ acts = <<>> /\ obs = <<>>
  /\ route = NoRoute /\ host = 0 /\ pipe = 0 /\ models = TRUE /\ timers = {}
  /\ heard = 0 /\ safe = TRUE /\ resetting = FALSE
  /\ exposed = {} /\ reported = {} /\ breach = {}
  /\ used = [sessions |-> 0, candidates |-> 0, turns |-> 0, faults |-> 0, resets |-> 0]

Total == used.sessions + used.candidates + used.turns + used.faults + used.resets

Spend(what, bound) ==
  /\ used[what] < bound /\ Total < MaxEvents
  /\ used' = [used EXCEPT ![what] = @ + 1]

(***************************************************************************)
(* The actions the coordinator sends and the observations it receives      *)
(***************************************************************************)
Activate(s) == [do |-> "activate", s |-> s, g |-> 0]
OpenRoute(s, g) == [do |-> "open", s |-> s, g |-> g]
StartRoute(g) == [do |-> "start", s |-> 0, g |-> g]
CloseRoute(g) == [do |-> "close", s |-> 0, g |-> g]
ResetWorker == [do |-> "reset", s |-> 0, g |-> 0]
RetryLater(g, attempt) == [do |-> "retry", s |-> attempt, g |-> g]

Saw(what, s, g) == [saw |-> what, s |-> s, g |-> g]
Fault(g, recoverable) == [saw |-> "fault", g |-> g, recoverable |-> recoverable]
Utterance(what, far, safeEcho, lexical) ==
  [saw |-> what, g |-> pipe, id |-> heard, far |-> far, safe |-> safeEcho, lexical |-> lexical,
   known |-> {k \in {"exposed", "reported"} :
                heard \in (IF k = "exposed" THEN exposed' ELSE reported)}]

Send(actions) == acts' = acts \o actions
Publish(observation) == obs' = Append(obs, observation)

(***************************************************************************)
(* Client commands                                                         *)
(***************************************************************************)
(* A new session supersedes the old one: its route is closed first, in    *)
(* channel order, and the candidate is dropped without an event.           *)
CloseSuperseded_ActiveOnly == IF status = "Active" THEN <<CloseRoute(rgen)>> ELSE <<>>

CloseSuperseded == IF session # 0 THEN <<CloseRoute(rgen)>> ELSE <<>>

StartSession ==
  /\ Spend("sessions", MaxSessions)
  /\ session' = used'.sessions /\ status' = "Opening"
  /\ rgen' = rgen + 1 /\ retry' = 0
  /\ turn' = FALSE /\ cand' = NoCandidate
  /\ Send(CloseSuperseded \o <<Activate(session')>>)
  /\ UNCHANGED <<obs, executor, worker, breach>>

StopSession ==
  /\ session # 0
  /\ session' = 0 /\ status' = "Closed"
  /\ turn' = FALSE /\ cand' = NoCandidate
  /\ Send(<<CloseRoute(rgen)>>)
  /\ UNCHANGED <<rgen, retry, obs, executor, worker, breach, used>>

ResetInput ==
  /\ session # 0
  /\ Spend("resets", MaxResets)
  /\ cand' = NoCandidate
  /\ Send(<<ResetWorker>>)
  /\ UNCHANGED <<session, status, rgen, retry, turn, obs, executor, worker, breach>>

BeginSpeech ==
  /\ session # 0 /\ status = "Active"
  /\ Spend("turns", MaxTurns)
  /\ turn' = TRUE
  /\ UNCHANGED <<session, status, rgen, retry, cand, acts, obs, executor, worker, breach>>

(* CancelSpeech, or the last sample of the narration has been played. *)
EndSpeech ==
  /\ turn
  /\ turn' = FALSE
  /\ UNCHANGED <<session, status, rgen, retry, cand, acts, obs, executor, worker, breach, used>>

(***************************************************************************)
(* Observations                                                            *)
(***************************************************************************)
Expected_Always(m) == TRUE

Expected(m) == m.s = session

Current_SessionOnly(m) == m.s = session

Current(m) == m.s = session /\ m.g = rgen

Matches(m) == m.g = rgen /\ cand.id = m.id /\ cand.gen = m.g

(* far_end_interval_is_unsafe: the whole narration turn counts as far end *)
UnsafeInterval(farActive, safeEcho) ==
  /\ turn \/ farActive
  /\ ~(FullDuplex /\ safeEcho)

CanConfirm(unsafe, farActive, safeEcho) ==
  /\ ~unsafe
  /\ ~(turn \/ farActive) \/ (FullDuplex /\ safeEcho)

EnvironmentActivated(m) ==
  /\ m.saw = "activated"
  /\ Send(IF Expected(m) THEN <<OpenRoute(session, rgen)>> ELSE <<>>)
  /\ UNCHANGED <<core, breach>>

RouteOpened(m) ==
  /\ m.saw = "opened"
  /\ Send(IF Current(m) THEN <<StartRoute(rgen)>> ELSE <<>>)
  /\ UNCHANGED <<core, breach>>

RouteStarted(m) ==
  /\ m.saw = "started"
  /\ status' = IF Current(m) THEN "Active" ELSE status
  /\ retry' = IF Current(m) THEN 0 ELSE retry
  /\ UNCHANGED <<session, rgen, turn, cand, acts, breach>>

RetryIsDue_NextAttempt(m) ==
  m.g = rgen /\ m.s = retry + 1 /\ status = "Recovering" /\ session # 0

RetryIsDue(m) ==
  m.g = rgen /\ m.s = retry /\ status = "Recovering" /\ session # 0

RouteRetryDue(m) ==
  /\ m.saw = "due"
  /\ Send(IF RetryIsDue(m) THEN <<OpenRoute(session, rgen)>> ELSE <<>>)
  /\ UNCHANGED <<core, breach>>

(* handle_route_fault, schedule_retry and what a stalled callback adds to *)
(* them.  A fault of an older route, or after the session closed, changes  *)
(* nothing.                                                                *)
AfterFault_Kept == cand

AfterFault == NoCandidate

Retryable_OneMore(m) == m.recoverable /\ retry <= RetryLimit

Retryable(m) == m.recoverable /\ retry < RetryLimit

RouteFault(m) ==
  /\ m.saw = "fault"
  /\ IF m.g # rgen \/ session = 0
       THEN UNCHANGED <<core, acts>>
       ELSE /\ rgen' = rgen + 1
            /\ turn' = FALSE /\ cand' = AfterFault
            /\ status' = IF Retryable(m) THEN "Recovering" ELSE "Suspended"
            /\ retry' = IF status' = "Recovering" THEN retry + 1 ELSE retry
            /\ Send(<<CloseRoute(rgen)>> \o
                    (IF status' = "Recovering" THEN <<RetryLater(rgen', retry')>> ELSE <<>>))
            /\ UNCHANGED session
  /\ UNCHANGED breach

VadStarted(m) ==
  /\ m.saw = "vad"
  /\ cand' = IF m.g = rgen /\ cand = NoCandidate
             THEN [id |-> m.id, gen |-> m.g, unsafe |-> UnsafeInterval(m.far, m.safe),
                   confirmed |-> FALSE]
             ELSE cand
  /\ UNCHANGED <<session, status, rgen, retry, turn, acts, breach>>

Poisoned_ThisText(m) == UnsafeInterval(m.far, m.safe)

Poisoned(m) == cand.unsafe \/ UnsafeInterval(m.far, m.safe)

(* A confirmation interrupts the narration.  A final text also ends the   *)
(* candidate, as a confirmed utterance or as a discarded one.              *)
Recognized(m) ==
  LET unsafe == Poisoned(m)
      confirms == /\ m.lexical /\ ~cand.confirmed
                  /\ CanConfirm(unsafe, m.far, m.safe)
  IN /\ m.saw \in {"partial", "final"}
     /\ IF Matches(m)
          THEN /\ cand' = IF m.saw = "final" THEN NoCandidate
                          ELSE [cand EXCEPT !.unsafe = unsafe, !.confirmed = @ \/ confirms]
               /\ turn' = (turn /\ ~confirms)
               /\ breach' = IF confirms THEN breach \cup m.known ELSE breach
          ELSE UNCHANGED <<cand, turn, breach>>
     /\ UNCHANGED <<session, status, rgen, retry, acts>>

(* CandidateOverflow and InputModelFailed; a failure that names no         *)
(* candidate discards whichever there is.                                  *)
InputLost(m) ==
  /\ m.saw = "lost"
  /\ cand' = IF Matches(m) \/ (m.g = rgen /\ m.id = 0) THEN NoCandidate ELSE cand
  /\ UNCHANGED <<session, status, rgen, retry, turn, acts, breach>>

Observe ==
  /\ obs # <<>>
  /\ LET m == Head(obs) IN
       \/ EnvironmentActivated(m) \/ RouteOpened(m) \/ RouteStarted(m)
       \/ RouteRetryDue(m) \/ RouteFault(m)
       \/ VadStarted(m) \/ Recognized(m) \/ InputLost(m)
  /\ obs' = Tail(obs)
  /\ UNCHANGED <<executor, worker, used>>

(***************************************************************************)
(* The action executor                                                     *)
(***************************************************************************)
(* PassThroughEnvironment always activates. *)
ActivateEnvironment(a) ==
  /\ a.do = "activate"
  /\ Publish(Saw("activated", a.s, 0))
  /\ UNCHANGED <<executor, heard, safe, resetting, used>>

(* The host refuses a second route; any other refusal may be recoverable. *)
OpenRefused(a) ==
  /\ IF host = 0
       THEN Spend("faults", MaxFaults) /\ \E r \in BOOLEAN : Publish(Fault(a.g, r))
       ELSE UNCHANGED used /\ Publish(Fault(a.g, FALSE))
  /\ UNCHANGED <<executor, heard, safe>>

(* The streams opened, but the models are gone, the pipeline could not     *)
(* start and took them with it, or the output worker could not start and   *)
(* left the pipeline behind.                                               *)
OpenAbandoned(a) ==
  /\ host = 0
  /\ IF models
       THEN /\ Spend("faults", MaxFaults)
            /\ models' = FALSE
            /\ pipe' \in {pipe, a.g}
       ELSE UNCHANGED <<models, pipe, used>>
  /\ Publish(Fault(a.g, FALSE))
  /\ UNCHANGED <<route, host, timers, heard, safe>>

OpenSucceeds(a) ==
  /\ host = 0 /\ models
  /\ route' = [g |-> a.g, s |-> a.s] /\ host' = a.g /\ pipe' = a.g /\ models' = FALSE
  /\ heard' = 0 /\ safe' = TRUE
  /\ Publish(Saw("opened", a.s, a.g))
  /\ UNCHANGED <<timers, used>>

OpenHostRoute(a) ==
  /\ a.do = "open"
  /\ OpenRefused(a) \/ OpenAbandoned(a) \/ OpenSucceeds(a)
  /\ UNCHANGED resetting

StartHostRoute(a) ==
  /\ a.do = "start"
  /\ IF route.g # a.g
       THEN UNCHANGED <<obs, used>>
       ELSE \/ Publish(Saw("started", route.s, a.g)) /\ UNCHANGED used
            \/ Spend("faults", MaxFaults) /\ \E r \in BOOLEAN : Publish(Fault(a.g, r))
  /\ UNCHANGED <<executor, heard, safe, resetting>>

(* open_route is taken whatever its generation, and the host's streams are *)
(* closed only when it was the one named.                                  *)
ClosesHost(a) == route.g = a.g

CloseHostRoute(a) ==
  /\ a.do = "close"
  /\ route' = NoRoute
  /\ host' = IF ClosesHost(a) THEN 0 ELSE host
  /\ pipe' = 0 /\ models' = (models \/ pipe # 0)
  /\ heard' = 0 /\ safe' = TRUE /\ resetting' = FALSE
  /\ UNCHANGED <<timers, obs, used>>

ResetPipeline(a) ==
  /\ a.do = "reset"
  /\ resetting' = (resetting \/ pipe # 0)
  /\ UNCHANGED <<executor, heard, safe, obs, used>>

ScheduleRouteRetry(a) ==
  /\ a.do = "retry"
  /\ timers' = timers \cup {<<a.g, a.s>>}
  /\ UNCHANGED <<route, host, pipe, models, heard, safe, resetting, obs, used>>

Execute ==
  /\ acts # <<>>
  /\ LET a == Head(acts) IN
       \/ ActivateEnvironment(a) \/ OpenHostRoute(a) \/ StartHostRoute(a)
       \/ CloseHostRoute(a) \/ ResetPipeline(a) \/ ScheduleRouteRetry(a)
  /\ acts' = Tail(acts)
  /\ UNCHANGED <<core, exposed, reported, breach>>

RetryTimer ==
  /\ \E t \in timers :
       /\ timers' = timers \ {t}
       /\ Publish(Saw("due", t[2], t[1]))
  /\ UNCHANGED <<core, acts, route, host, pipe, models, worker, breach, used>>

(* A stream error, an invalidated route, a callback fault that needs a    *)
(* rebuild, or three seconds without a capture callback.                   *)
HostFault ==
  /\ host # 0
  /\ Spend("faults", MaxFaults)
  /\ \E r \in BOOLEAN : Publish(Fault(host, r))
  /\ UNCHANGED <<core, acts, executor, worker, breach>>

(***************************************************************************)
(* The input worker                                                        *)
(***************************************************************************)
(* Each 10 ms frame says whether the far end is audible and whether the    *)
(* echo canceller has converged.  Before any narration there is no far     *)
(* end; after one its tail may take any time to reach the microphone.      *)
Frames == [far : IF used.turns > 0 THEN BOOLEAN ELSE {FALSE}, converged : BOOLEAN]

UnsafeFrame(f) == f.far /\ ~f.converged

(* candidate_echo_safe stays false once a frame was unsafe *)
Latch(f) == safe /\ ~UnsafeFrame(f)

Expose(f, c) == exposed' = IF UnsafeFrame(f) THEN exposed \cup {c} ELSE exposed

Hearing == host # 0 /\ pipe # 0

(* A frame during a candidate that completes no text *)
Frame ==
  /\ Hearing /\ heard # 0
  /\ \E f \in Frames : safe' = Latch(f) /\ Expose(f, heard)
  /\ UNCHANGED <<core, acts, obs, executor, heard, resetting, reported, breach, used>>

HearCandidate ==
  /\ Hearing /\ heard = 0
  /\ Spend("candidates", MaxCandidates)
  /\ heard' = used'.candidates
  /\ \E f \in Frames :
       /\ safe' = ~UnsafeFrame(f)
       /\ Expose(f, heard')
       /\ reported' = IF UnsafeFrame(f) THEN reported \cup {heard'} ELSE reported
       /\ Publish([saw |-> "vad", g |-> pipe, id |-> heard', far |-> f.far, safe |-> f.converged])
  /\ UNCHANGED <<core, acts, executor, resetting, breach>>

(* Bound: at most one partial text waits in the channel. *)
NoPartialWaits == \A i \in DOMAIN obs : obs[i].saw # "partial"

HearPartial ==
  /\ Hearing /\ heard # 0 /\ NoPartialWaits
  /\ \E f \in Frames, lexical \in BOOLEAN :
       /\ safe' = Latch(f) /\ Expose(f, heard)
       /\ Publish(Utterance("partial", f.far, Latch(f), lexical))
       /\ reported' = IF f.far /\ ~safe' THEN reported \cup {heard} ELSE reported
  /\ UNCHANGED <<core, acts, executor, heard, resetting, breach, used>>

HearEnd ==
  /\ Hearing /\ heard # 0
  /\ \E f \in Frames, lexical \in BOOLEAN :
       /\ Expose(f, heard)
       /\ \/ Publish(Utterance("final", f.far, Latch(f), lexical))
          \/ Publish([saw |-> "lost", g |-> pipe, id |-> heard])
  /\ heard' = 0 /\ safe' = TRUE
  /\ UNCHANGED <<core, acts, executor, resetting, reported, breach, used>>

(* The speech detector fails while the worker hears nothing. *)
DetectorFails ==
  /\ Hearing /\ heard = 0
  /\ Spend("faults", MaxFaults)
  /\ Publish([saw |-> "lost", g |-> pipe, id |-> 0])
  /\ UNCHANGED <<core, acts, executor, worker, breach>>

(* processor.reset() drops the candidate and says nothing about it *)
WorkerReset ==
  /\ resetting
  /\ resetting' = FALSE /\ heard' = 0 /\ safe' = TRUE
  /\ UNCHANGED <<core, acts, obs, executor, exposed, reported, breach, used>>

Next ==
  \/ StartSession \/ StopSession \/ ResetInput \/ BeginSpeech \/ EndSpeech
  \/ Observe \/ Execute \/ RetryTimer \/ HostFault
  \/ Frame \/ HearCandidate \/ HearPartial \/ HearEnd
  \/ DetectorFails \/ WorkerReset

Spec == Init /\ [][Next]_vars

(* The threads keep running, and whoever speaks eventually pauses. *)
Fairness ==
  /\ WF_vars(Observe) /\ WF_vars(Execute) /\ WF_vars(RetryTimer)
  /\ WF_vars(HearEnd) /\ WF_vars(WorkerReset)

LiveSpec == Spec /\ Fairness

(***************************************************************************)
(* Properties                                                              *)
(***************************************************************************)
Statuses == {"Closed", "Opening", "Active", "Recovering", "Suspended"}

TypeOK ==
  /\ session \in 0..MaxSessions /\ status \in Statuses
  /\ (session = 0) = (status = "Closed")
  /\ rgen \in 0..(2 * MaxSessions + MaxFaults) /\ retry \in 0..RetryLimit
  /\ turn \in BOOLEAN
  /\ cand \in [id : 0..MaxCandidates, gen : 0..rgen, unsafe : BOOLEAN, confirmed : BOOLEAN]
  /\ {route.g, host, pipe} \subseteq 0..rgen /\ models \in BOOLEAN
  /\ timers \subseteq (1..rgen) \X (1..RetryLimit)
  /\ heard \in 0..MaxCandidates
  /\ {safe, resetting} \subseteq BOOLEAN

(* Once an observation has shown the coordinator that an utterance         *)
(* overlapped audible narration before the echo canceller converged, no    *)
(* later text of it is confirmed, so the assistant never interrupts itself *)
(* on that echo, even when the narration has ended meanwhile (state.rs     *)
(* unsafe_since_start, candidate_can_confirm).                             *)
ReportedEchoNeverConfirmed == "reported" \notin breach

(* The same of every such utterance, as the test                           *)
(* one_unsafe_far_end_interval_poisoned_the_candidate_until_it_ends says:  *)
(* also when the unsafe frames fell between two observations.              *)
EchoNeverConfirmed == breach = {}

(* What the coordinator calls an active session is one the executor        *)
(* serves: the open route, the host's streams and the pipeline are all of  *)
(* the current generation, however faults, restarts and late observations  *)
(* interleave (state.rs RouteStarted, service.rs OpenRoute/CloseRoute).    *)
ActiveIsServed ==
  status = "Active" => route.g = rgen /\ host = rgen /\ pipe = rgen

(* After a stop has been carried out the microphone is released: no        *)
(* stream and no input worker outlives the session (state.rs StopSession,  *)
(* service.rs CloseRoute).                                                 *)
StopReleasesMicrophone ==
  session = 0 /\ acts = <<>> => host = 0 /\ pipe = 0

(* A session that is opening or recovering ends up active, suspended or    *)
(* closed: the retry of a fault is never lost, even when it is overtaken   *)
(* by a restart or another fault (state.rs handle_route_fault,             *)
(* schedule_retry, RouteRetryDue).                                         *)
SessionSettles ==
  status \in {"Opening", "Recovering"} ~> status \in {"Active", "Suspended", "Closed"}

(* A candidate is always finished or discarded, so the next utterance can  *)
(* be heard (state.rs VadStarted ignores a new one until then).  Two races *)
(* are excepted: an announcement that was waiting in the channel when      *)
(* ResetInput discarded the candidate, and one that arrives after the      *)
(* session stopped; the worker no longer knows either candidate.           *)
CandidateEnds ==
  \A c \in 1..MaxCandidates :
    cand.id = c ~> cand.id # c \/ used.resets > 0 \/ session = 0
=============================================================================
