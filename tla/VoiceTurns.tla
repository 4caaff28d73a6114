---------------------------- MODULE VoiceTurns ----------------------------
(***************************************************************************)
(* Narration turns on one open audio route: the reducer of                 *)
(* libs/aven-voice-core/src/state.rs, the action executor of               *)
(* app/src-tauri/src/voice/service.rs, the synthesis worker (workers.rs),  *)
(* the output worker (output.rs) and the render callback (host.rs) of      *)
(* libs/aven-voice-runtime/src.                                            *)
(*                                                                         *)
(* The client begins a turn, hands it segments of text, and finishes or    *)
(* cancels it.  Each segment goes coordinator -> executor -> synthesis     *)
(* worker -> executor -> output worker -> render callback, over bounded    *)
(* queues, and every stage reports back through the executor.  A turn must *)
(* end with one terminal event: completed when its last sample was played, *)
(* cancelled or failed when its fade was.                                  *)
(*                                                                         *)
(* A turn stands for its id and its output generation, which are unique to *)
(* it; 0 stands for the generation installed when a turn is retired.       *)
(* Segments are counted: both queues are FIFO, so a segment's index is its *)
(* place.  RetireOutput, CancelTts and FadeOutput are executed as one      *)
(* step, because the 80 ms fade outlasts three consecutive actions.  The   *)
(* 16-slot activity channel of the callback is assumed not to fill.        *)
(***************************************************************************)
EXTENDS Naturals, SequencesExt

CONSTANTS
  MaxTurns,       \* BeginSpeech commands
  MaxSegments,    \* segments of all turns together
  MaxFailures,    \* failures of the synthesizer or of preparation
  MaxQueued,      \* config.max_queued_segments, 8 in the code
  TtsCapacity,    \* command queue of the synthesis worker, 8 in the code
  OutputCapacity, \* that of the output worker with the work in hand, 9 in the code
  Lead,           \* segments that fit max_synthesized_lead_ms
  EventCapacity,  \* event channels of both workers, 8 and 16 in the code
  ObsCapacity,    \* observation channel, 256 in the code
  Backlog         \* actions that may wait when a client command is handled

ASSUME TurnBounds ==
  /\ {MaxTurns, MaxSegments, MaxFailures} \subseteq Nat
  /\ {MaxQueued, TtsCapacity, OutputCapacity, Lead, EventCapacity,
      ObsCapacity, Backlog} \subseteq Nat \ {0}
  /\ MaxQueued <= TtsCapacity

Turns == 1..MaxTurns

VARIABLES
  live,       \* the session is active
  begun,      \* turns begun so far
  turn,       \* the active turn, 0 for None
  segs,       \* per turn: segments accepted
  accepted,   \* segments accepted for all turns
  started,    \* started_segments of the active turn
  finished,   \* the active turn's finished flag
  retiring,   \* retiring_turn, 0 for None
  outcome,    \* and its outcome
  ended,      \* per turn: the terminal events emitted
  acts, obs,  \* action and observation channels
  open,       \* the executor holds render, output and the host's streams
  turns,      \* the executor's OutputTurnState map
  active,     \* active_output_generation
  ttsQ, busy, ttsEv, cancelled,   \* synthesis worker: queue, work, events, cancelled turns
  outQ, outEv,                    \* output worker: queue, events
  ring,       \* segments of the active generation prepared and not yet played
  empty,      \* the output worker's published levels.empty
  wake,       \* a capacity wake is waiting
  fade,       \* the callback's retiring_generation, 0 for none
  rendEv,     \* fades the callback reported complete
  faded,      \* fade_completions
  spoken,     \* per turn: segments played to their end
  displaced,  \* turns whose retirement met another one
  failures    \* failures so far

core == <<live, begun, turn, segs, accepted, started, finished, retiring, outcome, ended>>
synthesis == <<ttsQ, busy, ttsEv, cancelled>>
output == <<outQ, outEv, ring, empty, wake>>
callback == <<fade, rendEv, faded>>
history == <<spoken, displaced, failures>>
vars == <<core, acts, obs, open, turns, active, synthesis, output, callback, history>>

Init ==
  /\ live = TRUE /\ begun = 0 /\ turn = 0 /\ segs = [k \in Turns |-> 0] /\ accepted = 0
  /\ started = 0 /\ finished = FALSE /\ retiring = 0 /\ outcome = "cancelled"
  /\ ended = [k \in Turns |-> <<>>]
  /\ acts = <<>> /\ obs = <<>> /\ open = TRUE /\ turns = <<>> /\ active = 0
  /\ ttsQ = <<>> /\ busy = 0 /\ ttsEv = <<>> /\ cancelled = {}
  /\ outQ = <<>> /\ outEv = <<>> /\ ring = 0 /\ empty = TRUE /\ wake = FALSE
  /\ fade = 0 /\ rendEv = <<>> /\ faded = {}
  /\ spoken = [k \in Turns |-> 0] /\ displaced = {} /\ failures = 0

Msg(what, k) == [m |-> what, k |-> k]
Backlogged == Len(acts) >= Backlog

Fails == failures < MaxFailures /\ failures' = failures + 1

(***************************************************************************)
(* The reducer: client commands                                            *)
(***************************************************************************)
(* cancel_active_turn and fail_active_turn: there is one retiring slot.   *)
Retire(why) ==
  /\ retiring' = turn /\ outcome' = why
  /\ displaced' = IF retiring # 0 THEN displaced \cup {retiring} ELSE displaced

RetireIfAny(why) ==
  IF turn # 0 THEN Retire(why) ELSE UNCHANGED <<retiring, outcome, displaced>>

RetireActions == IF turn # 0 THEN <<Msg("retire", turn)>> ELSE <<>>

BeginSpeech ==
  /\ live /\ begun < MaxTurns /\ ~Backlogged
  /\ RetireIfAny("cancelled")
  /\ begun' = begun + 1 /\ turn' = begun' /\ started' = 0 /\ finished' = FALSE
  /\ acts' = acts \o RetireActions \o <<Msg("set", turn')>>
  /\ UNCHANGED <<live, segs, accepted, ended, obs, open, turns, active, synthesis, output, callback,
                 spoken, failures>>

(* A full queue is an error to the client, which waits for capacity. *)
Admits_OneMore == segs[turn] - started <= MaxQueued

Admits == segs[turn] - started < MaxQueued

EnqueueSpeech ==
  /\ turn # 0 /\ ~finished /\ ~Backlogged
  /\ accepted < MaxSegments /\ accepted' = accepted + 1 /\ Admits
  /\ segs' = [segs EXCEPT ![turn] = @ + 1]
  /\ acts' = Append(acts, Msg("enqueue", turn))
  /\ UNCHANGED <<live, begun, turn, started, finished, retiring, outcome, ended, obs, open,
                 turns, active, synthesis, output, callback, history>>

(* A turn may be finished before it was given a segment. *)
FinishSpeech ==
  /\ turn # 0 /\ ~finished /\ ~Backlogged
  /\ finished' = TRUE
  /\ acts' = Append(acts, Msg("finish", turn))
  /\ UNCHANGED <<live, begun, turn, segs, accepted, started, retiring, outcome, ended, obs, open,
                 turns, active, synthesis, output, callback, history>>

(* CancelSpeech, or an utterance that interrupts the narration *)
CancelSpeech ==
  /\ turn # 0 /\ ~Backlogged
  /\ Retire("cancelled")
  /\ turn' = 0
  /\ acts' = acts \o RetireActions
  /\ UNCHANGED <<live, begun, segs, accepted, started, finished, ended, obs, open, turns, active,
                 synthesis, output, callback, spoken, failures>>

(* StopSession, or a route fault: the turn is retired and the route closed. *)
CloseSession ==
  /\ live /\ live' = FALSE /\ ~Backlogged
  /\ RetireIfAny("cancelled")
  /\ turn' = 0
  /\ acts' = acts \o RetireActions \o <<Msg("close", 0)>>
  /\ UNCHANGED <<begun, segs, accepted, started, finished, ended, obs, open, turns, active,
                 synthesis, output, callback, spoken, failures>>

(***************************************************************************)
(* The reducer: observations                                               *)
(***************************************************************************)
SynthesisStarted(k) ==
  /\ started' = IF turn = k THEN started + 1 ELSE started
  /\ UNCHANGED <<turn, retiring, outcome, ended, acts, displaced>>

SynthesisFailed(k) ==
  /\ IF turn = k
       THEN /\ Retire("failed") /\ turn' = 0
            /\ acts' = acts \o RetireActions
       ELSE UNCHANGED <<turn, retiring, outcome, acts, displaced>>
  /\ UNCHANGED <<started, ended>>

Emit(k, event) == ended' = [ended EXCEPT ![k] = Append(@, event)]

Completes_Retiring(k) == k \in {turn, retiring} /\ finished

Completes(k) == turn = k /\ finished

PlaybackDrained(k) ==
  /\ IF Completes(k) THEN turn' = 0 /\ Emit(k, "completed") ELSE UNCHANGED <<turn, ended>>
  /\ UNCHANGED <<started, retiring, outcome, acts, displaced>>

FadeDrained(k) ==
  /\ IF retiring = k
       THEN retiring' = 0 /\ Emit(k, outcome)
       ELSE UNCHANGED <<retiring, ended>>
  /\ UNCHANGED <<turn, started, outcome, acts, displaced>>

Observe ==
  /\ obs # <<>>
  /\ LET o == Head(obs) IN
       \/ o.m = "started" /\ SynthesisStarted(o.k)
       \/ o.m = "failed" /\ SynthesisFailed(o.k)
       \/ o.m = "drained" /\ PlaybackDrained(o.k)
       \/ o.m = "faded" /\ FadeDrained(o.k)
  /\ obs' = Tail(obs)
  /\ UNCHANGED <<live, begun, segs, accepted, finished, open, turns, active, synthesis, output, callback,
                 spoken, failures>>

(***************************************************************************)
(* The executor                                                            *)
(***************************************************************************)
(* publish blocks the executor while the channel is full *)
CanPublish == Len(obs) < ObsCapacity

NewTurn == [finished |-> FALSE, pending |-> 0, finishing |-> FALSE, flushed |-> FALSE]

Known(ts, k) == IF k \in DOMAIN ts THEN ts ELSE [j \in DOMAIN ts \cup {k} |->
                  IF j = k THEN NewTurn ELSE ts[j]]
Without(ts, k) == Restrict(ts, DOMAIN ts \ {k})

Enqueued(ts, k) == [Known(ts, k) EXCEPT ![k].pending = @ + 1]

(* synthesis_terminal saturates at zero *)
Terminal(ts, k) ==
  IF k \in DOMAIN ts
    THEN [ts EXCEPT ![k].pending = IF @ > 0 THEN @ - 1 ELSE 0]
    ELSE ts

CanComplete_Buffered(t) == t.finished /\ t.pending = 0 /\ t.flushed

CanComplete(t) == t.finished /\ t.pending = 0 /\ t.flushed /\ empty

(* publish_playback_drained_if_ready: hand the output worker the end of a  *)
(* turn whose last segment is through, and report a turn that is played    *)
(* out.  ts and q are the map and the output queue so far, told what has   *)
(* been published before.                                                  *)
DrainIfReady(k, ts, q, told) ==
  LET here == k = active /\ k \in DOMAIN ts
      due == here /\ open /\ ts[k].finished /\ ts[k].pending = 0 /\ ~ts[k].finishing
      fits == Len(q) < OutputCapacity
      ts2 == IF due /\ fits THEN [ts EXCEPT ![k].finishing = TRUE] ELSE ts
      drained == here /\ open /\ CanComplete(ts2[k])
  IN /\ turns' = IF drained THEN Without(ts2, k) ELSE ts2
     /\ outQ' = IF due /\ fits THEN Append(q, Msg("finish", k)) ELSE q
     /\ obs' = obs \o told \o (IF due /\ ~fits THEN <<Msg("failed", k)>> ELSE <<>>)
                   \o (IF drained THEN <<Msg("drained", k)>> ELSE <<>>)

EnqueueTts(k) ==
  /\ IF Len(ttsQ) < TtsCapacity
       THEN /\ ttsQ' = Append(ttsQ, k)
            /\ turns' = Enqueued(turns, k)
            /\ UNCHANGED obs
       ELSE /\ obs' = Append(obs, Msg("failed", k))
            /\ UNCHANGED <<ttsQ, turns>>
  /\ UNCHANGED <<open, active, busy, cancelled, outQ, ring, empty, fade, rendEv, faded, displaced>>

FinishTts(k) ==
  /\ IF k \in DOMAIN turns
       THEN DrainIfReady(k, [turns EXCEPT ![k].finished = TRUE], outQ, <<>>)
       ELSE UNCHANGED <<turns, outQ, obs>>
  /\ UNCHANGED <<open, active, ttsQ, busy, cancelled, ring, empty, fade, rendEv, faded, displaced>>

SetOutputGeneration(k) ==
  /\ active' = k /\ ring' = 0 /\ empty' = TRUE
  /\ UNCHANGED <<open, turns, ttsQ, busy, cancelled, outQ, obs, fade, rendEv, faded, displaced>>

FadeEnd ==
  /\ fade' = 0 /\ faded' = faded \cup {fade}
  /\ rendEv' = Append(rendEv, fade)

(* RetireOutput, CancelTts and FadeOutput.  The callback has one fade, and *)
(* the new one replaces it; or the last frame of the old one, which reads  *)
(* the slot and clears it in two steps, clears the new one too.            *)
RetireOutput(k) ==
  /\ active' = 0 /\ ring' = 0 /\ empty' = TRUE
  /\ cancelled' = cancelled \cup {k}
  /\ \/ fade' = k /\ UNCHANGED <<rendEv, faded>>
     \/ fade # 0 /\ FadeEnd
  /\ displaced' = IF fade # 0 THEN displaced \cup {fade, k} ELSE displaced
  /\ turns' = Known(turns, k)
  /\ UNCHANGED <<open, ttsQ, busy, outQ, obs>>

(* Waits until every turn still in the map has faded, or for the fade and  *)
(* 50 ms more; in the second case it reports them itself.                  *)
FadesDone_Assumed == TRUE

FadesDone == DOMAIN turns \subseteq faded

CloseRoute ==
  /\ \/ FadesDone /\ UNCHANGED <<turns, obs>>
     \/ /\ ~FadesDone
        /\ turns' = <<>>
        /\ obs' = obs \o [i \in 1..Len(SetToSeq(DOMAIN turns)) |->
                            Msg("faded", SetToSeq(DOMAIN turns)[i])]
  /\ open' = FALSE /\ faded' = faded \ DOMAIN turns
  /\ outQ' = <<>> /\ ring' = 0 /\ fade' = 0
  /\ UNCHANGED <<rendEv, active, ttsQ, busy, cancelled, empty, displaced>>

Execute ==
  /\ acts # <<>> /\ CanPublish
  /\ LET a == Head(acts) IN
       \/ a.m = "enqueue" /\ EnqueueTts(a.k)
       \/ a.m = "finish" /\ FinishTts(a.k)
       \/ a.m = "set" /\ SetOutputGeneration(a.k)
       \/ a.m = "retire" /\ RetireOutput(a.k)
       \/ a.m = "close" /\ CloseRoute
  /\ acts' = Tail(acts)
  /\ UNCHANGED <<core, ttsEv, outEv, wake, spoken, failures>>

(* What the synthesis worker reports.  A finished segment is handed to the *)
(* output worker, or the turn fails when that queue is full.               *)
TtsFeedback ==
  /\ ttsEv # <<>> /\ CanPublish
  /\ LET e == Head(ttsEv)
         fits == open /\ Len(outQ) < OutputCapacity
     IN \/ /\ e.m = "started"
           /\ obs' = Append(obs, Msg("started", e.k))
           /\ UNCHANGED <<turns, outQ>>
        \/ /\ e.m = "done" /\ fits
           /\ outQ' = Append(outQ, Msg("prepare", e.k))
           /\ UNCHANGED <<turns, obs>>
        \/ /\ e.m = "done" /\ ~fits
           /\ DrainIfReady(e.k, Terminal(turns, e.k), outQ, <<Msg("failed", e.k)>>)
        \/ /\ e.m = "failed"
           /\ DrainIfReady(e.k, Terminal(turns, e.k), outQ, <<Msg("failed", e.k)>>)
        \/ /\ e.m = "cancelled"
           /\ DrainIfReady(e.k, Terminal(turns, e.k), outQ, <<>>)
  /\ ttsEv' = Tail(ttsEv)
  /\ UNCHANGED <<core, acts, open, active, ttsQ, busy, cancelled, outEv, ring, empty, wake,
                 callback, spoken, displaced, failures>>
(* What the output worker reports.  Whatever it was, the active turn may  *)
(* now be complete.                                                        *)
OutputFeedback ==
  /\ outEv # <<>> /\ CanPublish
  /\ LET e == Head(outEv)
         told == IF e.m \in {"failed", "finish failed"} THEN <<Msg("failed", e.k)>> ELSE <<>>
         ts == IF e.m \in {"prepared", "cancelled", "failed", "finish failed"}
                 THEN Terminal(turns, e.k)
               ELSE IF e.m = "finished" /\ e.k \in DOMAIN turns
                 THEN [turns EXCEPT ![e.k].flushed = TRUE]
               ELSE turns
     IN DrainIfReady(active, ts, outQ, told)
  /\ outEv' = Tail(outEv)
  /\ UNCHANGED <<core, acts, open, active, synthesis, ring, empty, wake, callback,
                 spoken, displaced, failures>>

RenderFeedback ==
  /\ rendEv # <<>> /\ CanPublish
  /\ LET k == Head(rendEv) IN
       /\ turns' = Without(turns, k)
       /\ obs' = IF k \in DOMAIN turns THEN Append(obs, Msg("faded", k)) ELSE obs
  /\ rendEv' = Tail(rendEv)
  /\ UNCHANGED <<core, acts, open, active, synthesis, output, fade, faded, history>>

(* The callback reports silence whenever it falls silent, also between two *)
(* segments; the report may be handled at any later time.  Bound: not while *)
(* the output queue is full, where it could only repeat a failure report.  *)
SilentFeedback ==
  /\ open /\ CanPublish /\ Len(outQ) < OutputCapacity
  /\ DrainIfReady(active, turns, outQ, <<>>)
  /\ UNCHANGED <<core, acts, open, active, synthesis, outEv, ring, empty, wake, callback, history>>

(***************************************************************************)
(* The synthesis worker                                                    *)
(***************************************************************************)
Synthesize ==
  /\ ttsQ # <<>> /\ busy = 0 /\ Len(ttsEv) < EventCapacity
  /\ LET k == Head(ttsQ) IN
       /\ busy' = IF k \in cancelled THEN 0 ELSE k
       /\ ttsEv' = Append(ttsEv, Msg(IF k \in cancelled THEN "cancelled" ELSE "started", k))
  /\ ttsQ' = Tail(ttsQ)
  /\ UNCHANGED <<core, acts, obs, open, turns, active, cancelled, output, callback, history>>

(* A cancellation may come too late to be noticed. *)
Synthesized ==
  /\ busy # 0 /\ busy' = 0 /\ Len(ttsEv) < EventCapacity
  /\ \/ ttsEv' = Append(ttsEv, Msg("done", busy)) /\ UNCHANGED failures
     \/ ttsEv' = Append(ttsEv, Msg("failed", busy)) /\ Fails
     \/ /\ busy \in cancelled
        /\ ttsEv' = Append(ttsEv, Msg("cancelled", busy)) /\ UNCHANGED failures
  /\ UNCHANGED <<core, acts, obs, open, turns, active, ttsQ, cancelled, output, callback,
                 spoken, displaced>>

(***************************************************************************)
(* The output worker                                                       *)
(***************************************************************************)
HasRoom_Unchecked == TRUE

HasRoom == ring < Lead

(* A segment waits for room in the lead; a new generation ends the wait.  *)
Prepare ==
  /\ outQ # <<>> /\ Head(outQ).m = "prepare" /\ Len(outEv) < EventCapacity
  /\ LET k == Head(outQ).k IN
       \/ /\ k # active
          /\ outEv' = Append(outEv, Msg("cancelled", k))
          /\ UNCHANGED <<ring, empty, failures>>
       \/ /\ k = active /\ HasRoom
          /\ ring' = ring + 1 /\ empty' = FALSE
          /\ outEv' = Append(outEv, Msg("prepared", k))
          /\ UNCHANGED failures
       \/ /\ k = active /\ Fails
          /\ outEv' = Append(outEv, Msg("failed", k))
          /\ UNCHANGED <<ring, empty>>
  /\ outQ' = Tail(outQ)
  /\ UNCHANGED <<core, acts, obs, open, turns, active, synthesis, wake, callback,
                 spoken, displaced>>

(* The flush of the resampler may or may not meet what the callback has    *)
(* played meanwhile.  A finish overtaken by a new generation fails or is   *)
(* dropped.                                                                *)
FinishOutput ==
  /\ outQ # <<>> /\ Head(outQ).m = "finish" /\ Len(outEv) < EventCapacity
  /\ LET k == Head(outQ).k IN
       \/ /\ k = active
          /\ outEv' = Append(outEv, Msg("finished", k))
          /\ empty' \in {empty, ring = 0}
       \/ k # active /\ UNCHANGED <<outEv, empty>>
       \/ k # active /\ outEv' = Append(outEv, Msg("finish failed", k)) /\ UNCHANGED empty
  /\ outQ' = Tail(outQ)
  /\ UNCHANGED <<core, acts, obs, open, turns, active, synthesis, ring, wake, callback, history>>

ServiceCapacity ==
  /\ wake /\ open
  /\ wake' = FALSE /\ empty' = (ring = 0)
  /\ outEv' = IF Len(outEv) < EventCapacity THEN Append(outEv, Msg("capacity", 0)) ELSE outEv
  /\ UNCHANGED <<core, acts, obs, open, turns, active, synthesis, outQ, ring, callback, history>>

(***************************************************************************)
(* The render callback                                                     *)
(***************************************************************************)
Play ==
  /\ open /\ ring > 0
  /\ ring' = ring - 1 /\ wake' = TRUE
  /\ spoken' = [spoken EXCEPT ![active] = @ + 1]
  /\ UNCHANGED <<core, acts, obs, open, turns, active, synthesis, outQ, outEv, empty,
                 callback, displaced, failures>>

FadeComplete ==
  /\ open /\ fade # 0
  /\ FadeEnd
  /\ UNCHANGED <<core, acts, obs, open, turns, active, synthesis, output, history>>

Next ==
  \/ BeginSpeech \/ EnqueueSpeech \/ FinishSpeech \/ CancelSpeech \/ CloseSession
  \/ Observe \/ Execute \/ TtsFeedback \/ OutputFeedback
  \/ RenderFeedback \/ SilentFeedback
  \/ Synthesize \/ Synthesized \/ Prepare \/ FinishOutput \/ ServiceCapacity
  \/ Play \/ FadeComplete

Spec == Init /\ [][Next]_vars

(* The threads and the device's callback keep running. *)
Fairness ==
  /\ WF_vars(Observe) /\ WF_vars(Execute)
  /\ WF_vars(TtsFeedback) /\ WF_vars(OutputFeedback) /\ WF_vars(RenderFeedback)
  /\ WF_vars(Synthesize) /\ WF_vars(Synthesized)
  /\ WF_vars(Prepare) /\ WF_vars(FinishOutput) /\ WF_vars(ServiceCapacity)
  /\ WF_vars(Play) /\ WF_vars(FadeComplete)

LiveSpec == Spec /\ Fairness

(***************************************************************************)
(* Properties                                                              *)
(***************************************************************************)
TypeOK ==
  /\ {live, finished, open, empty, wake} \subseteq BOOLEAN /\ failures \in 0..MaxFailures
  /\ begun \in 0..MaxTurns /\ {turn, retiring} \subseteq 0..begun
  /\ segs \in [Turns -> 0..MaxSegments] /\ started \in 0..MaxSegments
  /\ outcome \in {"cancelled", "failed"}
  /\ DOMAIN turns \subseteq Turns /\ active \in 0..MaxTurns
  /\ ring \in 0..Lead /\ Len(outQ) <= OutputCapacity /\ Len(ttsQ) <= TtsCapacity
  /\ {busy, fade} \subseteq 0..MaxTurns /\ faded \subseteq Turns

(* A turn gets at most one terminal event, and none while it is the active *)
(* turn, whatever late reports of its synthesis, its drain and its fade    *)
(* arrive after it was cancelled, failed or superseded (state.rs           *)
(* PlaybackDrained, FadeDrained, SynthesisFailed).                         *)
OneTerminalEvent ==
  \A k \in Turns : Len(ended[k]) <= 1 /\ (ended[k] # <<>> => turn # k /\ retiring # k)

(* A turn is reported completed only when every segment accepted for it    *)
(* has been played to its end (service.rs publish_playback_drained_if_ready *)
(* and OutputTurnState::can_complete).                                     *)
CompletedIsSpoken ==
  \A k \in Turns : ended[k] # <<>> /\ ended[k][1] = "completed" =>
    segs[k] > 0 /\ spoken[k] = segs[k]

(* A turn's own segments never overflow the synthesis queue: the           *)
(* coordinator admits by a count of started segments that lags behind the  *)
(* worker, and still never too many (state.rs EnqueueSpeech,               *)
(* workers.rs enqueue).                                                    *)
AdmissionFitsQueue ==
  acts # <<>> /\ Head(acts).m = "enqueue" =>
    Len(ttsQ) < TtsCapacity \/ \E i \in DOMAIN ttsQ : ttsQ[i] # Head(acts).k

(* A turn that was finished, cancelled, superseded or failed gets its      *)
(* terminal event, unless another turn was retired before its fade ended:  *)
(* the coordinator and the callback each remember one retirement           *)
(* (state.rs retiring_turn, host.rs retiring_generation).  A turn finished *)
(* without a segment is not known to the executor and stays the active     *)
(* one until it is retired (service.rs FinishTts).                         *)
TurnEnds ==
  \A k \in Turns :
    k <= begun /\ (turn # k \/ (finished /\ segs[k] > 0)) ~> ended[k] # <<>> \/ k \in displaced

(* While the output worker waits for room in a full lead, a segment that   *)
(* synthesis has completed can wait too: a long narration is not rejected  *)
(* for being ahead of playback (output.rs prepare_blocking).               *)
LongSpeechIsNotRejected ==
  ttsEv # <<>> /\ Head(ttsEv) = Msg("done", active) /\ open /\ ring = Lead
    => Len(outQ) < OutputCapacity
=============================================================================
