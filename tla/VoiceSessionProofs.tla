------------------------- MODULE VoiceSessionProofs -------------------------
(***************************************************************************)
(* Proofs about VoiceSession: that an active session is served, that a     *)
(* stop releases the microphone, and that an echo the coordinator was told *)
(* of is never confirmed, for any number of sessions, faults, retries and  *)
(* utterances.                                                             *)
(*                                                                         *)
(* The arguments are about what is on its way.  Opens and closes of one    *)
(* generation follow each other in the action channel, so a close finds    *)
(* the route it names or none; an observation of the current route proves  *)
(* that the route is still there; and the report of an echo precedes, in   *)
(* the observation channel, every text that was heard after it.            *)
(***************************************************************************)
EXTENDS VoiceSession, TLAPS

-----------------------------------------------------------------------------
(* The inductive invariant *)

\* What the coordinator may send to the executor
Actions ==
  [do : {"activate", "open", "start", "close", "reset", "retry"}, s : Nat, g : Nat]

\* What it may hear
Observations ==
  [saw : {"activated", "opened", "started", "due"}, s : Nat, g : Nat]
  \cup [saw : {"fault"}, g : Nat, recoverable : BOOLEAN]
  \cup [saw : {"vad"}, g : Nat, id : Nat, far : BOOLEAN, safe : BOOLEAN]
  \cup [saw : {"partial", "final"}, g : Nat, id : Nat, far : BOOLEAN, safe : BOOLEAN,
        lexical : BOOLEAN, known : SUBSET {"exposed", "reported"}]
  \cup [saw : {"lost"}, g : Nat, id : Nat]

\* In generation gen of session sess, the n-th: an action names a generation that was
\* current when it was sent, and a close one that is over, unless the session is.
ActionOK(a, gen, sess, n) ==
  /\ a.g <= gen
  /\ a.do = "activate" => a.s \in 1..n
  /\ a.do = "open" => a.s # 0
  /\ a.do \in {"open", "start"} => a.g # 0
  /\ a.do = "close" /\ sess # 0 => a.g < gen
  /\ a.do = "retry" => a.g # 0 /\ a.s \in 1..RetryLimit

\* After n sessions and c candidates:
ObservationOK(m, gen, n, c) ==
  /\ m.g <= gen
  /\ m.saw = "activated" => m.s \in 1..n
  /\ m.saw \in {"opened", "started"} => m.s # 0
  /\ m.saw \in {"vad", "partial", "final", "lost"} => m.id <= c
  /\ m.saw \in {"vad", "partial", "final"} => m.id # 0

\* Both channels hold messages that fit the sessions, generations and candidates so far.
Channels ==
  /\ acts \in Seq(Actions) /\ obs \in Seq(Observations)
  /\ \A i \in 1..Len(acts) : ActionOK(acts[i], rgen, session, used.sessions)
  /\ \A i \in 1..Len(obs) : ObservationOK(obs[i], rgen, used.sessions, used.candidates)

\* The candidate the coordinator follows
Candidates == [id : Nat, gen : Nat, unsafe : BOOLEAN, confirmed : BOOLEAN]

\* The coordinator's state; a session always has a generation.
CoreTypes ==
  /\ session \in Nat /\ status \in Statuses /\ (session = 0 <=> status = "Closed")
  /\ session # 0 => rgen # 0
  /\ rgen \in Nat /\ retry \in 0..RetryLimit /\ turn \in BOOLEAN
  /\ cand \in Candidates
  /\ cand.id <= used.candidates /\ cand.gen <= rgen

\* The executor's state; what it holds was opened with a generation that is not in the future.
ExecutorTypes ==
  /\ route \in [g : Nat, s : Nat] /\ host \in Nat /\ pipe \in Nat
  /\ route.g <= rgen /\ host <= rgen /\ pipe <= rgen /\ (route.g # 0 => route.s # 0)
  /\ models \in BOOLEAN /\ timers \subseteq (1..rgen) \X (1..RetryLimit)

\* The input worker's state
WorkerTypes ==
  /\ heard \in Nat /\ heard <= used.candidates
  /\ safe \in BOOLEAN /\ resetting \in BOOLEAN

\* The state of all three
Typed == CoreTypes /\ ExecutorTypes /\ WorkerTypes

\* What may have been spent of each bound
Spendings ==
  [sessions : 0..MaxSessions, candidates : 0..MaxCandidates, turns : 0..MaxTurns,
   faults : 0..MaxFaults, resets : 0..MaxResets]

\* The bounds are kept, and a session's number is one that was spent.
Spent == used \in Spendings /\ session <= used.sessions

\* A close of generation g waits at or after place i of the action channel q.
ClosedFrom(q, i, g) == \E k \in i..Len(q) : q[k].do = "close" /\ q[k].g = g

\* What was opened with generation g, or will be at place i - 1, is named by the next close,
\* and there is one unless g is the generation in use by a session.
Closable(q, gen, sess, i, g) ==
  /\ \A k \in i..Len(q) : q[k].do = "close" => g <= q[k].g
  /\ g < gen \/ sess = 0 => ClosedFrom(q, i, g)

\* Generations are closed one after the other.
ClosesRise(q) ==
  \A i, j \in 1..Len(q) : i < j /\ q[i].do = "close" /\ q[j].do = "close" => q[i].g < q[j].g

\* A route, its streams and its pipeline are there together, and whatever was opened, or will
\* be, is closed before anything newer is.
Routes ==
  /\ host = route.g /\ (route.g # 0 => pipe = route.g)
  /\ heard # 0 => host # 0
  /\ route.g # 0 => Closable(acts, rgen, session, 1, route.g)
  /\ pipe # 0 => Closable(acts, rgen, session, 1, pipe)
  /\ \A i \in 1..Len(acts) :
       acts[i].do = "open" => Closable(acts, rgen, session, i + 1, acts[i].g)
  /\ ClosesRise(acts)

\* That the route was started is told only of a route that is there.
Served ==
  /\ status = "Active" => route.g = rgen
  /\ \A i \in 1..Len(obs) :
       obs[i].saw = "started" /\ obs[i].s = session /\ obs[i].g = rgen
         => route.g = rgen

\* Nothing of the current generation is open, on its way to be, or can fail.
Idle ==
  /\ \A i \in 1..Len(acts) : acts[i].do \in {"open", "start"} => acts[i].g # rgen
  /\ \A i \in 1..Len(obs) : obs[i].saw \in {"opened", "started", "fault"} => obs[i].g # rgen
  /\ route.g # rgen

\* A session is activated once, and until then, or once suspended, nothing of its route is
\* underway.
Stages ==
  /\ \A i \in 1..Len(acts) : acts[i].do = "activate" /\ acts[i].s = session
       => status = "Opening" /\ Idle
  /\ \A i \in 1..Len(obs) : obs[i].saw = "activated" /\ obs[i].s = session
       => status = "Opening" /\ Idle
  /\ status = "Suspended" => Idle
  /\ \A i, j \in 1..Len(acts) :
       acts[i].do = "activate" /\ acts[j].do = "activate" /\ acts[i].s = acts[j].s => i = j
  /\ \A i, j \in 1..Len(obs) :
       obs[i].saw = "activated" /\ obs[j].saw = "activated" /\ obs[i].s = obs[j].s => i = j
  /\ \A i \in 1..Len(acts), j \in 1..Len(obs) :
       acts[i].do = "activate" /\ obs[j].saw = "activated" => acts[i].s # obs[j].s

\* A fault of the current route that may be retried waits to be seen.
FaultWaits(q, gen) ==
  \E i \in 1..Len(q) : q[i].saw = "fault" /\ q[i].g = gen /\ q[i].recoverable

\* Each generation but the first of a session, and the one it was suspended with, is owed
\* to a fault of the host.
Budget ==
  rgen + (IF status \in {"Opening", "Active", "Recovering"} THEN 1 ELSE 0)
       + (IF FaultWaits(obs, rgen) THEN 1 ELSE 0) <= 2 * used.sessions + used.faults

\* The observation shows an audible far end before convergence, during candidate c.
Reports(m, c) == m.saw \in {"vad", "partial"} /\ m.id = c /\ m.far /\ ~m.safe

\* Candidate c is announced in the observation channel q.
Announced(q, c) == \E i \in 1..Len(q) : q[i].saw = "vad" /\ q[i].id = c

\* Before place n of q the coordinator, in generation gen with candidate k, is told of c's
\* echo, or it has been and c is marked, if it is the candidate at all.
Warned(q, gen, k, c, g, n) ==
  \/ \E j \in 1..Len(q) : j < n /\ Reports(q[j], c)
  \/ ~Announced(q, c) /\ (g = gen /\ k.id = c /\ k.gen = g => k.unsafe)

\* A recognised text
IsText(m) == m.saw \in {"partial", "final"}

\* Utterances are announced once, before their texts and under the same generation.
InOrder(q) ==
  /\ \A i, j \in 1..Len(q) : q[i].saw = "vad" /\ q[j].saw = "vad" /\ q[i].id = q[j].id => i = j
  /\ \A i, j \in 1..Len(q) : q[i].saw = "vad" /\ IsText(q[j]) /\ q[i].id = q[j].id
       => i < j /\ q[i].g = q[j].g
  /\ \A i, j \in 1..Len(q) : IsText(q[i]) /\ IsText(q[j]) /\ q[i].id = q[j].id
       => q[i].g = q[j].g

\* What is said of the utterance being heard is said under the pipeline's generation.
Attributed(q, c, g) ==
  \A i \in 1..Len(q) : q[i].saw \in {"vad", "partial", "final"} /\ q[i].id = c => q[i].g = g

\* An utterance that is yet to be announced is not the candidate.
Unannounced(q, k) == \A i \in 1..Len(q) : q[i].saw = "vad" => q[i].id # k.id

\* What is said of utterances, and which of them were reported as echo
Utterances ==
  /\ InOrder(obs) /\ Unannounced(obs, cand) /\ Attributed(obs, heard, pipe)
  /\ \A c \in reported : c \in 1..used.candidates

\* Whatever was reported as echo is warned of before its next text is read.
Echo ==
  /\ \A i \in 1..Len(obs) : IsText(obs[i]) /\ "reported" \in obs[i].known
       => Warned(obs, rgen, cand, obs[i].id, obs[i].g, i)
  /\ heard # 0 /\ heard \in reported => Warned(obs, rgen, cand, heard, pipe, Len(obs) + 1)
  /\ ReportedEchoNeverConfirmed

\* The inductive invariant
IInv == Typed /\ Channels /\ Spent /\ Routes /\ Served /\ Stages /\ Budget /\ Utterances /\ Echo
-----------------------------------------------------------------------------
(* Channels *)

\* A message is taken from the front of a channel.
LEMMA Taking ==
  ASSUME NEW S, NEW q \in Seq(S), q # <<>>
  PROVE  /\ Tail(q) \in Seq(S) /\ Len(q) \in Nat \ {0} /\ Len(Tail(q)) = Len(q) - 1
         /\ Head(q) = q[1] /\ Head(q) \in S
         /\ \A i \in 1..Len(Tail(q)) : Tail(q)[i] = q[i + 1]
OBVIOUS

\* A message is put at the end of a channel.
LEMMA Putting ==
  ASSUME NEW S, NEW q \in Seq(S), NEW m \in S
  PROVE  /\ Append(q, m) \in Seq(S) /\ Len(q) \in Nat /\ Len(Append(q, m)) = Len(q) + 1
         /\ Append(q, m)[Len(q) + 1] = m
         /\ \A i \in 1..Len(q) : Append(q, m)[i] = q[i]
OBVIOUS

\* A run of one or two actions is sent.
LEMMA SendingOne ==
  ASSUME NEW S, NEW q \in Seq(S), NEW a \in S
  PROVE  /\ q \o <<a>> \in Seq(S) /\ Len(q) \in Nat /\ Len(q \o <<a>>) = Len(q) + 1
         /\ (q \o <<a>>)[Len(q) + 1] = a
         /\ \A i \in 1..Len(q) : (q \o <<a>>)[i] = q[i]
OBVIOUS

\* Two actions sent in one run.
LEMMA SendingTwo ==
  ASSUME NEW S, NEW q \in Seq(S), NEW a \in S, NEW b \in S
  PROVE  /\ q \o (<<a>> \o <<b>>) \in Seq(S) /\ Len(q) \in Nat /\ Len(q \o (<<a>> \o <<b>>)) = Len(q) + 2
         /\ (q \o (<<a>> \o <<b>>))[Len(q) + 1] = a
         /\ (q \o (<<a>> \o <<b>>))[Len(q) + 2] = b
         /\ \A i \in 1..Len(q) : (q \o (<<a>> \o <<b>>))[i] = q[i]
OBVIOUS

\* A run of none.
LEMMA SendingNone ==
  ASSUME NEW S, NEW q \in Seq(S)
  PROVE  q \o <<>> = q /\ q \o (<<>> \o <<>>) = q
OBVIOUS

\* A run that begins or ends with nothing.
LEMMA EmptyFirst ==
  ASSUME NEW a
  PROVE  <<>> \o <<a>> = <<a>> /\ <<a>> \o <<>> = <<a>>
OBVIOUS

-----------------------------------------------------------------------------
(* Types *)

\* The actions the coordinator sends are actions.
LEMMA ActionTypes ==
  ASSUME NEW s \in Nat, NEW g \in Nat
  PROVE  /\ Activate(s) \in Actions /\ OpenRoute(s, g) \in Actions /\ StartRoute(g) \in Actions
         /\ CloseRoute(g) \in Actions /\ ResetWorker \in Actions /\ RetryLater(g, s) \in Actions
BY DEF Activate, OpenRoute, StartRoute, CloseRoute, ResetWorker, RetryLater, Actions

\* What the executor and the worker publish are observations.
LEMMA ObservationTypes ==
  ASSUME NEW s \in Nat, NEW g \in Nat, NEW far \in BOOLEAN, NEW ok \in BOOLEAN
  PROVE  /\ \A what \in {"activated", "opened", "started", "due"} : Saw(what, s, g) \in Observations
         /\ Fault(g, ok) \in Observations
         /\ [saw |-> "vad", g |-> g, id |-> s, far |-> far, safe |-> ok] \in Observations
         /\ [saw |-> "lost", g |-> g, id |-> s] \in Observations
<1>1. \A what \in {"activated", "opened", "started", "due"} : Saw(what, s, g) \in Observations
  BY DEF Saw, Observations
<1>2. Fault(g, ok) \in Observations
  BY DEF Fault, Observations
<1>3. [saw |-> "vad", g |-> g, id |-> s, far |-> far, safe |-> ok] \in Observations
  BY DEF Observations
<1>4. [saw |-> "lost", g |-> g, id |-> s] \in Observations
  BY DEF Observations
<1> QED
  BY <1>1, <1>2, <1>3, <1>4

\* A text says whose it is, under which generation, and what was reported of it before.
LEMMA UtteranceTypes ==
  ASSUME NEW what \in {"partial", "final"}, NEW far \in BOOLEAN, NEW ok \in BOOLEAN,
         NEW lexical \in BOOLEAN, pipe \in Nat, heard \in Nat
  PROVE  /\ Utterance(what, far, ok, lexical) \in Observations
         /\ Utterance(what, far, ok, lexical).saw = what
         /\ Utterance(what, far, ok, lexical).g = pipe
         /\ Utterance(what, far, ok, lexical).id = heard
         /\ Utterance(what, far, ok, lexical).far = far
         /\ Utterance(what, far, ok, lexical).safe = ok
         /\ "reported" \in Utterance(what, far, ok, lexical).known <=> heard \in reported
<1> DEFINE known == {k \in {"exposed", "reported"} :
                       heard \in (IF k = "exposed" THEN exposed' ELSE reported)}
<1>1. known \in SUBSET {"exposed", "reported"} /\ ("reported" \in known <=> heard \in reported)
  OBVIOUS
<1>2. Utterance(what, far, ok, lexical) =
        [saw |-> what, g |-> pipe, id |-> heard, far |-> far, safe |-> ok, lexical |-> lexical,
         known |-> known]
  BY DEF Utterance
<1> HIDE DEF known
<1>3. Utterance(what, far, ok, lexical) \in
        [saw : {"partial", "final"}, g : Nat, id : Nat, far : BOOLEAN, safe : BOOLEAN,
         lexical : BOOLEAN, known : SUBSET {"exposed", "reported"}]
  BY <1>1, <1>2
<1> QED
  BY <1>1, <1>2, <1>3 DEF Observations

\* What a bound allows to be spent is counted, and stays within it.
LEMMA Spending ==
  ASSUME used \in Spendings
  PROVE  /\ Spend("sessions", MaxSessions) =>
              /\ used' \in Spendings /\ used'.sessions = used.sessions + 1
              /\ used'.candidates = used.candidates /\ used'.faults = used.faults
         /\ Spend("candidates", MaxCandidates) =>
              /\ used' \in Spendings /\ used'.candidates = used.candidates + 1
              /\ used'.sessions = used.sessions /\ used'.faults = used.faults
         /\ Spend("faults", MaxFaults) =>
              /\ used' \in Spendings /\ used'.faults = used.faults + 1
              /\ used'.sessions = used.sessions /\ used'.candidates = used.candidates
         /\ Spend("turns", MaxTurns) =>
              /\ used' \in Spendings /\ used'.faults = used.faults
              /\ used'.sessions = used.sessions /\ used'.candidates = used.candidates
         /\ Spend("resets", MaxResets) =>
              /\ used' \in Spendings /\ used'.faults = used.faults
              /\ used'.sessions = used.sessions /\ used'.candidates = used.candidates
<1> USE SessionBounds DEF Spend, Spendings
<1>1. Spend("sessions", MaxSessions) =>
        /\ used' \in Spendings /\ used'.sessions = used.sessions + 1
        /\ used'.candidates = used.candidates /\ used'.faults = used.faults
  OBVIOUS
<1>2. Spend("candidates", MaxCandidates) =>
        /\ used' \in Spendings /\ used'.candidates = used.candidates + 1
        /\ used'.sessions = used.sessions /\ used'.faults = used.faults
  OBVIOUS
<1>3. Spend("faults", MaxFaults) =>
        /\ used' \in Spendings /\ used'.faults = used.faults + 1
        /\ used'.sessions = used.sessions /\ used'.candidates = used.candidates
  OBVIOUS
<1>4. Spend("turns", MaxTurns) =>
        /\ used' \in Spendings /\ used'.faults = used.faults
        /\ used'.sessions = used.sessions /\ used'.candidates = used.candidates
  OBVIOUS
<1>5. Spend("resets", MaxResets) =>
        /\ used' \in Spendings /\ used'.faults = used.faults
        /\ used'.sessions = used.sessions /\ used'.candidates = used.candidates
  OBVIOUS
<1> QED
  BY <1>1, <1>2, <1>3, <1>4, <1>5

\* The channel q has become r: its messages are still there, and others may follow.
Grown(q, r) ==
  /\ Len(q) \in Nat /\ Len(r) \in Nat /\ Len(q) <= Len(r)
  /\ \A i \in 1..Len(q) : r[i] = q[i]

\* Its first message was taken.
Shrunk(q, r) ==
  /\ Len(q) \in Nat \ {0} /\ Len(r) = Len(q) - 1
  /\ \A i \in 1..Len(r) : r[i] = q[i + 1]

\* What waits in the action channel stays right when generations and sessions are counted on.
LEMMA ActionsKept ==
  ASSUME Channels, acts' \in Seq(Actions), rgen \in Nat, rgen' \in Nat, rgen <= rgen',
         used.sessions \in Nat, used'.sessions \in Nat, used.sessions <= used'.sessions,
         session' = 0 \/ session' = session \/ rgen < rgen',
         \/ Shrunk(acts, acts')
         \/ /\ Grown(acts, acts')
            /\ \A i \in 1..Len(acts') :
                 i > Len(acts) => ActionOK(acts'[i], rgen', session', used'.sessions)
  PROVE  \A i \in 1..Len(acts') : ActionOK(acts'[i], rgen', session', used'.sessions)
<1>1. ASSUME NEW a \in Actions, ActionOK(a, rgen, session, used.sessions)
      PROVE  ActionOK(a, rgen', session', used'.sessions)
  BY <1>1 DEF ActionOK, Actions
<1>2. \A i \in 1..Len(acts) : acts[i] \in Actions /\ ActionOK(acts[i], rgen, session, used.sessions)
  BY DEF Channels
<1> SUFFICES ASSUME NEW i \in 1..Len(acts') PROVE ActionOK(acts'[i], rgen', session', used'.sessions)
  OBVIOUS
<1>3. CASE Shrunk(acts, acts')
  <2>1. i + 1 \in 1..Len(acts) /\ acts'[i] = acts[i + 1]
    BY <1>3 DEF Shrunk
  <2> QED
    BY <1>1, <1>2, <2>1
<1>4. CASE /\ Grown(acts, acts')
           /\ \A j \in 1..Len(acts') :
                j > Len(acts) => ActionOK(acts'[j], rgen', session', used'.sessions)
  <2>1. CASE i \in 1..Len(acts)
    BY <1>1, <1>2, <1>4, <2>1 DEF Grown
  <2>2. CASE i \notin 1..Len(acts)
    BY <1>4, <2>2 DEF Grown
  <2> QED
    BY <2>1, <2>2
<1> QED
  BY <1>3, <1>4

\* And what waits in the observation channel.
LEMMA ObservationsKept ==
  ASSUME Channels, obs' \in Seq(Observations), rgen \in Nat, rgen' \in Nat, rgen <= rgen',
         used.sessions \in Nat, used'.sessions \in Nat, used.sessions <= used'.sessions,
         used.candidates \in Nat, used'.candidates \in Nat, used.candidates <= used'.candidates,
         \/ Shrunk(obs, obs')
         \/ /\ Grown(obs, obs')
            /\ \A i \in 1..Len(obs') :
                 i > Len(obs) => ObservationOK(obs'[i], rgen', used'.sessions, used'.candidates)
  PROVE  \A i \in 1..Len(obs') : ObservationOK(obs'[i], rgen', used'.sessions, used'.candidates)
<1>1. ASSUME NEW a \in Observations, ObservationOK(a, rgen, used.sessions, used.candidates)
      PROVE  ObservationOK(a, rgen', used'.sessions, used'.candidates)
  BY <1>1 DEF ObservationOK, Observations
<1>2. \A i \in 1..Len(obs) : obs[i] \in Observations /\ ObservationOK(obs[i], rgen, used.sessions, used.candidates)
  BY DEF Channels
<1> SUFFICES ASSUME NEW i \in 1..Len(obs') PROVE ObservationOK(obs'[i], rgen', used'.sessions, used'.candidates)
  OBVIOUS
<1>3. CASE Shrunk(obs, obs')
  <2>1. i + 1 \in 1..Len(obs) /\ obs'[i] = obs[i + 1]
    BY <1>3 DEF Shrunk
  <2> QED
    BY <1>1, <1>2, <2>1
<1>4. CASE /\ Grown(obs, obs')
           /\ \A j \in 1..Len(obs') :
                j > Len(obs) => ObservationOK(obs'[j], rgen', used'.sessions, used'.candidates)
  <2>1. CASE i \in 1..Len(obs)
    BY <1>1, <1>2, <1>4, <2>1 DEF Grown
  <2>2. CASE i \notin 1..Len(obs)
    BY <1>4, <2>2 DEF Grown
  <2> QED
    BY <2>1, <2>2
<1> QED
  BY <1>3, <1>4

\* No candidate is a candidate.
LEMMA NoCandidateTyped ==
  NoCandidate \in Candidates /\ NoCandidate.id = 0 /\ NoCandidate.gen = 0 /\ ~NoCandidate.unsafe
BY DEF NoCandidate, Candidates

\* And what is announced is one.
LEMMA AnnouncedTyped ==
  ASSUME NEW i \in Nat, NEW g \in Nat, NEW u \in BOOLEAN
  PROVE  [id |-> i, gen |-> g, unsafe |-> u, confirmed |-> FALSE] \in Candidates
BY DEF Candidates

\* The four shapes of a step on a channel, from the operators that make them.
LEMMA Shapes ==
  ASSUME NEW S, NEW q \in Seq(S)
  PROVE  /\ Grown(q, q)
         /\ q # <<>> => Shrunk(q, Tail(q)) /\ Tail(q) \in Seq(S) /\ Head(q) = q[1] /\ q[1] \in S
         /\ \A m \in S : Grown(q, Append(q, m)) /\ Append(q, m) \in Seq(S)
                         /\ Len(Append(q, m)) = Len(q) + 1 /\ Append(q, m)[Len(q) + 1] = m
         /\ \A a \in S : Grown(q, q \o <<a>>) /\ q \o <<a>> \in Seq(S)
                         /\ Len(q \o <<a>>) = Len(q) + 1 /\ (q \o <<a>>)[Len(q) + 1] = a
         /\ \A a, b \in S :
              /\ Grown(q, q \o (<<a>> \o <<b>>)) /\ q \o (<<a>> \o <<b>>) \in Seq(S)
              /\ Len(q \o (<<a>> \o <<b>>)) = Len(q) + 2
              /\ (q \o (<<a>> \o <<b>>))[Len(q) + 1] = a /\ (q \o (<<a>> \o <<b>>))[Len(q) + 2] = b
<1>1. Grown(q, q)
  BY DEF Grown
<1>2. q # <<>> => Shrunk(q, Tail(q)) /\ Tail(q) \in Seq(S) /\ Head(q) = q[1] /\ q[1] \in S
  BY Taking DEF Shrunk
<1>3. ASSUME NEW m \in S
      PROVE  Grown(q, Append(q, m)) /\ Append(q, m) \in Seq(S)
             /\ Len(Append(q, m)) = Len(q) + 1 /\ Append(q, m)[Len(q) + 1] = m
  BY Putting DEF Grown
<1>4. ASSUME NEW a \in S
      PROVE  Grown(q, q \o <<a>>) /\ q \o <<a>> \in Seq(S)
             /\ Len(q \o <<a>>) = Len(q) + 1 /\ (q \o <<a>>)[Len(q) + 1] = a
  BY SendingOne DEF Grown
<1>5. ASSUME NEW a \in S, NEW b \in S
      PROVE  /\ Grown(q, q \o (<<a>> \o <<b>>)) /\ q \o (<<a>> \o <<b>>) \in Seq(S)
             /\ Len(q \o (<<a>> \o <<b>>)) = Len(q) + 2
             /\ (q \o (<<a>> \o <<b>>))[Len(q) + 1] = a /\ (q \o (<<a>> \o <<b>>))[Len(q) + 2] = b
  BY SendingTwo DEF Grown
<1> QED
  BY <1>1, <1>2, <1>3, <1>4, <1>5

\* The part of the invariant that every other part rests on
Base == Typed /\ Channels /\ Spent

\* The numbers are numbers.
LEMMA Basics ==
  ASSUME Base
  PROVE  /\ session \in Nat /\ rgen \in Nat /\ retry \in Nat /\ RetryLimit \in Nat
         /\ cand.id \in Nat /\ cand.gen \in Nat /\ route.g \in Nat /\ route.s \in Nat
         /\ host \in Nat /\ pipe \in Nat /\ heard \in Nat
         /\ used.sessions \in Nat /\ used.candidates \in Nat /\ used.faults \in Nat
         /\ Len(acts) \in Nat /\ Len(obs) \in Nat
<1>1. RetryLimit \in Nat /\ MaxSessions \in Nat /\ MaxCandidates \in Nat /\ MaxFaults \in Nat
  BY SessionBounds
<1>2. session \in Nat /\ rgen \in Nat /\ retry \in Nat /\ cand.id \in Nat /\ cand.gen \in Nat
  BY <1>1 DEF Base, Typed, CoreTypes, Candidates
<1>3. route.g \in Nat /\ route.s \in Nat /\ host \in Nat /\ pipe \in Nat /\ heard \in Nat
  BY DEF Base, Typed, ExecutorTypes, WorkerTypes
<1>4. used.sessions \in Nat /\ used.candidates \in Nat /\ used.faults \in Nat
  BY <1>1 DEF Base, Spent, Spendings
<1>5. acts \in Seq(Actions) /\ obs \in Seq(Observations)
  BY DEF Base, Channels
<1>6. Len(acts) \in Nat /\ Len(obs) \in Nat
  BY <1>5
<1> QED
  BY <1>1, <1>2, <1>3, <1>4, <1>5, <1>6

\* The executor's and the worker's types only ask that counters do not go back.
LEMMA OthersKept ==
  ASSUME Base, rgen' \in Nat, rgen <= rgen'
  PROVE  UNCHANGED executor => ExecutorTypes'
<1>1. (1..rgen) \subseteq (1..rgen')
  BY Basics
<1> QED
  BY <1>1, Basics DEF Base, Typed, ExecutorTypes, executor

\* Exactly one message was put at the end.
Put(q, r, m) == Grown(q, r) /\ Len(r) = Len(q) + 1 /\ r[Len(q) + 1] = m

\* What the coordinator does to the channels, and what the executor and the worker do.
LEMMA PublishShape ==
  ASSUME Channels, NEW m \in Observations, obs' = Append(obs, m)
  PROVE  obs' \in Seq(Observations) /\ Put(obs, obs', m)
BY Shapes DEF Channels, Put

\* A single action reaches the end of the action channel.
LEMMA SendShape ==
  ASSUME Channels, NEW a \in Actions, acts' = acts \o <<a>>
  PROVE  acts' \in Seq(Actions) /\ Put(acts, acts', a)
BY Shapes DEF Channels, Put

\* A new session sends its activation, after the close of the session it supersedes.
LEMMA StartShape ==
  ASSUME Base, StartSession
  PROVE  /\ acts' \in Seq(Actions) /\ Grown(acts, acts')
         /\ session' = used.sessions + 1 /\ used' \in Spendings /\ used'.sessions = session'
         /\ used'.candidates = used.candidates /\ used'.faults = used.faults
         /\ IF session = 0
              THEN Len(acts') = Len(acts) + 1 /\ acts'[Len(acts) + 1] = Activate(session')
              ELSE /\ Len(acts') = Len(acts) + 2
                   /\ acts'[Len(acts) + 1] = CloseRoute(rgen)
                   /\ acts'[Len(acts) + 2] = Activate(session')
<1>1. /\ used' \in Spendings /\ used'.sessions = used.sessions + 1
      /\ used'.candidates = used.candidates /\ used'.faults = used.faults
  BY Spending DEF Base, Spent, StartSession
<1>2. session' = used.sessions + 1 /\ session' \in Nat /\ rgen \in Nat /\ acts \in Seq(Actions)
  BY <1>1, SessionBounds DEF StartSession, Base, Spent, Spendings, Typed, CoreTypes, Channels
<1>3. Activate(session') \in Actions /\ CloseRoute(rgen) \in Actions
  BY <1>2, ActionTypes
<1>4. CASE session = 0
  <2>1. acts' = acts \o <<Activate(session')>>
    BY <1>4, EmptyFirst DEF StartSession, Send, CloseSuperseded
  <2> QED
    BY <1>1, <1>2, <1>3, <1>4, <2>1, Shapes
<1>5. CASE session # 0
  <2>1. acts' = acts \o (<<CloseRoute(rgen)>> \o <<Activate(session')>>)
    BY <1>5 DEF StartSession, Send, CloseSuperseded
  <2> QED
    BY <1>1, <1>2, <1>3, <1>5, <2>1, Shapes
<1> QED
  BY <1>4, <1>5

\* What a fault of the current route does.
LEMMA FaultShape ==
  ASSUME Base, NEW m \in Observations, RouteFault(m), m.g = rgen, session # 0
  PROVE  /\ acts' \in Seq(Actions) /\ Grown(acts, acts')
         /\ acts'[Len(acts) + 1] = CloseRoute(rgen)
         /\ \/ Len(acts') = Len(acts) + 1
            \/ /\ Len(acts') = Len(acts) + 2 /\ m.recoverable /\ retry < RetryLimit
               /\ acts'[Len(acts) + 2] = RetryLater(rgen + 1, retry + 1)
         /\ rgen' = rgen + 1 /\ turn' = FALSE /\ cand' = NoCandidate /\ session' = session
         /\ \/ status' = "Recovering" /\ m.recoverable /\ retry < RetryLimit /\ retry' = retry + 1
            \/ status' = "Suspended" /\ retry' = retry
<1>1. rgen \in Nat /\ retry \in 0..RetryLimit /\ acts \in Seq(Actions) /\ RetryLimit \in Nat
  BY SessionBounds DEF Base, Typed, CoreTypes, Channels
<1>2. CloseRoute(rgen) \in Actions /\ RetryLater(rgen + 1, retry + 1) \in Actions
  BY <1>1, ActionTypes
<1>3. /\ rgen' = rgen + 1 /\ turn' = FALSE /\ cand' = NoCandidate /\ session' = session
      /\ status' = IF Retryable(m) THEN "Recovering" ELSE "Suspended"
      /\ retry' = IF status' = "Recovering" THEN retry + 1 ELSE retry
      /\ acts' = acts \o (<<CloseRoute(rgen)>> \o
                    (IF status' = "Recovering" THEN <<RetryLater(rgen', retry')>> ELSE <<>>))
  BY DEF RouteFault, AfterFault, Send
<1>4. CASE Retryable(m)
  <2>1. status' = "Recovering" /\ retry' = retry + 1
        /\ acts' = acts \o (<<CloseRoute(rgen)>> \o <<RetryLater(rgen + 1, retry + 1)>>)
    BY <1>3, <1>4
  <2>2. Retryable(m) => m.recoverable /\ retry < RetryLimit
    BY DEF Retryable
  <2> QED
    BY <1>1, <1>2, <1>3, <1>4, <2>1, <2>2, Shapes
<1>5. CASE ~Retryable(m)
  <2>1. status' = "Suspended" /\ retry' = retry
        /\ acts' = acts \o <<CloseRoute(rgen)>>
    BY <1>3, <1>5, EmptyFirst
  <2> QED
    BY <1>1, <1>2, <1>3, <1>5, <2>1, Shapes
<1> QED
  BY <1>4, <1>5

\* The coordinator keeps the types when it takes a command.
LEMMA CommandTypes ==
  ASSUME Base, StartSession \/ StopSession \/ ResetInput \/ BeginSpeech \/ EndSpeech
  PROVE  Base'
<1>0. /\ \A i \in 1..Len(acts) : ActionOK(acts[i], rgen, session, used.sessions)
      /\ \A i \in 1..Len(obs) : ObservationOK(obs[i], rgen, used.sessions, used.candidates)
      /\ acts \in Seq(Actions) /\ obs \in Seq(Observations)
  BY DEF Base, Channels
<1>a. Grown(obs, obs) /\ Channels
  BY Basics DEF Grown, Base
<1>n. session \in Nat /\ rgen \in Nat /\ used.sessions \in Nat /\ used.candidates \in Nat
      /\ Len(acts) \in Nat /\ retry \in Nat /\ RetryLimit \in Nat
  BY Basics
<1>1. CASE StartSession
  <2>1. /\ status' = "Opening" /\ retry' = 0 /\ turn' = FALSE /\ cand' = NoCandidate
        /\ rgen' = rgen + 1 /\ rgen' \in Nat /\ rgen <= rgen' /\ rgen < rgen'
        /\ obs' = obs /\ UNCHANGED executor /\ UNCHANGED worker
    BY <1>n, <1>1 DEF StartSession
  <2>2. /\ session' = used'.sessions /\ session' \in Nat \ {0} /\ used'.sessions \in Nat
        /\ used.sessions <= used'.sessions /\ used'.candidates = used.candidates
        /\ used' \in Spendings
    BY <1>n, <1>1, StartShape
  <2>3. CoreTypes'
    <3>1. turn' \in BOOLEAN /\ cand' \in Candidates /\ status' \in Statuses
      BY <2>1, NoCandidateTyped DEF Statuses
    <3>2. cand'.id <= used'.candidates /\ cand'.gen <= rgen'
      BY <1>n, <2>1, <2>2, NoCandidateTyped
    <3>3. session' = 0 <=> status' = "Closed"
      BY <2>1, <2>2
    <3> QED
      BY <1>n, <2>1, <2>2, <3>1, <3>2, <3>3 DEF CoreTypes
  <2>4. ExecutorTypes'
    BY <2>1, OthersKept
  <2>5. WorkerTypes' /\ Spent'
    BY <1>n, <2>1, <2>2 DEF Base, Typed, WorkerTypes, Spent, worker
  <2>6. acts' \in Seq(Actions) /\ Grown(acts, acts')
    BY <1>1, StartShape
  <2>7. \A i \in 1..Len(acts') : i > Len(acts) =>
           acts'[i] = Activate(session') \/ acts'[i] = CloseRoute(rgen)
    BY <1>n, <1>1, <2>6, StartShape DEF Grown
  <2>8. /\ ActionOK(Activate(session'), rgen', session', used'.sessions)
        /\ ActionOK(CloseRoute(rgen), rgen', session', used'.sessions)
    BY <1>n, <2>1, <2>2 DEF ActionOK, Activate, CloseRoute
  <2>9. \A i \in 1..Len(acts') : ActionOK(acts'[i], rgen', session', used'.sessions)
    BY <1>a, <1>n, <2>1, <2>2, <2>6, <2>7, <2>8, ActionsKept
  <2>10. \A i \in 1..Len(obs') : ObservationOK(obs'[i], rgen', used'.sessions, used'.candidates)
    BY <1>0, <1>a, <1>n, <2>1, <2>2, ObservationsKept DEF Grown
  <2> QED
    BY <1>0, <2>1, <2>3, <2>4, <2>5, <2>6, <2>9, <2>10 DEF Base, Typed, Channels
<1>2. CASE StopSession
  <2>1. /\ session' = 0 /\ status' = "Closed" /\ turn' = FALSE /\ cand' = NoCandidate /\ retry' = retry
        /\ rgen' = rgen /\ used' = used /\ obs' = obs /\ UNCHANGED executor /\ UNCHANGED worker
    BY <1>2 DEF StopSession
  <2>2. CoreTypes'
    <3>1. turn' \in BOOLEAN /\ cand' \in Candidates /\ status' \in Statuses
      BY <2>1, NoCandidateTyped DEF Statuses
    <3>2. cand'.id <= used'.candidates /\ cand'.gen <= rgen'
      BY <1>n, <2>1, NoCandidateTyped
    <3> QED
      BY <1>n, <2>1, <3>1, <3>2 DEF Base, Typed, CoreTypes
  <2>3. WorkerTypes' /\ Spent'
    BY <1>n, <2>1 DEF Base, Typed, WorkerTypes, Spent, worker
  <2>4. ExecutorTypes'
    BY <1>n, <2>1, OthersKept
  <2>5. acts' \in Seq(Actions) /\ Put(acts, acts', CloseRoute(rgen))
    BY <1>n, <1>2, SendShape, ActionTypes DEF Base, StopSession, Send
  <2>6. Grown(acts, acts') /\ \A i \in 1..Len(acts') : i > Len(acts) => acts'[i] = CloseRoute(rgen)
    BY <1>n, <2>5 DEF Put, Grown
  <2>7. ActionOK(CloseRoute(rgen), rgen', session', used'.sessions)
    BY <1>n, <2>1 DEF ActionOK, CloseRoute
  <2>8. \A i \in 1..Len(acts') : ActionOK(acts'[i], rgen', session', used'.sessions)
    BY <1>a, <1>n, <2>1, <2>5, <2>6, <2>7, ActionsKept
  <2> QED
    BY <1>0, <2>1, <2>2, <2>3, <2>4, <2>5, <2>8 DEF Base, Typed, Channels
<1>3. CASE ResetInput
  <2>0. used' \in Spendings /\ used'.sessions = used.sessions /\ used'.candidates = used.candidates
    BY <1>3, Spending DEF Base, Spent, ResetInput
  <2>1. /\ cand' = NoCandidate /\ obs' = obs /\ UNCHANGED executor /\ UNCHANGED worker
        /\ UNCHANGED <<session, status, rgen, retry, turn>>
    BY <1>3 DEF ResetInput
  <2>2. CoreTypes'
    BY <1>n, <2>0, <2>1, NoCandidateTyped DEF Base, Typed, CoreTypes
  <2>3. WorkerTypes' /\ Spent'
    BY <1>n, <2>0, <2>1 DEF Base, Typed, WorkerTypes, Spent, worker
  <2>4. ExecutorTypes'
    BY <1>n, <2>1, OthersKept
  <2>5. acts' \in Seq(Actions) /\ Put(acts, acts', ResetWorker)
    BY <1>n, <1>3, SendShape, ActionTypes DEF Base, ResetInput, Send
  <2>6. Grown(acts, acts') /\ \A i \in 1..Len(acts') : i > Len(acts) => acts'[i] = ResetWorker
    BY <1>n, <2>5 DEF Put, Grown
  <2>7. ActionOK(ResetWorker, rgen', session', used'.sessions)
    BY <1>n, <2>1 DEF ActionOK, ResetWorker
  <2>8. \A i \in 1..Len(acts') : ActionOK(acts'[i], rgen', session', used'.sessions)
    BY <1>a, <1>n, <2>0, <2>1, <2>5, <2>6, <2>7, ActionsKept
  <2> QED
    BY <1>0, <2>0, <2>1, <2>2, <2>3, <2>4, <2>5, <2>8 DEF Base, Typed, Channels
<1>4. CASE BeginSpeech \/ EndSpeech
  <2>0. /\ used' \in Spendings /\ used'.sessions = used.sessions
        /\ used'.candidates = used.candidates
    BY <1>4, Spending DEF Base, Spent, BeginSpeech, EndSpeech
  <2>1. /\ UNCHANGED <<session, status, rgen, retry, cand, acts, obs, executor, worker, breach>>
        /\ turn' \in BOOLEAN
    BY <1>4 DEF BeginSpeech, EndSpeech
  <2>2. ExecutorTypes'
    BY <1>n, <2>1, OthersKept
  <2>3. CoreTypes' /\ WorkerTypes' /\ Spent'
    BY <2>0, <2>1 DEF Base, Typed, CoreTypes, WorkerTypes, Spent, worker
  <2> QED
    BY <1>0, <2>0, <2>1, <2>2, <2>3 DEF Base, Typed, Channels
<1> QED
  BY <1>1, <1>2, <1>3, <1>4

\* An action is sent under a condition.
LEMMA SendIfShape ==
  ASSUME Channels, NEW P \in BOOLEAN, NEW a \in Actions, acts' = acts \o (IF P THEN <<a>> ELSE <<>>)
  PROVE  /\ acts' \in Seq(Actions)
         /\ P => Put(acts, acts', a)
         /\ ~P => acts' = acts
<1>0. acts \in Seq(Actions)
  BY DEF Channels
<1>1. CASE P
  <2>1. acts' = acts \o <<a>>
    BY <1>1
  <2> QED
    BY <1>1, <2>1, SendShape
<1>2. CASE ~P
  <2>1. acts' = acts \o <<>>
    BY <1>2
  <2> QED
    BY <1>0, <1>2, <2>1, SendingNone
<1> QED
  BY <1>1, <1>2

\* The coordinator takes an observation and perhaps sends actions.
LEMMA ObservedTypes ==
  ASSUME Base, obs' \in Seq(Observations), Shrunk(obs, obs'), UNCHANGED <<executor, worker, used, session>>,
         rgen' \in Nat, rgen <= rgen', CoreTypes', acts' \in Seq(Actions), Grown(acts, acts'),
         \A i \in 1..Len(acts') : i > Len(acts) => ActionOK(acts'[i], rgen', session', used'.sessions)
  PROVE  Base'
<1>n. session \in Nat /\ rgen \in Nat /\ used.sessions \in Nat /\ used.candidates \in Nat
  BY Basics
<1>0. Channels
  BY DEF Base
<1>1. \A i \in 1..Len(acts') : ActionOK(acts'[i], rgen', session', used'.sessions)
  BY <1>0, <1>n, ActionsKept
<1>2. \A i \in 1..Len(obs') : ObservationOK(obs'[i], rgen', used'.sessions, used'.candidates)
  BY <1>0, <1>n, ObservationsKept
<1>3. ExecutorTypes'
  BY OthersKept
<1>4. WorkerTypes' /\ Spent'
  BY DEF Base, Typed, WorkerTypes, worker, Spent
<1> QED
  BY <1>1, <1>2, <1>3, <1>4 DEF Base, Typed, Channels

\* The executor or the worker takes a step and perhaps publishes an observation.
LEMMA ExecutedTypes ==
  ASSUME Base, UNCHANGED core, used' \in Spendings, used'.sessions = used.sessions,
         used'.candidates \in Nat, used.candidates <= used'.candidates, ExecutorTypes', WorkerTypes',
         acts' \in Seq(Actions), acts' = acts \/ Shrunk(acts, acts'),
         obs' \in Seq(Observations), Grown(obs, obs'),
         \A i \in 1..Len(obs') : i > Len(obs) =>
           ObservationOK(obs'[i], rgen', used'.sessions, used'.candidates)
  PROVE  Base'
<1>n. /\ session \in Nat /\ rgen \in Nat /\ used.sessions \in Nat /\ used.candidates \in Nat
      /\ cand.id \in Nat /\ session' = session /\ rgen' = rgen /\ cand' = cand
  BY Basics DEF core
<1>0. Channels
  BY DEF Base
<1>1. \A i \in 1..Len(acts') : ActionOK(acts'[i], rgen', session', used'.sessions)
  <2>1. CASE acts' = acts
    BY <1>0, <1>n, <2>1 DEF Channels
  <2>2. CASE Shrunk(acts, acts')
    BY <1>0, <1>n, <2>2, ActionsKept
  <2> QED
    BY <2>1, <2>2
<1>2. \A i \in 1..Len(obs') : ObservationOK(obs'[i], rgen', used'.sessions, used'.candidates)
  BY <1>0, <1>n, ObservationsKept
<1>3. CoreTypes' /\ Spent'
  BY <1>n DEF Base, Typed, CoreTypes, core, Spent
<1> QED
  BY <1>1, <1>2, <1>3 DEF Base, Typed, Channels

\* What the coordinator finds at the front of its channel.
LEMMA FirstObservation ==
  ASSUME Base, Observe
  PROVE  /\ obs' \in Seq(Observations) /\ Shrunk(obs, obs') /\ obs # <<>>
         /\ Head(obs) = obs[1] /\ obs[1] \in Observations /\ 1 \in 1..Len(obs)
         /\ ObservationOK(obs[1], rgen, used.sessions, used.candidates)
         /\ UNCHANGED <<executor, worker, used>>
<1>1. obs \in Seq(Observations) /\ obs # <<>> /\ obs' = Tail(obs) /\ UNCHANGED <<executor, worker, used>>
  BY DEF Base, Channels, Observe
<1>2. obs' \in Seq(Observations) /\ Shrunk(obs, obs') /\ Head(obs) = obs[1] /\ obs[1] \in Observations
  BY <1>1, Shapes
<1>3. 1 \in 1..Len(obs)
  BY <1>2 DEF Shrunk
<1> QED
  BY <1>1, <1>2, <1>3 DEF Base, Channels

\* What the executor finds at the front of its channel.
LEMMA FirstAction ==
  ASSUME Base, Execute
  PROVE  /\ acts' \in Seq(Actions) /\ Shrunk(acts, acts') /\ acts # <<>>
         /\ Head(acts) = acts[1] /\ acts[1] \in Actions /\ 1 \in 1..Len(acts)
         /\ ActionOK(acts[1], rgen, session, used.sessions)
         /\ UNCHANGED <<core, exposed, reported, breach>>
<1>1. acts \in Seq(Actions) /\ acts # <<>> /\ acts' = Tail(acts) /\ UNCHANGED <<core, exposed, reported, breach>>
  BY DEF Base, Channels, Execute
<1>2. acts' \in Seq(Actions) /\ Shrunk(acts, acts') /\ Head(acts) = acts[1] /\ acts[1] \in Actions
  BY <1>1, Shapes
<1>3. 1 \in 1..Len(acts)
  BY <1>2 DEF Shrunk
<1> QED
  BY <1>1, <1>2, <1>3 DEF Base, Channels

\* What an observation makes the coordinator do, as far as the route is concerned.
Opens(m) ==
  /\ \/ m.saw = "activated" /\ m.s = session
     \/ m.saw = "due" /\ m.g = rgen /\ status = "Recovering" /\ session # 0
  /\ Put(acts, acts', OpenRoute(session, rgen)) /\ UNCHANGED core

\* It starts an opened route.
Starts(m) ==
  /\ m.saw = "opened" /\ m.s = session /\ m.g = rgen
  /\ Put(acts, acts', StartRoute(rgen)) /\ UNCHANGED core

\* It becomes active.
Activates(m) ==
  /\ m.saw = "started" /\ m.s = session /\ m.g = rgen
  /\ status' = "Active" /\ retry' = 0 /\ acts' = acts /\ UNCHANGED <<session, rgen, turn, cand>>

\* It gives the route up.
Breaks(m) == m.saw = "fault" /\ m.g = rgen /\ session # 0 /\ RouteFault(m)

\* It leaves the session and the route as they are.
Hears(m) ==
  /\ m.saw \notin {"activated"} \/ m.s # session
  /\ m.saw # "fault" \/ m.g # rgen \/ session = 0
  /\ acts' = acts /\ UNCHANGED <<session, status, rgen, retry>>

\* These are all.
LEMMA ObserveCases ==
  ASSUME Base, Observe
  PROVE  /\ acts' \in Seq(Actions)
         /\ Opens(obs[1]) \/ Starts(obs[1]) \/ Activates(obs[1]) \/ Breaks(obs[1]) \/ Hears(obs[1])
<1> DEFINE m == obs[1]
<1>0. /\ \/ EnvironmentActivated(m) \/ RouteOpened(m) \/ RouteStarted(m)
         \/ RouteRetryDue(m) \/ RouteFault(m)
         \/ VadStarted(m) \/ Recognized(m) \/ InputLost(m)
      /\ m \in Observations
  BY FirstObservation DEF Observe
<1>n. session \in Nat /\ rgen \in Nat /\ Channels /\ acts \in Seq(Actions)
  BY Basics DEF Base, Channels
<1>a. OpenRoute(session, rgen) \in Actions /\ StartRoute(rgen) \in Actions
  BY <1>n, ActionTypes
<1> HIDE DEF m
<1>1. CASE EnvironmentActivated(m)
  <2>1. /\ m.saw = "activated" /\ UNCHANGED core
        /\ acts' = acts \o (IF Expected(m) THEN <<OpenRoute(session, rgen)>> ELSE <<>>)
    BY <1>1 DEF EnvironmentActivated, Send
  <2>2. Expected(m) \in BOOLEAN /\ (Expected(m) <=> m.s = session)
    BY DEF Expected
  <2>3. /\ acts' \in Seq(Actions)
        /\ Expected(m) => Put(acts, acts', OpenRoute(session, rgen))
        /\ ~Expected(m) => acts' = acts
    BY <1>n, <1>a, <2>1, <2>2, SendIfShape
  <2> QED
    BY <2>1, <2>2, <2>3 DEF Opens, Hears, core, m
<1>2. CASE RouteOpened(m)
  <2>1. /\ m.saw = "opened" /\ UNCHANGED core
        /\ acts' = acts \o (IF Current(m) THEN <<StartRoute(rgen)>> ELSE <<>>)
    BY <1>2 DEF RouteOpened, Send
  <2>2. Current(m) \in BOOLEAN /\ (Current(m) <=> m.s = session /\ m.g = rgen)
    BY DEF Current
  <2>3. /\ acts' \in Seq(Actions)
        /\ Current(m) => Put(acts, acts', StartRoute(rgen))
        /\ ~Current(m) => acts' = acts
    BY <1>n, <1>a, <2>1, <2>2, SendIfShape
  <2> QED
    BY <2>1, <2>2, <2>3 DEF Starts, Hears, core, m
<1>3. CASE RouteStarted(m)
  BY <1>n, <1>3 DEF RouteStarted, Current, Activates, Hears, m
<1>4. CASE RouteRetryDue(m)
  <2>1. /\ m.saw = "due" /\ UNCHANGED core
        /\ acts' = acts \o (IF RetryIsDue(m) THEN <<OpenRoute(session, rgen)>> ELSE <<>>)
    BY <1>4 DEF RouteRetryDue, Send
  <2>2. RetryIsDue(m) \in BOOLEAN
        /\ (RetryIsDue(m) => m.g = rgen /\ status = "Recovering" /\ session # 0)
    BY DEF RetryIsDue
  <2>3. /\ acts' \in Seq(Actions)
        /\ RetryIsDue(m) => Put(acts, acts', OpenRoute(session, rgen))
        /\ ~RetryIsDue(m) => acts' = acts
    BY <1>n, <1>a, <2>1, <2>2, SendIfShape
  <2> QED
    BY <2>1, <2>2, <2>3 DEF Opens, Hears, core, m
<1>5. CASE RouteFault(m)
  <2>1. CASE m.g = rgen /\ session # 0
    BY <1>0, <1>5, <2>1, FaultShape DEF Breaks, RouteFault, m
  <2>2. CASE ~(m.g = rgen /\ session # 0)
    BY <1>n, <1>5, <2>2 DEF RouteFault, Hears, core, m
  <2> QED
    BY <2>1, <2>2
<1>6. CASE VadStarted(m)
  BY <1>n, <1>6 DEF VadStarted, Hears, m
<1>7. CASE Recognized(m)
  BY <1>n, <1>7 DEF Recognized, Hears, m
<1>8. CASE InputLost(m)
  BY <1>n, <1>8 DEF InputLost, Hears, m
<1> QED
  BY <1>0, <1>1, <1>2, <1>3, <1>4, <1>5, <1>6, <1>7, <1>8

\* The candidate stays one, and its generation is no later than the current one.
LEMMA CandidateTypes ==
  ASSUME Base, Observe, rgen' \in Nat, rgen <= rgen'
  PROVE  /\ turn' \in BOOLEAN /\ cand' \in Candidates
         /\ cand'.id <= used.candidates /\ cand'.gen <= rgen'
<1> DEFINE m == obs[1]
<1>0. /\ \/ EnvironmentActivated(m) \/ RouteOpened(m) \/ RouteStarted(m)
         \/ RouteRetryDue(m) \/ RouteFault(m)
         \/ VadStarted(m) \/ Recognized(m) \/ InputLost(m)
      /\ m \in Observations /\ ObservationOK(m, rgen, used.sessions, used.candidates)
  BY FirstObservation DEF Observe
<1>n. rgen \in Nat /\ used.candidates \in Nat /\ cand.id \in Nat /\ cand.gen \in Nat
  BY Basics
<1>t. turn \in BOOLEAN /\ cand \in Candidates /\ cand.id <= used.candidates /\ cand.gen <= rgen
  BY DEF Base, Typed, CoreTypes
<1>c. NoCandidate \in Candidates /\ NoCandidate.id <= used.candidates /\ NoCandidate.gen <= rgen'
  BY <1>n, NoCandidateTyped
<1> HIDE DEF m
<1>1. CASE UNCHANGED <<turn, cand>>
  BY <1>n, <1>t, <1>1
<1>2. CASE RouteFault(m)
  BY <1>n, <1>t, <1>c, <1>2 DEF RouteFault, AfterFault, core
<1>3. CASE VadStarted(m)
  <2>1. m.saw = "vad" => m.g \in Nat /\ m.id \in Nat
    BY <1>0 DEF Observations
  <2>2. /\ turn' = turn
        /\ \/ cand' = cand
           \/ cand' = [id |-> m.id, gen |-> m.g, unsafe |-> UnsafeInterval(m.far, m.safe),
                       confirmed |-> FALSE]
    BY <1>3 DEF VadStarted
  <2>3. UnsafeInterval(m.far, m.safe) \in BOOLEAN
    BY DEF UnsafeInterval
  <2>4. m.g <= rgen /\ m.id <= used.candidates /\ m.g \in Nat /\ m.id \in Nat
    BY <1>0, <1>3, <2>1 DEF VadStarted, ObservationOK
  <2>5. cand' \in Candidates
    BY <1>t, <2>2, <2>3, <2>4, AnnouncedTyped
  <2> QED
    BY <1>n, <1>t, <2>2, <2>4, <2>5
<1>4. CASE Recognized(m)
  <2>1. \/ turn' = turn
        \/ turn' = (turn /\ ~(/\ m.lexical /\ ~cand.confirmed
                               /\ CanConfirm(Poisoned(m), m.far, m.safe)))
    BY <1>4 DEF Recognized
  <2>2. turn' \in BOOLEAN
    BY <1>t, <2>1
  <2>3. \/ cand' \in {cand, NoCandidate}
        \/ \E c \in BOOLEAN : cand' = [cand EXCEPT !.unsafe = Poisoned(m), !.confirmed = c]
    BY <1>4, <1>t DEF Recognized, Candidates
  <2>4. Poisoned(m) \in BOOLEAN
    BY DEF Poisoned
  <2>5. cand' \in Candidates /\ ((cand'.id = cand.id /\ cand'.gen = cand.gen) \/ cand' = NoCandidate)
    BY <1>t, <1>c, <2>3, <2>4 DEF Candidates
  <2> QED
    BY <1>n, <1>t, <1>c, <2>2, <2>5
<1>5. CASE InputLost(m)
  BY <1>n, <1>t, <1>c, <1>5 DEF InputLost
<1> QED
  BY <1>0, <1>1, <1>2, <1>3, <1>4, <1>5 DEF EnvironmentActivated, RouteOpened, RouteStarted, RouteRetryDue, core

\* The coordinator keeps the types when it takes an observation.
LEMMA ObserveTypes ==
  ASSUME Base, Observe
  PROVE  Base'
<1> DEFINE m == obs[1]
<1>0. /\ obs' \in Seq(Observations) /\ Shrunk(obs, obs') /\ m \in Observations
      /\ UNCHANGED <<executor, worker, used>>
  BY FirstObservation
<1>n. session \in Nat /\ rgen \in Nat /\ used.sessions \in Nat /\ Len(acts) \in Nat /\ RetryLimit \in Nat
      /\ retry \in Nat
  BY Basics
<1>t. /\ status \in Statuses /\ (session = 0 <=> status = "Closed") /\ retry \in 0..RetryLimit
      /\ session <= used.sessions /\ (session # 0 => rgen # 0)
  BY DEF Base, Typed, CoreTypes, Spent
<1>g. Grown(acts, acts)
  BY <1>n DEF Grown
<1>a. acts' \in Seq(Actions)
  BY ObserveCases
<1>s. \A mm \in Observations : mm.saw = "activated" => mm.s \in Nat
  BY DEF Observations
<1> HIDE DEF m
<1>1. CASE Opens(m)
  <2>1. /\ Put(acts, acts', OpenRoute(session, rgen)) /\ session # 0
    BY <1>1, <1>0, FirstObservation DEF Opens, ObservationOK, m
  <2>2. Grown(acts, acts') /\ \A i \in 1..Len(acts') : i > Len(acts) => acts'[i] = OpenRoute(session, rgen)
    BY <1>n, <2>1 DEF Put, Grown
  <2>3. UNCHANGED <<session, status, rgen, retry>>
    BY <1>1 DEF Opens, core
  <2>4. CoreTypes'
    BY <1>0, <1>n, <1>t, <2>3, CandidateTypes DEF CoreTypes
  <2>5. ActionOK(OpenRoute(session, rgen), rgen', session', used'.sessions)
    <3>1. rgen # 0
      BY <1>t, <2>1
    <3> QED
      BY <1>n, <2>1, <2>3, <3>1 DEF ActionOK, OpenRoute
  <2> QED
    BY <1>0, <1>n, <1>a, <2>2, <2>3, <2>4, <2>5, ObservedTypes
<1>2. CASE Starts(m)
  <2>1. /\ Put(acts, acts', StartRoute(rgen)) /\ UNCHANGED <<session, status, rgen, retry>>
    BY <1>2 DEF Starts, core
  <2>2. Grown(acts, acts') /\ \A i \in 1..Len(acts') : i > Len(acts) => acts'[i] = StartRoute(rgen)
    BY <1>n, <2>1 DEF Put, Grown
  <2>4. CoreTypes'
    BY <1>0, <1>n, <1>t, <2>1, CandidateTypes DEF CoreTypes
  <2>5. ActionOK(StartRoute(rgen), rgen', session', used'.sessions)
    <3>1. session # 0
      BY <1>2, FirstObservation DEF Starts, ObservationOK, m
    <3> QED
      BY <1>n, <1>t, <2>1, <3>1 DEF ActionOK, StartRoute
  <2> QED
    BY <1>0, <1>n, <1>a, <2>1, <2>2, <2>4, <2>5, ObservedTypes
<1>3. CASE Activates(m)
  <2>1. /\ m.s = session /\ m.saw = "started" /\ status' = "Active" /\ retry' = 0 /\ acts' = acts
        /\ UNCHANGED <<session, rgen>>
    BY <1>3 DEF Activates
  <2>2. session # 0
    BY <2>1, FirstObservation DEF ObservationOK, m
  <2>3. status' \in Statuses /\ (session' = 0 <=> status' = "Closed") /\ retry' \in 0..RetryLimit
    BY <1>n, <1>t, <2>1, <2>2 DEF Statuses
  <2>4. CoreTypes'
    BY <1>0, <1>n, <1>t, <2>1, <2>3, CandidateTypes DEF CoreTypes
  <2> QED
    BY <1>0, <1>g, <1>n, <1>a, <2>1, <2>4, ObservedTypes
<1>4. CASE Breaks(m)
  <2>1. m.g = rgen /\ session # 0 /\ RouteFault(m)
    BY <1>4 DEF Breaks
  <2>2. /\ Grown(acts, acts') /\ rgen' = rgen + 1 /\ session' = session
        /\ acts'[Len(acts) + 1] = CloseRoute(rgen)
        /\ \/ Len(acts') = Len(acts) + 1
           \/ /\ Len(acts') = Len(acts) + 2 /\ retry < RetryLimit
              /\ acts'[Len(acts) + 2] = RetryLater(rgen + 1, retry + 1)
        /\ \/ status' = "Recovering" /\ retry < RetryLimit /\ retry' = retry + 1
           \/ status' = "Suspended" /\ retry' = retry
    BY <1>0, <2>1, FaultShape
  <2>3. \A i \in 1..Len(acts') : i > Len(acts) =>
          \/ acts'[i] = CloseRoute(rgen)
          \/ acts'[i] = RetryLater(rgen + 1, retry + 1) /\ retry < RetryLimit
    BY <1>n, <2>2 DEF Grown
  <2>4. /\ ActionOK(CloseRoute(rgen), rgen', session', used'.sessions)
        /\ retry < RetryLimit => ActionOK(RetryLater(rgen + 1, retry + 1), rgen', session', used'.sessions)
    BY <1>n, <2>2 DEF ActionOK, CloseRoute, RetryLater
  <2>5. status' \in Statuses /\ (session' = 0 <=> status' = "Closed") /\ retry' \in 0..RetryLimit
    BY <1>n, <1>t, <2>1, <2>2 DEF Statuses
  <2>6. CoreTypes'
    BY <1>0, <1>n, <1>t, <2>2, <2>5, CandidateTypes DEF CoreTypes
  <2> QED
    BY <1>0, <1>n, <1>a, <2>2, <2>3, <2>4, <2>6, ObservedTypes
<1>5. CASE Hears(m)
  <2>1. acts' = acts /\ UNCHANGED <<session, status, rgen, retry>>
    BY <1>5 DEF Hears
  <2>4. CoreTypes'
    BY <1>0, <1>n, <1>t, <2>1, CandidateTypes DEF CoreTypes
  <2> QED
    BY <1>0, <1>g, <1>n, <1>a, <2>1, <2>4, ObservedTypes
<1> QED
  BY ObserveCases, <1>1, <1>2, <1>3, <1>4, <1>5 DEF m

\* One observation is published, or none.
LEMMA Published ==
  ASSUME Base, obs' = obs \/ \E m \in Observations : obs' = Append(obs, m)
  PROVE  obs' \in Seq(Observations) /\ Grown(obs, obs')
<1>1. Channels /\ obs \in Seq(Observations)
  BY DEF Base, Channels
<1> QED
  BY <1>1, PublishShape, Shapes DEF Put

\* What the executor does with the action at the front, and what it publishes.
Opened(a) ==
  /\ a.do = "open" /\ host = 0 /\ models
  /\ route' = [g |-> a.g, s |-> a.s] /\ host' = a.g /\ pipe' = a.g /\ heard' = 0
  /\ Put(obs, obs', Saw("opened", a.s, a.g)) /\ used' = used /\ models' = FALSE

\* An open that failed leaves the streams as they were, and perhaps a pipeline.
Refused(a) ==
  /\ a.do = "open"
  /\ route' = route /\ host' = host /\ heard' = heard
  /\ pipe' = pipe \/ (host = 0 /\ pipe' = a.g)
  /\ \E r \in BOOLEAN :
       /\ Put(obs, obs', Fault(a.g, r))
       /\ (r = FALSE /\ used' = used) \/ Spend("faults", MaxFaults)

\* The route is closed.
Closes(a) ==
  /\ a.do = "close"
  /\ route' = NoRoute /\ host' = (IF route.g = a.g THEN 0 ELSE host) /\ pipe' = 0 /\ heard' = 0
  /\ obs' = obs /\ used' = used

\* Everything else leaves the route alone.
Answers(a) ==
  /\ a.do \in {"activate", "start", "reset", "retry"}
  /\ UNCHANGED <<route, host, pipe, heard>>
  /\ \/ a.do # "activate" /\ obs' = obs /\ used' = used
     \/ a.do = "activate" /\ Put(obs, obs', Saw("activated", a.s, 0)) /\ used' = used
     \/ a.do = "start" /\ route.g = a.g /\ Put(obs, obs', Saw("started", route.s, a.g)) /\ used' = used
     \/ /\ a.do = "start" /\ route.g = a.g
        /\ \E r \in BOOLEAN : Put(obs, obs', Fault(a.g, r)) /\ Spend("faults", MaxFaults)

\* These are all.
LEMMA ExecuteCases ==
  ASSUME Base, Execute
  PROVE  /\ obs' \in Seq(Observations)
         /\ Opened(acts[1]) \/ Refused(acts[1]) \/ Closes(acts[1]) \/ Answers(acts[1])
<1> DEFINE a == acts[1]
<1>0. /\ \/ ActivateEnvironment(a) \/ OpenHostRoute(a) \/ StartHostRoute(a)
         \/ CloseHostRoute(a) \/ ResetPipeline(a) \/ ScheduleRouteRetry(a)
      /\ a \in Actions
  BY FirstAction DEF Execute
<1>n. a.g \in Nat /\ a.s \in Nat /\ route.s \in Nat /\ Channels /\ obs \in Seq(Observations)
  BY <1>0, Basics DEF Base, Channels, Actions
<1>b. TRUE \in BOOLEAN /\ FALSE \in BOOLEAN
  OBVIOUS
<1>a. /\ Saw("activated", a.s, 0) \in Observations
      /\ Saw("opened", a.s, a.g) \in Observations
      /\ Saw("started", route.s, a.g) \in Observations
  BY <1>n, <1>b, ObservationTypes
<1>f. \A r \in BOOLEAN : Fault(a.g, r) \in Observations
  BY <1>n, <1>b, ObservationTypes
<1> HIDE DEF a
<1>1. CASE ActivateEnvironment(a)
  <2>1. /\ a.do = "activate" /\ obs' = Append(obs, Saw("activated", a.s, 0))
        /\ UNCHANGED <<route, host, pipe, heard, used>>
    BY <1>1 DEF ActivateEnvironment, Publish, executor
  <2>2. obs' \in Seq(Observations) /\ Put(obs, obs', Saw("activated", a.s, 0))
    BY <1>n, <1>a, <2>1, PublishShape
  <2> QED
    BY <2>1, <2>2 DEF Answers, a
<1>2. CASE OpenHostRoute(a)
  <2>1. CASE OpenRefused(a)
    <3>1. PICK r \in BOOLEAN : /\ obs' = Append(obs, Fault(a.g, r))
                               /\ (r = FALSE /\ used' = used) \/ Spend("faults", MaxFaults)
      BY <1>b, <2>1 DEF OpenRefused, Publish
    <3>2. obs' \in Seq(Observations) /\ Put(obs, obs', Fault(a.g, r))
      BY <1>n, <1>f, <3>1, PublishShape
    <3>3. a.do = "open" /\ UNCHANGED <<route, host, pipe, heard>>
      BY <1>2, <2>1 DEF OpenHostRoute, OpenRefused, executor
    <3> QED
      BY <3>1, <3>2, <3>3 DEF Refused, a
  <2>2. CASE OpenAbandoned(a)
    <3>1. obs' = Append(obs, Fault(a.g, FALSE)) /\ (used' = used \/ Spend("faults", MaxFaults))
      BY <2>2 DEF OpenAbandoned, Publish
    <3>2. obs' \in Seq(Observations) /\ Put(obs, obs', Fault(a.g, FALSE))
      BY <1>b, <1>n, <1>f, <3>1, PublishShape
    <3>3. a.do = "open" /\ UNCHANGED <<route, host, heard>> /\ (pipe' = pipe \/ (host = 0 /\ pipe' = a.g))
      BY <1>2, <2>2 DEF OpenHostRoute, OpenAbandoned
    <3> QED
      BY <1>b, <3>1, <3>2, <3>3 DEF Refused, a
  <2>3. CASE OpenSucceeds(a)
    <3>1. obs' = Append(obs, Saw("opened", a.s, a.g)) /\ used' = used
      BY <2>3 DEF OpenSucceeds, Publish
    <3>2. obs' \in Seq(Observations) /\ Put(obs, obs', Saw("opened", a.s, a.g))
      BY <1>n, <1>a, <3>1, PublishShape
    <3> QED
      BY <1>2, <2>3, <3>1, <3>2 DEF OpenHostRoute, OpenSucceeds, Opened, a
  <2> QED
    BY <1>2, <2>1, <2>2, <2>3 DEF OpenHostRoute
<1>3. CASE StartHostRoute(a)
  <2>1. a.do = "start" /\ UNCHANGED <<route, host, pipe, heard>>
    BY <1>3 DEF StartHostRoute, executor
  <2>2. CASE route.g # a.g
    BY <1>3, <1>n, <2>1, <2>2 DEF StartHostRoute, Answers, a
  <2>3. CASE route.g = a.g /\ obs' = Append(obs, Saw("started", route.s, a.g)) /\ used' = used
    <3>1. obs' \in Seq(Observations) /\ Put(obs, obs', Saw("started", route.s, a.g))
      BY <1>n, <1>a, <2>3, PublishShape
    <3> QED
      BY <2>1, <2>3, <3>1 DEF Answers, a
  <2>4. CASE route.g = a.g /\ Spend("faults", MaxFaults) /\ \E r \in BOOLEAN : obs' = Append(obs, Fault(a.g, r))
    <3>0. PICK r \in BOOLEAN : obs' = Append(obs, Fault(a.g, r))
      BY <2>4
    <3>1. obs' \in Seq(Observations) /\ Put(obs, obs', Fault(a.g, r))
      BY <1>n, <1>f, <3>0, PublishShape
    <3> QED
      BY <2>1, <2>4, <3>1 DEF Answers, a
  <2> QED
    BY <1>3, <2>2, <2>3, <2>4 DEF StartHostRoute, Publish
<1>4. CASE CloseHostRoute(a)
  BY <1>n, <1>4 DEF CloseHostRoute, ClosesHost, Closes, a
<1>5. CASE ResetPipeline(a) \/ ScheduleRouteRetry(a)
  BY <1>n, <1>5 DEF ResetPipeline, ScheduleRouteRetry, executor, Answers, a
<1> QED
  BY <1>0, <1>1, <1>2, <1>3, <1>4, <1>5

\* The executor keeps the types.
LEMMA ExecuteTypes ==
  ASSUME Base, Execute
  PROVE  Base'
<1> DEFINE a == acts[1]
<1>0. /\ \/ ActivateEnvironment(a) \/ OpenHostRoute(a) \/ StartHostRoute(a)
         \/ CloseHostRoute(a) \/ ResetPipeline(a) \/ ScheduleRouteRetry(a)
      /\ a \in Actions /\ ActionOK(a, rgen, session, used.sessions)
      /\ acts' \in Seq(Actions) /\ Shrunk(acts, acts') /\ UNCHANGED core
      /\ UNCHANGED <<exposed, reported, breach>>
  BY FirstAction DEF Execute
<1>n. /\ a.g \in Nat /\ a.s \in Nat /\ rgen \in Nat /\ Len(obs) \in Nat /\ used.sessions \in Nat
      /\ used.candidates \in Nat /\ route.s \in Nat /\ RetryLimit \in Nat
  BY <1>0, Basics DEF Actions
<1>r. rgen' = rgen
  BY <1>0 DEF core
<1>t. ExecutorTypes /\ WorkerTypes /\ used \in Spendings
  BY DEF Base, Typed, Spent
<1>1. obs' \in Seq(Observations) /\ (Opened(a) \/ Refused(a) \/ Closes(a) \/ Answers(a))
  BY ExecuteCases
<1>2. /\ used' \in Spendings /\ used'.sessions = used.sessions
      /\ used'.candidates = used.candidates
  BY <1>1, <1>t, Spending DEF Opened, Refused, Closes, Answers
<1>o. a.do = "open" => a.s # 0 /\ a.g # 0
  BY <1>0 DEF ActionOK
<1>g. a.g <= rgen
  BY <1>0 DEF ActionOK
<1> HIDE DEF a
<1>3. Grown(obs, obs') /\ \A i \in 1..Len(obs') : i > Len(obs) =>
           ObservationOK(obs'[i], rgen', used'.sessions, used'.candidates)
  <2>1. ASSUME NEW m, Put(obs, obs', m), ObservationOK(m, rgen', used'.sessions, used'.candidates)
        PROVE  Grown(obs, obs') /\ \A i \in 1..Len(obs') : i > Len(obs) =>
                 ObservationOK(obs'[i], rgen', used'.sessions, used'.candidates)
    BY <2>1, <1>n DEF Put, Grown
  <2>2. CASE obs' = obs
    BY <2>2, <1>n DEF Grown
  <2>3. CASE Opened(a)
    <3>1. ObservationOK(Saw("opened", a.s, a.g), rgen', used'.sessions, used'.candidates)
      BY <1>o, <1>g, <1>r, <2>3 DEF Opened, ObservationOK, Saw
    <3> QED
      BY <2>1, <2>3, <3>1 DEF Opened
  <2>4. \A r \in BOOLEAN : ObservationOK(Fault(a.g, r), rgen', used'.sessions, used'.candidates)
    BY <1>g, <1>r DEF ObservationOK, Fault
  <2>5. CASE Refused(a)
    BY <2>1, <2>4, <2>5 DEF Refused
  <2>6. a.do = "activate" =>
          ObservationOK(Saw("activated", a.s, 0), rgen', used'.sessions, used'.candidates)
    <3>1. a.do = "activate" => a.s \in 1..used.sessions
      BY <1>0 DEF ActionOK
    <3> QED
      BY <1>n, <1>2, <1>r, <3>1 DEF ObservationOK, Saw
  <2>7. a.do = "start" /\ route.g = a.g /\ route.g # 0 =>
          ObservationOK(Saw("started", route.s, a.g), rgen', used'.sessions, used'.candidates)
    BY <1>g, <1>r, <1>t DEF ObservationOK, Saw, ExecutorTypes
  <2>8. a.do = "start" => a.g # 0
    BY <1>0 DEF ActionOK
  <2>9. CASE Answers(a)
    BY <2>1, <2>2, <2>4, <2>6, <2>7, <2>8, <2>9 DEF Answers
  <2> QED
    BY <1>1, <2>2, <2>3, <2>5, <2>9 DEF Closes
<1>4. ExecutorTypes' /\ WorkerTypes'
  <2>1. CASE ActivateEnvironment(a) \/ StartHostRoute(a) \/ ResetPipeline(a)
    <3>1. UNCHANGED executor /\ UNCHANGED <<heard, safe>> /\ resetting' \in BOOLEAN
      BY <1>t, <2>1 DEF ActivateEnvironment, StartHostRoute, ResetPipeline, WorkerTypes
    <3> QED
      BY <1>t, <1>2, <1>r, <3>1 DEF ExecutorTypes, WorkerTypes, executor
  <2>2. CASE ScheduleRouteRetry(a)
    <3>1. a.g \in 1..rgen /\ a.s \in 1..RetryLimit
      BY <1>0, <1>n, <2>2 DEF ActionOK, ScheduleRouteRetry
    <3>2. timers' \subseteq (1..rgen') \X (1..RetryLimit)
      BY <1>r, <1>t, <2>2, <3>1 DEF ScheduleRouteRetry, ExecutorTypes
    <3> QED
      BY <1>t, <1>2, <1>r, <2>2, <3>2 DEF ExecutorTypes, WorkerTypes, ScheduleRouteRetry
  <2>3. CASE CloseHostRoute(a)
    <3>1. models' \in BOOLEAN /\ resetting' \in BOOLEAN /\ safe' \in BOOLEAN
      BY <2>3 DEF CloseHostRoute
    <3>2. route' \in [g : Nat, s : Nat] /\ route'.g = 0 /\ host' \in Nat /\ host' <= rgen /\ pipe' = 0
      BY <1>t, <1>n, <2>3 DEF CloseHostRoute, NoRoute, ExecutorTypes
    <3>3. UNCHANGED timers /\ heard' = 0
      BY <2>3 DEF CloseHostRoute
    <3> QED
      BY <1>t, <1>2, <1>r, <1>n, <3>1, <3>2, <3>3 DEF ExecutorTypes, WorkerTypes
  <2>4. CASE OpenHostRoute(a)
    <3>1. resetting' = resetting /\ timers' = timers /\ models' \in BOOLEAN /\ safe' \in BOOLEAN
      BY <1>t, <2>4 DEF OpenHostRoute, OpenRefused, OpenAbandoned, OpenSucceeds, executor, ExecutorTypes, WorkerTypes
    <3>2. heard' \in {0, heard} /\ host' \in {host, a.g} /\ pipe' \in {pipe, a.g}
          /\ (route' = route \/ route' = [g |-> a.g, s |-> a.s])
      BY <2>4 DEF OpenHostRoute, OpenRefused, OpenAbandoned, OpenSucceeds, executor
    <3>3. a.s # 0
      BY <1>o, <2>4 DEF OpenHostRoute
    <3>4. WorkerTypes'
      BY <1>t, <1>2, <1>n, <3>1, <3>2 DEF WorkerTypes
    <3>5. route' \in [g : Nat, s : Nat] /\ route'.g <= rgen /\ (route'.g # 0 => route'.s # 0)
      BY <1>t, <1>n, <1>g, <3>2, <3>3 DEF ExecutorTypes
    <3>6. host' \in Nat /\ pipe' \in Nat /\ host' <= rgen /\ pipe' <= rgen
      BY <1>t, <1>n, <1>g, <3>2 DEF ExecutorTypes
    <3>7. models' \in BOOLEAN /\ timers' \subseteq (1..rgen') \X (1..RetryLimit)
      BY <1>t, <1>r, <3>1 DEF ExecutorTypes
    <3> QED
      BY <1>r, <3>4, <3>5, <3>6, <3>7 DEF ExecutorTypes
  <2> QED
    BY <1>0, <2>1, <2>2, <2>3, <2>4
<1> QED
  BY <1>0, <1>n, <1>1, <1>2, <1>3, <1>4, ExecutedTypes

-----------------------------------------------------------------------------
(* Timers, faults and the input worker *)

\* The steps of neither the coordinator nor the executor's loop
Aside == RetryTimer \/ HostFault \/ Frame \/ HearCandidate \/ HearPartial \/ HearEnd
         \/ DetectorFails \/ WorkerReset

\* A timer, or a fault of the host
Tells ==
  /\ UNCHANGED <<heard, reported>>
  /\ \/ \E s \in Nat, g \in 1..rgen : Put(obs, obs', Saw("due", s, g)) /\ used' = used
     \/ /\ host # 0 /\ Spend("faults", MaxFaults)
        /\ \E r \in BOOLEAN : Put(obs, obs', Fault(host, r))

\* The worker says nothing.
Listens == obs' = obs /\ heard' \in {heard, 0} /\ UNCHANGED <<reported, used>>

\* It announces a candidate.
Announces ==
  /\ Hearing /\ Spend("candidates", MaxCandidates) /\ heard' = used'.candidates
  /\ \E far, ok \in BOOLEAN :
       /\ Put(obs, obs', [saw |-> "vad", g |-> pipe, id |-> heard', far |-> far, safe |-> ok])
       /\ reported' = IF far /\ ~ok THEN reported \cup {heard'} ELSE reported

\* It sends a text, partial or final.
Transcribes ==
  /\ Hearing /\ heard # 0 /\ used' = used
  /\ \E m \in Observations :
       /\ IsText(m) /\ Put(obs, obs', m) /\ m.g = pipe /\ m.id = heard
       /\ "reported" \in m.known <=> heard \in reported
       /\ \/ m.saw = "final" /\ heard' = 0 /\ reported' = reported
          \/ /\ m.saw = "partial" /\ heard' = heard
             /\ reported' = IF m.far /\ ~m.safe THEN reported \cup {heard} ELSE reported

\* It gives up.
Fails ==
  /\ Hearing /\ heard' = 0 /\ reported' = reported
  /\ Put(obs, obs', [saw |-> "lost", g |-> pipe, id |-> heard])
  /\ used' = used \/ Spend("faults", MaxFaults)

\* These are all, and they leave the coordinator and the route alone.
LEMMA AsideCases ==
  ASSUME Base, Aside
  PROVE  /\ UNCHANGED <<core, acts, route, host, pipe, models, breach>>
         /\ obs' \in Seq(Observations)
         /\ Tells \/ Listens \/ Announces \/ Transcribes \/ Fails
<1>n. /\ rgen \in Nat /\ host \in Nat /\ pipe \in Nat /\ heard \in Nat /\ RetryLimit \in Nat
      /\ Channels /\ obs \in Seq(Observations) /\ used \in Spendings
  BY Basics DEF Base, Channels, Spent
<1>b. TRUE \in BOOLEAN /\ FALSE \in BOOLEAN /\ safe \in BOOLEAN
  BY DEF Base, Typed, WorkerTypes
<1>1. CASE RetryTimer
  <2>1. PICK t \in timers : obs' = Append(obs, Saw("due", t[2], t[1]))
    BY <1>1 DEF RetryTimer, Publish
  <2>2. t[2] \in Nat /\ t[1] \in 1..rgen /\ t[1] \in Nat
    BY <1>n DEF Base, Typed, ExecutorTypes
  <2>3. Saw("due", t[2], t[1]) \in Observations
    BY <1>b, <2>2, ObservationTypes
  <2>4. obs' \in Seq(Observations) /\ Put(obs, obs', Saw("due", t[2], t[1]))
    BY <1>n, <2>1, <2>3, PublishShape
  <2>5. UNCHANGED <<core, acts, route, host, pipe, models, worker, breach, used>>
    BY <1>1 DEF RetryTimer
  <2> QED
    BY <2>2, <2>4, <2>5 DEF Tells, worker
<1>2. CASE HostFault
  <2>1. PICK r \in BOOLEAN : obs' = Append(obs, Fault(host, r))
    BY <1>2 DEF HostFault, Publish
  <2>2. Fault(host, r) \in Observations
    BY <1>n, <1>b, ObservationTypes
  <2>3. obs' \in Seq(Observations) /\ Put(obs, obs', Fault(host, r))
    BY <1>n, <2>1, <2>2, PublishShape
  <2> QED
    BY <1>2, <2>3 DEF HostFault, Tells, worker, executor
<1>3. CASE Frame \/ WorkerReset
  BY <1>n, <1>3 DEF Frame, WorkerReset, Listens, executor
<1>f. \A f \in Frames : f.far \in BOOLEAN /\ f.converged \in BOOLEAN
  BY DEF Frames
<1>l. \A f \in Frames : Latch(f) \in BOOLEAN
  BY DEF Latch
<1>4. CASE HearCandidate
  <2>1. PICK f \in Frames :
          /\ obs' = Append(obs, [saw |-> "vad", g |-> pipe, id |-> heard', far |-> f.far, safe |-> f.converged])
          /\ reported' = IF UnsafeFrame(f) THEN reported \cup {heard'} ELSE reported
    BY <1>4 DEF HearCandidate, Publish
  <2>2. used' \in Spendings /\ heard' = used'.candidates /\ Spend("candidates", MaxCandidates) /\ Hearing
    BY <1>n, <1>4, Spending DEF HearCandidate
  <2>3. heard' \in Nat
    BY <2>2, SessionBounds DEF Spendings
  <2>4. [saw |-> "vad", g |-> pipe, id |-> heard', far |-> f.far, safe |-> f.converged] \in Observations
    BY <1>n, <1>f, <2>3, ObservationTypes
  <2>5. /\ obs' \in Seq(Observations)
        /\ Put(obs, obs', [saw |-> "vad", g |-> pipe, id |-> heard', far |-> f.far, safe |-> f.converged])
    BY <1>n, <2>1, <2>4, PublishShape
  <2>6. UNCHANGED <<core, acts, route, host, pipe, models, breach>>
    BY <1>4 DEF HearCandidate, executor
  <2> QED
    BY <1>f, <2>1, <2>2, <2>5, <2>6 DEF Announces, UnsafeFrame
<1>5. CASE HearPartial
  <2>1. PICK f \in Frames, lexical \in BOOLEAN :
          /\ safe' = Latch(f)
          /\ obs' = Append(obs, Utterance("partial", f.far, Latch(f), lexical))
          /\ reported' = IF f.far /\ ~safe' THEN reported \cup {heard} ELSE reported
    BY <1>5 DEF HearPartial, Publish
  <2> DEFINE m == Utterance("partial", f.far, Latch(f), lexical)
  <2>2. /\ m \in Observations /\ m.saw = "partial" /\ m.g = pipe /\ m.id = heard
        /\ m.far = f.far /\ m.safe = Latch(f) /\ ("reported" \in m.known <=> heard \in reported)
    BY <1>n, <1>f, <1>l, UtteranceTypes
  <2>3. obs' = Append(obs, m)
    BY <2>1
  <2> HIDE DEF m
  <2>4. obs' \in Seq(Observations) /\ Put(obs, obs', m)
    BY <1>n, <2>2, <2>3, PublishShape
  <2>5. Hearing /\ heard # 0 /\ UNCHANGED <<core, acts, route, host, pipe, models, heard, breach, used>>
    BY <1>5 DEF HearPartial, executor
  <2>6. reported' = IF m.far /\ ~m.safe THEN reported \cup {heard} ELSE reported
    BY <2>1, <2>2
  <2> QED
    BY <2>2, <2>4, <2>5, <2>6 DEF Transcribes, IsText
<1>6. CASE HearEnd
  <2>0. /\ Hearing /\ heard # 0 /\ heard' = 0 /\ reported' = reported
        /\ UNCHANGED <<core, acts, route, host, pipe, models, breach, used>>
    BY <1>6 DEF HearEnd, executor
  <2>1. PICK f \in Frames, lexical \in BOOLEAN :
          \/ obs' = Append(obs, Utterance("final", f.far, Latch(f), lexical))
          \/ obs' = Append(obs, [saw |-> "lost", g |-> pipe, id |-> heard])
    BY <1>6 DEF HearEnd, Publish
  <2>2. CASE obs' = Append(obs, Utterance("final", f.far, Latch(f), lexical))
    <3> DEFINE m == Utterance("final", f.far, Latch(f), lexical)
    <3>2. /\ m \in Observations /\ m.saw = "final" /\ m.g = pipe /\ m.id = heard
          /\ ("reported" \in m.known <=> heard \in reported)
      BY <1>n, <1>f, <1>l, UtteranceTypes
    <3>3. obs' = Append(obs, m)
      BY <2>2
    <3> HIDE DEF m
    <3>4. obs' \in Seq(Observations) /\ Put(obs, obs', m)
      BY <1>n, <3>2, <3>3, PublishShape
    <3> QED
      BY <2>0, <3>2, <3>4 DEF Transcribes, IsText
  <2>3. CASE obs' = Append(obs, [saw |-> "lost", g |-> pipe, id |-> heard])
    <3>1. [saw |-> "lost", g |-> pipe, id |-> heard] \in Observations
      BY <1>n, <1>b, ObservationTypes
    <3>2. obs' \in Seq(Observations) /\ Put(obs, obs', [saw |-> "lost", g |-> pipe, id |-> heard])
      BY <1>n, <2>3, <3>1, PublishShape
    <3> QED
      BY <2>0, <3>2 DEF Fails
  <2> QED
    BY <2>1, <2>2, <2>3
<1>7. CASE DetectorFails
  <2>0. /\ Hearing /\ heard = 0 /\ heard' = 0 /\ reported' = reported /\ Spend("faults", MaxFaults)
        /\ UNCHANGED <<core, acts, route, host, pipe, models, breach>>
        /\ obs' = Append(obs, [saw |-> "lost", g |-> pipe, id |-> heard])
    BY <1>7 DEF DetectorFails, executor, worker, Publish
  <2>1. [saw |-> "lost", g |-> pipe, id |-> heard] \in Observations
    BY <1>n, <1>b, ObservationTypes
  <2>2. obs' \in Seq(Observations) /\ Put(obs, obs', [saw |-> "lost", g |-> pipe, id |-> heard])
    BY <1>n, <2>0, <2>1, PublishShape
  <2> QED
    BY <2>0, <2>2 DEF Fails
<1> QED
  BY <1>1, <1>2, <1>3, <1>4, <1>5, <1>6, <1>7 DEF Aside

\* They keep the types.
LEMMA AsideTypes ==
  ASSUME Base, Aside
  PROVE  Base'
<1>0. /\ UNCHANGED core /\ UNCHANGED <<acts, route, host, pipe, models>>
      /\ obs' \in Seq(Observations)
      /\ Tells \/ Listens \/ Announces \/ Transcribes \/ Fails
  BY AsideCases
<1>n. /\ rgen \in Nat /\ host \in Nat /\ pipe \in Nat /\ heard \in Nat /\ Len(obs) \in Nat
      /\ used.sessions \in Nat /\ used.candidates \in Nat
  BY Basics
<1>t. ExecutorTypes /\ WorkerTypes /\ used \in Spendings /\ Channels
  BY DEF Base, Typed, Spent
<1>r. rgen' = rgen
  BY <1>0 DEF core
<1>1. /\ used' \in Spendings /\ used'.sessions = used.sessions
      /\ used'.candidates \in Nat /\ used.candidates <= used'.candidates
  BY <1>0, <1>n, <1>t, Spending DEF Tells, Listens, Announces, Transcribes, Fails
<1>2. timers' \subseteq timers
  BY DEF Aside, RetryTimer, HostFault, Frame, HearCandidate, HearPartial, HearEnd,
     DetectorFails, WorkerReset, executor
<1>3. ExecutorTypes'
  BY <1>0, <1>t, <1>r, <1>2 DEF ExecutorTypes
<1>4. safe' \in BOOLEAN /\ resetting' \in BOOLEAN
  BY <1>t DEF Aside, RetryTimer, HostFault, Frame, HearCandidate, HearPartial, HearEnd,
     DetectorFails, WorkerReset, worker, WorkerTypes, Latch, UnsafeFrame
<1>5. heard' \in Nat /\ heard' <= used'.candidates
  <2>1. heard' \in {heard, 0, used'.candidates}
    BY <1>0 DEF Tells, Listens, Announces, Transcribes, Fails
  <2> QED
    BY <1>n, <1>t, <1>1, <2>1 DEF WorkerTypes
<1>6. WorkerTypes'
  BY <1>4, <1>5 DEF WorkerTypes
<1>7. Grown(obs, obs') /\ \A i \in 1..Len(obs') : i > Len(obs) =>
           ObservationOK(obs'[i], rgen', used'.sessions, used'.candidates)
  <2>1. ASSUME NEW m, Put(obs, obs', m), ObservationOK(m, rgen', used'.sessions, used'.candidates)
        PROVE  Grown(obs, obs') /\ \A i \in 1..Len(obs') : i > Len(obs) =>
                 ObservationOK(obs'[i], rgen', used'.sessions, used'.candidates)
    BY <2>1, <1>n DEF Put, Grown
  <2>2. CASE Listens
    BY <2>2, <1>n DEF Grown, Listens
  <2>3. CASE Tells
    <3>1. \A s \in Nat, g \in 1..rgen :
            ObservationOK(Saw("due", s, g), rgen', used'.sessions, used'.candidates)
      BY <1>r, <1>n DEF ObservationOK, Saw
    <3>2. \A r \in BOOLEAN : ObservationOK(Fault(host, r), rgen', used'.sessions, used'.candidates)
      BY <1>r, <1>t DEF ObservationOK, Fault, ExecutorTypes
    <3> QED
      BY <2>1, <2>3, <3>1, <3>2 DEF Tells
  <2>4. CASE Announces
    <3>1. PICK far, ok \in BOOLEAN :
            Put(obs, obs', [saw |-> "vad", g |-> pipe, id |-> heard', far |-> far, safe |-> ok])
      BY <2>4 DEF Announces
    <3>2. heard' # 0
      BY <1>n, <1>t, <2>4, Spending DEF Announces
    <3>3. ObservationOK([saw |-> "vad", g |-> pipe, id |-> heard', far |-> far, safe |-> ok],
                        rgen', used'.sessions, used'.candidates)
      BY <1>r, <1>t, <1>5, <3>2 DEF ObservationOK, ExecutorTypes
    <3> QED
      BY <2>1, <3>1, <3>3
  <2>5. CASE Transcribes
    <3>1. PICK m \in Observations : IsText(m) /\ Put(obs, obs', m) /\ m.g = pipe /\ m.id = heard
      BY <2>5 DEF Transcribes
    <3>2. ObservationOK(m, rgen', used'.sessions, used'.candidates)
      BY <1>n, <1>r, <1>t, <1>1, <2>5, <3>1 DEF ObservationOK, ExecutorTypes, WorkerTypes, IsText, Transcribes
    <3> QED
      BY <2>1, <3>1, <3>2
  <2>6. CASE Fails
    <3>1. ObservationOK([saw |-> "lost", g |-> pipe, id |-> heard],
                        rgen', used'.sessions, used'.candidates)
      BY <1>n, <1>r, <1>t, <1>1 DEF ObservationOK, ExecutorTypes, WorkerTypes
    <3> QED
      BY <2>1, <2>6, <3>1 DEF Fails
  <2> QED
    BY <1>0, <2>2, <2>3, <2>4, <2>5, <2>6
<1>8. acts' \in Seq(Actions) /\ acts' = acts
  BY <1>0, <1>t DEF Channels
<1> QED
  BY <1>0, <1>1, <1>3, <1>6, <1>7, <1>8, ExecutedTypes

-----------------------------------------------------------------------------
(* Routes *)

\* What the coordinator does to the action channel, if it closes nothing.
Continues ==
  /\ Grown(acts, acts')
  /\ (rgen' = rgen /\ session' = session) \/ session = 0
  /\ \A i \in 1..Len(acts') : i > Len(acts) =>
       /\ acts'[i].do # "close"
       /\ acts'[i].do = "open" => acts'[i].g = rgen' /\ session' # 0

\* And if it closes the current route.
Ends ==
  /\ Grown(acts, acts') /\ session # 0 /\ rgen' >= rgen
  /\ Len(acts') > Len(acts) /\ acts'[Len(acts) + 1] = CloseRoute(rgen)
  /\ \A i \in 1..Len(acts') : i > Len(acts) + 1 => acts'[i].do \notin {"open", "close"}

\* While nothing is closed, a new open is one of the current generation.
LEMMA RoutesContinue ==
  ASSUME Base, Routes, Continues, rgen' \in Nat, UNCHANGED <<route, host, pipe, heard>>
  PROVE  Routes'
<1>n. rgen \in Nat /\ session \in Nat /\ Len(acts) \in Nat /\ Len(acts') \in Nat /\ Len(acts) <= Len(acts')
      /\ \A i \in 1..Len(acts) : acts'[i] = acts[i]
  BY Basics DEF Continues, Grown
<1>1. ASSUME NEW i \in 1..(Len(acts) + 1), NEW g, Closable(acts, rgen, session, i, g)
      PROVE  Closable(acts', rgen', session', i, g)
  <2>1. \A k \in i..Len(acts') : acts'[k].do = "close" => g <= acts'[k].g
    BY <1>n, <1>1 DEF Closable, Continues
  <2>2. ASSUME g < rgen' \/ session' = 0 PROVE ClosedFrom(acts', i, g)
    <3>1. ClosedFrom(acts, i, g)
      BY <1>1, <2>2 DEF Closable, Continues
    <3> QED
      BY <1>n, <3>1 DEF ClosedFrom
  <2> QED
    BY <2>1, <2>2 DEF Closable
<1>2. ASSUME NEW i \in 1..Len(acts'), acts'[i].do = "open"
      PROVE  Closable(acts', rgen', session', i + 1, acts'[i].g)
  <2>1. CASE i \in 1..Len(acts)
    BY <1>n, <1>1, <1>2, <2>1 DEF Routes
  <2>2. CASE i > Len(acts)
    BY <1>n, <1>2, <2>2 DEF Continues, Closable
  <2> QED
    BY <1>n, <2>1, <2>2
<1>3. ClosesRise(acts')
  BY <1>n DEF Routes, ClosesRise, Continues
<1>4. 1 \in 1..(Len(acts) + 1)
  BY <1>n
<1> QED
  BY <1>1, <1>2, <1>3, <1>4 DEF Routes

\* A close of the current route follows everything that was opened with it.
LEMMA RoutesEnd ==
  ASSUME Base, Routes, Ends, rgen' \in Nat, UNCHANGED <<route, host, pipe, heard>>
  PROVE  Routes'
<1>n. rgen \in Nat /\ session \in Nat /\ Len(acts) \in Nat /\ Len(acts') \in Nat /\ Len(acts) < Len(acts')
      /\ \A i \in 1..Len(acts) : acts'[i] = acts[i]
  BY Basics DEF Ends, Grown
<1>c. /\ acts'[Len(acts) + 1].do = "close" /\ acts'[Len(acts) + 1].g = rgen
      /\ Len(acts) + 1 \in 1..Len(acts')
      /\ \A i \in 1..Len(acts') : i > Len(acts) + 1 => acts'[i].do # "close" /\ acts'[i].do # "open"
  BY <1>n DEF Ends, CloseRoute
<1>a. /\ \A i \in 1..Len(acts) : acts[i].g \in Nat /\ acts[i].g <= rgen
      /\ \A i \in 1..Len(acts) : acts[i].do = "close" => acts[i].g < rgen
  <2>1. /\ \A i \in 1..Len(acts) : acts[i] \in Actions
        /\ \A i \in 1..Len(acts) : ActionOK(acts[i], rgen, session, used.sessions)
    BY DEF Base, Channels
  <2>2. \A a \in Actions : a.g \in Nat
    BY DEF Actions
  <2> QED
    BY <2>1, <2>2 DEF ActionOK, Ends
<1>1. ASSUME NEW i \in 1..(Len(acts) + 1), NEW g \in Nat, g <= rgen, Closable(acts, rgen, session, i, g)
      PROVE  Closable(acts', rgen', session', i, g)
  <2>1. ASSUME NEW k \in i..Len(acts'), acts'[k].do = "close" PROVE g <= acts'[k].g
    <3>1. CASE k <= Len(acts)
      BY <1>n, <1>1, <2>1, <3>1 DEF Closable
    <3>2. CASE k = Len(acts) + 1
      BY <1>c, <1>1, <3>2
    <3> QED
      BY <1>n, <1>c, <2>1, <3>1, <3>2
  <2>2. ClosedFrom(acts', i, g)
    <3>1. CASE g < rgen
      <4>1. ClosedFrom(acts, i, g)
        BY <1>1, <3>1 DEF Closable
      <4> QED
        BY <1>n, <4>1 DEF ClosedFrom
    <3>2. CASE g = rgen
      BY <1>n, <1>c, <3>2 DEF ClosedFrom
    <3> QED
      BY <1>n, <1>1, <3>1, <3>2
  <2> QED
    BY <2>1, <2>2 DEF Closable
<1>2. ASSUME NEW i \in 1..Len(acts'), acts'[i].do = "open"
      PROVE  Closable(acts', rgen', session', i + 1, acts'[i].g)
  <2>1. i \in 1..Len(acts)
    BY <1>n, <1>c, <1>2
  <2>2. Closable(acts, rgen, session, i + 1, acts[i].g)
    BY <1>n, <1>2, <2>1 DEF Routes
  <2> QED
    BY <1>n, <1>a, <1>1, <2>1, <2>2
<1>3. ClosesRise(acts')
  <2> SUFFICES ASSUME NEW i \in 1..Len(acts'), NEW j \in 1..Len(acts'), i < j,
                      acts'[i].do = "close", acts'[j].do = "close"
               PROVE  acts'[i].g < acts'[j].g
    BY DEF ClosesRise
  <2>1. j <= Len(acts) + 1 /\ i \in 1..Len(acts)
    BY <1>n, <1>c
  <2>2. CASE j \in 1..Len(acts)
    BY <1>n, <2>1, <2>2 DEF Routes, ClosesRise
  <2>3. CASE j = Len(acts) + 1
    BY <1>n, <1>a, <1>c, <2>1, <2>3
  <2> QED
    BY <1>n, <2>1, <2>2, <2>3
<1>4. 1 \in 1..(Len(acts) + 1)
  BY <1>n
<1>5. route.g \in Nat /\ route.g <= rgen /\ pipe \in Nat /\ pipe <= rgen
  BY DEF Base, Typed, ExecutorTypes
<1> QED
  BY <1>1, <1>2, <1>3, <1>4, <1>5 DEF Routes

\* The executor closes exactly what it holds, and opens only when it holds nothing.
LEMMA RoutesExecute ==
  ASSUME Base, Routes, Execute
  PROVE  Routes'
<1> DEFINE a == acts[1]
<1>0. /\ Shrunk(acts, acts') /\ a \in Actions /\ ActionOK(a, rgen, session, used.sessions)
      /\ 1 \in 1..Len(acts) /\ UNCHANGED core
  BY FirstAction
<1>n. /\ rgen \in Nat /\ session \in Nat /\ Len(acts) \in Nat /\ Len(acts') = Len(acts) - 1
      /\ rgen' = rgen /\ session' = session /\ a.g \in Nat /\ a.g <= rgen
      /\ \A i \in 1..Len(acts') : acts'[i] = acts[i + 1]
      /\ \A i \in 1..Len(acts) : acts[i] \in Actions
  <2>1. rgen \in Nat /\ session \in Nat /\ Len(acts) \in Nat
    BY Basics
  <2>2. rgen' = rgen /\ session' = session
    BY <1>0 DEF core
  <2>3. a.g \in Nat /\ a.g <= rgen
    BY <1>0 DEF Actions, ActionOK
  <2>4. \A i \in 1..Len(acts) : acts[i] \in Actions
    BY DEF Base, Channels
  <2> QED
    BY <1>0, <2>1, <2>2, <2>3, <2>4 DEF Shrunk
<1>g. \A i \in 1..Len(acts) : acts[i].g \in Nat
  BY <1>n DEF Actions
<1>1. ASSUME NEW i \in 1..Len(acts), NEW g, Closable(acts, rgen, session, i + 1, g)
      PROVE  Closable(acts', rgen', session', i, g)
  <2>1. \A k \in i..Len(acts') : k + 1 \in (i + 1)..Len(acts) /\ acts'[k] = acts[k + 1]
    BY <1>n
  <2>2. \A k \in i..Len(acts') : acts'[k].do = "close" => g <= acts'[k].g
    BY <1>1, <2>1 DEF Closable
  <2>3. ASSUME g < rgen' \/ session' = 0 PROVE ClosedFrom(acts', i, g)
    <3>1. PICK k \in (i + 1)..Len(acts) : acts[k].do = "close" /\ acts[k].g = g
      BY <1>n, <1>1, <2>3 DEF Closable, ClosedFrom
    <3>2. k - 1 \in i..Len(acts') /\ acts'[k - 1] = acts[k]
      BY <1>n
    <3> QED
      BY <3>1, <3>2 DEF ClosedFrom
  <2> QED
    BY <2>2, <2>3 DEF Closable
<1>2. ASSUME NEW g \in Nat, Closable(acts, rgen, session, 1, g), a.do # "close"
      PROVE  Closable(acts', rgen', session', 1, g)
  <2>1. Closable(acts, rgen, session, 1 + 1, g)
    <3>1. \A k \in 2..Len(acts) : acts[k].do = "close" => g <= acts[k].g
      BY <1>n, <1>2 DEF Closable
    <3>2. ASSUME g < rgen \/ session = 0 PROVE ClosedFrom(acts, 2, g)
      BY <1>n, <1>2, <3>2 DEF Closable, ClosedFrom
    <3> QED
      BY <3>1, <3>2 DEF Closable
  <2> QED
    BY <1>0, <1>1, <2>1
<1>3. \A i \in 1..Len(acts') :
        acts'[i].do = "open" => Closable(acts', rgen', session', i + 1, acts'[i].g)
  <2> SUFFICES ASSUME NEW i \in 1..Len(acts'), acts'[i].do = "open"
               PROVE  Closable(acts', rgen', session', i + 1, acts'[i].g)
    OBVIOUS
  <2>1. i + 1 \in 1..Len(acts) /\ acts'[i] = acts[i + 1]
    BY <1>n
  <2>2. Closable(acts, rgen, session, (i + 1) + 1, acts[i + 1].g)
    BY <2>1 DEF Routes
  <2> QED
    BY <1>1, <2>1, <2>2
<1>4. ClosesRise(acts')
  <2> SUFFICES ASSUME NEW i \in 1..Len(acts'), NEW j \in 1..Len(acts'), i < j,
                      acts'[i].do = "close", acts'[j].do = "close"
               PROVE  acts'[i].g < acts'[j].g
    BY DEF ClosesRise
  <2>1. i + 1 \in 1..Len(acts) /\ j + 1 \in 1..Len(acts) /\ i + 1 < j + 1
        /\ acts'[i] = acts[i + 1] /\ acts'[j] = acts[j + 1]
    BY <1>n
  <2> QED
    BY <2>1 DEF Routes, ClosesRise
<1>r. /\ host = route.g /\ (route.g # 0 => pipe = route.g) /\ (heard # 0 => host # 0)
      /\ route.g # 0 => Closable(acts, rgen, session, 1, route.g)
      /\ pipe # 0 => Closable(acts, rgen, session, 1, pipe)
      /\ route.g \in Nat /\ pipe \in Nat
  BY Basics DEF Routes
<1>o. a.do = "open" => Closable(acts', rgen', session', 1, a.g)
  BY <1>0, <1>1 DEF Routes
<1>c. ASSUME a.do = "close", route.g # 0 PROVE route.g = a.g
  <2>1. route.g <= a.g
    BY <1>0, <1>c, <1>r DEF Closable
  <2>2. CASE route.g < rgen \/ session = 0
    <3>1. PICK k \in 1..Len(acts) : acts[k].do = "close" /\ acts[k].g = route.g
      BY <1>c, <1>r, <2>2 DEF Closable, ClosedFrom
    <3>2. k = 1 \/ a.g < acts[k].g
      BY <1>0, <1>n, <1>c, <3>1 DEF Routes, ClosesRise
    <3> QED
      BY <1>n, <1>r, <2>1, <3>1, <3>2
  <2>3. CASE ~(route.g < rgen \/ session = 0)
    <3>1. a.g < rgen
      BY <1>0, <1>c, <2>3 DEF ActionOK
    <3> QED
      BY <1>n, <1>r, <2>1, <2>3, <3>1
  <2> QED
    BY <2>2, <2>3
<1> HIDE DEF a
<1>5. CASE Opened(a)
  <2>1. route'.g = a.g /\ host' = a.g /\ pipe' = a.g /\ heard' = 0 /\ a.do = "open"
    BY <1>5 DEF Opened
  <2> QED
    BY <1>3, <1>4, <1>o, <2>1 DEF Routes
<1>6. CASE Refused(a)
  <2>1. route' = route /\ host' = host /\ heard' = heard /\ (pipe' = pipe \/ (host = 0 /\ pipe' = a.g))
        /\ a.do = "open"
    BY <1>6 DEF Refused
  <2>2. a.do # "close"
    BY <2>1
  <2> QED
    BY <1>2, <1>3, <1>4, <1>o, <1>r, <2>1, <2>2 DEF Routes
<1>7. CASE Closes(a)
  <2>1. route'.g = 0 /\ pipe' = 0 /\ heard' = 0 /\ host' = (IF route.g = a.g THEN 0 ELSE host)
        /\ a.do = "close"
    BY <1>7 DEF Closes, NoRoute
  <2>2. host' = 0
    BY <1>c, <1>r, <2>1
  <2> QED
    BY <1>3, <1>4, <2>1, <2>2 DEF Routes
<1>8. CASE Answers(a)
  <2>1. a.do # "close" /\ UNCHANGED <<route, host, pipe, heard>>
    BY <1>8 DEF Answers
  <2> QED
    BY <1>2, <1>3, <1>4, <1>r, <2>1 DEF Routes
<1> QED
  BY <1>5, <1>6, <1>7, <1>8, ExecuteCases DEF a

\* A close finds the route it names, or none.
LEMMA RoutesStep ==
  ASSUME Base, Base', Routes, Next
  PROVE  Routes'
<1>n. rgen \in Nat /\ rgen' \in Nat /\ session \in Nat /\ Len(acts) \in Nat /\ used.sessions \in Nat
  <2>1. CoreTypes'
    BY DEF Base, Typed
  <2> QED
    BY <2>1, Basics DEF CoreTypes
<1>1. CASE StartSession
  <2>1. /\ Grown(acts, acts') /\ rgen' = rgen + 1 /\ UNCHANGED <<route, host, pipe, heard>>
        /\ session' # 0
    <3>1. rgen' = rgen + 1 /\ UNCHANGED <<route, host, pipe, heard>>
      BY <1>1 DEF StartSession, executor, worker
    <3>2. Grown(acts, acts') /\ session' = used.sessions + 1
      BY <1>1, StartShape
    <3> QED
      BY <1>n, <3>1, <3>2
  <2>2. CASE session = 0
    <3>1. \A i \in 1..Len(acts') : i > Len(acts) => acts'[i] = Activate(session')
      BY <1>n, <1>1, <2>1, <2>2, StartShape DEF Grown
    <3>2. Continues
      BY <2>1, <2>2, <3>1 DEF Continues, Activate
    <3> QED
      BY <1>n, <2>1, <3>2, RoutesContinue
  <2>3. CASE session # 0
    <3>1. /\ Len(acts') = Len(acts) + 2 /\ acts'[Len(acts) + 1] = CloseRoute(rgen)
          /\ acts'[Len(acts) + 2] = Activate(session')
      BY <1>1, <2>3, StartShape
    <3>2. Ends
      BY <1>n, <2>1, <2>3, <3>1 DEF Ends, Activate
    <3> QED
      BY <1>n, <2>1, <3>2, RoutesEnd
  <2> QED
    BY <2>2, <2>3
<1>2. CASE StopSession
  <2>1. Put(acts, acts', CloseRoute(rgen)) /\ session # 0 /\ rgen' = rgen
        /\ UNCHANGED <<route, host, pipe, heard>>
    BY <1>n, <1>2, SendShape, ActionTypes DEF Base, StopSession, Send, executor, worker
  <2>2. Ends
    BY <1>n, <2>1 DEF Ends, Put
  <2> QED
    BY <1>n, <2>1, <2>2, RoutesEnd
<1>3. CASE ResetInput
  <2>1. Put(acts, acts', ResetWorker) /\ session' = session /\ rgen' = rgen
        /\ UNCHANGED <<route, host, pipe, heard>>
    BY <1>n, <1>3, SendShape, ActionTypes DEF Base, ResetInput, Send, executor, worker
  <2>2. Continues
    BY <1>n, <2>1 DEF Continues, Put, Grown, ResetWorker
  <2> QED
    BY <1>n, <2>1, <2>2, RoutesContinue
<1>4. CASE BeginSpeech \/ EndSpeech
  BY <1>4 DEF BeginSpeech, EndSpeech, executor, worker, Routes
<1>5. CASE Observe
  <2> DEFINE m == obs[1]
  <2>0. UNCHANGED <<route, host, pipe, heard>> /\ m \in Observations
    BY <1>5, FirstObservation DEF executor, worker
  <2>1. CASE Opens(m)
    <3>1. Put(acts, acts', OpenRoute(session, rgen)) /\ session' = session /\ rgen' = rgen /\ session # 0
      BY <1>5, <2>1, FirstObservation DEF Opens, core, ObservationOK
    <3>2. Continues
      BY <1>n, <3>1 DEF Continues, Put, Grown, OpenRoute
    <3> QED
      BY <1>n, <2>0, <3>2, RoutesContinue
  <2>2. CASE Starts(m)
    <3>1. Put(acts, acts', StartRoute(rgen)) /\ session' = session /\ rgen' = rgen
      BY <2>2 DEF Starts, core
    <3>2. Continues
      BY <1>n, <3>1 DEF Continues, Put, Grown, StartRoute
    <3> QED
      BY <1>n, <2>0, <3>2, RoutesContinue
  <2>3. CASE Activates(m) \/ Hears(m)
    BY <2>0, <2>3 DEF Activates, Hears, Routes
  <2>4. CASE Breaks(m)
    <3>1. m.g = rgen /\ session # 0 /\ RouteFault(m)
      BY <2>4 DEF Breaks
    <3>2. /\ Grown(acts, acts') /\ rgen' = rgen + 1
          /\ acts'[Len(acts) + 1] = CloseRoute(rgen)
          /\ \/ Len(acts') = Len(acts) + 1
             \/ Len(acts') = Len(acts) + 2 /\ acts'[Len(acts) + 2] = RetryLater(rgen + 1, retry + 1)
      BY <2>0, <3>1, FaultShape
    <3>3. Ends
      BY <1>n, <3>1, <3>2 DEF Ends, RetryLater
    <3> QED
      BY <1>n, <2>0, <3>3, RoutesEnd
  <2> QED
    BY <1>5, <2>1, <2>2, <2>3, <2>4, ObserveCases
<1>6. CASE Execute
  BY <1>6, RoutesExecute
<1>7. CASE Aside
  <2>1. UNCHANGED <<acts, route, host, pipe>> /\ UNCHANGED <<rgen, session>>
    BY <1>7, AsideCases DEF core
  <2>2. heard' # 0 => host # 0
    BY <1>7, AsideCases DEF Tells, Listens, Announces, Transcribes, Fails, Hearing, Routes
  <2> QED
    BY <2>1, <2>2 DEF Routes
<1> QED
  BY <1>1, <1>2, <1>3, <1>4, <1>5, <1>6, <1>7 DEF Next, Aside

-----------------------------------------------------------------------------
(* An active session is served *)

\* The route in use is not closed under the coordinator.
LEMMA RouteStays ==
  ASSUME Base, Routes, session # 0, route.g = rgen, Execute
  PROVE  route'.g = rgen
<1> DEFINE a == acts[1]
<1>0. a \in Actions /\ ActionOK(a, rgen, session, used.sessions) /\ 1 \in 1..Len(acts)
  BY FirstAction
<1>1. rgen # 0 /\ rgen \in Nat /\ a.g \in Nat
  BY <1>0, Basics DEF Base, Typed, CoreTypes, Actions
<1>2. a.do # "close"
  <2>1. a.do = "close" => a.g < rgen
    BY <1>0 DEF ActionOK
  <2>2. a.do = "close" => rgen <= a.g
    BY <1>0, <1>1 DEF Routes, Closable
  <2> QED
    BY <1>1, <2>1, <2>2
<1>3. ~Opened(a)
  BY <1>1 DEF Opened, Routes
<1> QED
  BY <1>2, <1>3, ExecuteCases DEF Refused, Closes, Answers

\* Observations are of a generation no later than the current one.
LEMMA Observed ==
  ASSUME Base
  PROVE  /\ \A i \in 1..Len(obs) : obs[i] \in Observations /\ obs[i].g \in Nat /\ obs[i].g <= rgen
         /\ \A i \in 1..Len(obs) : obs[i].saw \in {"opened", "started"} => obs[i].s # 0
         /\ \A i \in 1..Len(obs) : obs[i].saw = "activated" => obs[i].s \in 1..used.sessions
<1>1. \A m \in Observations : m.g \in Nat
  BY DEF Observations
<1>2. \A i \in 1..Len(obs) : obs[i] \in Observations
        /\ ObservationOK(obs[i], rgen, used.sessions, used.candidates)
  BY DEF Base, Channels
<1> QED
  BY <1>1, <1>2 DEF ObservationOK

\* Actions are, too.
LEMMA Sent ==
  ASSUME Base
  PROVE  /\ \A i \in 1..Len(acts) : acts[i] \in Actions /\ acts[i].g \in Nat /\ acts[i].g <= rgen
         /\ \A i \in 1..Len(acts) : acts[i].do = "activate" => acts[i].s \in 1..used.sessions
<1>1. \A a \in Actions : a.g \in Nat
  BY DEF Actions
<1>2. \A i \in 1..Len(acts) : acts[i] \in Actions /\ ActionOK(acts[i], rgen, session, used.sessions)
  BY DEF Base, Channels
<1> QED
  BY <1>1, <1>2 DEF ActionOK

\* What the executor publishes.
LEMMA ExecutePublishes ==
  ASSUME Base, Execute
  PROVE  \/ obs' = obs /\ used' = used /\ acts[1].do # "activate"
         \/ \E m : /\ Put(obs, obs', m)
                   /\ \/ /\ acts[1].do = "activate" /\ m = Saw("activated", acts[1].s, 0) /\ used' = used
                      \/ /\ acts[1].do = "open" /\ m = Saw("opened", acts[1].s, acts[1].g) /\ used' = used
                      \/ /\ acts[1].do = "start" /\ route.g = acts[1].g /\ used' = used
                         /\ m = Saw("started", route.s, acts[1].g)
                      \/ /\ acts[1].do \in {"open", "start"}
                         /\ \E r \in BOOLEAN : /\ m = Fault(acts[1].g, r)
                                               /\ (r = FALSE /\ used' = used) \/ Spend("faults", MaxFaults)
<1>1. CASE Opened(acts[1])
  BY <1>1 DEF Opened
<1>2. CASE Refused(acts[1])
  BY <1>2 DEF Refused
<1>3. CASE Closes(acts[1])
  BY <1>3 DEF Closes
<1>4. CASE Answers(acts[1])
  BY <1>4 DEF Answers
<1> QED
  BY <1>1, <1>2, <1>3, <1>4, ExecuteCases

\* An active session stays served, and a session becomes active only on a route that is there.
LEMMA ServedStep ==
  ASSUME Base, Routes, Served, Next
  PROVE  Served'
<1>n. rgen \in Nat /\ session \in Nat /\ Len(obs) \in Nat /\ (session = 0 <=> status = "Closed")
  BY Basics DEF Base, Typed, CoreTypes
<1>s. \A i \in 1..Len(obs) :
        obs[i].saw = "started" /\ obs[i].s = session /\ obs[i].g = rgen => route.g = rgen
  BY DEF Served
<1>1. CASE StartSession
  <2>1. status' = "Opening" /\ rgen' = rgen + 1 /\ obs' = obs
    BY <1>1 DEF StartSession
  <2> QED
    BY <1>n, <2>1, Observed DEF Served
<1>2. CASE StopSession
  <2>1. status' = "Closed" /\ session' = 0 /\ obs' = obs
    BY <1>2 DEF StopSession
  <2> QED
    BY <2>1, Observed DEF Served
<1>3. CASE ResetInput \/ BeginSpeech \/ EndSpeech
  BY <1>3 DEF ResetInput, BeginSpeech, EndSpeech, executor, Served
<1>4. CASE Observe
  <2>0. Shrunk(obs, obs') /\ route' = route /\ 1 \in 1..Len(obs) /\ obs[1] \in Observations
    BY <1>4, FirstObservation DEF executor
  <2>1. CASE Opens(obs[1]) \/ Starts(obs[1]) \/ Hears(obs[1])
    <3>1. UNCHANGED <<session, status, rgen>>
      BY <2>1 DEF Opens, Starts, Hears, core
    <3> QED
      BY <1>n, <2>0, <3>1 DEF Served, Shrunk
  <2>2. CASE Activates(obs[1])
    <3>1. UNCHANGED <<session, rgen>> /\ route.g = rgen
      BY <1>s, <2>0, <2>2 DEF Activates
    <3> QED
      BY <2>0, <3>1 DEF Served
  <2>3. CASE Breaks(obs[1])
    <3>1. rgen' = rgen + 1 /\ status' # "Active"
      BY <2>0, <2>3, FaultShape DEF Breaks
    <3>2. \A i \in 1..Len(obs') : obs'[i].g # rgen'
      BY <1>n, <2>0, <3>1, Observed DEF Shrunk
    <3> QED
      BY <3>1, <3>2 DEF Served
  <2> QED
    BY <1>4, <2>1, <2>2, <2>3, ObserveCases
<1>5. CASE Execute
  <2>0. UNCHANGED <<session, status, rgen>>
    BY <1>5, FirstAction DEF core
  <2>1. session # 0 /\ route.g = rgen => route'.g = rgen
    BY <1>5, RouteStays
  <2>2. \A i \in 1..Len(obs') :
          obs'[i].saw = "started" /\ obs'[i].s = session /\ obs'[i].g = rgen
            => session # 0 /\ route.g = rgen
    <3>1. \A i \in 1..Len(obs) :
            obs[i].saw = "started" /\ obs[i].s = session /\ obs[i].g = rgen
              => session # 0 /\ route.g = rgen
      BY <1>s, Observed
    <3>2. CASE obs' = obs
      BY <3>1, <3>2
    <3>3. ASSUME NEW m, Put(obs, obs', m), m.saw = "started" /\ m.s = session /\ m.g = rgen
                   => session # 0 /\ route.g = rgen
          PROVE  \A i \in 1..Len(obs') :
                   obs'[i].saw = "started" /\ obs'[i].s = session /\ obs'[i].g = rgen
                     => session # 0 /\ route.g = rgen
      BY <1>n, <3>1, <3>3 DEF Put, Grown
    <3>4. \A m : m = Saw("started", route.s, acts[1].g) /\ acts[1].do = "start" /\ route.g = acts[1].g =>
            (m.saw = "started" /\ m.s = session /\ m.g = rgen => session # 0 /\ route.g = rgen)
      <4>1. acts[1].do = "start" => acts[1].g # 0
        BY <1>5, FirstAction DEF ActionOK
      <4>2. route.g # 0 => route.s # 0
        BY DEF Base, Typed, ExecutorTypes
      <4> QED
        BY <4>1, <4>2 DEF Saw
    <3>5. \A m, s, g, r : m = Saw("activated", s, g) \/ m = Saw("opened", s, g) \/ m = Fault(g, r)
            => m.saw # "started"
      BY DEF Saw, Fault
    <3> QED
      BY <1>5, <3>2, <3>3, <3>4, <3>5, ExecutePublishes
  <2> QED
    BY <1>n, <2>0, <2>1, <2>2 DEF Served
<1>6. CASE Aside
  <2>0. UNCHANGED <<session, status, rgen, route>>
    BY <1>6, AsideCases DEF core
  <2>1. \A i \in 1..Len(obs') : (i \in 1..Len(obs) /\ obs'[i] = obs[i]) \/ obs'[i].saw # "started"
    <3>1. ASSUME NEW m, Put(obs, obs', m), m.saw # "started"
          PROVE  \A i \in 1..Len(obs') : (i \in 1..Len(obs) /\ obs'[i] = obs[i]) \/ obs'[i].saw # "started"
      BY <1>n, <3>1 DEF Put, Grown
    <3>2. \A m, s, g, r : m = Saw("due", s, g) \/ m = Fault(g, r) => m.saw # "started"
      BY DEF Saw, Fault
    <3>3. \A m : IsText(m) => m.saw # "started"
      BY DEF IsText
    <3>4. CASE Tells
      BY <3>1, <3>2, <3>4 DEF Tells
    <3>5. CASE Listens
      BY <3>5 DEF Listens
    <3>6. CASE Announces
      BY <3>1, <3>6 DEF Announces
    <3>7. CASE Transcribes
      BY <3>1, <3>3, <3>7 DEF Transcribes
    <3>8. CASE Fails
      BY <3>1, <3>8 DEF Fails
    <3> QED
      BY <1>6, <3>4, <3>5, <3>6, <3>7, <3>8, AsideCases
  <2> QED
    BY <2>0, <2>1 DEF Served
<1> QED
  BY <1>1, <1>2, <1>3, <1>4, <1>5, <1>6 DEF Next, Aside

-----------------------------------------------------------------------------
(* Stages of a session *)

\* What a timer, a fault or the worker publishes.
LEMMA AsidePublishes ==
  ASSUME Base, Aside
  PROVE  \/ obs' = obs /\ used' = used
         \/ \E m : /\ Put(obs, obs', m)
                   /\ \/ m.saw \in {"due", "vad", "partial", "final", "lost"}
                      \/ /\ host # 0 /\ Spend("faults", MaxFaults)
                         /\ \E r \in BOOLEAN : m = Fault(host, r)
<1>1. CASE Tells
  <2>1. \A s, g : Saw("due", s, g).saw = "due"
    BY DEF Saw
  <2> QED
    BY <1>1, <2>1 DEF Tells
<1>2. CASE Listens
  BY <1>2 DEF Listens
<1>3. CASE Announces
  BY <1>3 DEF Announces
<1>4. CASE Transcribes
  BY <1>4 DEF Transcribes, IsText
<1>5. CASE Fails
  BY <1>5 DEF Fails
<1> QED
  BY <1>1, <1>2, <1>3, <1>4, <1>5, AsideCases

\* A new generation begins with nothing underway.
LEMMA FreshIsIdle ==
  ASSUME Base, rgen' = rgen + 1, Grown(acts, acts'), obs' = obs \/ Shrunk(obs, obs'), route' = route,
         \A i \in 1..Len(acts') : i > Len(acts) => acts'[i].do \notin {"open", "start"}
  PROVE  Idle'
<1>n. rgen \in Nat /\ Len(obs) \in Nat /\ route.g \in Nat /\ route.g <= rgen
  BY Basics DEF Base, Typed, ExecutorTypes
<1>1. \A i \in 1..Len(acts') : acts'[i].do \in {"open", "start"} => acts'[i].g # rgen'
  BY <1>n, Sent DEF Grown
<1>2. \A i \in 1..Len(obs') : obs'[i].g # rgen'
  BY <1>n, Observed DEF Shrunk
<1> QED
  BY <1>n, <1>1, <1>2 DEF Idle

\* What the executor does next brings nothing of an idle generation about.
LEMMA IdleExecute ==
  ASSUME Base, Idle, rgen # 0, Execute
  PROVE  Idle'
<1> DEFINE a == acts[1]
<1>0. /\ Shrunk(acts, acts') /\ 1 \in 1..Len(acts) /\ rgen' = rgen
  BY FirstAction DEF core
<1>n. Len(acts) \in Nat /\ Len(obs) \in Nat
  BY Basics
<1>a. a.do \in {"open", "start"} => a.g # rgen
  BY <1>0 DEF Idle
<1>1. \A i \in 1..Len(acts') : acts'[i].do \in {"open", "start"} => acts'[i].g # rgen'
  BY <1>0, <1>n DEF Idle, Shrunk
<1>2. \A i \in 1..Len(obs') : obs'[i].saw \in {"opened", "started", "fault"} => obs'[i].g # rgen'
  <2>1. CASE obs' = obs
    BY <1>0, <2>1 DEF Idle
  <2>2. ASSUME NEW m, Put(obs, obs', m), m.saw \in {"opened", "started", "fault"} => m.g # rgen
        PROVE  \A i \in 1..Len(obs') : obs'[i].saw \in {"opened", "started", "fault"} => obs'[i].g # rgen'
    BY <1>0, <1>n, <2>2 DEF Put, Grown, Idle
  <2>3. \A s, g, r : /\ Saw("activated", s, 0).saw = "activated" /\ Saw("opened", s, g).g = g
                     /\ Saw("started", s, g).g = g /\ Fault(g, r).g = g
    BY DEF Saw, Fault
  <2>4. CASE \E m : Put(obs, obs', m) /\ m = Saw("activated", a.s, 0)
    BY <2>2, <2>3, <2>4
  <2>5. CASE \E m : Put(obs, obs', m) /\ m.g # rgen
    BY <2>2, <2>5
  <2>6. ASSUME obs' # obs
        PROVE  \E m : Put(obs, obs', m) /\ (m = Saw("activated", a.s, 0) \/ (m.g = a.g /\ a.do \in {"open", "start"}))
    <3>1. PICK m : /\ Put(obs, obs', m)
                   /\ \/ m = Saw("activated", a.s, 0)
                      \/ m = Saw("opened", a.s, a.g) /\ a.do = "open"
                      \/ m = Saw("started", route.s, a.g) /\ a.do = "start"
                      \/ a.do \in {"open", "start"} /\ \E r \in BOOLEAN : m = Fault(a.g, r)
      BY <2>6, ExecutePublishes
    <3>2. m = Saw("activated", a.s, 0) \/ (m.g = a.g /\ a.do \in {"open", "start"})
      BY <2>3, <3>1
    <3> QED
      BY <3>1, <3>2
  <2> QED
    BY <1>a, <2>1, <2>4, <2>5, <2>6
<1>3. route'.g # rgen'
  <2>1. CASE Opened(a)
    BY <1>0, <1>a, <2>1 DEF Opened
  <2>2. CASE Closes(a)
    BY <1>0, <2>2 DEF Closes, NoRoute
  <2>3. CASE Refused(a) \/ Answers(a)
    BY <1>0, <2>3 DEF Refused, Answers, Idle
  <2> QED
    BY <2>1, <2>2, <2>3, ExecuteCases
<1> QED
  BY <1>1, <1>2, <1>3 DEF Idle

\* Neither does the host, a timer or the worker.
LEMMA IdleAside ==
  ASSUME Base, Routes, Idle, Aside
  PROVE  Idle'
<1>n. Len(obs) \in Nat
  BY Basics
<1>0. UNCHANGED <<acts, route, rgen>> /\ host = route.g
  BY AsideCases DEF core, Routes
<1>1. \A i \in 1..Len(obs') : obs'[i].saw \in {"opened", "started", "fault"} => obs'[i].g # rgen'
  <2>1. CASE obs' = obs
    BY <1>0, <2>1 DEF Idle
  <2>2. ASSUME NEW m, Put(obs, obs', m), m.saw \in {"opened", "started", "fault"} => m.g # rgen
        PROVE  \A i \in 1..Len(obs') : obs'[i].saw \in {"opened", "started", "fault"} => obs'[i].g # rgen'
    BY <1>0, <1>n, <2>2 DEF Put, Grown, Idle
  <2>3. \A r : Fault(host, r).g # rgen
    BY <1>0 DEF Fault, Idle
  <2> QED
    BY <2>1, <2>2, <2>3, AsidePublishes
<1> QED
  BY <1>0, <1>1 DEF Idle

\* Sending anything but an open or a start, and taking observations, leaves it idle.
LEMMA IdleSend ==
  ASSUME Base, Idle, UNCHANGED <<route, rgen>>, obs' = obs \/ Shrunk(obs, obs'), Grown(acts, acts'),
         \A i \in 1..Len(acts') : i > Len(acts) => acts'[i].do \notin {"open", "start"}
  PROVE  Idle'
<1>n. Len(obs) \in Nat /\ Len(acts) \in Nat
  BY Basics
<1>1. \A i \in 1..Len(acts') : acts'[i].do \in {"open", "start"} => acts'[i].g # rgen'
  BY <1>n DEF Idle, Grown
<1>2. \A i \in 1..Len(obs') : obs'[i].saw \in {"opened", "started", "fault"} => obs'[i].g # rgen'
  <2>1. CASE obs' = obs
    BY <2>1 DEF Idle
  <2>2. CASE Shrunk(obs, obs')
    <3>1. \A i \in 1..Len(obs') : i + 1 \in 1..Len(obs) /\ obs'[i] = obs[i + 1]
      BY <1>n, <2>2 DEF Shrunk
    <3> QED
      BY <3>1 DEF Idle
  <2> QED
    BY <2>1, <2>2
<1> QED
  BY <1>1, <1>2 DEF Idle

\* Once a session's activation is out, nothing else of it is.
LEMMA StagesStep ==
  ASSUME Base, Routes, Stages, Next
  PROVE  Stages'
<1>n. /\ rgen \in Nat /\ session \in Nat /\ Len(obs) \in Nat /\ Len(acts) \in Nat /\ used.sessions \in Nat
      /\ (session = 0 <=> status = "Closed") /\ (session # 0 => rgen # 0) /\ session <= used.sessions
  BY Basics DEF Base, Typed, CoreTypes, Spent
<1>s. /\ \A i \in 1..Len(acts) : acts[i].do = "activate" /\ acts[i].s = session => status = "Opening" /\ Idle
      /\ \A i \in 1..Len(obs) : obs[i].saw = "activated" /\ obs[i].s = session => status = "Opening" /\ Idle
      /\ status = "Suspended" => Idle
  BY DEF Stages
<1>u. /\ \A i, j \in 1..Len(acts) :
           acts[i].do = "activate" /\ acts[j].do = "activate" /\ acts[i].s = acts[j].s => i = j
      /\ \A i, j \in 1..Len(obs) :
           obs[i].saw = "activated" /\ obs[j].saw = "activated" /\ obs[i].s = obs[j].s => i = j
      /\ \A i \in 1..Len(acts), j \in 1..Len(obs) :
           acts[i].do = "activate" /\ obs[j].saw = "activated" => acts[i].s # obs[j].s
  BY DEF Stages
<1>a. /\ \A i \in 1..Len(acts) : acts[i].do = "activate" => acts[i].s \in 1..used.sessions
      /\ \A i \in 1..Len(obs) : obs[i].saw = "activated" => obs[i].s \in 1..used.sessions
  BY Sent, Observed
<1>1. CASE StartSession
  <2>1. /\ status' = "Opening" /\ rgen' = rgen + 1 /\ obs' = obs /\ route' = route
        /\ session' = used.sessions + 1 /\ Grown(acts, acts')
    <3>1. status' = "Opening" /\ rgen' = rgen + 1 /\ obs' = obs /\ route' = route
      BY <1>1 DEF StartSession, executor
    <3> QED
      BY <1>1, <3>1, StartShape
  <2>2. \A i \in 1..Len(acts') : i > Len(acts) =>
          \/ acts'[i] = CloseRoute(rgen)
          \/ acts'[i] = Activate(session') /\ i = Len(acts')
    BY <1>n, <1>1, <2>1, StartShape DEF Grown
  <2>3. \A i \in 1..Len(acts') : i > Len(acts) => acts'[i].do \notin {"open", "start"}
    BY <2>2 DEF CloseRoute, Activate
  <2>4. Idle'
    BY <2>1, <2>3, FreshIsIdle
  <2>5. \A i \in 1..Len(acts') : acts'[i].do = "activate" =>
          \/ i \in 1..Len(acts) /\ acts'[i] = acts[i]
          \/ i > Len(acts) /\ i = Len(acts') /\ acts'[i].s = session'
    BY <1>n, <2>1, <2>2 DEF Grown, CloseRoute, Activate
  <2>6. \A i, j \in 1..Len(acts') :
          acts'[i].do = "activate" /\ acts'[j].do = "activate" /\ acts'[i].s = acts'[j].s => i = j
    <3> SUFFICES ASSUME NEW i \in 1..Len(acts'), NEW j \in 1..Len(acts'), acts'[i].do = "activate",
                        acts'[j].do = "activate", acts'[i].s = acts'[j].s
                 PROVE  i = j
      OBVIOUS
    <3>1. \A k \in 1..Len(acts) : acts[k].do = "activate" => acts[k].s # session'
      BY <1>n, <1>a, <2>1
    <3>2. CASE i \in 1..Len(acts) /\ acts'[i] = acts[i]
      BY <1>u, <2>5, <3>1, <3>2
    <3>3. CASE i = Len(acts') /\ acts'[i].s = session'
      BY <2>5, <3>1, <3>3
    <3> QED
      BY <2>5, <3>2, <3>3
  <2>7. \A i \in 1..Len(acts'), j \in 1..Len(obs') :
          acts'[i].do = "activate" /\ obs'[j].saw = "activated" => acts'[i].s # obs'[j].s
    <3> SUFFICES ASSUME NEW i \in 1..Len(acts'), NEW j \in 1..Len(obs), acts'[i].do = "activate",
                        obs[j].saw = "activated"
                 PROVE  acts'[i].s # obs[j].s
      BY <2>1
    <3>1. CASE i \in 1..Len(acts) /\ acts'[i] = acts[i]
      BY <1>u, <3>1
    <3>2. CASE acts'[i].s = session'
      BY <1>n, <1>a, <2>1, <3>2
    <3> QED
      BY <2>5, <3>1, <3>2
  <2> QED
    BY <1>n, <1>a, <1>u, <2>1, <2>4, <2>6, <2>7 DEF Stages
<1>2. CASE StopSession
  <2>1. status' = "Closed" /\ session' = 0 /\ obs' = obs /\ Put(acts, acts', CloseRoute(rgen))
    BY <1>n, <1>2, SendShape, ActionTypes DEF Base, StopSession, Send
  <2>2. \A i \in 1..Len(acts') : acts'[i].do = "activate" => i \in 1..Len(acts) /\ acts'[i] = acts[i]
    BY <1>n, <2>1 DEF Put, Grown, CloseRoute
  <2>3. /\ \A i \in 1..Len(acts') : acts'[i].do = "activate" => acts'[i].s # session'
        /\ \A i \in 1..Len(obs') : obs'[i].saw = "activated" => obs'[i].s # session'
    BY <1>n, <1>a, <2>1, <2>2
  <2>4. \A i, j \in 1..Len(acts') :
          acts'[i].do = "activate" /\ acts'[j].do = "activate" /\ acts'[i].s = acts'[j].s => i = j
    BY <1>u, <2>2
  <2>5. \A i \in 1..Len(acts'), j \in 1..Len(obs') :
          acts'[i].do = "activate" /\ obs'[j].saw = "activated" => acts'[i].s # obs'[j].s
    BY <1>u, <2>1, <2>2
  <2> QED
    BY <1>u, <2>1, <2>3, <2>4, <2>5 DEF Stages
<1>3. CASE ResetInput
  <2>1. UNCHANGED <<status, session, rgen, obs, route>> /\ Put(acts, acts', ResetWorker)
    BY <1>n, <1>3, SendShape, ActionTypes DEF Base, ResetInput, Send, executor
  <2>2. \A i \in 1..Len(acts') : i > Len(acts) => acts'[i] = ResetWorker
    BY <1>n, <2>1 DEF Put, Grown
  <2>3. \A i \in 1..Len(acts') : acts'[i].do = "activate" => i \in 1..Len(acts) /\ acts'[i] = acts[i]
    BY <1>n, <2>1, <2>2 DEF Put, Grown, ResetWorker
  <2>4. Idle => Idle'
    BY <2>1, <2>2, IdleSend DEF Put, ResetWorker
  <2> QED
    BY <1>s, <1>u, <2>1, <2>3, <2>4 DEF Stages
<1>4. CASE BeginSpeech \/ EndSpeech
  BY <1>4 DEF BeginSpeech, EndSpeech, executor, Stages, Idle
<1>5. CASE Observe
  <2> DEFINE m == obs[1]
  <2>0. Shrunk(obs, obs') /\ route' = route /\ 1 \in 1..Len(obs) /\ m \in Observations
    BY <1>5, FirstObservation DEF executor
  <2>h. \A i \in 1..Len(obs') : i + 1 \in 2..Len(obs) /\ obs'[i] = obs[i + 1]
    BY <1>n, <2>0 DEF Shrunk
  <2>u. /\ \A i, j \in 1..Len(obs') :
             obs'[i].saw = "activated" /\ obs'[j].saw = "activated" /\ obs'[i].s = obs'[j].s => i = j
        /\ \A i \in 1..Len(acts), j \in 1..Len(obs') :
             acts[i].do = "activate" /\ obs'[j].saw = "activated" => acts[i].s # obs'[j].s
    <3>1. \A i \in 1..Len(obs') : i \in Nat /\ i + 1 \in 1..Len(obs) /\ obs'[i] = obs[i + 1]
      BY <1>n, <2>h
    <3>2. ASSUME NEW i \in 1..Len(obs'), NEW j \in 1..Len(obs'), obs'[i].saw = "activated",
                 obs'[j].saw = "activated", obs'[i].s = obs'[j].s
          PROVE  i = j
      <4>1. i + 1 = j + 1
        BY <1>u, <3>1, <3>2
      <4> QED
        BY <3>1, <4>1
    <3>3. ASSUME NEW i \in 1..Len(acts), NEW j \in 1..Len(obs'), acts[i].do = "activate",
                 obs'[j].saw = "activated"
          PROVE  acts[i].s # obs'[j].s
      BY <1>u, <3>1, <3>3
    <3> QED
      BY <3>2, <3>3
  <2>1. CASE Hears(m)
    <3>1. acts' = acts /\ UNCHANGED <<session, status, rgen>>
      BY <2>1 DEF Hears
    <3>2. Grown(acts, acts')
      BY <1>n, <3>1 DEF Grown
    <3>3. Idle => Idle'
      BY <1>n, <2>0, <3>1, <3>2, IdleSend
    <3> QED
      BY <1>s, <1>u, <2>h, <2>u, <3>1, <3>3 DEF Stages
  <2>2. ASSUME /\ session' = session /\ status' \in {status, "Active", "Recovering", "Suspended"}
               /\ status' = "Suspended" => Idle'
               /\ \A i \in 1..Len(acts') : acts'[i].do = "activate" => i \in 1..Len(acts) /\ acts'[i] = acts[i]
               /\ \A i \in 1..Len(acts) : acts[i].do = "activate" => acts[i].s # session
               /\ \A i \in 2..Len(obs) : obs[i].saw = "activated" => obs[i].s # session
        PROVE  Stages'
    <3>1. \A i \in 1..Len(acts') : acts'[i].do = "activate" => acts'[i].s # session'
      BY <2>2
    <3>2. \A i \in 1..Len(obs') : obs'[i].saw = "activated" => obs'[i].s # session'
      BY <2>2, <2>h
    <3>3. \A i, j \in 1..Len(acts') :
            acts'[i].do = "activate" /\ acts'[j].do = "activate" /\ acts'[i].s = acts'[j].s => i = j
      BY <1>u, <2>2
    <3>4. \A i \in 1..Len(acts'), j \in 1..Len(obs') :
            acts'[i].do = "activate" /\ obs'[j].saw = "activated" => acts'[i].s # obs'[j].s
      BY <2>2, <2>u
    <3> QED
      BY <2>2, <2>u, <3>1, <3>2, <3>3, <3>4 DEF Stages
  <2>i. ASSUME m.saw \in {"opened", "started", "fault"}, m.g = rgen
        PROVE  /\ \A i \in 1..Len(acts) : acts[i].do = "activate" => acts[i].s # session
               /\ \A i \in 1..Len(obs) : obs[i].saw = "activated" => obs[i].s # session
               /\ status # "Suspended"
    <3>1. ~Idle
      BY <2>0, <2>i DEF Idle
    <3> QED
      BY <1>s, <3>1
  <2>3. CASE Opens(m)
    <3>1. Put(acts, acts', OpenRoute(session, rgen)) /\ UNCHANGED <<session, status>>
      BY <2>3 DEF Opens, core
    <3>2. \A i \in 1..Len(acts') : acts'[i].do = "activate" => i \in 1..Len(acts) /\ acts'[i] = acts[i]
      BY <1>n, <3>1 DEF Put, Grown, OpenRoute
    <3>3. CASE m.saw = "activated" /\ m.s = session
      <4>1. status # "Suspended"
        BY <1>s, <2>0, <3>3
      <4>2. \A i \in 1..Len(acts) : acts[i].do = "activate" => acts[i].s # session
        BY <1>u, <2>0, <3>3
      <4>3. \A i \in 2..Len(obs) : obs[i].saw = "activated" => obs[i].s # session
        BY <1>n, <1>u, <2>0, <3>3
      <4> QED
        BY <2>2, <3>1, <3>2, <4>1, <4>2, <4>3
    <3>4. CASE status = "Recovering"
      <4>1. /\ \A i \in 1..Len(acts) : acts[i].do = "activate" => acts[i].s # session
            /\ \A i \in 1..Len(obs) : obs[i].saw = "activated" => obs[i].s # session
        BY <1>s, <3>4
      <4>2. \A i \in 2..Len(obs) : i \in 1..Len(obs)
        BY <1>n
      <4> QED
        BY <2>2, <3>1, <3>2, <3>4, <4>1, <4>2
    <3> QED
      BY <2>3, <3>3, <3>4 DEF Opens
  <2>k. \A i \in 2..Len(obs) : i \in 1..Len(obs)
    BY <1>n
  <2>4. CASE Starts(m)
    <3>1. Put(acts, acts', StartRoute(rgen)) /\ UNCHANGED <<session, status>> /\ m.saw = "opened" /\ m.g = rgen
      BY <2>4 DEF Starts, core
    <3>2. \A i \in 1..Len(acts') : acts'[i].do = "activate" => i \in 1..Len(acts) /\ acts'[i] = acts[i]
      BY <1>n, <3>1 DEF Put, Grown, StartRoute
    <3> QED
      BY <2>2, <2>i, <2>k, <3>1, <3>2
  <2>5. CASE Activates(m)
    BY <2>2, <2>i, <2>k, <2>5 DEF Activates
  <2>6. CASE Breaks(m)
    <3>0. m.saw = "fault" /\ m.g = rgen
      BY <2>6 DEF Breaks
    <3>1. /\ Grown(acts, acts') /\ rgen' = rgen + 1 /\ session' = session
          /\ acts'[Len(acts) + 1] = CloseRoute(rgen)
          /\ \/ Len(acts') = Len(acts) + 1
             \/ Len(acts') = Len(acts) + 2 /\ acts'[Len(acts) + 2] = RetryLater(rgen + 1, retry + 1)
          /\ status' \in {"Recovering", "Suspended"}
      BY <2>0, <2>6, FaultShape DEF Breaks
    <3>2. \A i \in 1..Len(acts') : i > Len(acts) => acts'[i].do \in {"close", "retry"}
      BY <1>n, <3>1 DEF Grown, CloseRoute, RetryLater
    <3>3. Idle'
      BY <2>0, <3>1, <3>2, FreshIsIdle
    <3>4. \A i \in 1..Len(acts') : acts'[i].do = "activate" => i \in 1..Len(acts) /\ acts'[i] = acts[i]
      BY <1>n, <3>1, <3>2 DEF Grown
    <3> QED
      BY <2>2, <2>i, <2>k, <3>0, <3>1, <3>3, <3>4
  <2> QED
    BY <1>5, <2>1, <2>3, <2>4, <2>5, <2>6, ObserveCases
<1>6. CASE Execute
  <2>0. Shrunk(acts, acts') /\ UNCHANGED <<session, status, rgen>> /\ 1 \in 1..Len(acts)
    BY <1>6, FirstAction DEF core
  <2>h. \A i \in 1..Len(acts') : i + 1 \in 1..Len(acts) /\ acts'[i] = acts[i + 1] /\ i + 1 # 1
    BY <1>n, <2>0 DEF Shrunk
  <2>i. Idle /\ session # 0 => Idle'
    BY <1>n, <1>6, IdleExecute
  <2>c. /\ \A i \in 1..Len(acts) : acts[i].do = "activate" /\ acts[i].s = session => session # 0
        /\ \A i \in 1..Len(obs) : obs[i].saw = "activated" /\ obs[i].s = session => session # 0
        /\ status = "Suspended" => session # 0
    BY <1>n, <1>a
  <2>1. \/ obs' = obs
        \/ \E m : Put(obs, obs', m) /\ m.saw = "activated" /\ acts[1].do = "activate" /\ m.s = acts[1].s
        \/ \E m : Put(obs, obs', m) /\ m.saw # "activated"
    <3>1. \A s, g, r : /\ Saw("activated", s, g).saw = "activated" /\ Saw("activated", s, g).s = s
                       /\ Saw("opened", s, g).saw = "opened" /\ Saw("started", s, g).saw = "started"
                       /\ Fault(g, r).saw = "fault"
      BY DEF Saw, Fault
    <3>2. CASE obs' = obs
      BY <3>2
    <3>3. CASE obs' # obs
      <4>1. PICK m : /\ Put(obs, obs', m)
                     /\ \/ acts[1].do = "activate" /\ m = Saw("activated", acts[1].s, 0)
                        \/ m = Saw("opened", acts[1].s, acts[1].g)
                        \/ m = Saw("started", route.s, acts[1].g)
                        \/ \E r \in BOOLEAN : m = Fault(acts[1].g, r)
        BY <1>6, <3>3, ExecutePublishes
      <4>2. (m.saw = "activated" /\ acts[1].do = "activate" /\ m.s = acts[1].s) \/ m.saw # "activated"
        BY <3>1, <4>1
      <4> QED
        BY <4>1, <4>2
    <3> QED
      BY <3>2, <3>3
  <2>2. \A i \in 1..Len(obs') : obs'[i].saw = "activated" =>
          \/ i \in 1..Len(obs) /\ obs'[i] = obs[i]
          \/ i = Len(obs) + 1 /\ acts[1].do = "activate" /\ obs'[i].s = acts[1].s
    BY <1>n, <2>1 DEF Put, Grown
  <2>3. /\ \A i \in 1..Len(acts') : acts'[i].do = "activate" /\ acts'[i].s = session' => status' = "Opening" /\ Idle'
        /\ \A i \in 1..Len(obs') : obs'[i].saw = "activated" /\ obs'[i].s = session' => status' = "Opening" /\ Idle'
        /\ status' = "Suspended" => Idle'
    BY <1>s, <2>0, <2>h, <2>i, <2>c, <2>2
  <2>4. \A i, j \in 1..Len(acts') :
          acts'[i].do = "activate" /\ acts'[j].do = "activate" /\ acts'[i].s = acts'[j].s => i = j
    BY <1>n, <1>u, <2>h
  <2>5. \A i, j \in 1..Len(obs') :
          obs'[i].saw = "activated" /\ obs'[j].saw = "activated" /\ obs'[i].s = obs'[j].s => i = j
    BY <1>n, <1>u, <2>0, <2>2
  <2>6. \A i \in 1..Len(acts'), j \in 1..Len(obs') :
          acts'[i].do = "activate" /\ obs'[j].saw = "activated" => acts'[i].s # obs'[j].s
    <3> SUFFICES ASSUME NEW i \in 1..Len(acts'), NEW j \in 1..Len(obs'), acts'[i].do = "activate",
                        obs'[j].saw = "activated"
                 PROVE  acts'[i].s # obs'[j].s
      OBVIOUS
    <3>1. CASE j \in 1..Len(obs) /\ obs'[j] = obs[j]
      BY <1>u, <2>h, <3>1
    <3>2. CASE acts[1].do = "activate" /\ obs'[j].s = acts[1].s
      BY <1>u, <2>0, <2>h, <3>2
    <3> QED
      BY <2>2, <3>1, <3>2
  <2> QED
    BY <2>3, <2>4, <2>5, <2>6 DEF Stages
<1>7. CASE Aside
  <2>0. UNCHANGED <<session, status, rgen, acts>>
    BY <1>7, AsideCases DEF core
  <2>1. Idle => Idle'
    BY <1>7, IdleAside
  <2>2. \A i \in 1..Len(obs') : obs'[i].saw = "activated" => i \in 1..Len(obs) /\ obs'[i] = obs[i]
    <3>1. \A r : Fault(host, r).saw = "fault"
      BY DEF Fault
    <3>2. \/ obs' = obs
          \/ \E m : Put(obs, obs', m) /\ m.saw # "activated"
      BY <1>7, <3>1, AsidePublishes
    <3> QED
      BY <1>n, <3>2 DEF Put, Grown
  <2> QED
    BY <1>s, <1>u, <2>0, <2>1, <2>2 DEF Stages
<1> QED
  BY <1>1, <1>2, <1>3, <1>4, <1>5, <1>6, <1>7 DEF Next, Aside

-----------------------------------------------------------------------------
(* Generations are owed to sessions and faults *)

\* Within a generation, the account stays covered when a fault is added to both sides of it.
LEMMA BudgetKept ==
  ASSUME Base, Budget, rgen' = rgen, used'.sessions = used.sessions, used'.faults \in Nat,
         used.faults <= used'.faults,
         status' \in {"Opening", "Active", "Recovering"} => status \in {"Opening", "Active", "Recovering"},
         FaultWaits(obs', rgen) => FaultWaits(obs, rgen) \/ used'.faults = used.faults + 1
  PROVE  Budget'
<1>n. rgen \in Nat /\ used.sessions \in Nat /\ used.faults \in Nat
  BY Basics
<1>1. CASE FaultWaits(obs', rgen)
  BY <1>n, <1>1 DEF Budget
<1>2. CASE ~FaultWaits(obs', rgen)
  BY <1>n, <1>2 DEF Budget
<1> QED
  BY <1>1, <1>2

\* Taking a message adds no waiting fault, and a new generation has none.
LEMMA FaultsTaken ==
  ASSUME Base, obs' = obs \/ Shrunk(obs, obs')
  PROVE  /\ FaultWaits(obs', rgen) => FaultWaits(obs, rgen)
         /\ ~FaultWaits(obs', rgen + 1)
<1>n. rgen \in Nat /\ Len(obs) \in Nat
  BY Basics
<1>1. \A i \in 1..Len(obs') : \E k \in 1..Len(obs) : obs'[i] = obs[k]
  BY <1>n DEF Shrunk
<1>2. \A i \in 1..Len(obs') : obs'[i].g \in Nat /\ obs'[i].g <= rgen
  BY <1>1, Observed
<1>3. FaultWaits(obs', rgen) => FaultWaits(obs, rgen)
  BY <1>1 DEF FaultWaits
<1>4. ~FaultWaits(obs', rgen + 1)
  BY <1>n, <1>2 DEF FaultWaits
<1> QED
  BY <1>3, <1>4

\* A message that is no recoverable fault adds none either.
LEMMA FaultsPut ==
  ASSUME Base, NEW m, Put(obs, obs', m), m.saw = "fault" => ~m.recoverable
  PROVE  FaultWaits(obs', rgen) => FaultWaits(obs, rgen)
<1>n. Len(obs) \in Nat
  BY Basics
<1>1. ASSUME NEW i \in 1..Len(obs'), obs'[i].saw = "fault", obs'[i].g = rgen, obs'[i].recoverable
      PROVE  i \in 1..Len(obs) /\ obs'[i] = obs[i]
  BY <1>n, <1>1 DEF Put, Grown
<1> QED
  BY <1>1 DEF FaultWaits

\* Only a session or a fault that was counted raises the generation.
LEMMA BudgetStep ==
  ASSUME Base, Stages, Budget, Next
  PROVE  Budget'
<1>n. /\ rgen \in Nat /\ used.sessions \in Nat /\ used.faults \in Nat /\ used \in Spendings
      /\ (session = 0 <=> status = "Closed") /\ status \in Statuses
  BY Basics DEF Base, Typed, CoreTypes, Spent
<1>b. rgen + (IF status \in {"Opening", "Active", "Recovering"} THEN 1 ELSE 0)
           + (IF FaultWaits(obs, rgen) THEN 1 ELSE 0) <= 2 * used.sessions + used.faults
  BY DEF Budget
<1>1. CASE StartSession
  <2>1. status' = "Opening" /\ rgen' = rgen + 1 /\ obs' = obs
    BY <1>1 DEF StartSession
  <2>2. used'.sessions = used.sessions + 1 /\ used'.faults = used.faults
    BY <1>1, StartShape
  <2>3. ~FaultWaits(obs', rgen')
    BY <2>1, FaultsTaken
  <2>4. rgen <= 2 * used.sessions + used.faults
    BY <1>n, <1>b
  <2>5. rgen' + 1 <= 2 * used'.sessions + used'.faults
    BY <1>n, <2>1, <2>2, <2>4
  <2> QED
    BY <1>n, <2>1, <2>3, <2>5 DEF Budget
<1>2. CASE StopSession
  BY <1>n, <1>2, BudgetKept DEF StopSession
<1>3. CASE ResetInput
  <2>1. used'.sessions = used.sessions /\ used'.faults = used.faults
    BY <1>n, <1>3, Spending DEF ResetInput
  <2> QED
    BY <1>n, <1>3, <2>1, BudgetKept DEF ResetInput
<1>4. CASE BeginSpeech
  <2>1. used'.sessions = used.sessions /\ used'.faults = used.faults
    BY <1>n, <1>4, Spending DEF BeginSpeech
  <2> QED
    BY <1>n, <1>4, <2>1, BudgetKept DEF BeginSpeech
<1>5. CASE EndSpeech
  BY <1>n, <1>5, BudgetKept DEF EndSpeech
<1>6. CASE Observe
  <2> DEFINE m == obs[1]
  <2>0. Shrunk(obs, obs') /\ used' = used /\ 1 \in 1..Len(obs) /\ m \in Observations
    BY <1>6, FirstObservation
  <2>1. (FaultWaits(obs', rgen) => FaultWaits(obs, rgen)) /\ ~FaultWaits(obs', rgen + 1)
    BY <2>0, FaultsTaken
  <2>2. m.saw \in {"started", "fault"} /\ m.g = rgen => status # "Suspended"
    BY <2>0 DEF Stages, Idle
  <2>3. CASE Opens(m) \/ Starts(m) \/ Hears(m)
    <3>1. rgen' = rgen /\ status' = status
      BY <2>3 DEF Opens, Starts, Hears, core
    <3> QED
      BY <1>n, <2>0, <2>1, <3>1, BudgetKept
  <2>4. CASE Activates(m)
    <3>1. rgen' = rgen /\ m.saw = "started" /\ m.g = rgen /\ m.s = session
      BY <2>4 DEF Activates
    <3>2. status \notin {"Suspended", "Closed"}
      BY <1>n, <2>0, <2>2, <3>1, Observed
    <3>3. status \in {"Opening", "Active", "Recovering"}
      BY <1>n, <3>2 DEF Statuses
    <3> QED
      BY <1>n, <2>0, <2>1, <3>1, <3>3, BudgetKept
  <2>5. CASE Breaks(m)
    <3>1. m.saw = "fault" /\ m.g = rgen /\ session # 0
      BY <2>5 DEF Breaks
    <3>2. status \in {"Opening", "Active", "Recovering"}
      BY <1>n, <2>2, <3>1 DEF Statuses
    <3>3. rgen' = rgen + 1 /\ (status' = "Suspended" \/ (status' = "Recovering" /\ m.recoverable))
      BY <2>0, <2>5, FaultShape DEF Breaks
    <3>4. m.recoverable => FaultWaits(obs, rgen)
      BY <2>0, <3>1 DEF FaultWaits
    <3>5. rgen + 1 <= 2 * used.sessions + used.faults
      BY <1>n, <1>b, <3>2
    <3>6. m.recoverable => rgen + 2 <= 2 * used.sessions + used.faults
      BY <1>n, <1>b, <3>2, <3>4
    <3>7. CASE status' = "Suspended"
      BY <1>n, <2>0, <2>1, <3>3, <3>5, <3>7 DEF Budget
    <3>8. CASE status' = "Recovering" /\ m.recoverable
      BY <1>n, <2>0, <2>1, <3>3, <3>6, <3>8 DEF Budget
    <3> QED
      BY <3>3, <3>7, <3>8
  <2> QED
    BY <1>6, <2>3, <2>4, <2>5, ObserveCases
<1>7. CASE Execute
  <2>0. rgen' = rgen /\ status' = status
    BY <1>7, FirstAction DEF core
  <2>1. Spend("faults", MaxFaults) => used'.sessions = used.sessions /\ used'.faults = used.faults + 1
    BY <1>n, Spending
  <2>2. \A s, g : Saw("activated", s, g).saw # "fault" /\ Saw("opened", s, g).saw # "fault"
                  /\ Saw("started", s, g).saw # "fault" /\ Fault(g, FALSE).recoverable = FALSE
    BY DEF Saw, Fault
  <2>3. CASE Spend("faults", MaxFaults)
    BY <1>n, <2>0, <2>1, <2>3, BudgetKept
  <2>4. CASE ~Spend("faults", MaxFaults)
    <3>1. used' = used /\ (obs' = obs \/ \E m : Put(obs, obs', m) /\ (m.saw = "fault" => ~m.recoverable))
      <4>1. CASE obs' = obs /\ used' = used
        BY <4>1
      <4>2. CASE \E m : /\ Put(obs, obs', m)
                        /\ \/ m = Saw("activated", acts[1].s, 0) /\ used' = used
                           \/ m = Saw("opened", acts[1].s, acts[1].g) /\ used' = used
                           \/ m = Saw("started", route.s, acts[1].g) /\ used' = used
                           \/ m = Fault(acts[1].g, FALSE) /\ used' = used
        BY <2>2, <4>2
      <4> QED
        BY <1>7, <2>4, <4>1, <4>2, ExecutePublishes
    <3>2. FaultWaits(obs', rgen) => FaultWaits(obs, rgen)
      BY <3>1, FaultsPut
    <3> QED
      BY <1>n, <2>0, <3>1, <3>2, BudgetKept
  <2> QED
    BY <2>3, <2>4
<1>8. CASE Aside
  <2>0. rgen' = rgen /\ status' = status
    BY <1>8, AsideCases DEF core
  <2>1. Spend("faults", MaxFaults) => used'.sessions = used.sessions /\ used'.faults = used.faults + 1
    BY <1>n, Spending
  <2>2. CASE Spend("faults", MaxFaults)
    BY <1>n, <2>0, <2>1, <2>2, BudgetKept
  <2>3. CASE ~Spend("faults", MaxFaults)
    <3>1. used'.sessions = used.sessions /\ used'.faults = used.faults
      <4>1. CASE Announces
        BY <1>n, <4>1, Spending DEF Announces
      <4>2. CASE ~Announces
        BY <1>8, <2>3, <4>2, AsideCases DEF Tells, Listens, Transcribes, Fails
      <4> QED
        BY <4>1, <4>2
    <3>2. obs' = obs \/ \E m : Put(obs, obs', m) /\ m.saw # "fault"
      BY <1>8, <2>3, AsidePublishes
    <3>3. FaultWaits(obs', rgen) => FaultWaits(obs, rgen)
      BY <3>2, FaultsPut
    <3> QED
      BY <1>n, <2>0, <3>1, <3>3, BudgetKept
  <2> QED
    BY <2>2, <2>3
<1> QED
  BY <1>1, <1>2, <1>3, <1>4, <1>5, <1>6, <1>7, <1>8 DEF Next, Aside

-----------------------------------------------------------------------------
(* Utterances are told in order *)

\* Observations name utterances that were counted.
LEMMA Uttered ==
  ASSUME Base
  PROVE  \A i \in 1..Len(obs) : obs[i].saw \in {"vad", "partial", "final"} =>
           obs[i].id \in 1..used.candidates
<1>1. \A m \in Observations : m.saw \in {"vad", "partial", "final"} => m.id \in Nat
  BY DEF Observations
<1>2. \A i \in 1..Len(obs) : obs[i] \in Observations
        /\ ObservationOK(obs[i], rgen, used.sessions, used.candidates)
  BY DEF Base, Channels
<1>3. used.candidates \in Nat
  BY Basics
<1> QED
  BY <1>1, <1>2, <1>3 DEF ObservationOK

\* Taking the first message keeps the order.
LEMMA OrderTaken ==
  ASSUME NEW q, NEW r, Shrunk(q, r), InOrder(q)
  PROVE  InOrder(r)
<1>1. Len(r) \in Nat /\ \A i \in 1..Len(r) : i \in Nat /\ i + 1 \in 1..Len(q) /\ r[i] = q[i + 1]
  BY DEF Shrunk
<1>2. ASSUME NEW i \in 1..Len(r), NEW j \in 1..Len(r), r[i].saw = "vad", r[j].saw = "vad", r[i].id = r[j].id
      PROVE  i = j
  <2>1. i + 1 = j + 1
    BY <1>1, <1>2 DEF InOrder
  <2> QED
    BY <1>1, <2>1
<1>3. ASSUME NEW i \in 1..Len(r), NEW j \in 1..Len(r), r[i].saw = "vad", IsText(r[j]), r[i].id = r[j].id
      PROVE  i < j /\ r[i].g = r[j].g
  <2>1. i + 1 < j + 1 /\ q[i + 1].g = q[j + 1].g
    BY <1>1, <1>3 DEF InOrder
  <2> QED
    BY <1>1, <2>1
<1>4. ASSUME NEW i \in 1..Len(r), NEW j \in 1..Len(r), IsText(r[i]), IsText(r[j]), r[i].id = r[j].id
      PROVE  r[i].g = r[j].g
  BY <1>1, <1>4 DEF InOrder
<1> QED
  BY <1>2, <1>3, <1>4 DEF InOrder

\* The next message keeps it when it is the first of its utterance, or of the same generation
\* as what was said of it before.
LEMMA OrderPut ==
  ASSUME NEW q, NEW r, NEW m, Put(q, r, m), InOrder(q),
         m.saw = "vad" => \A i \in 1..Len(q) : q[i].saw = "vad" \/ IsText(q[i]) => q[i].id # m.id,
         IsText(m) => Attributed(q, m.id, m.g)
  PROVE  InOrder(r)
<1>0. Len(q) \in Nat /\ Len(r) = Len(q) + 1 /\ r[Len(q) + 1] = m /\ \A i \in 1..Len(q) : r[i] = q[i]
  BY DEF Put, Grown
<1>1. ASSUME NEW i \in 1..Len(r)
      PROVE  \/ i \in 1..Len(q) /\ r[i] = q[i] /\ i < Len(q) + 1
             \/ i = Len(q) + 1 /\ r[i] = m
  <2>1. (i \in 1..Len(q) /\ i < Len(q) + 1) \/ i = Len(q) + 1
    BY <1>0
  <2>2. CASE i = Len(q) + 1
    BY <1>0, <2>2
  <2>3. CASE i \in 1..Len(q) /\ i < Len(q) + 1
    BY <1>0, <2>3
  <2> QED
    BY <2>1, <2>2, <2>3
<1>2. ~(m.saw = "vad" /\ IsText(m))
  BY DEF IsText
<1>3. ASSUME NEW i \in 1..Len(r), NEW j \in 1..Len(r), r[i].saw = "vad", r[j].saw = "vad", r[i].id = r[j].id
      PROVE  i = j
  BY <1>1, <1>3 DEF InOrder
<1>4. ASSUME NEW i \in 1..Len(r), NEW j \in 1..Len(r), r[i].saw = "vad", IsText(r[j]), r[i].id = r[j].id
      PROVE  i < j /\ r[i].g = r[j].g
  <2>1. CASE i = Len(q) + 1 /\ r[i] = m
    BY <1>1, <1>2, <1>4, <2>1
  <2>2. CASE i \in 1..Len(q) /\ r[i] = q[i] /\ i < Len(q) + 1
    <3>1. CASE j \in 1..Len(q) /\ r[j] = q[j]
      BY <1>4, <2>2, <3>1 DEF InOrder
    <3>2. CASE j = Len(q) + 1 /\ r[j] = m
      BY <1>4, <2>2, <3>2 DEF Attributed
    <3> QED
      BY <1>1, <3>1, <3>2
  <2> QED
    BY <1>1, <2>1, <2>2
<1>5. ASSUME NEW i \in 1..Len(r), NEW j \in 1..Len(r), IsText(r[i]), IsText(r[j]), r[i].id = r[j].id
      PROVE  r[i].g = r[j].g
  <2>1. \A k \in 1..Len(q) : IsText(q[k]) /\ IsText(m) /\ q[k].id = m.id => q[k].g = m.g
    BY DEF Attributed, IsText
  <2> QED
    BY <1>1, <1>5, <2>1 DEF InOrder
<1> QED
  BY <1>3, <1>4, <1>5 DEF InOrder

\* What the coordinator makes of an observation m for its candidate.
Keeps(m) ==
  /\ cand' = cand /\ rgen' = rgen
  /\ m.saw = "partial" => ~Matches(m)

\* It drops the candidate, or has none.
Drops(m) == cand' = NoCandidate

\* It takes the announced utterance as its candidate.
Meets(m) ==
  /\ m.saw = "vad" /\ rgen' = rgen /\ cand'.id = m.id
  /\ m.far /\ ~m.safe => cand'.unsafe

\* It reads a text of its candidate, which stays marked once it was.
Marks(m) ==
  /\ IsText(m) /\ rgen' = rgen /\ cand'.id = cand.id /\ cand'.gen = cand.gen
  /\ cand.unsafe \/ (m.far /\ ~m.safe) => cand'.unsafe

\* These are all, and a candidate that is marked is not confirmed.
LEMMA CandidateCases ==
  ASSUME Base, Observe
  PROVE  /\ Keeps(obs[1]) \/ Drops(obs[1]) \/ Meets(obs[1]) \/ Marks(obs[1])
         /\ \/ breach' = breach
            \/ /\ IsText(obs[1]) /\ Matches(obs[1]) /\ ~cand.unsafe
               /\ breach' = breach \cup obs[1].known
<1> DEFINE m == obs[1]
<1>0. m \in Observations /\ Head(obs) = m
  BY FirstObservation
<1>1. \/ EnvironmentActivated(m) \/ RouteOpened(m) \/ RouteStarted(m) \/ RouteRetryDue(m)
      \/ RouteFault(m) \/ VadStarted(m) \/ Recognized(m) \/ InputLost(m)
  BY <1>0 DEF Observe
<1>2. CASE EnvironmentActivated(m) \/ RouteOpened(m) \/ RouteRetryDue(m)
  BY <1>2 DEF EnvironmentActivated, RouteOpened, RouteRetryDue, core, Keeps
<1>3. CASE RouteStarted(m)
  BY <1>3 DEF RouteStarted, Keeps
<1>4. CASE RouteFault(m)
  <2>1. CASE m.g # rgen \/ session = 0
    BY <1>4, <2>1 DEF RouteFault, core, Keeps
  <2>2. CASE ~(m.g # rgen \/ session = 0)
    BY <1>4, <2>2 DEF RouteFault, AfterFault, Drops
  <2> QED
    BY <2>1, <2>2
<1>5. CASE VadStarted(m)
  <2>1. m.saw = "vad" /\ rgen' = rgen /\ breach' = breach
    BY <1>5 DEF VadStarted
  <2>2. CASE m.g = rgen /\ cand = NoCandidate
    <3>1. cand' = [id |-> m.id, gen |-> m.g, unsafe |-> UnsafeInterval(m.far, m.safe),
                   confirmed |-> FALSE]
      BY <1>5, <2>2 DEF VadStarted
    <3>2. m.far /\ ~m.safe => UnsafeInterval(m.far, m.safe)
      BY DEF UnsafeInterval
    <3>3. cand'.id = m.id /\ cand'.unsafe = UnsafeInterval(m.far, m.safe)
      BY <3>1
    <3> QED
      BY <2>1, <3>2, <3>3 DEF Meets
  <2>3. CASE ~(m.g = rgen /\ cand = NoCandidate)
    <3>1. cand' = cand
      BY <1>5, <2>3 DEF VadStarted
    <3> QED
      BY <2>1, <3>1 DEF Keeps
  <2> QED
    BY <2>2, <2>3
<1>6. CASE Recognized(m)
  <2> DEFINE unsafe == Poisoned(m)
             confirms == /\ m.lexical /\ ~cand.confirmed /\ CanConfirm(unsafe, m.far, m.safe)
  <2>1. IsText(m) /\ rgen' = rgen
    BY <1>6 DEF Recognized, IsText
  <2>2. CASE ~Matches(m)
    <3>1. cand' = cand /\ breach' = breach
      BY <1>6, <2>2 DEF Recognized
    <3> QED
      BY <2>1, <2>2, <3>1 DEF Keeps
  <2>3. CASE Matches(m)
    <3>1. /\ cand' = IF m.saw = "final" THEN NoCandidate
                     ELSE [cand EXCEPT !.unsafe = unsafe, !.confirmed = @ \/ confirms]
          /\ breach' = IF confirms THEN breach \cup m.known ELSE breach
      BY <1>6, <2>3 DEF Recognized
    <3>2. cand.unsafe \/ (m.far /\ ~m.safe) => unsafe
      BY DEF Poisoned, UnsafeInterval
    <3>3. confirms => ~unsafe
      BY DEF CanConfirm
    <3>4. ~unsafe => ~cand.unsafe
      BY DEF Poisoned
    <3> HIDE DEF unsafe, confirms
    <3>5. breach' = breach \/ (breach' = breach \cup m.known /\ ~cand.unsafe)
      BY <3>1, <3>3, <3>4
    <3>6. CASE m.saw = "final"
      BY <2>1, <2>3, <3>1, <3>5, <3>6 DEF Drops
    <3>7. CASE m.saw # "final"
      <4>1. cand' = [cand EXCEPT !.unsafe = unsafe, !.confirmed = @ \/ confirms]
        BY <3>1, <3>7
      <4>2. cand \in Candidates
        BY DEF Base, Typed, CoreTypes
      <4>3. cand'.id = cand.id /\ cand'.gen = cand.gen /\ cand'.unsafe = unsafe
        BY <4>1, <4>2 DEF Candidates
      <4> QED
        BY <2>1, <2>3, <3>2, <3>5, <4>3 DEF Marks
    <3> QED
      BY <3>6, <3>7
  <2> QED
    BY <2>2, <2>3
<1>7. CASE InputLost(m)
  BY <1>7 DEF InputLost, Keeps, Drops
<1> QED
  BY <1>1, <1>2, <1>3, <1>4, <1>5, <1>6, <1>7

\* A message that is of no utterance
Quiet(m) == m.saw \notin {"vad", "partial", "final"}

\* What the executor publishes is none, and while an utterance is heard the pipeline stays.
LEMMA ExecuteIsQuiet ==
  ASSUME Base, Routes, Execute
  PROVE  /\ obs' = obs \/ \E m : Put(obs, obs', m) /\ Quiet(m)
         /\ heard' = 0 \/ (heard' = heard /\ pipe' = pipe)
         /\ used'.candidates = used.candidates
         /\ UNCHANGED <<core, reported, breach>>
<1> DEFINE a == acts[1]
<1>1. UNCHANGED <<core, reported, breach>>
  BY FirstAction
<1>2. obs' = obs \/ \E m : Put(obs, obs', m) /\ Quiet(m)
  <2>1. \A s, g, r : Quiet(Saw("activated", s, g)) /\ Quiet(Saw("opened", s, g))
                     /\ Quiet(Saw("started", s, g)) /\ Quiet(Fault(g, r))
    BY DEF Quiet, Saw, Fault
  <2>2. CASE obs' # obs
    <3>1. PICK m : /\ Put(obs, obs', m)
                   /\ \/ m = Saw("activated", a.s, 0) \/ m = Saw("opened", a.s, a.g)
                      \/ m = Saw("started", route.s, a.g) \/ \E r \in BOOLEAN : m = Fault(a.g, r)
      BY <2>2, ExecutePublishes
    <3>2. Quiet(m)
      BY <2>1, <3>1
    <3> QED
      BY <3>1, <3>2
  <2> QED
    BY <2>2
<1>3. heard' = 0 \/ (heard' = heard /\ pipe' = pipe)
  <2>1. host = 0 => heard = 0
    BY DEF Routes
  <2>2. CASE Refused(a)
    BY <2>1, <2>2 DEF Refused
  <2> QED
    BY <2>2, ExecuteCases DEF Opened, Closes, Answers
<1>4. used'.candidates = used.candidates
  <2>1. Spend("faults", MaxFaults) => used'.candidates = used.candidates
    BY Spending DEF Base, Spent
  <2>2. used' = used \/ Spend("faults", MaxFaults)
    BY ExecutePublishes
  <2> QED
    BY <2>1, <2>2
<1> QED
  BY <1>1, <1>2, <1>3, <1>4

\* A quiet message disturbs nothing of what was said.
LEMMA QuietPut ==
  ASSUME NEW q, NEW r, NEW m, Put(q, r, m), Quiet(m), NEW c, NEW g, NEW k, InOrder(q)
  PROVE  /\ InOrder(r)
         /\ Unannounced(q, k) => Unannounced(r, k)
         /\ Attributed(q, c, g) => Attributed(r, c, g)
<1>1. \A i \in 1..Len(r) : ~Quiet(r[i]) => i \in 1..Len(q) /\ r[i] = q[i]
  BY DEF Put, Grown
<1>2. InOrder(r)
  BY OrderPut DEF Quiet, IsText
<1>3. Unannounced(q, k) => Unannounced(r, k)
  BY <1>1 DEF Unannounced, Quiet
<1>4. Attributed(q, c, g) => Attributed(r, c, g)
  BY <1>1 DEF Attributed, Quiet
<1> QED
  BY <1>2, <1>3, <1>4

\* No utterance has the number 0.
LEMMA NobodyHeard ==
  ASSUME Base, NEW g
  PROVE  Attributed(obs, 0, g) /\ \A k : k.id = 0 => Unannounced(obs, k)
BY Uttered DEF Attributed, Unannounced

\* Utterances stay in order, whoever speaks and however routes come and go.
LEMMA UtterancesStep ==
  ASSUME Base, Base', Routes, Utterances, Next
  PROVE  Utterances'
<1>n. /\ used.candidates \in Nat /\ Len(obs) \in Nat /\ used \in Spendings
      /\ cand.id \in Nat /\ cand.id <= used.candidates
  BY Basics DEF Base, Typed, CoreTypes, Spent
<1>u. /\ InOrder(obs) /\ Unannounced(obs, cand) /\ Attributed(obs, heard, pipe)
      /\ \A c \in reported : c \in 1..used.candidates
  BY DEF Utterances
<1>z. NoCandidate.id = 0
  BY NoCandidateTyped
<1>e. /\ \A g : Attributed(obs, 0, g)
      /\ \A k : k.id = 0 => Unannounced(obs, k)
  BY NobodyHeard
<1>f. /\ \A g : Attributed(obs', 0, g)
      /\ \A k : k.id = 0 => Unannounced(obs', k)
  <2>1. ASSUME NEW i \in 1..Len(obs'), obs'[i].saw \in {"vad", "partial", "final"}
        PROVE  obs'[i].id # 0
    <3>1. obs'[i] \in Observations /\ ObservationOK(obs'[i], rgen', used'.sessions, used'.candidates)
      BY <2>1 DEF Base, Channels
    <3> QED
      BY <2>1, <3>1 DEF ObservationOK
  <2> QED
    BY <2>1 DEF Attributed, Unannounced
<1>1. CASE StartSession \/ StopSession \/ ResetInput \/ BeginSpeech \/ EndSpeech
  <2>1. UNCHANGED <<obs, pipe, heard, reported>> /\ cand' \in {cand, NoCandidate}
    BY <1>1 DEF StartSession, StopSession, ResetInput, BeginSpeech, EndSpeech, executor, worker
  <2>2. used'.candidates = used.candidates
    BY <1>n, <1>1, Spending DEF StartSession, StopSession, ResetInput, BeginSpeech, EndSpeech
  <2>3. Unannounced(obs', cand')
    BY <1>u, <1>z, <1>e, <2>1
  <2> QED
    BY <1>u, <2>1, <2>2, <2>3 DEF Utterances
<1>2. CASE Observe
  <2> DEFINE m == obs[1]
  <2>0. Shrunk(obs, obs') /\ 1 \in 1..Len(obs) /\ UNCHANGED <<pipe, heard, reported, used>>
    BY <1>2, FirstObservation DEF executor, worker
  <2>1. \A i \in 1..Len(obs') : i \in Nat \ {0} /\ i + 1 \in 1..Len(obs) /\ obs'[i] = obs[i + 1]
    BY <1>n, <2>0 DEF Shrunk
  <2>2. InOrder(obs')
    BY <1>u, <2>0, OrderTaken
  <2>3. Attributed(obs', heard', pipe')
    BY <1>u, <2>0, <2>1 DEF Attributed
  <2>4. Unannounced(obs', cand)
    BY <1>u, <2>1 DEF Unannounced
  <2>8. Unannounced(obs', cand')
    <3>1. CASE Keeps(m) \/ Marks(m)
      <4>1. cand'.id = cand.id
        BY <3>1 DEF Keeps, Marks
      <4> QED
        BY <2>4, <4>1 DEF Unannounced
    <3>2. CASE Drops(m)
      BY <1>f, <1>z, <3>2 DEF Drops
    <3>3. CASE Meets(m)
      <4>1. \A i \in 1..Len(obs') : obs'[i].saw = "vad" /\ obs'[i].id = m.id => i + 1 = 1
        BY <1>u, <2>0, <2>1, <3>3 DEF InOrder, Meets
      <4>2. \A i \in 1..Len(obs') : obs'[i].saw = "vad" => obs'[i].id # m.id
        BY <2>1, <4>1
      <4> QED
        BY <3>3, <4>2 DEF Unannounced, Meets
    <3> QED
      BY <1>2, <3>1, <3>2, <3>3, CandidateCases
  <2> QED
    BY <1>u, <2>0, <2>2, <2>3, <2>8 DEF Utterances
<1>3. CASE Execute
  <2>1. /\ obs' = obs \/ \E m : Put(obs, obs', m) /\ Quiet(m)
        /\ heard' = 0 \/ (heard' = heard /\ pipe' = pipe)
        /\ used'.candidates = used.candidates /\ UNCHANGED <<cand, reported>>
    BY <1>3, ExecuteIsQuiet DEF core
  <2>2. InOrder(obs') /\ Unannounced(obs', cand) /\ Attributed(obs', heard, pipe)
    BY <1>u, <2>1, QuietPut
  <2>3. Attributed(obs', heard', pipe')
    BY <1>f, <2>1, <2>2
  <2> QED
    BY <1>u, <2>1, <2>2, <2>3 DEF Utterances
<1>4. CASE Aside
  <2>0. UNCHANGED <<cand, pipe>>
    BY <1>4, AsideCases DEF core
  <2>1. ASSUME heard' = heard \/ heard' = 0, reported' = reported, used'.candidates = used.candidates,
               obs' = obs \/ \E m : Put(obs, obs', m) /\ Quiet(m)
        PROVE  Utterances'
    <3>1. InOrder(obs') /\ Unannounced(obs', cand) /\ Attributed(obs', heard, pipe)
      BY <1>u, <2>1, QuietPut
    <3>2. Attributed(obs', heard', pipe')
      BY <1>f, <2>0, <2>1, <3>1
    <3> QED
      BY <1>u, <2>0, <2>1, <3>1, <3>2 DEF Utterances
  <2>2. Spend("faults", MaxFaults) => used'.candidates = used.candidates
    BY <1>n, Spending
  <2>3. CASE Tells
    <3>1. \A s, g, r : Quiet(Saw("due", s, g)) /\ Quiet(Fault(g, r))
      BY DEF Quiet, Saw, Fault
    <3> QED
      BY <2>1, <2>2, <2>3, <3>1 DEF Tells
  <2>4. CASE Listens
    BY <2>1, <2>4 DEF Listens
  <2>5. CASE Fails
    <3>1. Quiet([saw |-> "lost", g |-> pipe, id |-> heard])
      BY DEF Quiet
    <3> QED
      BY <2>1, <2>2, <2>5, <3>1 DEF Fails
  <2>6. CASE Announces
    <3>1. heard' = used.candidates + 1 /\ used'.candidates = used.candidates + 1
      BY <1>n, <2>6, Spending DEF Announces
    <3>2. PICK far, ok \in BOOLEAN :
            /\ Put(obs, obs', [saw |-> "vad", g |-> pipe, id |-> heard', far |-> far, safe |-> ok])
            /\ reported' = IF far /\ ~ok THEN reported \cup {heard'} ELSE reported
      BY <2>6 DEF Announces
    <3> DEFINE m == [saw |-> "vad", g |-> pipe, id |-> heard', far |-> far, safe |-> ok]
    <3>3. m.saw = "vad" /\ m.g = pipe /\ m.id = heard' /\ ~IsText(m)
      BY DEF IsText
    <3>4. Put(obs, obs', m)
      BY <3>2
    <3> HIDE DEF m
    <3>5. \A i \in 1..Len(obs) : obs[i].saw \in {"vad", "partial", "final"} => obs[i].id # heard'
      BY <1>n, <3>1, Uttered
    <3>6. InOrder(obs')
      BY <1>u, <3>3, <3>4, <3>5, OrderPut DEF IsText
    <3>7. \A i \in 1..Len(obs') : (i \in 1..Len(obs) /\ obs'[i] = obs[i]) \/ obs'[i] = m
      BY <1>n, <3>4 DEF Put, Grown
    <3>8. Unannounced(obs', cand')
      BY <1>n, <1>u, <2>0, <3>1, <3>3, <3>7 DEF Unannounced
    <3>9. Attributed(obs', heard', pipe')
      BY <2>0, <3>3, <3>5, <3>7 DEF Attributed
    <3>10. \A c \in reported' : c \in 1..used'.candidates
      BY <1>n, <1>u, <3>1, <3>2
    <3> QED
      BY <3>6, <3>8, <3>9, <3>10 DEF Utterances
  <2>7. CASE Transcribes
    <3>1. PICK m \in Observations :
            /\ IsText(m) /\ Put(obs, obs', m) /\ m.g = pipe /\ m.id = heard
            /\ heard' \in {0, heard} /\ reported' \subseteq reported \cup {heard}
      BY <2>7 DEF Transcribes
    <3>2. InOrder(obs')
      BY <1>u, <3>1, OrderPut DEF IsText
    <3>3. \A i \in 1..Len(obs') : (i \in 1..Len(obs) /\ obs'[i] = obs[i]) \/ obs'[i] = m
      BY <1>n, <3>1 DEF Put, Grown
    <3>4. Unannounced(obs', cand')
      BY <1>u, <2>0, <3>1, <3>3 DEF Unannounced, IsText
    <3>5. Attributed(obs', heard, pipe)
      BY <1>u, <3>1, <3>3 DEF Attributed
    <3>6. Attributed(obs', heard', pipe')
      BY <1>f, <2>0, <3>1, <3>5
    <3>7. used' = used /\ heard # 0 /\ heard \in Nat /\ heard <= used.candidates
      BY <2>7 DEF Transcribes, Base, Typed, WorkerTypes
    <3>8. \A c \in reported' : c \in 1..used'.candidates
      BY <1>n, <1>u, <3>1, <3>7
    <3> QED
      BY <3>2, <3>4, <3>6, <3>8 DEF Utterances
  <2> QED
    BY <1>4, <2>3, <2>4, <2>5, <2>6, <2>7, AsideCases
<1> QED
  BY <1>1, <1>2, <1>3, <1>4 DEF Next, Aside

-----------------------------------------------------------------------------
(* A reported echo is never confirmed *)

\* A warning stays one when a message follows that does not announce the utterance.
LEMMA WarnedPut ==
  ASSUME NEW q, NEW r, NEW m, Put(q, r, m), NEW gen, NEW k, NEW c, NEW g, NEW n, NEW p,
         n \in Nat, p \in Nat, n <= p, m.saw = "vad" => m.id # c, Warned(q, gen, k, c, g, n)
  PROVE  Warned(r, gen, k, c, g, p)
<1>1. Len(q) \in Nat /\ Len(r) = Len(q) + 1 /\ r[Len(q) + 1] = m /\ \A i \in 1..Len(q) : r[i] = q[i]
  BY DEF Put, Grown
<1>2. CASE \E j \in 1..Len(q) : j < n /\ Reports(q[j], c)
  <2>1. PICK j \in 1..Len(q) : j < n /\ Reports(q[j], c)
    BY <1>2
  <2>2. j \in 1..Len(r) /\ j < p /\ r[j] = q[j]
    BY <1>1, <2>1
  <2> QED
    BY <2>1, <2>2 DEF Warned
<1>3. CASE ~Announced(q, c) /\ (g = gen /\ k.id = c /\ k.gen = g => k.unsafe)
  <2>1. \A i \in 1..Len(r) : r[i].saw = "vad" /\ r[i].id = c => i \in 1..Len(q) /\ r[i] = q[i]
    BY <1>1
  <2>2. ~Announced(r, c)
    BY <1>3, <2>1 DEF Announced
  <2> QED
    BY <1>3, <2>2 DEF Warned
<1> QED
  BY <1>2, <1>3 DEF Warned

\* It stays one when the coordinator drops its candidate.
LEMMA WarnedDropped ==
  ASSUME NEW q, NEW gen, NEW k, NEW c, NEW g, NEW n, NEW h, NEW l, c # 0, l.id = 0,
         Warned(q, gen, k, c, g, n)
  PROVE  Warned(q, h, l, c, g, n)
BY DEF Warned

\* And when the coordinator takes the message in front of it: if that was the warning, the
\* candidate is marked now.
LEMMA WarnedTaken ==
  ASSUME Base, Utterances, Observe, NEW c \in Nat \ {0}, NEW g, NEW n \in Nat,
         obs[1].saw = "partial" /\ obs[1].id = c => obs[1].g = g,
         Warned(obs, rgen, cand, c, g, n + 1)
  PROVE  Warned(obs', rgen', cand', c, g, n)
<1> DEFINE m == obs[1]
<1>n. Len(obs) \in Nat
  BY Basics
<1>0. Shrunk(obs, obs') /\ 1 \in 1..Len(obs)
  BY FirstObservation
<1>1. /\ \A i \in 1..Len(obs') : i \in Nat \ {0} /\ i + 1 \in 1..Len(obs) /\ obs'[i] = obs[i + 1]
      /\ \A i \in 1..Len(obs) : i # 1 => i - 1 \in 1..Len(obs') /\ obs'[i - 1] = obs[i]
  BY <1>n, <1>0 DEF Shrunk
<1>u. InOrder(obs) /\ Unannounced(obs, cand)
  BY DEF Utterances
<1>c. Keeps(m) \/ Drops(m) \/ Meets(m) \/ Marks(m)
  BY CandidateCases
<1>z. NoCandidate.id = 0
  BY NoCandidateTyped
<1>2. CASE \E j \in 1..Len(obs) : j < n + 1 /\ j # 1 /\ Reports(obs[j], c)
  <2>1. PICK j \in 1..Len(obs) : j < n + 1 /\ j # 1 /\ Reports(obs[j], c)
    BY <1>2
  <2>2. j - 1 \in 1..Len(obs') /\ j - 1 < n /\ obs'[j - 1] = obs[j]
    BY <1>n, <1>1, <2>1
  <2> QED
    BY <2>1, <2>2 DEF Warned
<1>3. CASE Reports(m, c)
  <2>0. m.saw \in {"vad", "partial"} /\ m.id = c /\ m.far /\ ~m.safe
    BY <1>3 DEF Reports
  <2>1. ~Announced(obs', c)
    <3>1. ASSUME NEW i \in 1..Len(obs'), obs'[i].saw = "vad", obs'[i].id = c
          PROVE  FALSE
      <4>1. obs[i + 1].saw = "vad" /\ obs[i + 1].id = m.id /\ i + 1 \in 1..Len(obs) /\ i + 1 # 1 /\ ~(i + 1 < 1)
        BY <1>1, <2>0, <3>1
      <4>2. CASE m.saw = "vad"
        BY <1>0, <1>u, <4>1, <4>2 DEF InOrder
      <4>3. CASE m.saw = "partial"
        BY <1>0, <1>u, <4>1, <4>3 DEF InOrder, IsText
      <4> QED
        BY <2>0, <4>2, <4>3
    <3> QED
      BY <3>1 DEF Announced
  <2>2. g = rgen' /\ cand'.id = c /\ cand'.gen = g => cand'.unsafe
    <3>1. CASE Keeps(m)
      <4>1. CASE m.saw = "vad"
        BY <1>0, <1>u, <2>0, <3>1, <4>1 DEF Keeps, Unannounced
      <4>2. CASE m.saw = "partial"
        BY <2>0, <3>1, <4>2 DEF Keeps, Matches
      <4> QED
        BY <2>0, <4>1, <4>2
    <3>2. CASE Drops(m)
      BY <1>z, <3>2 DEF Drops
    <3>3. CASE Meets(m) \/ Marks(m)
      BY <2>0, <3>3 DEF Meets, Marks
    <3> QED
      BY <1>c, <3>1, <3>2, <3>3
  <2> QED
    BY <2>1, <2>2 DEF Warned
<1>4. CASE ~Announced(obs, c) /\ (g = rgen /\ cand.id = c /\ cand.gen = g => cand.unsafe)
  <2>1. ~Announced(obs', c)
    BY <1>1, <1>4 DEF Announced
  <2>2. g = rgen' /\ cand'.id = c /\ cand'.gen = g => cand'.unsafe
    <3>1. CASE Keeps(m)
      BY <1>4, <3>1 DEF Keeps
    <3>2. CASE Drops(m)
      BY <1>z, <3>2 DEF Drops
    <3>3. CASE Meets(m)
      BY <1>0, <1>4, <3>3 DEF Meets, Announced
    <3>4. CASE Marks(m)
      BY <1>4, <3>4 DEF Marks
    <3> QED
      BY <1>c, <3>1, <3>2, <3>3, <3>4
  <2> QED
    BY <2>1, <2>2 DEF Warned
<1> QED
  BY <1>2, <1>3, <1>4 DEF Warned

\* The text of an utterance known to be an echo comes with its warning when it follows one.
LEMMA TextsPut ==
  ASSUME Base, Echo, NEW m, Put(obs, obs', m), UNCHANGED <<rgen, cand>>,
         m.saw = "vad" => m.id \notin 1..used.candidates,
         IsText(m) /\ "reported" \in m.known =>
           /\ m.id \in 1..used.candidates
           /\ Warned(obs, rgen, cand, m.id, m.g, Len(obs) + 1)
  PROVE  \A i \in 1..Len(obs') : IsText(obs'[i]) /\ "reported" \in obs'[i].known
           => Warned(obs', rgen', cand', obs'[i].id, obs'[i].g, i)
<1>n. Len(obs) \in Nat
  BY Basics
<1> SUFFICES ASSUME NEW i \in 1..Len(obs'), IsText(obs'[i]), "reported" \in obs'[i].known
             PROVE  Warned(obs', rgen, cand, obs'[i].id, obs'[i].g, i)
  OBVIOUS
<1>1. i \in Nat /\ ((i \in 1..Len(obs) /\ obs'[i] = obs[i]) \/ (i = Len(obs) + 1 /\ obs'[i] = m))
  BY <1>n DEF Put, Grown
<1>2. CASE i \in 1..Len(obs) /\ obs'[i] = obs[i]
  <2>1. Warned(obs, rgen, cand, obs[i].id, obs[i].g, i)
    BY <1>2 DEF Echo
  <2>2. obs[i].id \in 1..used.candidates
    BY <1>2, Uttered DEF IsText
  <2>3. m.saw = "vad" => m.id # obs[i].id
    BY <2>2
  <2> QED
    BY <1>1, <1>2, <2>1, <2>3, WarnedPut
<1>3. CASE i = Len(obs) + 1 /\ obs'[i] = m
  <2>1. Warned(obs, rgen, cand, m.id, m.g, i) /\ m.saw # "vad"
    BY <1>3 DEF IsText
  <2> QED
    BY <1>1, <1>3, <2>1, WarnedPut
<1> QED
  BY <1>1, <1>2, <1>3

\* No step confirms an utterance that an observation has shown to be an echo.
LEMMA EchoStep ==
  ASSUME Base, Routes, Utterances, Echo, Next
  PROVE  Echo'
<1>n. /\ used.candidates \in Nat /\ Len(obs) \in Nat /\ used \in Spendings /\ heard \in Nat
      /\ heard <= used.candidates
  BY Basics DEF Base, Typed, WorkerTypes, Spent
<1>e. /\ \A i \in 1..Len(obs) : IsText(obs[i]) /\ "reported" \in obs[i].known
           => Warned(obs, rgen, cand, obs[i].id, obs[i].g, i)
      /\ heard # 0 /\ heard \in reported => Warned(obs, rgen, cand, heard, pipe, Len(obs) + 1)
      /\ "reported" \notin breach
  BY DEF Echo, ReportedEchoNeverConfirmed
<1>u. InOrder(obs) /\ Attributed(obs, heard, pipe) /\ \A c \in reported : c \in 1..used.candidates
  BY DEF Utterances
<1>t. \A i \in 1..Len(obs) : IsText(obs[i]) => obs[i].id \in 1..used.candidates
  BY Uttered DEF IsText
<1>z. NoCandidate.id = 0
  BY NoCandidateTyped
<1>1. CASE StartSession \/ StopSession \/ ResetInput \/ BeginSpeech \/ EndSpeech
  <2>1. /\ UNCHANGED <<obs, pipe, heard, reported, breach>>
        /\ cand' = NoCandidate \/ UNCHANGED <<cand, rgen>>
    BY <1>1 DEF StartSession, StopSession, ResetInput, BeginSpeech, EndSpeech, executor, worker
  <2>2. ASSUME NEW c \in Nat \ {0}, NEW g, NEW n, Warned(obs, rgen, cand, c, g, n)
        PROVE  Warned(obs', rgen', cand', c, g, n)
    BY <1>z, <2>1, <2>2, WarnedDropped
  <2>3. \A i \in 1..Len(obs) : IsText(obs[i]) => obs[i].id \in Nat \ {0}
    BY <1>n, <1>t
  <2>4. \A i \in 1..Len(obs') : IsText(obs'[i]) /\ "reported" \in obs'[i].known
           => Warned(obs', rgen', cand', obs'[i].id, obs'[i].g, i)
    BY <1>e, <2>1, <2>2, <2>3
  <2>5. heard' # 0 /\ heard' \in reported' => Warned(obs', rgen', cand', heard', pipe', Len(obs') + 1)
    BY <1>n, <1>e, <2>1, <2>2
  <2> QED
    BY <1>e, <2>1, <2>4, <2>5 DEF Echo, ReportedEchoNeverConfirmed
<1>2. CASE Observe
  <2> DEFINE m == obs[1]
  <2>0. Shrunk(obs, obs') /\ 1 \in 1..Len(obs) /\ UNCHANGED <<pipe, heard, reported>>
    BY <1>2, FirstObservation DEF executor, worker
  <2>1. /\ Len(obs') \in Nat /\ Len(obs) = Len(obs') + 1
        /\ \A i \in 1..Len(obs') : i \in Nat /\ i + 1 \in 1..Len(obs) /\ obs'[i] = obs[i + 1]
    BY <1>n, <2>0 DEF Shrunk
  <2>2. ASSUME NEW i \in 1..Len(obs'), IsText(obs'[i]), "reported" \in obs'[i].known
        PROVE  Warned(obs', rgen', cand', obs'[i].id, obs'[i].g, i)
    <3>1. Warned(obs, rgen, cand, obs[i + 1].id, obs[i + 1].g, i + 1)
      BY <1>e, <2>1, <2>2
    <3>2. m.saw = "partial" /\ m.id = obs[i + 1].id => m.g = obs[i + 1].g
      BY <1>u, <2>0, <2>1, <2>2 DEF InOrder, IsText
    <3>3. obs[i + 1].id \in Nat \ {0}
      BY <1>n, <1>t, <2>1, <2>2
    <3> QED
      BY <1>2, <2>1, <3>1, <3>2, <3>3, WarnedTaken
  <2>3. ASSUME heard' # 0, heard' \in reported'
        PROVE  Warned(obs', rgen', cand', heard', pipe', Len(obs') + 1)
    <3>1. Warned(obs, rgen, cand, heard, pipe, (Len(obs') + 1) + 1)
      BY <1>e, <2>0, <2>1, <2>3
    <3>2. m.saw = "partial" /\ m.id = heard => m.g = pipe
      BY <1>u, <2>0 DEF Attributed
    <3>3. Len(obs') + 1 \in Nat /\ heard \in Nat \ {0}
      BY <1>n, <2>0, <2>1, <2>3
    <3> QED
      BY <1>2, <2>0, <3>1, <3>2, <3>3, WarnedTaken
  <2>4. "reported" \notin breach'
    <3>1. CASE IsText(m) /\ Matches(m) /\ ~cand.unsafe /\ breach' = breach \cup m.known
      <4>1. "reported" \in m.known => Warned(obs, rgen, cand, m.id, m.g, 1)
        BY <1>e, <2>0, <3>1
      <4>2. ~ \E j \in 1..Len(obs) : j < 1
        BY <1>n
      <4>3. "reported" \notin m.known
        BY <3>1, <4>1, <4>2 DEF Warned, Matches
      <4> QED
        BY <1>e, <3>1, <4>3
    <3> QED
      BY <1>2, <1>e, <3>1, CandidateCases
  <2> QED
    BY <2>2, <2>3, <2>4 DEF Echo, ReportedEchoNeverConfirmed
<1>q. ASSUME obs' = obs \/ (\E m : Put(obs, obs', m) /\ Quiet(m)), UNCHANGED <<rgen, cand, breach>>,
             heard' = 0 \/ (heard' = heard /\ pipe' = pipe), reported' = reported
      PROVE  Echo'
  <2>1. CASE obs' = obs
    BY <1>q, <1>e, <2>1 DEF Echo, ReportedEchoNeverConfirmed
  <2>2. CASE \E m : Put(obs, obs', m) /\ Quiet(m)
    <3>1. PICK m : Put(obs, obs', m) /\ Quiet(m)
      BY <2>2
    <3>2. m.saw # "vad" /\ ~IsText(m)
      BY <3>1 DEF Quiet, IsText
    <3>3. \A i \in 1..Len(obs') : IsText(obs'[i]) /\ "reported" \in obs'[i].known
            => Warned(obs', rgen', cand', obs'[i].id, obs'[i].g, i)
      BY <1>q, <3>1, <3>2, TextsPut
    <3>4. Len(obs) + 1 \in Nat /\ Len(obs') + 1 \in Nat /\ Len(obs) + 1 <= Len(obs') + 1
      BY <1>n, <3>1 DEF Put, Grown
    <3>5. heard # 0 /\ heard \in reported => Warned(obs', rgen, cand, heard, pipe, Len(obs') + 1)
      BY <1>e, <3>1, <3>2, <3>4, WarnedPut
    <3> QED
      BY <1>q, <1>e, <3>3, <3>5 DEF Echo, ReportedEchoNeverConfirmed
  <2> QED
    BY <1>q, <2>1, <2>2
<1>3. CASE Execute
  BY <1>3, <1>q, ExecuteIsQuiet DEF core
<1>4. CASE Aside
  <2>0. UNCHANGED <<rgen, cand, pipe, breach>>
    BY <1>4, AsideCases DEF core
  <2>1. CASE Tells
    <3>1. \A s, g, r : Quiet(Saw("due", s, g)) /\ Quiet(Fault(g, r))
      BY DEF Quiet, Saw, Fault
    <3> QED
      BY <1>q, <2>0, <2>1, <3>1 DEF Tells
  <2>2. CASE Listens
    BY <1>q, <2>0, <2>2 DEF Listens
  <2>3. CASE Fails
    <3>1. Quiet([saw |-> "lost", g |-> pipe, id |-> heard])
      BY DEF Quiet
    <3> QED
      BY <1>q, <2>0, <2>3, <3>1 DEF Fails
  <2>4. CASE Announces
    <3>1. heard' = used.candidates + 1
      BY <1>n, <2>4, Spending DEF Announces
    <3>2. PICK far, ok \in BOOLEAN :
            /\ Put(obs, obs', [saw |-> "vad", g |-> pipe, id |-> heard', far |-> far, safe |-> ok])
            /\ reported' = IF far /\ ~ok THEN reported \cup {heard'} ELSE reported
      BY <2>4 DEF Announces
    <3> DEFINE m == [saw |-> "vad", g |-> pipe, id |-> heard', far |-> far, safe |-> ok]
    <3>3. m.saw = "vad" /\ m.id = heard' /\ m.far = far /\ m.safe = ok /\ ~IsText(m) /\ Put(obs, obs', m)
      BY <3>2 DEF IsText
    <3> HIDE DEF m
    <3>4. heard' \notin 1..used.candidates
      BY <1>n, <3>1
    <3>5. \A i \in 1..Len(obs') : IsText(obs'[i]) /\ "reported" \in obs'[i].known
            => Warned(obs', rgen', cand', obs'[i].id, obs'[i].g, i)
      BY <2>0, <3>3, <3>4, TextsPut
    <3>6. heard' \in reported' => Reports(m, heard')
      BY <1>u, <3>2, <3>3, <3>4 DEF Reports
    <3>7. Len(obs') \in 1..Len(obs') /\ Len(obs') < Len(obs') + 1 /\ obs'[Len(obs')] = m
      BY <1>n, <3>3 DEF Put, Grown
    <3>8. heard' \in reported' => Warned(obs', rgen', cand', heard', pipe', Len(obs') + 1)
      BY <3>6, <3>7 DEF Warned
    <3> QED
      BY <1>e, <2>0, <3>5, <3>8 DEF Echo, ReportedEchoNeverConfirmed
  <2>5. CASE Transcribes
    <3>1. PICK m \in Observations :
            /\ IsText(m) /\ Put(obs, obs', m) /\ m.g = pipe /\ m.id = heard
            /\ "reported" \in m.known <=> heard \in reported
            /\ \/ heard' = 0
               \/ /\ m.saw = "partial" /\ heard' = heard
                  /\ reported' = IF m.far /\ ~m.safe THEN reported \cup {heard} ELSE reported
      BY <2>5 DEF Transcribes
    <3>2. heard # 0 /\ heard \in 1..used.candidates /\ m.saw # "vad"
      BY <1>n, <2>5, <3>1 DEF Transcribes, IsText
    <3>3. \A i \in 1..Len(obs') : IsText(obs'[i]) /\ "reported" \in obs'[i].known
            => Warned(obs', rgen', cand', obs'[i].id, obs'[i].g, i)
      BY <1>e, <2>0, <3>1, <3>2, TextsPut
    <3>4. /\ Len(obs') \in 1..Len(obs') /\ Len(obs') < Len(obs') + 1 /\ obs'[Len(obs')] = m
          /\ Len(obs) + 1 \in Nat /\ Len(obs') + 1 \in Nat /\ Len(obs) + 1 <= Len(obs') + 1
      BY <1>n, <3>1 DEF Put, Grown
    <3>5. ASSUME heard' # 0, heard' \in reported'
          PROVE  Warned(obs', rgen', cand', heard', pipe', Len(obs') + 1)
      <4>1. heard' = heard /\ (heard \in reported \/ (m.saw = "partial" /\ m.far /\ ~m.safe))
        BY <3>1, <3>5
      <4>2. CASE heard \in reported
        BY <1>e, <2>0, <3>1, <3>2, <3>4, <4>1, <4>2, WarnedPut
      <4>3. CASE m.saw = "partial" /\ m.far /\ ~m.safe
        <5>1. Reports(m, heard')
          BY <3>1, <4>1, <4>3 DEF Reports
        <5> QED
          BY <3>4, <5>1 DEF Warned
      <4> QED
        BY <4>1, <4>2, <4>3
    <3> QED
      BY <1>e, <2>0, <3>3, <3>5 DEF Echo, ReportedEchoNeverConfirmed
  <2> QED
    BY <1>4, <2>1, <2>2, <2>3, <2>4, <2>5, AsideCases
<1> QED
  BY <1>1, <1>2, <1>3, <1>4 DEF Next, Aside

-----------------------------------------------------------------------------
(* The invariant, and what follows from it *)

\* The system starts with every channel empty and everything closed.
LEMMA Initially ==
  Init => IInv
<1> SUFFICES ASSUME Init PROVE IInv
  OBVIOUS
<1>n. /\ {MaxSessions, MaxCandidates, MaxTurns, MaxFaults, MaxResets, MaxEvents, RetryLimit} \subseteq Nat
  BY SessionBounds
<1>0. Len(acts) = 0 /\ Len(obs) = 0 /\ 1..0 = {}
  BY DEF Init
<1>1. CoreTypes
  <2>1. session = 0 /\ status = "Closed" /\ rgen = 0 /\ retry = 0 /\ turn = FALSE
        /\ cand = NoCandidate /\ used.candidates = 0
    BY DEF Init
  <2>2. 0 \in Nat /\ 0 <= 0 /\ 0 \in 0..RetryLimit
    BY <1>n
  <2> QED
    BY <2>1, <2>2, NoCandidateTyped DEF CoreTypes, Statuses
<1>2. ExecutorTypes
  BY DEF Init, ExecutorTypes, NoRoute
<1>3. WorkerTypes
  <2>1. heard = 0 /\ used.candidates = 0 /\ safe = TRUE /\ resetting = FALSE
    BY DEF Init
  <2>2. heard \in Nat /\ heard <= used.candidates
    BY <2>1
  <2> QED
    BY <2>1, <2>2 DEF WorkerTypes
<1>4. Channels
  BY <1>0 DEF Init, Channels
<1>5. Spent
  BY <1>n DEF Init, Spent, Spendings
<1>6. Routes
  BY <1>0 DEF Init, Routes, NoRoute, ClosesRise
<1>7. Served /\ Stages
  BY <1>0 DEF Init, Served, Stages
<1>8. Budget
  <2>1. ~FaultWaits(obs, rgen)
    BY <1>0 DEF FaultWaits
  <2> QED
    BY <2>1 DEF Init, Budget
<1>9. Utterances /\ Echo
  BY <1>0 DEF Init, Utterances, Echo, InOrder, Unannounced, Attributed, ReportedEchoNeverConfirmed
<1> QED
  BY <1>1, <1>2, <1>3, <1>4, <1>5, <1>6, <1>7, <1>8, <1>9 DEF IInv, Typed

\* Every step, of whichever actor, keeps the invariant.
LEMMA Inductive ==
  IInv /\ [Next]_vars => IInv'
<1> SUFFICES ASSUME IInv, [Next]_vars PROVE IInv'
  OBVIOUS
<1>0. Base
  BY DEF IInv, Base
<1>1. CASE Next
  <2>1. Base'
    BY <1>0, <1>1, CommandTypes, ObserveTypes, ExecuteTypes, AsideTypes DEF Next, Aside
  <2>2. Routes'
    BY <1>0, <1>1, <2>1, RoutesStep DEF IInv
  <2>3. Served'
    BY <1>0, <1>1, ServedStep DEF IInv
  <2>4. Stages'
    BY <1>0, <1>1, StagesStep DEF IInv
  <2>5. Budget'
    BY <1>0, <1>1, BudgetStep DEF IInv
  <2>6. Utterances'
    BY <1>0, <1>1, <2>1, UtterancesStep DEF IInv
  <2>7. Echo'
    BY <1>0, <1>1, EchoStep DEF IInv
  <2> QED
    BY <2>1, <2>2, <2>3, <2>4, <2>5, <2>6, <2>7 DEF IInv, Base
<1>2. CASE UNCHANGED vars
  <2>1. Typed' /\ Channels' /\ Spent'
    BY <1>2 DEF IInv, vars, core, executor, worker, Typed, CoreTypes, ExecutorTypes, WorkerTypes,
                Channels, Spent
  <2>2. Routes' /\ Served' /\ Budget'
    BY <1>2 DEF IInv, vars, core, executor, worker, Routes, Served, Budget
  <2>3. Idle' = Idle
    BY <1>2 DEF vars, core, executor, worker, Idle
  <2>4. Stages'
    BY <1>2, <2>3 DEF IInv, vars, core, executor, worker, Stages
  <2>5. Utterances' /\ Echo'
    BY <1>2 DEF IInv, vars, core, executor, worker, Utterances, Echo, ReportedEchoNeverConfirmed
  <2> QED
    BY <2>1, <2>2, <2>4, <2>5 DEF IInv
<1> QED
  BY <1>1, <1>2

\* The inductive invariant holds in every reachable state.
THEOREM Invariance == Spec => []IInv
BY Initially, Inductive, PTL DEF Spec

\* What the invariant says of a state in particular.
LEMMA Consequences ==
  ASSUME IInv
  PROVE  TypeOK /\ ActiveIsServed /\ StopReleasesMicrophone /\ ReportedEchoNeverConfirmed
<1>0. Base /\ Routes /\ Served
  BY DEF IInv, Base
<1>n. /\ {MaxSessions, MaxCandidates, MaxTurns, MaxFaults, MaxResets, MaxEvents, RetryLimit} \subseteq Nat
  BY SessionBounds
<1>u. /\ used.sessions \in 0..MaxSessions /\ used.candidates \in 0..MaxCandidates
      /\ used.faults \in 0..MaxFaults /\ session <= used.sessions
  BY <1>0 DEF Base, Spent, Spendings
<1>1. TypeOK
  <2>1. /\ session \in 0..MaxSessions /\ status \in Statuses /\ (session = 0) = (status = "Closed")
        /\ retry \in 0..RetryLimit /\ turn \in BOOLEAN
    BY <1>0, <1>n, <1>u DEF Base, Typed, CoreTypes
  <2>2. rgen \in 0..(2 * MaxSessions + MaxFaults)
    <3>1. rgen \in Nat /\ rgen <= 2 * used.sessions + used.faults
      <4>1. rgen \in Nat /\ used.sessions \in Nat /\ used.faults \in Nat
        BY <1>0, Basics
      <4>2. rgen + (IF status \in {"Opening", "Active", "Recovering"} THEN 1 ELSE 0)
                 + (IF FaultWaits(obs, rgen) THEN 1 ELSE 0) <= 2 * used.sessions + used.faults
        BY DEF IInv, Budget
      <4> QED
        BY <4>1, <4>2
    <3> QED
      BY <1>n, <1>u, <3>1
  <2>3. cand \in [id : 0..MaxCandidates, gen : 0..rgen, unsafe : BOOLEAN, confirmed : BOOLEAN]
    <3>1. cand \in [id : Nat, gen : Nat, unsafe : BOOLEAN, confirmed : BOOLEAN]
      BY <1>0 DEF Base, Typed, CoreTypes, Candidates
    <3>2. cand.id \in 0..MaxCandidates /\ cand.gen \in 0..rgen
      <4>1. cand.id \in Nat /\ cand.gen \in Nat /\ rgen \in Nat
        BY <1>0, Basics
      <4>2. cand.id <= used.candidates /\ cand.gen <= rgen
        BY <1>0 DEF Base, Typed, CoreTypes
      <4> QED
        BY <1>n, <1>u, <4>1, <4>2
    <3> QED
      BY <3>1, <3>2
  <2>4. {route.g, host, pipe} \subseteq 0..rgen /\ models \in BOOLEAN
        /\ timers \subseteq (1..rgen) \X (1..RetryLimit)
    BY <1>0, Basics DEF Base, Typed, ExecutorTypes
  <2>5. heard \in 0..MaxCandidates /\ {safe, resetting} \subseteq BOOLEAN
    BY <1>0, <1>n, <1>u DEF Base, Typed, WorkerTypes
  <2> QED
    BY <2>1, <2>2, <2>3, <2>4, <2>5 DEF TypeOK
<1>2. ActiveIsServed
  <2>1. status = "Active" => session # 0 /\ rgen # 0
    BY <1>0 DEF Base, Typed, CoreTypes
  <2> QED
    BY <1>0, <2>1 DEF Served, Routes, ActiveIsServed
<1>3. StopReleasesMicrophone
  <2> SUFFICES ASSUME session = 0, acts = <<>> PROVE host = 0 /\ pipe = 0
    BY DEF StopReleasesMicrophone
  <2>1. Len(acts) = 0
    OBVIOUS
  <2>2. ~ClosedFrom(acts, 1, route.g) /\ ~ClosedFrom(acts, 1, pipe)
    BY <2>1 DEF ClosedFrom
  <2> QED
    BY <1>0, <2>2 DEF Routes, Closable
<1>4. ReportedEchoNeverConfirmed
  BY DEF IInv, Echo
<1> QED
  BY <1>1, <1>2, <1>3, <1>4

\* The state has its types; in particular the route's generation is bounded by the sessions and
\* the faults, since only they open a new one (state.rs route_generation).
THEOREM TypeCorrectness == Spec => []TypeOK
BY Invariance, Consequences, PTL

\* A session that is active has its route, its streams and its pipeline, whatever faults,
\* restarts and late observations interleave (state.rs RouteStarted, service.rs OpenRoute and
\* CloseRoute).
THEOREM ActiveSessionServed == Spec => []ActiveIsServed
BY Invariance, Consequences, PTL

\* Once a stop has been carried out nothing holds the microphone (state.rs StopSession,
\* service.rs CloseRoute).
THEOREM StopReleases == Spec => []StopReleasesMicrophone
BY Invariance, Consequences, PTL

\* An utterance that an observation has shown to be an echo is never confirmed (state.rs
\* unsafe_since_start, candidate_can_confirm).
THEOREM EchoIsDiscarded == Spec => []ReportedEchoNeverConfirmed
BY Invariance, Consequences, PTL
=============================================================================
