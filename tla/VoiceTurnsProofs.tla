-------------------------- MODULE VoiceTurnsProofs --------------------------
(***************************************************************************)
(* Proofs about VoiceTurns: that a turn gets one terminal event, that a    *)
(* turn's own segments fit the synthesis queue, and that a turn reported   *)
(* completed was spoken to its end, for any number of turns and segments   *)
(* and queues of any length.                                               *)
(***************************************************************************)
EXTENDS VoiceTurns, FiniteSetTheorems, TLAPS

-----------------------------------------------------------------------------
(* The inductive invariant *)

\* Messages of the turns begun so far
Of(kinds, n) == [m : kinds, k : 1..n]

\* What the executor remembers of a turn
Entries == [finished : BOOLEAN, pending : Nat, finishing : BOOLEAN, flushed : BOOLEAN]

\* The messages of each channel and queue, of the first n turns
Commands(n) == Of({"enqueue", "finish", "set", "retire"}, n) \cup {Msg("close", 0)}
Reports(n) == Of({"started", "failed", "drained", "faded"}, n)
Syntheses(n) == Of({"started", "done", "failed", "cancelled"}, n)
Works(n) == Of({"prepare", "finish"}, n)
Prepared(n) == Of({"prepared", "cancelled", "failed", "finished", "finish failed"}, n)
                 \cup {Msg("capacity", 0)}

\* A map of turns begun
MapOf(ts, n) == DOMAIN ts \subseteq 1..n /\ ts \in [DOMAIN ts -> Entries]

\* The coordinator's state; no segment is counted twice.
CoreTypes ==
  /\ live \in BOOLEAN /\ finished \in BOOLEAN /\ begun \in 0..MaxTurns
  /\ turn \in 0..begun /\ retiring \in 0..begun /\ outcome \in {"cancelled", "failed"}
  /\ segs \in [Turns -> Nat] /\ accepted \in 0..MaxSegments
  /\ \A k \in Turns : segs[k] <= accepted
  /\ started \in 0..MaxSegments
  /\ ended \in [Turns -> Seq({"completed", "cancelled", "failed"})]
  /\ \A k \in Turns : k > begun => segs[k] = 0 /\ ended[k] = <<>>

\* The executor and the two channels between it and the coordinator
ExecutorTypes ==
  /\ acts \in Seq(Commands(begun)) /\ obs \in Seq(Reports(begun))
  /\ open \in BOOLEAN /\ MapOf(turns, begun) /\ active \in 0..begun

\* The synthesis worker
SynthesisTypes ==
  /\ ttsQ \in Seq(1..begun) /\ Len(ttsQ) <= TtsCapacity /\ busy \in 0..begun
  /\ ttsEv \in Seq(Syntheses(begun)) /\ cancelled \subseteq 1..begun

\* The output worker
OutputTypes ==
  /\ outQ \in Seq(Works(begun)) /\ Len(outQ) <= OutputCapacity
  /\ outEv \in Seq(Prepared(begun))
  /\ ring \in 0..Lead /\ (ring > 0 => active # 0) /\ empty \in BOOLEAN /\ wake \in BOOLEAN

\* The callback
CallbackTypes ==
  /\ fade \in 0..begun /\ rendEv \in Seq(1..begun) /\ faded \subseteq 1..begun
  /\ spoken \in [Turns -> Nat] /\ failures \in 0..MaxFailures

Typed == CoreTypes /\ ExecutorTypes /\ SynthesisTypes /\ OutputTypes /\ CallbackTypes

\* A turn is not the active one and the retiring one at a time.
Terminal1 == OneTerminalEvent /\ (turn # 0 => turn # retiring)

\* How often x is in q
N(q, x) == Cardinality({i \in 1..Len(q) : q[i] = x})

\* Segments of turn k that the coordinator has not seen started
Unstarted(a, q, e, o, k) ==
  N(a, Msg("enqueue", k)) + N(q, k) + N(e, Msg("started", k)) + N(o, Msg("started", k))

Admitted ==
  /\ \A k \in Turns : Unstarted(acts, ttsQ, ttsEv, obs, k) <= MaxQueued
  /\ turn # 0 => /\ Unstarted(acts, ttsQ, ttsEv, obs, turn) + started <= segs[turn]
                 /\ segs[turn] <= started + MaxQueued

\* Membership
In(x, q) == \E i \in 1..Len(q) : q[i] = x

\* The invariant of the counts
Base == Typed /\ Terminal1 /\ Admitted

\* The last set of a queue of actions is that of turn t, and only work on t follows.
Ordinary(a) == a.m \in {"enqueue", "finish"}
SetLast(q, t) ==
  \E j \in 1..Len(q) : q[j] = Msg("set", t) /\ \A i \in 1..Len(q) : i > j => Ordinary(q[i])

\* A turn's set is before everything else of the turn, its finish after every segment.
SetFirst(q, k) == \A i, j \in 1..Len(q) : q[i] = Msg("set", k) /\ q[j].k = k => i <= j
FinishLast(q, k) == \A i, j \in 1..Len(q) : q[i] = Msg("finish", k) /\ q[j] = Msg("enqueue", k) => j < i

\* The executor is at work on the active turn, or will be.
Sequel ==
  /\ turn # 0 => \/ active = turn /\ \A i \in 1..Len(acts) : Ordinary(acts[i])
                 \/ SetLast(acts, turn)
  /\ turn # 0 /\ In(Msg("finish", turn), acts) => finished
  /\ empty => ring = 0

\* A turn the executor knows was given a segment.
Given == turn # 0 /\ turn \in DOMAIN turns => segs[turn] > 0

\* No message of q is about turn k.
Free(q, k) == \A i \in 1..Len(q) : q[i].k # k

\* Nothing was done for a turn whose set waits.
Unset(k) ==
  In(Msg("set", k), acts) =>
    /\ k \notin DOMAIN turns /\ k \notin cancelled /\ active # k /\ spoken[k] = 0 /\ busy # k
    /\ ~In(k, ttsQ) /\ Free(ttsEv, k) /\ Free(outQ, k) /\ Free(outEv, k) /\ Free(obs, k)
    /\ turn = k => segs[k] = N(acts, Msg("enqueue", k))

\* A turn cancelled is neither active in the coordinator nor in the executor.
Retired(k) ==
  /\ k \in cancelled => turn # k /\ active # k
  /\ fade = k \/ In(k, rendEv) \/ k \in faded => k \in cancelled
  /\ In(Msg("cancelled", k), ttsEv) => k \in cancelled
  /\ In(Msg("cancelled", k), outEv) \/ In(Msg("finish failed", k), outEv) => active # k

\* Segments of turn k between the executor and the ring
Upstream(q, b, e, w, v, k) ==
  N(q, k) + (IF b = k THEN 1 ELSE 0) + N(e, Msg("done", k)) + N(e, Msg("failed", k))
    + N(w, Msg("prepare", k)) + N(v, Msg("failed", k))

\* The executor's pending count of turn k
Pending(ts, k) == IF k \in DOMAIN ts THEN ts[k].pending ELSE 0

\* Every segment accepted is somewhere, and the executor counts those it waits for.
Counted(k) ==
  turn = k /\ active = k /\ ~In(Msg("failed", k), obs) =>
    /\ segs[k] = N(acts, Msg("enqueue", k)) + Upstream(ttsQ, busy, ttsEv, outQ, outEv, k)
                   + spoken[k] + ring
    /\ Pending(turns, k) = Upstream(ttsQ, busy, ttsEv, outQ, outEv, k) + N(outEv, Msg("prepared", k))

\* A turn the executor knows finished gets no more segments.
Complete(k) ==
  k \in DOMAIN turns /\ turns[k].finished /\ turn = k => finished /\ ~In(Msg("enqueue", k), acts)

\* Turn k is played out.
Done(k) ==
  /\ segs[k] = spoken[k] /\ segs[k] > 0 /\ ~In(Msg("enqueue", k), acts)
  /\ turn = k => finished
  /\ ~In(k, ttsQ) /\ busy # k /\ ~In(Msg("done", k), ttsEv) /\ ~In(Msg("prepare", k), outQ)
  /\ active = k => ring = 0

\* A drained report of k that no failure of k precedes
Credible(q, k) ==
  \E i \in 1..Len(q) : q[i] = Msg("drained", k) /\ \A j \in 1..Len(q) : j < i => q[j] # Msg("failed", k)

Drained(k) ==
  /\ turn = k /\ Credible(obs, k) => Done(k)
  /\ ended[k] # <<>> /\ ended[k][1] = "completed" => Done(k)

\* What holds of turn k
OfTurn(k) ==
  /\ SetFirst(acts, k) /\ FinishLast(acts, k) /\ (k > begun => spoken[k] = 0)
  /\ Unset(k) /\ Retired(k) /\ Counted(k) /\ Complete(k) /\ Drained(k)

PerTurn == \A k \in Turns : OfTurn(k)

IInv == Base /\ Sequel /\ Given /\ PerTurn

-----------------------------------------------------------------------------
(* Counting in queues *)

\* Occurrences are a finite set of places.
LEMMA NPlaces ==
  ASSUME NEW S, NEW q \in Seq(S), NEW x
  PROVE  /\ IsFiniteSet({i \in 1..Len(q) : q[i] = x})
         /\ N(q, x) \in Nat /\ N(q, x) <= Len(q)
         /\ N(q, x) = Len(q) => \A i \in 1..Len(q) : q[i] = x
<1> DEFINE P == {i \in 1..Len(q) : q[i] = x}
<1>1. Len(q) \in Nat
  OBVIOUS
<1>2. IsFiniteSet(1..Len(q)) /\ Cardinality(1..Len(q)) = Len(q)
  <2> SUFFICES ASSUME NEW n \in Nat
               PROVE  IsFiniteSet(1..n) /\ Cardinality(1..n) = n
    BY <1>1
  <2>1. IsFiniteSet(1..n) /\ Cardinality(1..n) = IF 1 > n THEN 0 ELSE n - 1 + 1
    BY FS_Interval, 1 \in Int, n \in Int
  <2> QED
    BY <2>1
<1>3. IsFiniteSet(P) /\ Cardinality(P) <= Len(q) /\ (Len(q) = Cardinality(P) => 1..Len(q) = P)
  <2>1. P \in SUBSET (1..Len(q))
    OBVIOUS
  <2> HIDE DEF P
  <2>2. /\ IsFiniteSet(P) /\ Cardinality(P) <= Cardinality(1..Len(q))
        /\ Cardinality(1..Len(q)) = Cardinality(P) => 1..Len(q) = P
    BY ONLY <1>2, <2>1, FS_Subset
  <2> QED
    BY <1>2, <2>2
<1>4. Cardinality(P) \in Nat
  BY <1>3, FS_CardinalityType
<1> QED
  BY <1>3, <1>4 DEF N

\* What is not there is counted zero times, and what is there at least once.
LEMMA NZero ==
  ASSUME NEW S, NEW q \in Seq(S), NEW x
  PROVE  N(q, x) \in Nat /\ (N(q, x) = 0 <=> ~In(x, q)) /\ (N(q, x) > 0 <=> In(x, q))
<1> DEFINE P == {i \in 1..Len(q) : q[i] = x}
<1>1. IsFiniteSet(P) /\ N(q, x) \in Nat
  BY NPlaces
<1>2. Cardinality(P) = 0 <=> P = {}
  BY <1>1, FS_EmptySet
<1>3. P = {} <=> ~In(x, q)
  BY DEF In
<1>4. N(q, x) = Cardinality(P)
  BY DEF N
<1> QED
  BY <1>1, <1>2, <1>3, <1>4

\* The empty queue
LEMMA NEmpty ==
  ASSUME NEW x
  PROVE  N(<<>>, x) = 0
<1>1. <<>> \in Seq({}) /\ ~In(x, <<>>)
  BY DEF In
<1> QED
  BY <1>1, NZero

\* The end of a queue
LEMMA NAppend ==
  ASSUME NEW S, NEW q \in Seq(S), NEW y \in S, NEW x
  PROVE  N(Append(q, y), x) = N(q, x) + (IF y = x THEN 1 ELSE 0)
<1> SUFFICES ASSUME NEW r, r = Append(q, y)
             PROVE  N(r, x) = N(q, x) + (IF y = x THEN 1 ELSE 0)
  OBVIOUS
<1> DEFINE P == {i \in 1..Len(q) : q[i] = x}
           R == {i \in 1..Len(r) : r[i] = x}
<1>1. Len(q) \in Nat /\ Len(r) = Len(q) + 1 /\ r[Len(q) + 1] = y
      /\ \A i \in 1..Len(q) : r[i] = q[i]
  OBVIOUS
<1>2. IsFiniteSet(P) /\ N(q, x) \in Nat /\ N(q, x) = Cardinality(P) /\ N(r, x) = Cardinality(R)
  BY NPlaces DEF N
<1> HIDE DEF P, R
<1>3. CASE y = x
  <2>1. R = P \cup {Len(q) + 1} /\ Len(q) + 1 \notin P
    BY <1>1, <1>3 DEF P, R
  <2>2. Cardinality(P \cup {Len(q) + 1}) = Cardinality(P) + 1
    BY ONLY <1>2, <2>1, FS_AddElement
  <2> QED
    BY <1>2, <1>3, <2>1, <2>2
<1>4. CASE y # x
  <2>1. R = P
    BY <1>1, <1>4 DEF P, R
  <2> QED
    BY <1>2, <1>4, <2>1
<1> QED
  BY <1>3, <1>4

\* The head of a queue
LEMMA NTail ==
  ASSUME NEW S, NEW q \in Seq(S), q # <<>>, NEW x
  PROVE  N(q, x) = N(Tail(q), x) + (IF Head(q) = x THEN 1 ELSE 0)
<1> SUFFICES ASSUME NEW r, r = Tail(q)
             PROVE  N(q, x) = N(r, x) + (IF Head(q) = x THEN 1 ELSE 0)
  OBVIOUS
<1> DEFINE P == {i \in 1..Len(q) : q[i] = x}
           R == {i \in 1..Len(r) : r[i] = x}
           T == P \ {1}
<1>1. Len(q) \in Nat \ {0} /\ Len(r) = Len(q) - 1 /\ Head(q) = q[1] /\ r \in Seq(S)
      /\ \A i \in 1..Len(r) : r[i] = q[i + 1]
  OBVIOUS
<1>2. IsFiniteSet(P) /\ N(q, x) \in Nat /\ N(q, x) = Cardinality(P)
  BY NPlaces DEF N
<1>3. IsFiniteSet(R) /\ N(r, x) \in Nat /\ N(r, x) = Cardinality(R)
  <2>1. r \in Seq(S)
    BY <1>1
  <2>2. IsFiniteSet({i \in 1..Len(r) : r[i] = x}) /\ N(r, x) \in Nat
    BY ONLY <2>1, NPlaces
  <2> QED
    BY <2>2 DEF N
<1> HIDE DEF P, R, T
<1>4. IsFiniteSet(T) /\ Cardinality(T) = IF 1 \in P THEN Cardinality(P) - 1 ELSE Cardinality(P)
  BY <1>2, FS_RemoveElement DEF T
<1>5. 1 \in P <=> Head(q) = x
  BY <1>1 DEF P
<1>6. ExistsBijection(R, T)
  <2> DEFINE f == [i \in R |-> i + 1]
  <2>1. f \in [R -> T]
    BY <1>1 DEF P, R, T
  <2>2. \A a, b \in R : f[a] = f[b] => a = b
    BY <1>1 DEF R
  <2>3. \A t \in T : \E i \in R : f[i] = t
    <3> SUFFICES ASSUME NEW t \in T PROVE t - 1 \in R /\ f[t - 1] = t
      OBVIOUS
    <3>1. t \in 2..Len(q) /\ q[t] = x /\ t - 1 \in 1..Len(r)
      BY <1>1 DEF P, T
    <3>2. r[t - 1] = q[t - 1 + 1]
      BY <1>1, <3>1
    <3> QED
      BY <3>1, <3>2, <1>1 DEF R
  <2> HIDE DEF f
  <2>4. f \in Injection(R, T) /\ f \in Surjection(R, T)
    BY <2>1, <2>2, <2>3 DEF Injection, IsInjective, Surjection
  <2> QED
    BY <2>4 DEF ExistsBijection, Bijection
<1>7. Cardinality(T) = Cardinality(R)
  BY <1>3, <1>6, FS_Bijection
<1> QED
  BY <1>2, <1>3, <1>4, <1>5, <1>7

\* Whatever does not occur in r is counted in q \o r as often as in q.
LEMMA NSkip ==
  ASSUME NEW S, NEW q \in Seq(S), NEW r \in Seq(S), NEW x, \A i \in 1..Len(r) : r[i] # x
  PROVE  N(q \o r, x) = N(q, x)
<1>1. Len(q) \in Nat /\ Len(r) \in Nat /\ Len(q \o r) = Len(q) + Len(r)
  OBVIOUS
<1>2. \A i \in 1..Len(q) : (q \o r)[i] = q[i]
  OBVIOUS
<1>3. \A i \in Len(q) + 1 .. Len(q) + Len(r) : (q \o r)[i] # x
  BY <1>1
<1>4. {i \in 1..Len(q \o r) : (q \o r)[i] = x} = {i \in 1..Len(q) : q[i] = x}
  BY <1>1, <1>2, <1>3
<1> QED
  BY <1>4 DEF N

\* Appending
LEMMA CatOne ==
  ASSUME NEW S, NEW q \in Seq(S)
  PROVE  q \o <<>> = q /\ \A y \in S : q \o <<y>> = Append(q, y)
OBVIOUS

\* Membership after appending, and after taking the head
LEMMA InAppend ==
  ASSUME NEW S, NEW q \in Seq(S), NEW y \in S, NEW x
  PROVE  In(x, Append(q, y)) <=> In(x, q) \/ x = y
<1>1. Len(q) \in Nat /\ Len(Append(q, y)) = Len(q) + 1 /\ Append(q, y)[Len(q) + 1] = y
      /\ \A i \in 1..Len(q) : Append(q, y)[i] = q[i]
  OBVIOUS
<1> QED
  BY <1>1 DEF In

\* What is in a queue after its head was taken
LEMMA InTail ==
  ASSUME NEW S, NEW q \in Seq(S), q # <<>>, NEW x
  PROVE  /\ In(x, q) <=> In(x, Tail(q)) \/ x = Head(q)
         /\ Tail(q) \in Seq(S) /\ Head(q) \in S /\ Len(Tail(q)) = Len(q) - 1
<1>1. Len(q) \in Nat \ {0} /\ Len(Tail(q)) = Len(q) - 1 /\ Head(q) = q[1] /\ Head(q) \in S
      /\ Tail(q) \in Seq(S) /\ \A i \in 1..Len(Tail(q)) : Tail(q)[i] = q[i + 1]
  OBVIOUS
<1>2. ASSUME In(x, q) PROVE In(x, Tail(q)) \/ x = Head(q)
  <2> PICK i \in 1..Len(q) : q[i] = x
    BY <1>2 DEF In
  <2>1. CASE i = 1
    BY <1>1, <2>1
  <2>2. CASE i # 1
    <3>1. i - 1 \in 1..Len(Tail(q)) /\ Tail(q)[i - 1] = q[i - 1 + 1] /\ i - 1 + 1 = i
      BY <1>1, <2>2
    <3> QED
      BY <3>1 DEF In
  <2> QED
    BY <2>1, <2>2
<1>3. ASSUME In(x, Tail(q)) PROVE In(x, q)
  BY <1>1, <1>3 DEF In
<1>4. ASSUME x = Head(q) PROVE In(x, q)
  BY <1>1, <1>4 DEF In
<1> QED
  BY <1>1, <1>2, <1>3, <1>4

\* A sequence over a set is one over a larger set.
LEMMA Wider ==
  ASSUME NEW S, NEW T, S \subseteq T, NEW q \in Seq(S)
  PROVE  q \in Seq(T)
OBVIOUS

\* The bounds are numbers.
LEMMA Bounds ==
  /\ MaxTurns \in Nat /\ MaxSegments \in Nat /\ MaxFailures \in Nat
  /\ MaxQueued \in Nat /\ TtsCapacity \in Nat /\ OutputCapacity \in Nat /\ Lead \in Nat
  /\ EventCapacity \in Nat /\ ObsCapacity \in Nat /\ Backlog \in Nat
  /\ 0 < MaxQueued /\ MaxQueued <= TtsCapacity /\ 0 < OutputCapacity /\ 0 < Lead
BY TurnBounds

\* Every turn known to the executor is listed once.
LEMMA Listing ==
  ASSUME NEW n \in Nat, NEW S \in SUBSET (1..n)
  PROVE  SetToSeq(S) \in Seq(S)
<1>1. IsFiniteSet(1..n)
  BY FS_Interval
<1>2. IsFiniteSet(S)
  BY <1>1, FS_Subset
<1>3. Cardinality(S) \in Nat /\ ExistsBijection(1..Cardinality(S), S)
  BY <1>2, FS_CardinalityType
<1>4. PICK f : f \in Bijection(1..Cardinality(S), S)
  BY <1>3 DEF ExistsBijection
<1>5. f \in [1..Cardinality(S) -> S] /\ IsInjective(f)
  BY <1>4 DEF Bijection, Injection, IsInjective
<1>6. SetToSeq(S) \in [1..Cardinality(S) -> S]
  BY <1>5 DEF SetToSeq
<1> QED
  BY <1>3, <1>6

-----------------------------------------------------------------------------
(* The end of a turn in the executor *)

\* What DrainIfReady leaves, with the state it reads as arguments
Drain(k, ts, q, o, act, op, emp, ts1, q1, o1) ==
  LET here == k = act /\ k \in DOMAIN ts
      due == here /\ op /\ ts[k].finished /\ ts[k].pending = 0 /\ ~ts[k].finishing
      fits == Len(q) < OutputCapacity
      ts2 == IF due /\ fits THEN [ts EXCEPT ![k].finishing = TRUE] ELSE ts
      drained == /\ here /\ op /\ ts2[k].finished /\ ts2[k].pending = 0
                 /\ ts2[k].flushed /\ emp
  IN /\ ts1 = IF drained THEN Without(ts2, k) ELSE ts2
     /\ q1 = IF due /\ fits THEN Append(q, Msg("finish", k)) ELSE q
     /\ o1 = o \o (IF due /\ ~fits THEN <<Msg("failed", k)>> ELSE <<>>)
               \o (IF drained THEN <<Msg("drained", k)>> ELSE <<>>)

\* Removing a turn leaves a map, and the entries of the others.
LEMMA WithoutOf ==
  ASSUME NEW n \in Nat, NEW ts, MapOf(ts, n), NEW k
  PROVE  /\ MapOf(Without(ts, k), n) /\ DOMAIN Without(ts, k) = DOMAIN ts \ {k}
         /\ \A j \in DOMAIN ts \ {k} : Without(ts, k)[j] = ts[j]
BY DEF MapOf, Without, Restrict

\* turns.entry(k).or_default(): k is in the map, the others are as they were.
LEMMA KnownOf ==
  ASSUME NEW n \in Nat, NEW ts, MapOf(ts, n), NEW k \in 1..n
  PROVE  /\ MapOf(Known(ts, k), n) /\ DOMAIN Known(ts, k) = DOMAIN ts \cup {k}
         /\ \A j \in DOMAIN ts : Known(ts, k)[j] = ts[j]
         /\ k \notin DOMAIN ts => Known(ts, k)[k] = NewTurn
<1>1. NewTurn \in Entries
  BY DEF NewTurn, Entries
<1> QED
  BY <1>1 DEF MapOf, Known

\* A terminal report keeps the map's turns and types.
LEMMA TerminalOf ==
  ASSUME NEW n \in Nat, NEW ts, MapOf(ts, n), NEW k
  PROVE  MapOf(Terminal(ts, k), n) /\ DOMAIN Terminal(ts, k) = DOMAIN ts
<1>1. CASE k \in DOMAIN ts
  <2>1. ts[k] \in Entries
    BY <1>1 DEF MapOf
  <2>2. [ts[k] EXCEPT !.pending = IF @ > 0 THEN @ - 1 ELSE 0] \in Entries
    BY <2>1 DEF Entries
  <2> QED
    BY <1>1, <2>2 DEF Terminal, MapOf
<1>2. CASE k \notin DOMAIN ts
  BY <1>2 DEF Terminal
<1> QED
  BY <1>1, <1>2

\* Counting a segment keeps the map's types and adds at most its turn.
LEMMA EnqueuedOf ==
  ASSUME NEW n \in Nat, NEW ts, MapOf(ts, n), NEW k \in 1..n
  PROVE  MapOf(Enqueued(ts, k), n) /\ DOMAIN Enqueued(ts, k) = DOMAIN ts \cup {k}
<1> DEFINE u == Known(ts, k)
<1>1. MapOf(u, n) /\ DOMAIN u = DOMAIN ts \cup {k}
  BY KnownOf
<1>2. Enqueued(ts, k) = [u EXCEPT ![k].pending = @ + 1]
  BY DEF Enqueued
<1> HIDE DEF u
<1>3. u[k] \in Entries
  BY <1>1 DEF MapOf
<1>4. [u[k] EXCEPT !.pending = @ + 1] \in Entries
  BY <1>3 DEF Entries
<1> QED
  BY <1>1, <1>2, <1>4 DEF MapOf

\* Setting one flag of an entry
LEMMA FlagOf ==
  ASSUME NEW n \in Nat, NEW ts, MapOf(ts, n), NEW k \in DOMAIN ts
  PROVE  /\ MapOf([ts EXCEPT ![k].finished = TRUE], n)
         /\ MapOf([ts EXCEPT ![k].finishing = TRUE], n)
         /\ MapOf([ts EXCEPT ![k].flushed = TRUE], n)
<1>1. ts[k] \in Entries
  BY DEF MapOf
<1>2. /\ [ts[k] EXCEPT !.finished = TRUE] \in Entries
      /\ [ts[k] EXCEPT !.finishing = TRUE] \in Entries
      /\ [ts[k] EXCEPT !.flushed = TRUE] \in Entries
  BY <1>1 DEF Entries
<1> QED
  BY <1>2 DEF MapOf

\* What DrainIfReady does to the map, the output queue and the observations
LEMMA DrainOf ==
  ASSUME NEW n \in Nat, NEW ts, MapOf(ts, n), NEW q \in Seq(Works(n)),
         Len(q) <= OutputCapacity, NEW o \in Seq(Reports(n)), NEW k,
         NEW act, NEW op, NEW emp, NEW ts1, NEW q1, NEW o1,
         Drain(k, ts, q, o, act, op, emp, ts1, q1, o1)
  PROVE  /\ MapOf(ts1, n) /\ DOMAIN ts1 \subseteq DOMAIN ts
         /\ q1 \in Seq(Works(n)) /\ Len(q1) <= OutputCapacity
         /\ o1 \in Seq(Reports(n))
         /\ \/ q1 = q
            \/ q1 = Append(q, Msg("finish", k)) /\ k \in DOMAIN ts /\ k = act
         /\ \/ o1 = o
            \/ k \in DOMAIN ts /\ k = act /\ o1 = Append(o, Msg("failed", k))
            \/ k \in DOMAIN ts /\ k = act /\ o1 = Append(o, Msg("drained", k))
            \/ k \in DOMAIN ts /\ k = act
               /\ o1 = Append(Append(o, Msg("failed", k)), Msg("drained", k))
<1> DEFINE here == k = act /\ k \in DOMAIN ts
           due == here /\ op /\ ts[k].finished /\ ts[k].pending = 0 /\ ~ts[k].finishing
           fits == Len(q) < OutputCapacity
           ts2 == IF due /\ fits THEN [ts EXCEPT ![k].finishing = TRUE] ELSE ts
           drained == /\ here /\ op /\ ts2[k].finished /\ ts2[k].pending = 0
                      /\ ts2[k].flushed /\ emp
<1>1. /\ ts1 = IF drained THEN Without(ts2, k) ELSE ts2
      /\ q1 = IF due /\ fits THEN Append(q, Msg("finish", k)) ELSE q
      /\ o1 = o \o (IF due /\ ~fits THEN <<Msg("failed", k)>> ELSE <<>>)
                \o (IF drained THEN <<Msg("drained", k)>> ELSE <<>>)
  BY DEF Drain
<1>2. MapOf(ts2, n) /\ DOMAIN ts2 = DOMAIN ts
  <2>1. CASE due /\ fits
    BY <2>1, FlagOf
  <2>2. CASE ~(due /\ fits)
    BY <2>2
  <2> QED
    BY <2>1, <2>2
<1>3. here => k \in 1..n
  BY DEF MapOf
<1>4. k \in 1..n => /\ Msg("finish", k) \in Works(n)
                    /\ Msg("failed", k) \in Reports(n)
                    /\ Msg("drained", k) \in Reports(n)
  BY DEF Msg, Of, Works, Reports
<1>5. (due => here) /\ (drained => here)
  OBVIOUS
<1>6. OutputCapacity \in Nat /\ (fits <=> Len(q) < OutputCapacity)
  BY Bounds
<1> HIDE DEF here, due, fits, ts2, drained
<1>7. MapOf(ts1, n) /\ DOMAIN ts1 \subseteq DOMAIN ts
  <2>1. CASE drained
    <3>1. MapOf(Without(ts2, k), n) /\ DOMAIN Without(ts2, k) = DOMAIN ts2 \ {k}
      BY ONLY <1>2, n \in Nat, WithoutOf
    <3> QED
      BY <1>1, <1>2, <2>1, <3>1
  <2>2. CASE ~drained
    BY <1>1, <1>2, <2>2
  <2> QED
    BY <2>1, <2>2
<1>8. /\ q1 \in Seq(Works(n)) /\ Len(q1) <= OutputCapacity
      /\ q1 = q \/ (q1 = Append(q, Msg("finish", k)) /\ here)
  <2>1. CASE due /\ fits
    BY <1>1, <1>3, <1>4, <1>5, <1>6, <2>1
  <2>2. CASE ~(due /\ fits)
    BY <1>1, <2>2
  <2> QED
    BY <2>1, <2>2
<1>9. /\ o1 \in Seq(Reports(n))
      /\ \/ o1 = o
         \/ here /\ o1 = Append(o, Msg("failed", k))
         \/ here /\ o1 = Append(o, Msg("drained", k))
         \/ here /\ o1 = Append(Append(o, Msg("failed", k)), Msg("drained", k))
  <2> DEFINE p == o \o (IF due /\ ~fits THEN <<Msg("failed", k)>> ELSE <<>>)
  <2>1. /\ p \in Seq(Reports(n))
        /\ p = o \/ (here /\ p = Append(o, Msg("failed", k)))
    <3>1. CASE due /\ ~fits
      BY <1>3, <1>4, <1>5, <3>1
    <3>2. CASE ~(due /\ ~fits)
      <4>1. p = o \o <<>>
        BY <3>2
      <4> QED
        BY <4>1
    <3> QED
      BY <3>1, <3>2
  <2>2. o1 = p \o (IF drained THEN <<Msg("drained", k)>> ELSE <<>>)
    BY <1>1
  <2> HIDE DEF p
  <2>3. CASE drained
    <3>1. o1 = Append(p, Msg("drained", k)) /\ here /\ Msg("drained", k) \in Reports(n)
      BY <1>3, <1>4, <1>5, <2>1, <2>2, <2>3
    <3> QED
      BY <2>1, <3>1
  <2>4. CASE ~drained
    <3>1. o1 = p \o <<>>
      BY <2>2, <2>4
    <3> QED
      BY <2>1, <3>1
  <2> QED
    BY <2>3, <2>4
<1> QED
  BY <1>7, <1>8, <1>9 DEF here

-----------------------------------------------------------------------------
(* Types *)

\* The coordinator's state is the coordinator's: no worker touches it.
LEMMA CoreFrame ==
  ASSUME \/ Execute \/ TtsFeedback \/ OutputFeedback \/ RenderFeedback \/ SilentFeedback
         \/ Synthesize \/ Synthesized \/ Prepare \/ FinishOutput \/ ServiceCapacity
         \/ Play \/ FadeComplete
  PROVE  core' = core
<1>1. CASE Execute BY <1>1 DEF Execute
<1>2. CASE TtsFeedback BY <1>2 DEF TtsFeedback
<1>3. CASE OutputFeedback BY <1>3 DEF OutputFeedback
<1>4. CASE RenderFeedback BY <1>4 DEF RenderFeedback
<1>5. CASE SilentFeedback BY <1>5 DEF SilentFeedback
<1>6. CASE Synthesize BY <1>6 DEF Synthesize
<1>7. CASE Synthesized BY <1>7 DEF Synthesized
<1>8. CASE Prepare BY <1>8 DEF Prepare
<1>9. CASE FinishOutput BY <1>9 DEF FinishOutput
<1>10. CASE ServiceCapacity BY <1>10 DEF ServiceCapacity
<1>11. CASE Play BY <1>11 DEF Play
<1>12. CASE FadeComplete BY <1>12 DEF FadeComplete
<1> QED
  BY <1>1, <1>2, <1>3, <1>4, <1>5, <1>6, <1>7, <1>8, <1>9, <1>10, <1>11, <1>12

\* A message at the head of a queue is of a turn begun.
LEMMA HeadOf ==
  ASSUME NEW n \in Nat, NEW q, q # <<>>
  PROVE  /\ q \in Seq(Commands(n)) =>
              /\ Tail(q) \in Seq(Commands(n)) /\ Head(q) \in Commands(n)
              /\ Head(q).m # "close" => Head(q).k \in 1..n
              /\ Head(q) = Msg(Head(q).m, Head(q).k)
         /\ q \in Seq(Reports(n)) =>
              /\ Tail(q) \in Seq(Reports(n)) /\ Head(q) \in Reports(n)
              /\ Head(q).k \in 1..n /\ Head(q) = Msg(Head(q).m, Head(q).k)
         /\ q \in Seq(Syntheses(n)) =>
              /\ Tail(q) \in Seq(Syntheses(n)) /\ Head(q) \in Syntheses(n)
              /\ Head(q).k \in 1..n /\ Head(q) = Msg(Head(q).m, Head(q).k)
         /\ q \in Seq(Works(n)) =>
              /\ Tail(q) \in Seq(Works(n)) /\ Head(q) \in Works(n)
              /\ Head(q).k \in 1..n /\ Head(q) = Msg(Head(q).m, Head(q).k)
         /\ q \in Seq(Prepared(n)) =>
              /\ Tail(q) \in Seq(Prepared(n)) /\ Head(q) \in Prepared(n)
              /\ Head(q).m # "capacity" => Head(q).k \in 1..n
              /\ Head(q) = Msg(Head(q).m, Head(q).k)
         /\ q \in Seq(1..n) => Tail(q) \in Seq(1..n) /\ Head(q) \in 1..n
<1>1. \A S : q \in Seq(S) => Tail(q) \in Seq(S) /\ Head(q) \in S
  OBVIOUS
<1>2. \A kinds : \A a \in Of(kinds, n) : a.k \in 1..n /\ a = Msg(a.m, a.k)
  BY DEF Of, Msg
<1>3. \A what : Msg(what, 0).m = what /\ Msg(what, 0) = Msg(Msg(what, 0).m, Msg(what, 0).k)
  BY DEF Msg
<1>4. \A a \in Commands(n) : (a.m # "close" => a.k \in 1..n) /\ a = Msg(a.m, a.k)
  BY <1>2, <1>3 DEF Commands
<1>5. \A a \in Prepared(n) : (a.m # "capacity" => a.k \in 1..n) /\ a = Msg(a.m, a.k)
  BY <1>2, <1>3 DEF Prepared
<1>6. \A a \in Reports(n) \cup Syntheses(n) \cup Works(n) : a.k \in 1..n /\ a = Msg(a.m, a.k)
  BY <1>2 DEF Reports, Syntheses, Works
<1> QED
  BY <1>1, <1>4, <1>5, <1>6

\* The messages of a turn begun
LEMMA MsgOf ==
  ASSUME NEW n \in Nat, NEW k \in 1..n
  PROVE  /\ \A what \in {"enqueue", "finish", "set", "retire"} : Msg(what, k) \in Commands(n)
         /\ \A what \in {"started", "failed", "drained", "faded"} : Msg(what, k) \in Reports(n)
         /\ \A what \in {"started", "done", "failed", "cancelled"} : Msg(what, k) \in Syntheses(n)
         /\ \A what \in {"prepare", "finish"} : Msg(what, k) \in Works(n)
         /\ \A what \in {"prepared", "cancelled", "failed", "finished", "finish failed"} :
              Msg(what, k) \in Prepared(n)
         /\ Msg("close", 0) \in Commands(n) /\ Msg("capacity", 0) \in Prepared(n)
BY DEF Msg, Of, Commands, Reports, Syntheses, Works, Prepared

\* One more turn: what was of the turns begun still is.
LEMMA OneMoreOf ==
  ASSUME NEW n \in Nat
  PROVE  /\ \A q \in Seq(Commands(n)) : q \in Seq(Commands(n + 1))
         /\ \A q \in Seq(Reports(n)) : q \in Seq(Reports(n + 1))
         /\ \A q \in Seq(Syntheses(n)) : q \in Seq(Syntheses(n + 1))
         /\ \A q \in Seq(Works(n)) : q \in Seq(Works(n + 1))
         /\ \A q \in Seq(Prepared(n)) : q \in Seq(Prepared(n + 1))
         /\ \A q \in Seq(1..n) : q \in Seq(1..n + 1)
         /\ \A ts : MapOf(ts, n) => MapOf(ts, n + 1)
<1>1. \A kinds : Of(kinds, n) \subseteq Of(kinds, n + 1)
  BY DEF Of
<1>2. /\ Commands(n) \subseteq Commands(n + 1) /\ Reports(n) \subseteq Reports(n + 1)
      /\ Syntheses(n) \subseteq Syntheses(n + 1) /\ Works(n) \subseteq Works(n + 1)
      /\ Prepared(n) \subseteq Prepared(n + 1)
  BY <1>1, Zenon DEF Commands, Reports, Syntheses, Works, Prepared
<1>4. 1..n \subseteq 1..n + 1
  OBVIOUS
<1>3. \A ts : MapOf(ts, n) => MapOf(ts, n + 1)
  BY <1>4 DEF MapOf
<1> QED
  BY <1>2, <1>3, <1>4, Wider

\* The coordinator's types.  The count of started segments stays within the bound
\* because every started report that waits is of a segment not counted yet.
LEMMA CoreStep ==
  ASSUME Typed, Admitted, Next
  PROVE  CoreTypes'
<1>1. CoreTypes /\ MaxTurns \in Nat /\ MaxSegments \in Nat /\ MaxQueued \in Nat
  BY Bounds DEF Typed
<1>2. turn # 0 => turn \in Turns
  BY <1>1 DEF CoreTypes, Turns
<1>3. CASE BeginSpeech
  <2>1. /\ begun < MaxTurns /\ begun' = begun + 1 /\ turn' = begun + 1 /\ started' = 0
        /\ finished' \in BOOLEAN /\ UNCHANGED <<live, segs, accepted, ended>>
    BY <1>3 DEF BeginSpeech
  <2>3. retiring' \in 0..begun /\ outcome' \in {"cancelled", "failed"}
    BY <1>1, <1>3 DEF BeginSpeech, RetireIfAny, Retire, CoreTypes
  <2>2. \A k \in Turns : k > begun' => segs[k] = 0 /\ ended[k] = <<>>
    BY <1>1, <2>1 DEF CoreTypes, Turns
  <2> QED
    BY <1>1, <2>1, <2>2, <2>3 DEF CoreTypes
<1>4. CASE EnqueueSpeech
  <2>1. /\ turn # 0 /\ accepted < MaxSegments /\ accepted' = accepted + 1
        /\ segs' = [segs EXCEPT ![turn] = @ + 1]
        /\ UNCHANGED <<live, begun, turn, started, finished, retiring, outcome, ended>>
    BY <1>4 DEF EnqueueSpeech
  <2>2. segs' \in [Turns -> Nat] /\ accepted' \in 0..MaxSegments
    BY <1>1, <1>2, <2>1 DEF CoreTypes
  <2>3. \A k \in Turns : segs'[k] <= accepted'
    BY <1>1, <1>2, <2>1 DEF CoreTypes
  <2>4. \A k \in Turns : k > begun => k # turn /\ segs'[k] = segs[k]
    BY <1>1, <1>2, <2>1 DEF CoreTypes, Turns
  <2> QED
    BY <1>1, <2>1, <2>2, <2>3, <2>4 DEF CoreTypes
<1>5. CASE FinishSpeech
  BY <1>1, <1>5 DEF FinishSpeech, CoreTypes
<1>6. CASE CancelSpeech
  BY <1>1, <1>6 DEF CancelSpeech, Retire, CoreTypes
<1>7. CASE CloseSession
  <2>1. /\ live' \in BOOLEAN /\ turn' = 0
        /\ UNCHANGED <<begun, segs, accepted, started, finished, ended>>
    BY <1>7 DEF CloseSession
  <2>3. retiring' \in 0..begun /\ outcome' \in {"cancelled", "failed"}
    BY <1>1, <1>7 DEF CloseSession, RetireIfAny, Retire, CoreTypes
  <2> QED
    BY <1>1, <2>1, <2>3 DEF CoreTypes
<1>8. CASE Observe
  <2> DEFINE o == Head(obs)
  <2>1. o.k \in 1..begun /\ o = Msg(o.m, o.k) /\ obs # <<>> /\ obs \in Seq(Reports(begun))
    BY <1>8, <1>1, HeadOf DEF Observe, Typed, ExecutorTypes, CoreTypes
  <2>2. o.k \in Turns
    BY <1>1, <2>1 DEF CoreTypes, Turns
  <2>3. UNCHANGED <<live, begun, segs, accepted, finished>>
    BY <1>8 DEF Observe
  <2>4. ASSUME turn = o.k, o.m = "started" PROVE started + 1 <= MaxSegments
    <3>1. N(obs, Msg("started", turn)) > 0 /\ N(obs, Msg("started", turn)) \in Nat
      <4>1. In(Msg("started", turn), obs)
        BY <2>1, <2>4 DEF In
      <4> QED
        BY <2>1, <4>1, NZero
    <3>2. /\ N(acts, Msg("enqueue", turn)) \in Nat /\ N(ttsQ, turn) \in Nat
          /\ N(ttsEv, Msg("started", turn)) \in Nat
      BY NZero DEF Typed, ExecutorTypes, SynthesisTypes
    <3>3. Unstarted(acts, ttsQ, ttsEv, obs, turn) + started <= segs[turn]
      BY <2>1, <2>4 DEF Admitted
    <3>4. segs[turn] <= MaxSegments /\ segs[turn] \in Nat /\ started \in Nat
      BY <1>1, <2>2, <2>4 DEF CoreTypes
    <3> QED
      BY <1>1, <3>1, <3>2, <3>3, <3>4 DEF Unstarted
  <2>9. ASSUME NEW event \in {"completed", "cancelled", "failed"}, Emit(o.k, event)
        PROVE  /\ ended' \in [Turns -> Seq({"completed", "cancelled", "failed"})]
               /\ \A k \in Turns : k > begun => ended'[k] = ended[k]
    <3>1. ended' = [ended EXCEPT ![o.k] = Append(@, event)]
      BY <2>9 DEF Emit
    <3>2. ended \in [Turns -> Seq({"completed", "cancelled", "failed"})]
      BY <1>1 DEF CoreTypes
    <3>3. Append(ended[o.k], event) \in Seq({"completed", "cancelled", "failed"})
      BY <2>2, <2>9, <3>2
    <3>4. \A k \in Turns : k > begun => k # o.k
      BY <1>1, <2>1 DEF CoreTypes, Turns
    <3> QED
      BY <2>2, <3>1, <3>2, <3>3, <3>4
  <2>5. CASE o.m = "started" /\ SynthesisStarted(o.k)
    BY <1>1, <2>3, <2>4, <2>5 DEF SynthesisStarted, CoreTypes
  <2>6. CASE o.m = "failed" /\ SynthesisFailed(o.k)
    BY <1>1, <2>3, <2>6 DEF SynthesisFailed, Retire, CoreTypes
  <2>7. CASE o.m = "drained" /\ PlaybackDrained(o.k)
    <3>1. turn' \in {turn, 0} /\ UNCHANGED <<started, retiring, outcome>>
      BY <2>7 DEF PlaybackDrained
    <3>2. ended' = ended \/ Emit(o.k, "completed")
      BY <2>7 DEF PlaybackDrained
    <3>3. /\ ended' \in [Turns -> Seq({"completed", "cancelled", "failed"})]
          /\ \A k \in Turns : k > begun => ended'[k] = ended[k]
      BY <1>1, <2>9, <3>2 DEF CoreTypes
    <3> QED
      BY <1>1, <2>3, <3>1, <3>3 DEF CoreTypes
  <2>8. CASE o.m = "faded" /\ FadeDrained(o.k)
    <3>1. retiring' \in {retiring, 0} /\ UNCHANGED <<turn, started, outcome>>
      BY <2>8 DEF FadeDrained
    <3>2. ended' = ended \/ Emit(o.k, outcome)
      BY <2>8 DEF FadeDrained
    <3>3. /\ ended' \in [Turns -> Seq({"completed", "cancelled", "failed"})]
          /\ \A k \in Turns : k > begun => ended'[k] = ended[k]
      BY <1>1, <2>9, <3>2 DEF CoreTypes
    <3> QED
      BY <1>1, <2>3, <3>1, <3>3 DEF CoreTypes
  <2> QED
    BY <1>8, <2>5, <2>6, <2>7, <2>8 DEF Observe
<1>9. CASE core' = core
  BY <1>1, <1>9 DEF core, CoreTypes
<1> QED
  BY <1>3, <1>4, <1>5, <1>6, <1>7, <1>8, <1>9, CoreFrame DEF Next

\* DrainIfReady in terms of the state it reads
LEMMA Drains ==
  ASSUME NEW k, NEW ts, NEW q, NEW told, DrainIfReady(k, ts, q, told)
  PROVE  Drain(k, ts, q, obs \o told, active, open, empty, turns', outQ', obs')
BY DEF DrainIfReady, Drain, CanComplete

\* What DrainIfReady publishes and queues is of turns begun, and no started report.
LEMMA DrainTyped ==
  ASSUME Typed, NEW k, NEW ts, MapOf(ts, begun), NEW told,
         told = <<>> \/ (\E j \in 1..begun : told = <<Msg("failed", j)>>),
         DrainIfReady(k, ts, outQ, told)
  PROVE  /\ MapOf(turns', begun) /\ obs' \in Seq(Reports(begun))
         /\ outQ' \in Seq(Works(begun)) /\ Len(outQ') <= OutputCapacity
         /\ \A j : N(obs', Msg("started", j)) = N(obs, Msg("started", j))
<1> DEFINE o == obs \o told
<1>1. /\ begun \in Nat /\ obs \in Seq(Reports(begun)) /\ outQ \in Seq(Works(begun))
      /\ Len(outQ) <= OutputCapacity
  BY Bounds DEF Typed, CoreTypes, ExecutorTypes, OutputTypes
<1>2. Drain(k, ts, outQ, o, active, open, empty, turns', outQ', obs')
  BY Drains
<1>3. /\ o \in Seq(Reports(begun))
      /\ o = obs \/ (\E j \in 1..begun : o = Append(obs, Msg("failed", j)))
  <2>1. CASE told = <<>>
    BY <1>1, <2>1
  <2>2. CASE \E j \in 1..begun : told = <<Msg("failed", j)>>
    <3>1. PICK j \in 1..begun : told = <<Msg("failed", j)>>
      BY <2>2
    <3>2. Msg("failed", j) \in Reports(begun)
      BY <1>1, MsgOf
    <3> QED
      BY <1>1, <3>1, <3>2
  <2> QED
    BY <2>1, <2>2
<1> HIDE DEF o
<1>4. /\ MapOf(turns', begun) /\ outQ' \in Seq(Works(begun)) /\ Len(outQ') <= OutputCapacity
      /\ obs' \in Seq(Reports(begun))
      /\ \/ obs' = o
         \/ k \in DOMAIN ts /\ obs' = Append(o, Msg("failed", k))
         \/ k \in DOMAIN ts /\ obs' = Append(o, Msg("drained", k))
         \/ k \in DOMAIN ts /\ obs' = Append(Append(o, Msg("failed", k)), Msg("drained", k))
  BY <1>1, <1>2, <1>3, DrainOf
<1>5. \A p \in Seq(Reports(begun)) : \A j, i : \A what \in {"failed", "drained"} :
        i \in 1..begun => /\ N(Append(p, Msg(what, i)), Msg("started", j)) = N(p, Msg("started", j))
                          /\ Append(p, Msg(what, i)) \in Seq(Reports(begun))
  <2> SUFFICES ASSUME NEW p \in Seq(Reports(begun)), NEW j, NEW i \in 1..begun,
                      NEW what \in {"failed", "drained"}
               PROVE  /\ N(Append(p, Msg(what, i)), Msg("started", j)) = N(p, Msg("started", j))
                      /\ Append(p, Msg(what, i)) \in Seq(Reports(begun))
    OBVIOUS
  <2>1. Msg(what, i) \in Reports(begun) /\ Msg(what, i) # Msg("started", j)
    BY <1>1, MsgOf DEF Msg
  <2>2. N(p, Msg("started", j)) \in Nat
    BY NZero
  <2>3. N(Append(p, Msg(what, i)), Msg("started", j)) = N(p, Msg("started", j)) + 0
    BY <2>1, NAppend
  <2> QED
    BY <2>1, <2>2, <2>3
<1>6. k \in DOMAIN ts => k \in 1..begun
  BY DEF MapOf
<1>7. ASSUME NEW j PROVE N(obs', Msg("started", j)) = N(obs, Msg("started", j))
  <2>1. N(o, Msg("started", j)) = N(obs, Msg("started", j))
    <3>1. ASSUME NEW i \in 1..begun, o = Append(obs, Msg("failed", i))
          PROVE  N(o, Msg("started", j)) = N(obs, Msg("started", j))
      BY <1>1, <1>5, <3>1
    <3> QED
      BY <1>3, <3>1
  <2>2. CASE obs' = o
    BY <2>1, <2>2
  <2>3. CASE k \in DOMAIN ts /\ obs' = Append(o, Msg("failed", k))
    BY <1>3, <1>5, <1>6, <2>1, <2>3
  <2>4. CASE k \in DOMAIN ts /\ obs' = Append(o, Msg("drained", k))
    BY <1>3, <1>5, <1>6, <2>1, <2>4
  <2>5. CASE k \in DOMAIN ts /\ obs' = Append(Append(o, Msg("failed", k)), Msg("drained", k))
    <3>1. /\ Append(o, Msg("failed", k)) \in Seq(Reports(begun))
          /\ N(Append(o, Msg("failed", k)), Msg("started", j)) = N(o, Msg("started", j))
      BY <1>3, <1>5, <1>6, <2>5
    <3> QED
      BY <1>5, <1>6, <2>1, <2>5, <3>1
  <2> QED
    BY <1>4, <2>2, <2>3, <2>4, <2>5
<1> QED
  BY <1>4, <1>7

\* The actions appended when the active turn is retired
LEMMA Retiring ==
  ASSUME Typed
  PROVE  /\ begun \in Nat /\ acts \o RetireActions \in Seq(Commands(begun))
         /\ turn = 0 => acts \o RetireActions = acts
         /\ turn # 0 => /\ turn \in 1..begun /\ turn \in Turns
                        /\ acts \o RetireActions = Append(acts, Msg("retire", turn))
<1>1. begun \in Nat /\ begun <= MaxTurns /\ turn \in 0..begun /\ acts \in Seq(Commands(begun))
  BY Bounds DEF Typed, CoreTypes, ExecutorTypes
<1>2. CASE turn = 0
  BY <1>1, <1>2 DEF RetireActions
<1>3. CASE turn # 0
  <2>1. turn \in 1..begun /\ turn \in Turns
    BY <1>1, <1>3, Bounds DEF Turns
  <2>2. Msg("retire", turn) \in Commands(begun)
    BY <1>1, <2>1, MsgOf
  <2> QED
    BY <1>1, <1>3, <2>1, <2>2 DEF RetireActions
<1> QED
  BY <1>2, <1>3

\* Workers and callback leave the executor and its channels alone.
LEMMA ExecutorFrame ==
  ASSUME \/ Synthesize \/ Synthesized \/ Prepare \/ FinishOutput \/ ServiceCapacity
         \/ Play \/ FadeComplete
  PROVE  UNCHANGED <<acts, obs, open, turns, active>>
<1>6. CASE Synthesize BY <1>6 DEF Synthesize
<1>7. CASE Synthesized BY <1>7 DEF Synthesized
<1>8. CASE Prepare BY <1>8 DEF Prepare
<1>9. CASE FinishOutput BY <1>9 DEF FinishOutput
<1>10. CASE ServiceCapacity BY <1>10 DEF ServiceCapacity
<1>11. CASE Play BY <1>11 DEF Play
<1>12. CASE FadeComplete BY <1>12 DEF FadeComplete
<1> QED
  BY <1>6, <1>7, <1>8, <1>9, <1>10, <1>11, <1>12

\* What the executor keeps and publishes while it carries out an action
LEMMA ExecuteTyped ==
  ASSUME Typed, Execute
  PROVE  /\ acts' = Tail(acts) /\ ExecutorTypes'
         /\ outQ' \in Seq(Works(begun)) /\ Len(outQ') <= OutputCapacity
         /\ \A j : N(obs', Msg("started", j)) = N(obs, Msg("started", j))
<1> DEFINE a == Head(acts)
<1>1. /\ begun \in Nat /\ acts \in Seq(Commands(begun)) /\ obs \in Seq(Reports(begun))
      /\ open \in BOOLEAN /\ MapOf(turns, begun) /\ active \in 0..begun
      /\ outQ \in Seq(Works(begun)) /\ Len(outQ) <= OutputCapacity
  BY Bounds DEF Typed, CoreTypes, ExecutorTypes, OutputTypes
<1>2. acts # <<>> /\ acts' = Tail(acts) /\ core' = core
  BY DEF Execute
<1>3. Tail(acts) \in Seq(Commands(begun)) /\ (a.m # "close" => a.k \in 1..begun)
  BY <1>1, <1>2, HeadOf
<1>4. begun' = begun
  BY <1>2 DEF core
<1> DEFINE Goal == /\ obs' \in Seq(Reports(begun)) /\ open' \in BOOLEAN /\ MapOf(turns', begun)
                   /\ active' \in 0..begun
                   /\ outQ' \in Seq(Works(begun)) /\ Len(outQ') <= OutputCapacity
                   /\ \A j : N(obs', Msg("started", j)) = N(obs, Msg("started", j))
<1>5. Goal
  <2>1. CASE a.m = "enqueue" /\ EnqueueTts(a.k)
    <3>1. UNCHANGED <<open, active, outQ>>
      BY <2>1 DEF EnqueueTts
    <3>2. CASE Len(ttsQ) < TtsCapacity
      <4>1. turns' = Enqueued(turns, a.k) /\ obs' = obs
        BY <2>1, <3>2 DEF EnqueueTts
      <4>2. MapOf(Enqueued(turns, a.k), begun)
        BY <1>1, <1>3, <2>1, EnqueuedOf
      <4> QED
        BY <1>1, <3>1, <4>1, <4>2
    <3>3. CASE ~(Len(ttsQ) < TtsCapacity)
      <4>1. turns' = turns /\ obs' = Append(obs, Msg("failed", a.k))
        BY <2>1, <3>3 DEF EnqueueTts
      <4>2. Msg("failed", a.k) \in Reports(begun)
        BY <1>1, <1>3, <2>1, MsgOf
      <4>3. ASSUME NEW j PROVE N(obs', Msg("started", j)) = N(obs, Msg("started", j))
        <5>1. Msg("failed", a.k) # Msg("started", j)
          BY DEF Msg
        <5>2. N(obs', Msg("started", j)) = N(obs, Msg("started", j)) + 0
          BY <1>1, <4>1, <4>2, <5>1, NAppend
        <5>3. N(obs, Msg("started", j)) \in Nat
          BY <1>1, NZero
        <5> QED
          BY <5>2, <5>3
      <4>4. obs' \in Seq(Reports(begun))
        BY <1>1, <4>1, <4>2
      <4> QED
        BY <1>1, <3>1, <4>1, <4>3, <4>4
    <3> QED
      BY <3>2, <3>3
  <2>2. CASE a.m = "finish" /\ FinishTts(a.k)
    <3>1. UNCHANGED <<open, active>>
      BY <2>2 DEF FinishTts
    <3>2. CASE a.k \in DOMAIN turns
      <4>1. DrainIfReady(a.k, [turns EXCEPT ![a.k].finished = TRUE], outQ, <<>>)
        BY <2>2, <3>2 DEF FinishTts
      <4>2. MapOf([turns EXCEPT ![a.k].finished = TRUE], begun)
        BY <1>1, <3>2, FlagOf
      <4>3. /\ MapOf(turns', begun) /\ obs' \in Seq(Reports(begun))
            /\ outQ' \in Seq(Works(begun)) /\ Len(outQ') <= OutputCapacity
            /\ \A j : N(obs', Msg("started", j)) = N(obs, Msg("started", j))
        BY <4>1, <4>2, DrainTyped
      <4> QED
        BY <1>1, <3>1, <4>3
    <3>3. CASE a.k \notin DOMAIN turns
      BY <1>1, <2>2, <3>1, <3>3 DEF FinishTts
    <3> QED
      BY <3>2, <3>3
  <2>3. CASE a.m = "set" /\ SetOutputGeneration(a.k)
    BY <1>1, <1>3, <2>3 DEF SetOutputGeneration
  <2>4. CASE a.m = "retire" /\ RetireOutput(a.k)
    <3>1. MapOf(Known(turns, a.k), begun)
      BY <1>1, <1>3, <2>4, KnownOf
    <3> QED
      BY <1>1, <2>4, <3>1 DEF RetireOutput
  <2>5. CASE a.m = "close" /\ CloseRoute
    <3>1. open' = FALSE /\ outQ' = <<>> /\ active' = active
      BY <2>5 DEF CloseRoute
    <3>2. /\ <<>> \in Seq(Works(begun)) /\ Len(<<>>) <= OutputCapacity
      BY Bounds
    <3>3. CASE FadesDone /\ UNCHANGED <<turns, obs>>
      BY <1>1, <3>1, <3>2, <3>3
    <3>4. CASE ~FadesDone /\ turns' = <<>>
               /\ obs' = obs \o [i \in 1..Len(SetToSeq(DOMAIN turns)) |->
                                   Msg("faded", SetToSeq(DOMAIN turns)[i])]
      <4> DEFINE s == SetToSeq(DOMAIN turns)
                 r == [i \in 1..Len(s) |-> Msg("faded", s[i])]
      <4>1. s \in Seq(DOMAIN turns) /\ DOMAIN turns \subseteq 1..begun
        BY <1>1, Listing DEF MapOf
      <4> HIDE DEF s
      <4>2. \A i \in 1..Len(s) : Msg("faded", s[i]) \in Reports(begun)
        <5>1. \A k \in 1..begun : Msg("faded", k) \in Reports(begun)
          BY <1>1, MsgOf
        <5>2. \A i \in 1..Len(s) : s[i] \in 1..begun
          BY <4>1
        <5> QED
          BY <5>1, <5>2
      <4>3. r \in Seq(Reports(begun)) /\ Len(r) = Len(s) /\ Len(s) \in Nat
        BY <4>1, <4>2
      <4>4. \A j : \A i \in 1..Len(r) : r[i] # Msg("started", j)
        BY <4>3 DEF Msg
      <4>5. obs' = obs \o r
        BY <3>4 DEF s
      <4> HIDE DEF r
      <4>6. obs' \in Seq(Reports(begun))
        BY <1>1, <4>3, <4>5
      <4>7. \A j : N(obs', Msg("started", j)) = N(obs, Msg("started", j))
        BY <1>1, <4>3, <4>4, <4>5, NSkip
      <4>8. MapOf(turns', begun)
        BY <3>4 DEF MapOf
      <4> QED
        BY <1>1, <3>1, <3>2, <4>6, <4>7, <4>8
    <3> QED
      BY <2>5, <3>3, <3>4 DEF CloseRoute
  <2> QED
    BY <2>1, <2>2, <2>3, <2>4, <2>5 DEF Execute
<1> QED
  BY <1>2, <1>3, <1>4, <1>5 DEF ExecutorTypes

\* What it keeps and publishes when the synthesis worker reports
LEMMA TtsFeedbackTyped ==
  ASSUME Typed, TtsFeedback
  PROVE  /\ ExecutorTypes' /\ ttsEv' = Tail(ttsEv) /\ ttsEv # <<>>
         /\ outQ' \in Seq(Works(begun)) /\ Len(outQ') <= OutputCapacity
         /\ \A j : N(obs', Msg("started", j)) =
              N(obs, Msg("started", j)) + (IF Head(ttsEv) = Msg("started", j) THEN 1 ELSE 0)
<1> DEFINE e == Head(ttsEv)
<1>1. /\ begun \in Nat /\ acts \in Seq(Commands(begun)) /\ obs \in Seq(Reports(begun))
      /\ open \in BOOLEAN /\ MapOf(turns, begun) /\ active \in 0..begun
      /\ outQ \in Seq(Works(begun)) /\ Len(outQ) <= OutputCapacity /\ ttsEv \in Seq(Syntheses(begun))
  BY Bounds DEF Typed, CoreTypes, ExecutorTypes, OutputTypes, SynthesisTypes
<1>2. ttsEv # <<>> /\ ttsEv' = Tail(ttsEv) /\ core' = core /\ UNCHANGED <<acts, open, active>>
  BY DEF TtsFeedback
<1>3. e.k \in 1..begun /\ e = Msg(e.m, e.k)
  BY <1>1, <1>2, HeadOf
<1>4. begun' = begun
  BY <1>2 DEF core
<1>5. \A j : N(obs, Msg("started", j)) \in Nat
  BY <1>1, NZero
<1>6. \A j : e = Msg("started", j) => e.m = "started"
  BY DEF Msg
<1> DEFINE Goal == /\ obs' \in Seq(Reports(begun)) /\ MapOf(turns', begun)
                   /\ outQ' \in Seq(Works(begun)) /\ Len(outQ') <= OutputCapacity
                   /\ \A j : N(obs', Msg("started", j)) =
                        N(obs, Msg("started", j)) + (IF e = Msg("started", j) THEN 1 ELSE 0)
<1>7. Goal
  <2>1. CASE e.m = "started" /\ obs' = Append(obs, Msg("started", e.k)) /\ UNCHANGED <<turns, outQ>>
    <3>1. Msg("started", e.k) \in Reports(begun) /\ Msg("started", e.k) = e
      BY <1>1, <1>3, <2>1, MsgOf
    <3>2. obs' = Append(obs, e) /\ e \in Reports(begun)
      BY <2>1, <3>1
    <3> HIDE DEF e
    <3>3. \A j : N(obs', Msg("started", j)) =
            N(obs, Msg("started", j)) + (IF e = Msg("started", j) THEN 1 ELSE 0)
      BY <1>1, <3>2, NAppend
    <3>4. obs' \in Seq(Reports(begun))
      BY <1>1, <3>2
    <3> QED
      BY <1>1, <2>1, <3>3, <3>4
  <2>2. CASE /\ e.m = "done" /\ Len(outQ) < OutputCapacity
             /\ outQ' = Append(outQ, Msg("prepare", e.k)) /\ UNCHANGED <<turns, obs>>
    <3>1. Msg("prepare", e.k) \in Works(begun)
      BY <1>1, <1>3, MsgOf
    <3>2. outQ' \in Seq(Works(begun)) /\ Len(outQ') <= OutputCapacity
      BY <1>1, <2>2, <3>1, Bounds
    <3> QED
      BY <1>1, <1>5, <1>6, <2>2, <3>2
  <2>3. CASE /\ e.m # "started"
             /\ \/ DrainIfReady(e.k, Terminal(turns, e.k), outQ, <<Msg("failed", e.k)>>)
                \/ DrainIfReady(e.k, Terminal(turns, e.k), outQ, <<>>)
    <3>1. MapOf(Terminal(turns, e.k), begun)
      BY <1>1, TerminalOf
    <3>2. /\ MapOf(turns', begun) /\ obs' \in Seq(Reports(begun))
          /\ outQ' \in Seq(Works(begun)) /\ Len(outQ') <= OutputCapacity
          /\ \A j : N(obs', Msg("started", j)) = N(obs, Msg("started", j))
      <4>1. CASE DrainIfReady(e.k, Terminal(turns, e.k), outQ, <<Msg("failed", e.k)>>)
        BY <1>3, <3>1, <4>1, DrainTyped
      <4>2. CASE DrainIfReady(e.k, Terminal(turns, e.k), outQ, <<>>)
        BY <1>3, <3>1, <4>2, DrainTyped
      <4> QED
        BY <2>3, <4>1, <4>2
    <3> QED
      BY <1>5, <1>6, <2>3, <3>2
  <2> QED
    BY <2>1, <2>2, <2>3 DEF TtsFeedback
<1> QED
  BY <1>1, <1>2, <1>4, <1>7 DEF ExecutorTypes

\* and when the output worker or the callback does
LEMMA OutputFeedbackTyped ==
  ASSUME Typed, OutputFeedback \/ SilentFeedback
  PROVE  /\ ExecutorTypes'
         /\ outQ' \in Seq(Works(begun)) /\ Len(outQ') <= OutputCapacity
         /\ \A j : N(obs', Msg("started", j)) = N(obs, Msg("started", j))
<1>1. /\ begun \in Nat /\ acts \in Seq(Commands(begun)) /\ obs \in Seq(Reports(begun))
      /\ open \in BOOLEAN /\ MapOf(turns, begun) /\ active \in 0..begun
      /\ outEv \in Seq(Prepared(begun))
  BY Bounds DEF Typed, CoreTypes, ExecutorTypes, OutputTypes
<1>2. core' = core /\ UNCHANGED <<acts, open, active>>
  BY DEF OutputFeedback, SilentFeedback
<1>3. begun' = begun
  BY <1>2 DEF core
<1>4. /\ MapOf(turns', begun) /\ obs' \in Seq(Reports(begun))
      /\ outQ' \in Seq(Works(begun)) /\ Len(outQ') <= OutputCapacity
      /\ \A j : N(obs', Msg("started", j)) = N(obs, Msg("started", j))
  <2>1. CASE SilentFeedback
    BY <1>1, <2>1, DrainTyped DEF SilentFeedback
  <2>2. CASE OutputFeedback
    <3> DEFINE e == Head(outEv)
               told == IF e.m \in {"failed", "finish failed"} THEN <<Msg("failed", e.k)>> ELSE <<>>
               ts == IF e.m \in {"prepared", "cancelled", "failed", "finish failed"}
                       THEN Terminal(turns, e.k)
                     ELSE IF e.m = "finished" /\ e.k \in DOMAIN turns
                       THEN [turns EXCEPT ![e.k].flushed = TRUE]
                     ELSE turns
    <3>1. DrainIfReady(active, ts, outQ, told)
      BY <2>2 DEF OutputFeedback
    <3>2. outEv # <<>>
      BY <2>2 DEF OutputFeedback
    <3>3. e.m # "capacity" => e.k \in 1..begun
      BY <1>1, <3>2, HeadOf
    <3>4. MapOf(ts, begun)
      <4>1. MapOf(Terminal(turns, e.k), begun)
        BY <1>1, TerminalOf
      <4>2. e.k \in DOMAIN turns => MapOf([turns EXCEPT ![e.k].flushed = TRUE], begun)
        BY <1>1, FlagOf
      <4> QED
        BY <1>1, <4>1, <4>2
    <3>5. told = <<>> \/ (\E j \in 1..begun : told = <<Msg("failed", j)>>)
      BY <3>3
    <3> HIDE DEF ts, told
    <3> QED
      BY <3>1, <3>4, <3>5, DrainTyped
  <2> QED
    BY <2>1, <2>2
<1> QED
  BY <1>1, <1>2, <1>3, <1>4 DEF ExecutorTypes

\* The callback's reports, forwarded as faded turns
LEMMA RenderFeedbackTyped ==
  ASSUME Typed, RenderFeedback
  PROVE  /\ ExecutorTypes'
         /\ \A j : N(obs', Msg("started", j)) = N(obs, Msg("started", j))
<1>1. /\ begun \in Nat /\ acts \in Seq(Commands(begun)) /\ obs \in Seq(Reports(begun))
      /\ open \in BOOLEAN /\ MapOf(turns, begun) /\ active \in 0..begun /\ rendEv \in Seq(1..begun)
  BY Bounds DEF Typed, CoreTypes, ExecutorTypes, CallbackTypes
<1>2. core' = core /\ UNCHANGED <<acts, open, active>> /\ rendEv # <<>>
  BY DEF RenderFeedback
<1>3. begun' = begun
  BY <1>2 DEF core
<1>4. Head(rendEv) \in 1..begun
  BY <1>1, <1>2, HeadOf
<1>5. MapOf(Without(turns, Head(rendEv)), begun)
  BY <1>1, WithoutOf
<1>6. Msg("faded", Head(rendEv)) \in Reports(begun) /\ \A j : Msg("faded", Head(rendEv)) # Msg("started", j)
  <2>1. Msg("faded", Head(rendEv)) \in Reports(begun)
    BY <1>1, <1>4, MsgOf
  <2> QED
    BY <2>1 DEF Msg
<1>7. obs' = obs \/ obs' = Append(obs, Msg("faded", Head(rendEv)))
  BY DEF RenderFeedback
<1>8. \A j : N(Append(obs, Msg("faded", Head(rendEv))), Msg("started", j)) = N(obs, Msg("started", j))
  <2> SUFFICES ASSUME NEW j
               PROVE  N(Append(obs, Msg("faded", Head(rendEv))), Msg("started", j))
                        = N(obs, Msg("started", j))
    OBVIOUS
  <2>1. N(obs, Msg("started", j)) \in Nat
    BY <1>1, NZero
  <2>2. N(Append(obs, Msg("faded", Head(rendEv))), Msg("started", j)) = N(obs, Msg("started", j)) + 0
    BY <1>1, <1>6, NAppend
  <2> QED
    BY <2>1, <2>2
<1>9. obs' \in Seq(Reports(begun)) /\ turns' = Without(turns, Head(rendEv))
  BY <1>1, <1>6, <1>7 DEF RenderFeedback
<1> QED
  BY <1>1, <1>2, <1>3, <1>5, <1>7, <1>8, <1>9 DEF ExecutorTypes

\* The executor's types
LEMMA ExecutorStep ==
  ASSUME Typed, Next
  PROVE  ExecutorTypes'
<1>1. /\ begun \in Nat /\ acts \in Seq(Commands(begun)) /\ obs \in Seq(Reports(begun))
      /\ open \in BOOLEAN /\ MapOf(turns, begun) /\ active \in 0..begun
  BY Bounds DEF Typed, CoreTypes, ExecutorTypes
<1>2. acts \o RetireActions \in Seq(Commands(begun)) /\ (turn # 0 => turn \in 1..begun)
  BY Retiring
<1>3. CASE BeginSpeech
  <2>1. /\ begun' = begun + 1 /\ UNCHANGED <<obs, open, turns, active>>
        /\ acts' = (acts \o RetireActions) \o <<Msg("set", begun + 1)>>
    BY <1>3 DEF BeginSpeech
  <2>2. acts \o RetireActions \in Seq(Commands(begun + 1)) /\ obs \in Seq(Reports(begun + 1))
        /\ MapOf(turns, begun + 1)
    BY <1>1, <1>2, OneMoreOf
  <2>3. Msg("set", begun + 1) \in Commands(begun + 1)
    <3>1. begun + 1 \in Nat /\ begun + 1 \in 1..begun + 1
      BY <1>1
    <3> QED
      BY <3>1, MsgOf
  <2>4. acts' \in Seq(Commands(begun + 1))
    BY <2>1, <2>2, <2>3
  <2>5. active \in 0..begun + 1
    BY <1>1
  <2> QED
    BY <1>1, <2>1, <2>2, <2>4, <2>5 DEF ExecutorTypes
<1>4. CASE EnqueueSpeech
  <2>1. Msg("enqueue", turn) \in Commands(begun)
    BY <1>1, <1>2, <1>4, MsgOf DEF EnqueueSpeech
  <2>2. acts' \in Seq(Commands(begun))
    BY <1>1, <1>4, <2>1 DEF EnqueueSpeech
  <2> QED
    BY <1>1, <1>4, <2>2 DEF EnqueueSpeech, ExecutorTypes
<1>5. CASE FinishSpeech
  <2>1. Msg("finish", turn) \in Commands(begun)
    BY <1>1, <1>2, <1>5, MsgOf DEF FinishSpeech
  <2>2. acts' \in Seq(Commands(begun))
    BY <1>1, <1>5, <2>1 DEF FinishSpeech
  <2> QED
    BY <1>1, <1>5, <2>2 DEF FinishSpeech, ExecutorTypes
<1>6. CASE CancelSpeech
  BY <1>1, <1>2, <1>6 DEF CancelSpeech, ExecutorTypes
<1>7. CASE CloseSession
  <2>1. Msg("close", 0) \in Commands(begun)
    BY DEF Commands
  <2>2. acts' = (acts \o RetireActions) \o <<Msg("close", 0)>>
    BY <1>7 DEF CloseSession
  <2>3. acts' \in Seq(Commands(begun))
    BY <1>2, <2>1, <2>2
  <2> QED
    BY <1>1, <1>7, <2>3 DEF CloseSession, ExecutorTypes
<1>8. CASE Observe
  <2>1. obs' = Tail(obs) /\ obs # <<>> /\ UNCHANGED <<begun, open, turns, active>>
    BY <1>8 DEF Observe
  <2>2. acts' = acts \/ acts' = acts \o RetireActions
    BY <1>8 DEF Observe, SynthesisStarted, SynthesisFailed, PlaybackDrained, FadeDrained
  <2>3. Tail(obs) \in Seq(Reports(begun))
    BY <1>1, <2>1, HeadOf
  <2> QED
    BY <1>1, <1>2, <2>1, <2>2, <2>3 DEF ExecutorTypes
<1>9. CASE UNCHANGED <<core, acts, obs, open, turns, active>>
  BY <1>1, <1>9 DEF core, ExecutorTypes
<1> QED
  BY <1>3, <1>4, <1>5, <1>6, <1>7, <1>8, <1>9, CoreFrame, ExecutorFrame, ExecuteTyped,
     TtsFeedbackTyped, OutputFeedbackTyped, RenderFeedbackTyped DEF Next

\* The synthesis worker's types
LEMMA SynthesisStep ==
  ASSUME Typed, Next
  PROVE  SynthesisTypes'
<1>1. /\ begun \in Nat /\ ttsQ \in Seq(1..begun) /\ Len(ttsQ) <= TtsCapacity /\ busy \in 0..begun
      /\ ttsEv \in Seq(Syntheses(begun)) /\ cancelled \subseteq 1..begun /\ TtsCapacity \in Nat
  BY Bounds DEF Typed, CoreTypes, SynthesisTypes
<1>2. \A k \in 1..begun : \A what \in {"started", "done", "failed", "cancelled"} :
        Append(ttsEv, Msg(what, k)) \in Seq(Syntheses(begun))
  <2>1. \A k \in 1..begun : \A what \in {"started", "done", "failed", "cancelled"} :
          Msg(what, k) \in Syntheses(begun)
    BY <1>1, MsgOf
  <2> QED
    BY <1>1, <2>1
<1>3. CASE BeginSpeech
  <2>1. begun' = begun + 1 /\ UNCHANGED <<ttsQ, busy, ttsEv, cancelled>>
    BY <1>3 DEF BeginSpeech, synthesis
  <2>2. ttsQ \in Seq(1..begun + 1) /\ ttsEv \in Seq(Syntheses(begun + 1))
    BY <1>1, OneMoreOf
  <2> QED
    BY <1>1, <2>1, <2>2 DEF SynthesisTypes
<1>4. CASE Execute
  <2> DEFINE a == Head(acts)
  <2>1. acts # <<>> /\ begun' = begun /\ ttsEv' = ttsEv
    BY <1>4 DEF Execute, core
  <2>2. a.m # "close" => a.k \in 1..begun
    BY <1>1, <2>1, HeadOf DEF Typed, ExecutorTypes
  <2>3. CASE a.m = "enqueue" /\ EnqueueTts(a.k)
    <3>1. UNCHANGED <<busy, cancelled>>
      BY <2>3 DEF EnqueueTts
    <3>2. \/ Len(ttsQ) < TtsCapacity /\ ttsQ' = Append(ttsQ, a.k)
          \/ ttsQ' = ttsQ
      BY <2>3 DEF EnqueueTts
    <3>3. ttsQ' \in Seq(1..begun) /\ Len(ttsQ') <= TtsCapacity
      <4>1. a.k \in 1..begun
        BY <2>2, <2>3
      <4> HIDE DEF a
      <4>2. CASE Len(ttsQ) < TtsCapacity /\ ttsQ' = Append(ttsQ, a.k)
        BY <1>1, <4>1, <4>2
      <4>3. CASE ttsQ' = ttsQ
        BY <1>1, <4>3
      <4> QED
        BY <3>2, <4>2, <4>3
    <3> QED
      BY <1>1, <2>1, <3>1, <3>3 DEF SynthesisTypes
  <2>4. CASE a.m = "retire" /\ RetireOutput(a.k)
    BY <1>1, <2>1, <2>2, <2>4 DEF RetireOutput, SynthesisTypes
  <2>5. CASE \/ a.m = "finish" /\ FinishTts(a.k)
             \/ a.m = "set" /\ SetOutputGeneration(a.k)
             \/ a.m = "close" /\ CloseRoute
    <3>1. UNCHANGED <<ttsQ, busy, cancelled>>
      BY <2>5 DEF FinishTts, SetOutputGeneration, CloseRoute
    <3> QED
      BY <1>1, <2>1, <3>1 DEF SynthesisTypes
  <2> QED
    BY <1>4, <2>3, <2>4, <2>5 DEF Execute
<1>5. CASE TtsFeedback
  <2>1. ttsEv # <<>> /\ ttsEv' = Tail(ttsEv) /\ UNCHANGED <<begun, ttsQ, busy, cancelled>>
    BY <1>5 DEF TtsFeedback, core
  <2>2. Tail(ttsEv) \in Seq(Syntheses(begun))
    BY <1>1, <2>1, HeadOf
  <2> QED
    BY <1>1, <2>1, <2>2 DEF SynthesisTypes
<1>6. CASE Synthesize
  <2> DEFINE k == Head(ttsQ)
  <2>1. /\ ttsQ # <<>> /\ ttsQ' = Tail(ttsQ) /\ UNCHANGED <<begun, cancelled>>
        /\ busy' = IF k \in cancelled THEN 0 ELSE k
        /\ ttsEv' = Append(ttsEv, Msg(IF k \in cancelled THEN "cancelled" ELSE "started", k))
    BY <1>6 DEF Synthesize, core
  <2>2. Tail(ttsQ) \in Seq(1..begun) /\ k \in 1..begun
    BY <1>1, <2>1, HeadOf
  <2>3. Len(Tail(ttsQ)) <= TtsCapacity
    BY <1>1, <2>1
  <2>4. ttsEv' \in Seq(Syntheses(begun)) /\ busy' \in 0..begun
    BY <1>1, <1>2, <2>1, <2>2
  <2> QED
    BY <1>1, <2>1, <2>2, <2>3, <2>4 DEF SynthesisTypes
<1>7. CASE Synthesized
  <2>1. /\ busy # 0 /\ busy' = 0 /\ UNCHANGED <<begun, ttsQ, cancelled>>
        /\ \E what \in {"done", "failed", "cancelled"} : ttsEv' = Append(ttsEv, Msg(what, busy))
    BY <1>7 DEF Synthesized, core
  <2>2. ttsEv' \in Seq(Syntheses(begun))
    BY <1>1, <1>2, <2>1
  <2> QED
    BY <1>1, <2>1, <2>2 DEF SynthesisTypes
<1>8. CASE begun' = begun /\ UNCHANGED synthesis
  BY <1>1, <1>8 DEF synthesis, SynthesisTypes
<1>9. EnqueueSpeech \/ FinishSpeech \/ CancelSpeech \/ CloseSession \/ Observe
      => begun' = begun /\ UNCHANGED synthesis
  BY DEF EnqueueSpeech, FinishSpeech, CancelSpeech, CloseSession, Observe
<1>10. OutputFeedback \/ RenderFeedback \/ SilentFeedback
      => begun' = begun /\ UNCHANGED synthesis
  BY DEF OutputFeedback, RenderFeedback, SilentFeedback, core
<1>11. Prepare \/ FinishOutput \/ ServiceCapacity \/ Play \/ FadeComplete
      => begun' = begun /\ UNCHANGED synthesis
  BY DEF Prepare, FinishOutput, ServiceCapacity, Play, FadeComplete, core
<1> QED
  BY <1>3, <1>4, <1>5, <1>6, <1>7, <1>8, <1>9, <1>10, <1>11 DEF Next

\* The callback's types
LEMMA CallbackStep ==
  ASSUME Typed, Next
  PROVE  CallbackTypes'
<1>1. /\ begun \in Nat /\ begun <= MaxTurns /\ MaxTurns \in Nat /\ MaxFailures \in Nat
      /\ fade \in 0..begun /\ rendEv \in Seq(1..begun) /\ faded \subseteq 1..begun
      /\ spoken \in [Turns -> Nat] /\ failures \in 0..MaxFailures
  BY Bounds DEF Typed, CoreTypes, CallbackTypes
<1>2. fade # 0 /\ FadeEnd => fade' \in 0..begun /\ rendEv' \in Seq(1..begun) /\ faded' \subseteq 1..begun
  BY <1>1 DEF FadeEnd
<1>3. CASE BeginSpeech
  <2>1. begun' = begun + 1 /\ UNCHANGED <<fade, rendEv, faded, spoken, failures>>
    BY <1>3 DEF BeginSpeech, callback
  <2>2. rendEv \in Seq(1..begun + 1)
    BY <1>1, OneMoreOf
  <2> QED
    BY <1>1, <2>1, <2>2 DEF CallbackTypes
<1>4. CASE Execute
  <2> DEFINE a == Head(acts)
  <2>1. acts # <<>> /\ UNCHANGED <<begun, spoken, failures>>
    BY <1>4 DEF Execute, core
  <2>2. a.m # "close" => a.k \in 1..begun
    BY <1>1, <2>1, HeadOf DEF Typed, ExecutorTypes
  <2>3. CASE a.m = "retire" /\ RetireOutput(a.k)
    <3>1. \/ fade' = a.k /\ UNCHANGED <<rendEv, faded>>
          \/ fade # 0 /\ FadeEnd
      BY <2>3 DEF RetireOutput
    <3>2. a.k \in 0..begun
      BY <1>1, <2>2, <2>3
    <3>3. fade' \in 0..begun /\ rendEv' \in Seq(1..begun) /\ faded' \subseteq 1..begun
      BY <1>1, <1>2, <3>1, <3>2
    <3> QED
      BY <1>1, <2>1, <3>3 DEF CallbackTypes
  <2>4. CASE a.m = "close" /\ CloseRoute
    <3>1. fade' = 0 /\ rendEv' = rendEv /\ faded' \subseteq faded
      BY <2>4 DEF CloseRoute
    <3> QED
      BY <1>1, <2>1, <3>1 DEF CallbackTypes
  <2>5. CASE \/ a.m = "finish" /\ FinishTts(a.k)
             \/ a.m = "set" /\ SetOutputGeneration(a.k)
             \/ a.m = "enqueue" /\ EnqueueTts(a.k)
    <3>1. UNCHANGED <<fade, rendEv, faded>>
      BY <2>5 DEF FinishTts, SetOutputGeneration, EnqueueTts
    <3> QED
      BY <1>1, <2>1, <3>1 DEF CallbackTypes
  <2> QED
    BY <1>4, <2>3, <2>4, <2>5 DEF Execute
<1>5. CASE RenderFeedback
  <2>1. rendEv # <<>> /\ rendEv' = Tail(rendEv) /\ UNCHANGED <<begun, fade, faded, spoken, failures>>
    BY <1>5 DEF RenderFeedback, core, history
  <2>2. Tail(rendEv) \in Seq(1..begun)
    BY <1>1, <2>1, HeadOf
  <2> QED
    BY <1>1, <2>1, <2>2 DEF CallbackTypes
<1>6. CASE Play
  <2>1. active \in Turns /\ UNCHANGED <<begun, fade, rendEv, faded, failures>>
        /\ spoken' = [spoken EXCEPT ![active] = @ + 1]
    BY <1>1, <1>6 DEF Play, core, callback, Typed, OutputTypes, ExecutorTypes, Turns
  <2> QED
    BY <1>1, <2>1 DEF CallbackTypes
<1>7. CASE FadeComplete
  BY <1>1, <1>2, <1>7 DEF FadeComplete, core, history, CallbackTypes
<1>8. CASE /\ UNCHANGED <<begun, fade, rendEv, faded, spoken>>
           /\ failures' = failures \/ Fails
  BY <1>1, <1>8 DEF CallbackTypes, Fails
<1>9. EnqueueSpeech \/ FinishSpeech \/ CancelSpeech \/ CloseSession \/ Observe
      => UNCHANGED <<begun, fade, rendEv, faded, spoken, failures>>
  BY DEF EnqueueSpeech, FinishSpeech, CancelSpeech, CloseSession, Observe, callback, history
<1>10. OutputFeedback \/ SilentFeedback \/ TtsFeedback
      => UNCHANGED <<begun, fade, rendEv, faded, spoken, failures>>
  BY DEF OutputFeedback, SilentFeedback, TtsFeedback, core, callback, history
<1>11. FinishOutput \/ ServiceCapacity \/ Synthesize
      => UNCHANGED <<begun, fade, rendEv, faded, spoken, failures>>
  BY DEF FinishOutput, ServiceCapacity, Synthesize, core, callback, history
<1>12. Prepare \/ Synthesized
      => UNCHANGED <<begun, fade, rendEv, faded, spoken>> /\ (failures' = failures \/ Fails)
  BY DEF Prepare, Synthesized, core, callback
<1> QED
  BY <1>3, <1>4, <1>5, <1>6, <1>7, <1>8, <1>9, <1>10, <1>11, <1>12 DEF Next

\* The output worker's types
LEMMA OutputStep ==
  ASSUME Typed, Next
  PROVE  OutputTypes'
<1>1. /\ begun \in Nat /\ outQ \in Seq(Works(begun)) /\ Len(outQ) <= OutputCapacity
      /\ outEv \in Seq(Prepared(begun)) /\ OutputCapacity \in Nat /\ Lead \in Nat
      /\ ring \in 0..Lead /\ (ring > 0 => active # 0) /\ empty \in BOOLEAN /\ wake \in BOOLEAN
      /\ active \in 0..begun
  BY Bounds DEF Typed, CoreTypes, ExecutorTypes, OutputTypes
<1>2. \A k \in 1..begun : \A what \in {"prepared", "cancelled", "failed", "finished", "finish failed"} :
        Append(outEv, Msg(what, k)) \in Seq(Prepared(begun))
  <2>1. \A k \in 1..begun : \A what \in {"prepared", "cancelled", "failed", "finished", "finish failed"} :
          Msg(what, k) \in Prepared(begun)
    BY <1>1, MsgOf
  <2>2. \A S : outEv \in Seq(S) => \A y \in S : Append(outEv, y) \in Seq(S)
    OBVIOUS
  <2> QED
    BY <1>1, <2>1, <2>2
<1>3. ASSUME outQ # <<>>
      PROVE  /\ Tail(outQ) \in Seq(Works(begun)) /\ Len(Tail(outQ)) <= OutputCapacity
             /\ Head(outQ).k \in 1..begun
  <2>1. Tail(outQ) \in Seq(Works(begun)) /\ Head(outQ).k \in 1..begun
    BY <1>1, <1>3, HeadOf
  <2>2. Len(Tail(outQ)) <= OutputCapacity
    BY <1>1, <1>3
  <2> QED
    BY <2>1, <2>2
<1>4. CASE BeginSpeech
  <2>1. begun' = begun + 1 /\ UNCHANGED <<outQ, outEv, ring, empty, wake, active>>
    BY <1>4 DEF BeginSpeech, output
  <2>2. outQ \in Seq(Works(begun + 1)) /\ outEv \in Seq(Prepared(begun + 1))
    BY <1>1, OneMoreOf
  <2> QED
    BY <1>1, <2>1, <2>2 DEF OutputTypes
<1>5. CASE Execute
  <2> DEFINE a == Head(acts)
  <2>1. /\ outQ' \in Seq(Works(begun)) /\ Len(outQ') <= OutputCapacity
        /\ UNCHANGED <<begun, outEv, wake>>
    BY <1>5, ExecuteTyped DEF Execute, core
  <2>2. CASE \/ a.m = "set" /\ SetOutputGeneration(a.k)
             \/ a.m = "retire" /\ RetireOutput(a.k)
             \/ a.m = "close" /\ CloseRoute
    <3>1. ring' = 0 /\ empty' \in BOOLEAN
      BY <1>1, <2>2 DEF SetOutputGeneration, RetireOutput, CloseRoute
    <3> QED
      BY <1>1, <2>1, <3>1 DEF OutputTypes
  <2>3. CASE \/ a.m = "finish" /\ FinishTts(a.k)
             \/ a.m = "enqueue" /\ EnqueueTts(a.k)
    <3>1. UNCHANGED <<ring, empty, active>>
      BY <2>3 DEF FinishTts, EnqueueTts
    <3> QED
      BY <1>1, <2>1, <3>1 DEF OutputTypes
  <2> QED
    BY <1>5, <2>2, <2>3 DEF Execute
<1>6. CASE TtsFeedback
  <2>1. outQ' \in Seq(Works(begun)) /\ Len(outQ') <= OutputCapacity
    BY <1>6, TtsFeedbackTyped
  <2>2. UNCHANGED <<begun, outEv, ring, empty, wake, active>>
    BY <1>6 DEF TtsFeedback, core
  <2> QED
    BY <1>1, <2>1, <2>2 DEF OutputTypes
<1>7. CASE OutputFeedback \/ SilentFeedback
  <2>1. outQ' \in Seq(Works(begun)) /\ Len(outQ') <= OutputCapacity
    BY <1>7, OutputFeedbackTyped
  <2>2. UNCHANGED <<begun, ring, empty, wake, active>>
    BY <1>7 DEF OutputFeedback, SilentFeedback, core
  <2>3. outEv' = outEv \/ (outEv # <<>> /\ outEv' = Tail(outEv))
    BY <1>7 DEF OutputFeedback, SilentFeedback
  <2>4. outEv' \in Seq(Prepared(begun))
    BY <1>1, <2>3, HeadOf
  <2> QED
    BY <1>1, <2>1, <2>2, <2>4 DEF OutputTypes
<1>8. CASE Prepare
  <2>1. outQ # <<>> /\ outQ' = Tail(outQ) /\ UNCHANGED <<begun, wake, active>>
    BY <1>8 DEF Prepare, core
  <2>2. \E what \in {"cancelled", "prepared", "failed"} : outEv' = Append(outEv, Msg(what, Head(outQ).k))
    BY <1>8 DEF Prepare
  <2>3. outEv' \in Seq(Prepared(begun))
    BY <1>2, <1>3, <2>1, <2>2
  <2>4. \/ UNCHANGED <<ring, empty>>
        \/ /\ active = Head(outQ).k /\ ring < Lead
           /\ ring' = ring + 1 /\ empty' = FALSE
    BY <1>8 DEF Prepare, HasRoom
  <2>5. ring' \in 0..Lead /\ (ring' > 0 => active # 0) /\ empty' \in BOOLEAN
    <3>1. CASE UNCHANGED <<ring, empty>>
      BY <1>1, <3>1
    <3>2. CASE active = Head(outQ).k /\ ring < Lead /\ ring' = ring + 1 /\ empty' = FALSE
      <4>1. Head(outQ).k \in 1..begun
        BY <1>3, <2>1
      <4>2. active # 0
        BY <3>2, <4>1
      <4>3. ring' \in 0..Lead
        BY <1>1, <3>2
      <4>4. empty' \in BOOLEAN
        BY <3>2
      <4> QED
        BY <4>2, <4>3, <4>4
    <3> QED
      BY <2>4, <3>1, <3>2
  <2> QED
    BY <1>1, <1>3, <2>1, <2>3, <2>5 DEF OutputTypes
<1>9. CASE FinishOutput
  <2>1. outQ # <<>> /\ outQ' = Tail(outQ) /\ UNCHANGED <<begun, ring, wake, active>>
    BY <1>9 DEF FinishOutput, core
  <2>2. \/ outEv' = outEv
        \/ \E what \in {"finished", "finish failed"} : outEv' = Append(outEv, Msg(what, Head(outQ).k))
    BY <1>9 DEF FinishOutput
  <2>3. outEv' \in Seq(Prepared(begun))
    BY <1>1, <1>2, <1>3, <2>1, <2>2
  <2>4. empty' \in BOOLEAN
    BY <1>1, <1>9 DEF FinishOutput
  <2> QED
    BY <1>1, <1>3, <2>1, <2>3, <2>4 DEF OutputTypes
<1>10. CASE ServiceCapacity
  <2>1. UNCHANGED <<begun, outQ, ring, active>> /\ wake' \in BOOLEAN /\ empty' \in BOOLEAN
    BY <1>10 DEF ServiceCapacity, core
  <2>2. Msg("capacity", 0) \in Prepared(begun)
    BY DEF Prepared
  <2>3. outEv' \in Seq(Prepared(begun))
    BY <1>1, <1>10, <2>2 DEF ServiceCapacity
  <2> QED
    BY <1>1, <2>1, <2>3 DEF OutputTypes
<1>11. CASE Play
  <2>1. ring > 0 /\ ring' = ring - 1 /\ wake' \in BOOLEAN /\ UNCHANGED <<begun, outQ, outEv, empty, active>>
    BY <1>11 DEF Play, core
  <2> QED
    BY <1>1, <2>1 DEF OutputTypes
<1>12. CASE UNCHANGED <<begun, outQ, outEv, ring, empty, wake, active>>
  BY <1>1, <1>12 DEF OutputTypes
<1>13. EnqueueSpeech \/ FinishSpeech \/ CancelSpeech \/ CloseSession \/ Observe
       => UNCHANGED <<begun, outQ, outEv, ring, empty, wake, active>>
  BY DEF EnqueueSpeech, FinishSpeech, CancelSpeech, CloseSession, Observe, output
<1>14. RenderFeedback \/ Synthesize \/ Synthesized \/ FadeComplete
       => UNCHANGED <<begun, outQ, outEv, ring, empty, wake, active>>
  BY DEF RenderFeedback, Synthesize, Synthesized, FadeComplete, core, output
<1> QED
  BY <1>4, <1>5, <1>6, <1>7, <1>8, <1>9, <1>10, <1>11, <1>12, <1>13, <1>14 DEF Next

-----------------------------------------------------------------------------
(* One terminal event *)

\* A turn that leaves the active or the retiring slot had no event yet.
LEMMA TerminalStep ==
  ASSUME Typed, Terminal1, Next
  PROVE  Terminal1'
<1>1. /\ begun \in Nat /\ begun <= MaxTurns /\ MaxTurns \in Nat
      /\ turn \in 0..begun /\ retiring \in 0..begun
      /\ ended \in [Turns -> Seq({"completed", "cancelled", "failed"})]
      /\ \A k \in Turns : k > begun => ended[k] = <<>>
  BY Bounds DEF Typed, CoreTypes
<1>2. \A k \in Turns : Len(ended[k]) <= 1 /\ (ended[k] # <<>> => turn # k /\ retiring # k)
  BY DEF Terminal1, OneTerminalEvent
<1>3. turn # 0 => turn # retiring
  BY DEF Terminal1
<1>4. CASE BeginSpeech
  <2>1. turn' = begun + 1 /\ ended' = ended /\ retiring' \in {turn, retiring} /\ begun < MaxTurns
        /\ (turn # 0 => retiring' = turn) /\ (turn = 0 => retiring' = retiring)
    BY <1>4 DEF BeginSpeech, RetireIfAny, Retire
  <2>2. ended[begun + 1] = <<>> /\ begun + 1 \in Turns
    BY <1>1, <2>1 DEF Turns
  <2> QED
    BY <1>1, <1>2, <2>1, <2>2 DEF Terminal1, OneTerminalEvent, Turns
<1>5. CASE CancelSpeech \/ CloseSession
  <2>1. turn' = 0 /\ ended' = ended /\ retiring' \in {turn, retiring}
    BY <1>5 DEF CancelSpeech, CloseSession, RetireIfAny, Retire
  <2> QED
    BY <1>1, <1>2, <2>1 DEF Terminal1, OneTerminalEvent, Turns
<1>6. CASE Observe
  <2> DEFINE o == Head(obs)
  <2>1. o.k \in 1..begun
    BY <1>1, <1>6, HeadOf DEF Observe, Typed, ExecutorTypes
  <2>2. o.k \in Turns
    BY <1>1, <2>1 DEF Turns
  <2> HIDE DEF o
  <2>3. ASSUME NEW event \in {"completed", "cancelled", "failed"}, Emit(o.k, event), ended[o.k] = <<>>
        PROVE  /\ Len(ended'[o.k]) <= 1
               /\ \A k \in Turns : k # o.k => ended'[k] = ended[k]
    BY <1>1, <2>2, <2>3 DEF Emit
  <2>4. CASE SynthesisStarted(o.k)
    BY <1>2, <1>3, <2>4 DEF SynthesisStarted, Terminal1, OneTerminalEvent
  <2>5. CASE SynthesisFailed(o.k)
    BY <1>1, <1>2, <1>3, <2>5 DEF SynthesisFailed, Retire, Terminal1, OneTerminalEvent, Turns
  <2>6. CASE PlaybackDrained(o.k)
    <3>1. CASE Completes(o.k)
      <4>1. turn' = 0 /\ Emit(o.k, "completed") /\ retiring' = retiring /\ turn = o.k
        BY <2>6, <3>1 DEF PlaybackDrained, Completes
      <4>2. ended[o.k] = <<>> /\ retiring # o.k /\ o.k # 0
        BY <1>2, <1>3, <2>1, <2>2, <4>1
      <4>3. Len(ended'[o.k]) <= 1 /\ \A k \in Turns : k # o.k => ended'[k] = ended[k]
        BY <2>3, <4>1, <4>2
      <4> QED
        BY <1>2, <4>1, <4>2, <4>3 DEF Terminal1, OneTerminalEvent, Turns
    <3>2. CASE ~Completes(o.k)
      BY <1>2, <1>3, <2>6, <3>2 DEF PlaybackDrained, Terminal1, OneTerminalEvent
    <3> QED
      BY <3>1, <3>2
  <2>7. CASE FadeDrained(o.k)
    <3>1. CASE retiring = o.k
      <4>1. retiring' = 0 /\ Emit(o.k, outcome) /\ turn' = turn
        BY <2>7, <3>1 DEF FadeDrained
      <4>2. ended[o.k] = <<>> /\ turn # o.k /\ o.k # 0 /\ outcome \in {"cancelled", "failed"}
        BY <1>2, <1>3, <2>1, <2>2, <3>1 DEF Typed, CoreTypes
      <4>3. Len(ended'[o.k]) <= 1 /\ \A k \in Turns : k # o.k => ended'[k] = ended[k]
        BY <2>3, <4>1, <4>2
      <4> QED
        BY <1>2, <4>1, <4>2, <4>3 DEF Terminal1, OneTerminalEvent, Turns
    <3>2. CASE retiring # o.k
      BY <1>2, <1>3, <2>7, <3>2 DEF FadeDrained, Terminal1, OneTerminalEvent
    <3> QED
      BY <3>1, <3>2
  <2> QED
    BY <1>6, <2>4, <2>5, <2>6, <2>7 DEF Observe, o
<1>7. CASE UNCHANGED <<turn, retiring, ended>>
  BY <1>2, <1>3, <1>7 DEF Terminal1, OneTerminalEvent
<1>8. EnqueueSpeech \/ FinishSpeech => UNCHANGED <<turn, retiring, ended>>
  BY DEF EnqueueSpeech, FinishSpeech
<1>9. core' = core => UNCHANGED <<turn, retiring, ended>>
  BY DEF core
<1> QED
  BY <1>4, <1>5, <1>6, <1>7, <1>8, <1>9, CoreFrame DEF Next

-----------------------------------------------------------------------------
(* Admission *)

\* The queues that hold a segment the coordinator has not seen started
LEMMA UnstartedType ==
  ASSUME NEW n \in Nat, NEW a \in Seq(Commands(n)), NEW q \in Seq(1..n),
         NEW e \in Seq(Syntheses(n)), NEW o \in Seq(Reports(n)), NEW k
  PROVE  /\ N(a, Msg("enqueue", k)) \in Nat /\ N(q, k) \in Nat
         /\ N(e, Msg("started", k)) \in Nat /\ N(o, Msg("started", k)) \in Nat
         /\ Unstarted(a, q, e, o, k) =
              N(a, Msg("enqueue", k)) + N(q, k) + N(e, Msg("started", k)) + N(o, Msg("started", k))
BY NZero DEF Unstarted

\* A turn that has not begun has no segments.
LEMMA UnbegunIsEmpty ==
  ASSUME NEW n \in Nat, NEW a \in Seq(Commands(n)), NEW q \in Seq(1..n),
         NEW e \in Seq(Syntheses(n)), NEW o \in Seq(Reports(n))
  PROVE  Unstarted(a, q, e, o, n + 1) = 0
<1>1. \A kinds : \A x \in Of(kinds, n) : x.k # n + 1
  BY DEF Of
<1>2. \A what : Msg(what, n + 1).k = n + 1 /\ Msg("close", 0).k = 0
  BY DEF Msg
<1>3. Msg("enqueue", n + 1) \notin Commands(n)
  BY <1>1, <1>2 DEF Commands
<1>4. Msg("started", n + 1) \notin Syntheses(n) /\ Msg("started", n + 1) \notin Reports(n)
  BY <1>1, <1>2 DEF Syntheses, Reports
<1>5. \A S : \A s \in Seq(S) : \A x : In(x, s) => x \in S
  BY DEF In
<1>6. /\ N(a, Msg("enqueue", n + 1)) = 0 /\ N(e, Msg("started", n + 1)) = 0
      /\ N(o, Msg("started", n + 1)) = 0
  BY <1>3, <1>4, <1>5, NZero
<1>7. N(q, n + 1) = 0
  <2>1. n + 1 \notin 1..n
    OBVIOUS
  <2> QED
    BY <1>5, <2>1, NZero
<1> QED
  BY <1>6, <1>7 DEF Unstarted

\* Only EnqueueSpeech adds to the unstarted segments of a turn, and a started report
\* that is observed was one of them.
LEMMA UnstartedStep ==
  ASSUME Typed, Typed', Next, NEW k
  PROVE  LET U == Unstarted(acts, ttsQ, ttsEv, obs, k)
             V == Unstarted(acts', ttsQ', ttsEv', obs', k)
         IN  /\ U \in Nat /\ V \in Nat
             /\ \/ EnqueueSpeech /\ V = U + (IF turn = k THEN 1 ELSE 0)
                \/ Observe /\ V + (IF Head(obs) = Msg("started", k) THEN 1 ELSE 0) = U
                \/ /\ V <= U /\ segs' = segs
                   /\ BeginSpeech \/ turn' = 0 \/ (turn' = turn /\ started' = started)
<1> DEFINE a == N(acts, Msg("enqueue", k))
           q == N(ttsQ, k)
           e == N(ttsEv, Msg("started", k))
           o == N(obs, Msg("started", k))
           U == Unstarted(acts, ttsQ, ttsEv, obs, k)
           a1 == N(acts', Msg("enqueue", k))
           q1 == N(ttsQ', k)
           e1 == N(ttsEv', Msg("started", k))
           o1 == N(obs', Msg("started", k))
           V == Unstarted(acts', ttsQ', ttsEv', obs', k)
<1>1. /\ begun \in Nat /\ acts \in Seq(Commands(begun)) /\ ttsQ \in Seq(1..begun)
      /\ ttsEv \in Seq(Syntheses(begun)) /\ obs \in Seq(Reports(begun)) /\ turn \in 0..begun
  BY Bounds DEF Typed, CoreTypes, ExecutorTypes, SynthesisTypes
<1>2. /\ begun' \in Nat /\ acts' \in Seq(Commands(begun')) /\ ttsQ' \in Seq(1..begun')
      /\ ttsEv' \in Seq(Syntheses(begun')) /\ obs' \in Seq(Reports(begun'))
  BY Bounds DEF Typed, CoreTypes, ExecutorTypes, SynthesisTypes
<1>3. a \in Nat /\ q \in Nat /\ e \in Nat /\ o \in Nat /\ U = a + q + e + o
  BY <1>1, UnstartedType
<1>4. a1 \in Nat /\ q1 \in Nat /\ e1 \in Nat /\ o1 \in Nat /\ V = a1 + q1 + e1 + o1
  BY <1>2, UnstartedType
<1>5. N(acts \o RetireActions, Msg("enqueue", k)) = a /\ acts \o RetireActions \in Seq(Commands(begun))
  <2>1. CASE turn = 0
    BY <1>1, <2>1, Retiring
  <2>2. CASE turn # 0
    <3>1. /\ acts \o RetireActions = Append(acts, Msg("retire", turn)) /\ turn \in 1..begun
          /\ acts \o RetireActions \in Seq(Commands(begun))
      BY <2>2, Retiring
    <3>2. Msg("retire", turn) \in Commands(begun)
      BY <1>1, <3>1, MsgOf
    <3>3. Msg("retire", turn) # Msg("enqueue", k)
      BY DEF Msg
    <3>4. N(Append(acts, Msg("retire", turn)), Msg("enqueue", k)) = a + 0
      BY <1>1, <3>2, <3>3, NAppend
    <3> QED
      BY <1>3, <3>1, <3>4
  <2> QED
    BY <2>1, <2>2
<1>6. \A y \in {"set", "close"} : \A i : \A s \in Seq(Commands(begun')) :
        Msg(y, i) \in Commands(begun') => N(s \o <<Msg(y, i)>>, Msg("enqueue", k)) = N(s, Msg("enqueue", k))
  <2> SUFFICES ASSUME NEW y \in {"set", "close"}, NEW i, NEW s \in Seq(Commands(begun')),
                      Msg(y, i) \in Commands(begun')
               PROVE  N(s \o <<Msg(y, i)>>, Msg("enqueue", k)) = N(s, Msg("enqueue", k))
    OBVIOUS
  <2>1. s \o <<Msg(y, i)>> = Append(s, Msg(y, i))
    OBVIOUS
  <2>2. Msg(y, i) # Msg("enqueue", k)
    BY DEF Msg
  <2>3. N(Append(s, Msg(y, i)), Msg("enqueue", k)) = N(s, Msg("enqueue", k)) + 0
    BY <2>2, NAppend
  <2>4. N(s, Msg("enqueue", k)) \in Nat
    BY NZero
  <2>5. N(Append(s, Msg(y, i)), Msg("enqueue", k)) = N(s, Msg("enqueue", k))
    BY <2>3, <2>4
  <2> QED
    BY <2>1, <2>5
<1> DEFINE Goal == \/ EnqueueSpeech /\ V = U + (IF turn = k THEN 1 ELSE 0)
                   \/ Observe /\ V + (IF Head(obs) = Msg("started", k) THEN 1 ELSE 0) = U
                   \/ /\ V <= U /\ segs' = segs
                      /\ BeginSpeech \/ turn' = 0 \/ (turn' = turn /\ started' = started)
<1>7. CASE EnqueueSpeech
  <2>1. acts' = Append(acts, Msg("enqueue", turn)) /\ turn # 0 /\ UNCHANGED <<ttsQ, ttsEv, obs>>
    BY <1>7 DEF EnqueueSpeech, synthesis
  <2>2. Msg("enqueue", turn) \in Commands(begun)
    <3>1. turn \in 1..begun
      BY <1>1, <2>1
    <3> QED
      BY <1>1, <3>1, MsgOf
  <2>3. Msg("enqueue", turn) = Msg("enqueue", k) <=> turn = k
    BY DEF Msg
  <2>4. a1 = a + (IF turn = k THEN 1 ELSE 0)
    BY <1>1, <2>1, <2>2, <2>3, NAppend
  <2>5. V = U + (IF turn = k THEN 1 ELSE 0)
    <3>1. q1 = q /\ e1 = e /\ o1 = o
      BY <2>1
    <3> HIDE DEF a, q, e, o, U, a1, q1, e1, o1, V
    <3> QED
      BY <1>3, <1>4, <2>4, <3>1
  <2> QED
    BY <1>3, <1>4, <2>5, <1>7
<1>8. ASSUME a1 <= a, q1 <= q, e1 <= e, o1 <= o PROVE V <= U
  <2> HIDE DEF a, q, e, o, U, a1, q1, e1, o1, V
  <2> QED
    BY <1>3, <1>4, <1>8
<1>9. CASE BeginSpeech
  <2>1. acts' = (acts \o RetireActions) \o <<Msg("set", begun + 1)>> /\ begun' = begun + 1
        /\ UNCHANGED <<ttsQ, ttsEv, obs, segs>>
    BY <1>9 DEF BeginSpeech, synthesis
  <2>2. acts \o RetireActions \in Seq(Commands(begun'))
    BY <1>1, <1>5, <2>1, OneMoreOf
  <2>3. Msg("set", begun + 1) \in Commands(begun')
    <3>1. begun + 1 \in 1..begun'
      BY <1>1, <2>1
    <3> QED
      BY <1>2, <3>1, MsgOf
  <2>4. a1 = a
    BY <1>5, <1>6, <2>1, <2>2, <2>3
  <2> QED
    BY <1>3, <1>4, <1>8, <1>9, <2>1, <2>4
<1>10. CASE FinishSpeech
  <2>1. /\ acts' = Append(acts, Msg("finish", turn)) /\ turn # 0
        /\ UNCHANGED <<ttsQ, ttsEv, obs, segs, turn, started>>
    BY <1>10 DEF FinishSpeech, synthesis
  <2>2. Msg("finish", turn) \in Commands(begun)
    <3>1. turn \in 1..begun
      BY <1>1, <2>1
    <3> QED
      BY <1>1, <3>1, MsgOf
  <2>3. Msg("finish", turn) # Msg("enqueue", k)
    BY DEF Msg
  <2>4. a1 = a + 0
    BY <1>1, <2>1, <2>2, <2>3, NAppend
  <2> QED
    BY <1>3, <1>4, <1>8, <2>1, <2>4
<1>11. CASE CancelSpeech
  <2>1. acts' = acts \o RetireActions /\ turn' = 0 /\ UNCHANGED <<ttsQ, ttsEv, obs, segs>>
    BY <1>11 DEF CancelSpeech, synthesis
  <2> QED
    BY <1>3, <1>4, <1>5, <1>8, <2>1
<1>12. CASE CloseSession
  <2>1. acts' = (acts \o RetireActions) \o <<Msg("close", 0)>> /\ turn' = 0 /\ begun' = begun
        /\ UNCHANGED <<ttsQ, ttsEv, obs, segs>>
    BY <1>12 DEF CloseSession, synthesis
  <2>2. Msg("close", 0) \in Commands(begun')
    BY DEF Commands
  <2>3. a1 = a
    BY <1>5, <1>6, <2>1, <2>2
  <2> QED
    BY <1>3, <1>4, <1>8, <2>1, <2>3
<1>13. CASE Observe
  <2>1. obs # <<>> /\ obs' = Tail(obs) /\ UNCHANGED <<ttsQ, ttsEv>>
    BY <1>13 DEF Observe, synthesis
  <2>2. acts' = acts \/ acts' = acts \o RetireActions
    BY <1>13 DEF Observe, SynthesisStarted, SynthesisFailed, PlaybackDrained, FadeDrained
  <2>3. a1 = a /\ q1 = q /\ e1 = e
    BY <1>5, <2>1, <2>2
  <2>4. o = o1 + (IF Head(obs) = Msg("started", k) THEN 1 ELSE 0)
    BY <1>1, <2>1, NTail
  <2>5. V + (IF Head(obs) = Msg("started", k) THEN 1 ELSE 0) = U
    <3> HIDE DEF a, q, e, o, U, a1, q1, e1, o1, V
    <3> QED
      BY <1>3, <1>4, <2>3, <2>4
  <2> QED
    BY <1>3, <1>4, <1>13, <2>5
<1>14. core' = core => UNCHANGED <<segs, turn, started>>
  BY DEF core
<1>15. CASE Execute
  <2> DEFINE b == Head(acts)
  <2>1. /\ acts # <<>> /\ acts' = Tail(acts) /\ ttsEv' = ttsEv /\ core' = core
        /\ N(obs', Msg("started", k)) = N(obs, Msg("started", k))
    BY <1>15, ExecuteTyped DEF Execute
  <2>2. a = a1 + (IF b = Msg("enqueue", k) THEN 1 ELSE 0)
    BY <1>1, <2>1, NTail
  <2>3. (b.m # "close" => b.k \in 1..begun) /\ b = Msg(b.m, b.k)
    BY <1>1, <2>1, HeadOf
  <2>4. q1 <= q + (IF b = Msg("enqueue", k) THEN 1 ELSE 0)
    <3>1. CASE b.m = "enqueue" /\ EnqueueTts(b.k) /\ Len(ttsQ) < TtsCapacity
      <4>1. ttsQ' = Append(ttsQ, b.k) /\ b.k \in 1..begun
        BY <2>3, <3>1 DEF EnqueueTts
      <4>2. q1 = q + (IF b.k = k THEN 1 ELSE 0)
        <5> HIDE DEF b
        <5> QED
          BY <1>1, <4>1, NAppend
      <4>3. b.k = k <=> b = Msg("enqueue", k)
        BY <2>3, <3>1 DEF Msg
      <4> HIDE DEF q, q1, b
      <4> QED
        BY <1>3, <1>4, <4>2, <4>3
    <3>2. CASE ttsQ' = ttsQ
      BY <1>3, <1>4, <3>2
    <3> QED
      BY <1>15, <3>1, <3>2 DEF Execute, EnqueueTts, FinishTts, SetOutputGeneration,
         RetireOutput, CloseRoute
  <2>5. V <= U
    <3>1. e1 = e /\ o1 = o
      BY <2>1
    <3> HIDE DEF a, q, e, o, U, a1, q1, e1, o1, V, b
    <3> QED
      BY <1>3, <1>4, <2>2, <2>4, <3>1
  <2> QED
    BY <1>3, <1>4, <1>14, <2>1, <2>5, SMTT(60)
<1>16. CASE TtsFeedback
  <2>1. /\ ttsEv # <<>> /\ ttsEv' = Tail(ttsEv) /\ UNCHANGED <<acts, ttsQ>> /\ core' = core
        /\ o1 = o + (IF Head(ttsEv) = Msg("started", k) THEN 1 ELSE 0)
    BY <1>16, TtsFeedbackTyped DEF TtsFeedback
  <2>2. e = e1 + (IF Head(ttsEv) = Msg("started", k) THEN 1 ELSE 0)
    BY <1>1, <2>1, NTail
  <2>5. V <= U
    <3>1. a1 = a /\ q1 = q
      BY <2>1
    <3> HIDE DEF a, q, e, o, U, a1, q1, e1, o1, V
    <3> QED
      BY <1>3, <1>4, <2>1, <2>2, <3>1
  <2> QED
    BY <1>3, <1>4, <1>14, <2>1, <2>5, SMTT(60)
<1>17. CASE OutputFeedback \/ SilentFeedback
  <2>1. UNCHANGED <<acts, ttsQ, ttsEv>> /\ core' = core /\ o1 = o
    BY <1>17, OutputFeedbackTyped DEF OutputFeedback, SilentFeedback, synthesis
  <2> QED
    BY <1>3, <1>4, <1>8, <1>14, <2>1
<1>18. CASE RenderFeedback
  <2>1. UNCHANGED <<acts, ttsQ, ttsEv>> /\ core' = core /\ o1 = o
    BY <1>18, RenderFeedbackTyped DEF RenderFeedback, synthesis
  <2> QED
    BY <1>3, <1>4, <1>8, <1>14, <2>1
<1>19. CASE Synthesize
  <2> DEFINE h == Head(ttsQ)
             what == IF h \in cancelled THEN "cancelled" ELSE "started"
  <2>1. /\ ttsQ # <<>> /\ ttsQ' = Tail(ttsQ) /\ UNCHANGED <<acts, obs>> /\ core' = core
        /\ ttsEv' = Append(ttsEv, Msg(what, h))
    BY <1>19 DEF Synthesize
  <2>2. q = q1 + (IF h = k THEN 1 ELSE 0)
    BY <1>1, <2>1, NTail
  <2>3. h \in 1..begun
    BY <1>1, <2>1, HeadOf
  <2>4. Msg(what, h) \in Syntheses(begun)
    BY <1>1, <2>3, MsgOf
  <2>5. Msg(what, h) = Msg("started", k) => h = k
    BY DEF Msg
  <2>6. e1 = e + (IF Msg(what, h) = Msg("started", k) THEN 1 ELSE 0)
    <3> HIDE DEF what, h
    <3> QED
      BY <1>1, <2>1, <2>4, NAppend
  <2>7. V <= U
    <3>1. a1 = a /\ o1 = o
      BY <2>1
    <3> HIDE DEF a, q, e, o, U, a1, q1, e1, o1, V, h, what
    <3> QED
      BY <1>3, <1>4, <2>2, <2>5, <2>6, <3>1
  <2> QED
    BY <1>3, <1>4, <1>14, <2>1, <2>7, SMTT(60)
<1>20. CASE Synthesized
  <2>1. /\ UNCHANGED <<acts, ttsQ, obs>> /\ core' = core /\ busy # 0
        /\ \E what \in {"done", "failed", "cancelled"} : ttsEv' = Append(ttsEv, Msg(what, busy))
    BY <1>20 DEF Synthesized
  <2>2. PICK what \in {"done", "failed", "cancelled"} : ttsEv' = Append(ttsEv, Msg(what, busy))
    BY <2>1
  <2>3. busy \in 1..begun
    BY <1>1, <2>1 DEF Typed, SynthesisTypes
  <2>4. Msg(what, busy) \in Syntheses(begun) /\ Msg(what, busy) # Msg("started", k)
    <3>1. Msg(what, busy) \in Syntheses(begun)
      BY <1>1, <2>3, MsgOf
    <3> QED
      BY <3>1 DEF Msg
  <2>5. e1 = e + 0
    BY <1>1, <2>2, <2>4, NAppend
  <2> QED
    BY <1>3, <1>4, <1>8, <1>14, <2>1, <2>5
<1>21. CASE Prepare \/ FinishOutput \/ ServiceCapacity \/ Play \/ FadeComplete
  <2>1. UNCHANGED <<acts, ttsQ, ttsEv, obs>> /\ core' = core
    BY <1>21 DEF Prepare, FinishOutput, ServiceCapacity, Play, FadeComplete, synthesis
  <2> QED
    BY <1>3, <1>4, <1>8, <1>14, <2>1
<1> QED
  BY <1>7, <1>9, <1>10, <1>11, <1>12, <1>13, <1>15, <1>16, <1>17, <1>18, <1>19, <1>20, <1>21 DEF Next

\* The coordinator admits a segment of the active turn only while the segments it has not
\* seen started are fewer than the limit.
LEMMA AdmittedStep ==
  ASSUME Typed, Typed', Admitted, Next
  PROVE  Admitted'
<1> DEFINE U(k) == Unstarted(acts, ttsQ, ttsEv, obs, k)
           V(k) == Unstarted(acts', ttsQ', ttsEv', obs', k)
<1>1. /\ begun \in Nat /\ begun <= MaxTurns /\ turn \in 0..begun /\ MaxQueued \in Nat
      /\ segs \in [Turns -> Nat] /\ started \in Nat /\ MaxTurns \in Nat
  BY Bounds DEF Typed, CoreTypes
<1>2. /\ \A k \in Turns : U(k) <= MaxQueued
      /\ turn # 0 => U(turn) + started <= segs[turn] /\ segs[turn] <= started + MaxQueued
  BY DEF Admitted
<1>3. \A k : /\ U(k) \in Nat /\ V(k) \in Nat
             /\ \/ EnqueueSpeech /\ V(k) = U(k) + (IF turn = k THEN 1 ELSE 0)
                \/ Observe /\ V(k) + (IF Head(obs) = Msg("started", k) THEN 1 ELSE 0) = U(k)
                \/ /\ V(k) <= U(k) /\ segs' = segs
                   /\ BeginSpeech \/ turn' = 0 \/ (turn' = turn /\ started' = started)
  BY UnstartedStep
<1>4. (\A k \in Turns : V(k) <= MaxQueued)
      /\ (turn' # 0 => V(turn') + started' <= segs'[turn'] /\ segs'[turn'] <= started' + MaxQueued)
      => Admitted'
  BY DEF Admitted
<1>5. turn # 0 => turn \in Turns
  BY <1>1 DEF Turns
<1> HIDE DEF U, V
<1>6. CASE EnqueueSpeech
  <2>1. /\ turn # 0 /\ segs' = [segs EXCEPT ![turn] = @ + 1] /\ UNCHANGED <<turn, started>>
        /\ segs[turn] - started < MaxQueued
    BY <1>6 DEF EnqueueSpeech, Admits
  <2>2. \A k : V(k) <= U(k) + (IF turn = k THEN 1 ELSE 0)
    <3> SUFFICES ASSUME NEW k PROVE V(k) <= U(k) + (IF turn = k THEN 1 ELSE 0)
      OBVIOUS
    <3> QED
      BY <1>3
  <2>3. segs'[turn] = segs[turn] + 1 /\ segs[turn] \in Nat
    BY <1>1, <1>5, <2>1
  <2>4. U(turn) + 1 + started <= segs[turn] + 1 /\ U(turn) + 1 <= MaxQueued
    BY <1>1, <1>2, <1>3, <2>1, <2>3
  <2>5. ASSUME NEW k \in Turns PROVE V(k) <= MaxQueued
    <3>1. U(k) \in Nat /\ V(k) \in Nat /\ V(k) <= U(k) + (IF turn = k THEN 1 ELSE 0) /\ U(k) <= MaxQueued
      BY <1>2, <1>3, <2>2
    <3>2. CASE turn = k
      BY <1>1, <2>4, <3>1, <3>2
    <3>3. CASE turn # k
      BY <1>1, <3>1, <3>3
    <3> QED
      BY <3>2, <3>3
  <2>6. V(turn) + started <= segs'[turn] /\ segs'[turn] <= started + MaxQueued
    <3>1. U(turn) \in Nat /\ V(turn) \in Nat /\ V(turn) <= U(turn) + 1
      BY <1>3, <2>2
    <3> QED
      BY <1>1, <2>1, <2>3, <2>4, <3>1
  <2> QED
    BY <1>4, <2>1, <2>5, <2>6
<1>7. CASE BeginSpeech
  <2>1. turn' = begun + 1 /\ started' = 0 /\ segs' = segs /\ begun < MaxTurns
        /\ UNCHANGED <<ttsQ, ttsEv, obs>> /\ begun' = begun + 1
        /\ acts' = (acts \o RetireActions) \o <<Msg("set", begun + 1)>>
    BY <1>7 DEF BeginSpeech, synthesis
  <2>2. segs[begun + 1] = 0 /\ begun + 1 \in Turns
    BY <1>1, <2>1 DEF Typed, CoreTypes, Turns
  <2>3. Unstarted(acts, ttsQ, ttsEv, obs, begun + 1) = 0
    BY <1>1, UnbegunIsEmpty DEF Typed, ExecutorTypes, SynthesisTypes
  <2>4. \A k : V(k) <= U(k)
    <3> SUFFICES ASSUME NEW k PROVE V(k) <= U(k)
      OBVIOUS
    <3>1. ~EnqueueSpeech
      BY <1>1, <2>1 DEF EnqueueSpeech
    <3>2. ~Observe
      BY <1>1, <2>1 DEF Observe
    <3> QED
      BY <1>3, <3>1, <3>2
  <2>5. V(begun + 1) = 0
    <3>1. U(begun + 1) = 0
      BY <2>3 DEF U
    <3>2. V(begun + 1) \in Nat /\ V(begun + 1) <= U(begun + 1)
      BY <1>3, <2>4
    <3> QED
      BY <3>1, <3>2
  <2>6. \A k \in Turns : V(k) <= MaxQueued
    BY <1>1, <1>2, <1>3, <2>4
  <2> QED
    BY <1>1, <1>4, <2>1, <2>2, <2>5, <2>6
<1>8. CASE Observe
  <2> DEFINE o == Head(obs)
  <2>1. segs' = segs /\ obs' = Tail(obs) /\ obs # <<>> /\ obs \in Seq(Reports(begun))
    BY <1>8 DEF Observe, Typed, ExecutorTypes
  <2>2. ~EnqueueSpeech
    <3>1. Tail(obs) # obs
      BY <2>1
    <3> QED
      BY <2>1, <3>1 DEF EnqueueSpeech
  <2>3. o = Msg(o.m, o.k)
    BY <1>1, <2>1, HeadOf
  <2>4. \A k : V(k) <= U(k) /\ V(k) \in Nat /\ U(k) \in Nat
    <3> SUFFICES ASSUME NEW k PROVE V(k) <= U(k) /\ V(k) \in Nat /\ U(k) \in Nat
      OBVIOUS
    <3> QED
      BY <1>3, <2>2
  <2>5. \A k \in Turns : V(k) <= MaxQueued
    BY <1>1, <1>2, <2>4
  <2>6. CASE turn' = 0
    BY <1>4, <2>5, <2>6
  <2>7. CASE turn' # 0 /\ o.m = "started" /\ SynthesisStarted(o.k)
    <3>1. turn' = turn /\ turn # 0 /\ segs[turn] \in Nat
      BY <1>1, <1>5, <2>7 DEF SynthesisStarted
    <3>2. CASE turn = o.k
      <4>1. started' = started + 1 /\ o = Msg("started", turn)
        BY <2>3, <2>7, <3>2 DEF SynthesisStarted
      <4>2. V(turn) + 1 <= U(turn) \/ (V(turn) <= U(turn) /\ started' = started)
        <5>1. ~BeginSpeech
          BY <2>1 DEF BeginSpeech
        <5> QED
          BY <1>3, <2>2, <3>1, <4>1, <5>1
      <4>3. V(turn) + 1 <= U(turn)
        BY <1>1, <4>1, <4>2
      <4>4. V(turn) + started' <= segs[turn] /\ segs[turn] <= started' + MaxQueued
        BY <1>1, <1>2, <2>4, <3>1, <4>1, <4>3
      <4> QED
        BY <1>4, <2>1, <2>5, <3>1, <4>4
    <3>3. CASE turn # o.k
      <4>1. started' = started
        BY <2>7, <3>3 DEF SynthesisStarted
      <4>2. V(turn) + started' <= segs[turn] /\ segs[turn] <= started' + MaxQueued
        BY <1>1, <1>2, <2>4, <3>1, <4>1
      <4> QED
        BY <1>4, <2>1, <2>5, <3>1, <4>2
    <3> QED
      BY <3>2, <3>3
  <2>8. CASE turn' # 0 /\ turn' = turn /\ started' = started
    <3>1. V(turn) + started' <= segs[turn] /\ segs[turn] <= started' + MaxQueued /\ segs[turn] \in Nat
      BY <1>1, <1>2, <1>5, <2>4, <2>8
    <3> QED
      BY <1>4, <2>1, <2>5, <2>8, <3>1
  <2>9. \/ turn' = 0
        \/ o.m = "started" /\ SynthesisStarted(o.k)
        \/ turn' = turn /\ started' = started
    BY <1>8 DEF Observe, SynthesisFailed, PlaybackDrained, FadeDrained
  <2> QED
    BY <2>6, <2>7, <2>8, <2>9
<1>9. CASE ~EnqueueSpeech /\ ~Observe /\ ~BeginSpeech
  <2>1. \A k : V(k) <= U(k) /\ V(k) \in Nat /\ U(k) \in Nat
    <3> SUFFICES ASSUME NEW k PROVE V(k) <= U(k) /\ V(k) \in Nat /\ U(k) \in Nat
      OBVIOUS
    <3> QED
      BY <1>3, <1>9
  <2>2. \A k \in Turns : V(k) <= MaxQueued
    BY <1>1, <1>2, <2>1
  <2>3. segs' = segs /\ (turn' = 0 \/ (turn' = turn /\ started' = started))
    BY <1>3, <1>9
  <2>4. turn # 0 /\ started' = started
        => V(turn) + started' <= segs[turn] /\ segs[turn] <= started' + MaxQueued
    BY <1>1, <1>2, <1>5, <2>1
  <2> QED
    BY <1>4, <2>2, <2>3, <2>4
<1> QED
  BY <1>6, <1>7, <1>8, <1>9

-----------------------------------------------------------------------------
(* The order of actions and reports *)

\* The places of a queue after an append and after a tail
LEMMA Places ==
  ASSUME NEW S, NEW q \in Seq(S)
  PROVE  /\ Len(q) \in Nat
         /\ \A y \in S : /\ Len(Append(q, y)) = Len(q) + 1 /\ Append(q, y)[Len(q) + 1] = y
                         /\ \A i \in 1..Len(q) : Append(q, y)[i] = q[i]
         /\ q # <<>> => /\ Len(q) > 0 /\ Len(Tail(q)) = Len(q) - 1 /\ Head(q) = q[1]
                        /\ \A i \in 1..Len(Tail(q)) : Tail(q)[i] = q[i + 1]
OBVIOUS

\* Work on a turn, or its set, appended to the actions
LEMMA SetLastAppend ==
  ASSUME NEW S, NEW q \in Seq(S), NEW y \in S, NEW t
  PROVE  /\ Ordinary(y) /\ SetLast(q, t) => SetLast(Append(q, y), t)
         /\ y = Msg("set", t) => SetLast(Append(q, y), t)
<1> SUFFICES ASSUME NEW r, r = Append(q, y)
             PROVE  /\ Ordinary(y) /\ SetLast(q, t) => SetLast(r, t)
                    /\ y = Msg("set", t) => SetLast(r, t)
  OBVIOUS
<1>1. /\ Len(q) \in Nat /\ Len(r) = Len(q) + 1 /\ r[Len(q) + 1] = y
      /\ \A i \in 1..Len(q) : r[i] = q[i]
  BY Places
<1>2. ASSUME Ordinary(y), SetLast(q, t) PROVE SetLast(r, t)
  <2>1. PICK j \in 1..Len(q) : q[j] = Msg("set", t) /\ \A i \in 1..Len(q) : i > j => Ordinary(q[i])
    BY <1>2 DEF SetLast
  <2>2. j \in 1..Len(r) /\ r[j] = Msg("set", t)
    BY <1>1, <2>1
  <2>3. ASSUME NEW i \in 1..Len(r), i > j PROVE Ordinary(r[i])
    <3>1. CASE i = Len(q) + 1
      BY <1>1, <1>2, <3>1
    <3>2. CASE i # Len(q) + 1
      BY <1>1, <2>1, <2>3, <3>2
    <3> QED
      BY <3>1, <3>2
  <2> QED
    BY <2>2, <2>3 DEF SetLast
<1>3. ASSUME y = Msg("set", t) PROVE SetLast(r, t)
  <2>1. Len(q) + 1 \in 1..Len(r) /\ r[Len(q) + 1] = Msg("set", t)
    BY <1>1, <1>3
  <2>2. \A i \in 1..Len(r) : ~(i > Len(q) + 1)
    BY <1>1
  <2> QED
    BY <2>1, <2>2 DEF SetLast
<1> QED
  BY <1>2, <1>3

\* An action executed: the turn's set still waits, or it was this one.
LEMMA SetLastTail ==
  ASSUME NEW S, NEW q \in Seq(S), q # <<>>, NEW t, SetLast(q, t)
  PROVE  \/ SetLast(Tail(q), t)
         \/ Head(q) = Msg("set", t) /\ \A i \in 1..Len(Tail(q)) : Ordinary(Tail(q)[i])
<1> SUFFICES ASSUME NEW r, r = Tail(q)
             PROVE  \/ SetLast(r, t)
                    \/ Head(q) = Msg("set", t) /\ \A i \in 1..Len(r) : Ordinary(r[i])
  OBVIOUS
<1>1. /\ Len(q) \in Nat /\ Len(q) > 0 /\ Len(r) = Len(q) - 1 /\ Head(q) = q[1]
      /\ \A i \in 1..Len(r) : r[i] = q[i + 1]
  BY Places
<1>2. PICK j \in 1..Len(q) : q[j] = Msg("set", t) /\ \A i \in 1..Len(q) : i > j => Ordinary(q[i])
  BY DEF SetLast
<1>3. \A i \in 1..Len(r) : i + 1 \in 1..Len(q)
  BY <1>1
<1>4. CASE j = 1
  <2>1. \A i \in 1..Len(r) : i + 1 > j
    BY <1>4
  <2> QED
    BY <1>1, <1>2, <1>3, <1>4, <2>1
<1>5. CASE j # 1
  <2>1. j - 1 \in 1..Len(r) /\ r[j - 1] = q[j]
    <3>1. j - 1 \in 1..Len(r) /\ j - 1 + 1 = j
      BY <1>1, <1>5
    <3> QED
      BY <1>1, <3>1
  <2>2. \A i \in 1..Len(r) : i > j - 1 => i + 1 > j
    OBVIOUS
  <2>3. \A i \in 1..Len(r) : i > j - 1 => Ordinary(r[i])
    BY <1>1, <1>2, <1>3, <2>2
  <2> QED
    BY <1>2, <2>1, <2>3 DEF SetLast
<1> QED
  BY <1>4, <1>5

\* A set that comes first stays first.
LEMMA SetFirstAppend ==
  ASSUME NEW S, NEW q \in Seq(S), NEW y \in S, NEW k, SetFirst(q, k),
         y = Msg("set", k) => Free(q, k)
  PROVE  SetFirst(Append(q, y), k)
<1> SUFFICES ASSUME NEW r, r = Append(q, y) PROVE SetFirst(r, k)
  OBVIOUS
<1>1. /\ Len(q) \in Nat /\ Len(r) = Len(q) + 1 /\ r[Len(q) + 1] = y
      /\ \A i \in 1..Len(q) : r[i] = q[i]
  BY Places
<1> SUFFICES ASSUME NEW i \in 1..Len(r), NEW j \in 1..Len(r), r[i] = Msg("set", k), r[j].k = k
             PROVE  i <= j
  BY DEF SetFirst
<1>2. CASE j = Len(q) + 1
  BY <1>1, <1>2
<1>3. CASE j # Len(q) + 1 /\ i # Len(q) + 1
  <2>1. i \in 1..Len(q) /\ j \in 1..Len(q) /\ r[i] = q[i] /\ r[j] = q[j]
    BY <1>1, <1>3
  <2> QED
    BY <2>1 DEF SetFirst
<1>4. CASE j # Len(q) + 1 /\ i = Len(q) + 1
  <2>1. j \in 1..Len(q) /\ r[j] = q[j] /\ y = Msg("set", k)
    BY <1>1, <1>4
  <2> QED
    BY <2>1 DEF Free
<1> QED
  BY <1>2, <1>3, <1>4

\* An action executed keeps a turn's set before its other actions.
LEMMA SetFirstTail ==
  ASSUME NEW S, NEW q \in Seq(S), q # <<>>, NEW k, SetFirst(q, k)
  PROVE  SetFirst(Tail(q), k) /\ (In(Msg("set", k), Tail(q)) => Head(q).k # k)
<1> SUFFICES ASSUME NEW r, r = Tail(q)
             PROVE  SetFirst(r, k) /\ (In(Msg("set", k), r) => Head(q).k # k)
  OBVIOUS
<1>1. /\ Len(q) \in Nat /\ Len(q) > 0 /\ Len(r) = Len(q) - 1 /\ Head(q) = q[1]
      /\ \A i \in 1..Len(r) : r[i] = q[i + 1]
  BY Places
<1>2. \A i \in 1..Len(r) : i + 1 \in 1..Len(q)
  BY <1>1
<1>3. SetFirst(r, k)
  <2> SUFFICES ASSUME NEW i \in 1..Len(r), NEW j \in 1..Len(r), r[i] = Msg("set", k), r[j].k = k
               PROVE  i <= j
    BY DEF SetFirst
  <2>1. i + 1 <= j + 1
    BY <1>1, <1>2 DEF SetFirst
  <2> QED
    BY <2>1
<1>4. ASSUME In(Msg("set", k), r), Head(q).k = k PROVE FALSE
  <2>1. PICK i \in 1..Len(r) : r[i] = Msg("set", k)
    BY <1>4 DEF In
  <2>2. q[i + 1] = Msg("set", k) /\ q[1].k = k /\ i + 1 \in 1..Len(q) /\ 1 \in 1..Len(q)
    BY <1>1, <1>2, <1>4, <2>1
  <2>3. i + 1 <= 1
    BY <2>2 DEF SetFirst
  <2> QED
    BY <2>3
<1> QED
  BY <1>3, <1>4

\* A finish that comes last stays last.
LEMMA FinishLastAppend ==
  ASSUME NEW S, NEW q \in Seq(S), NEW y \in S, NEW k, FinishLast(q, k),
         y = Msg("enqueue", k) => ~In(Msg("finish", k), q)
  PROVE  FinishLast(Append(q, y), k)
<1> SUFFICES ASSUME NEW r, r = Append(q, y) PROVE FinishLast(r, k)
  OBVIOUS
<1>1. /\ Len(q) \in Nat /\ Len(r) = Len(q) + 1 /\ r[Len(q) + 1] = y
      /\ \A i \in 1..Len(q) : r[i] = q[i]
  BY Places
<1> SUFFICES ASSUME NEW i \in 1..Len(r), NEW j \in 1..Len(r),
                    r[i] = Msg("finish", k), r[j] = Msg("enqueue", k)
             PROVE  j < i
  BY DEF FinishLast
<1>2. i # j
  BY DEF Msg
<1>3. CASE i = Len(q) + 1
  BY <1>1, <1>2, <1>3
<1>4. CASE j # Len(q) + 1 /\ i # Len(q) + 1
  <2>1. i \in 1..Len(q) /\ j \in 1..Len(q) /\ r[i] = q[i] /\ r[j] = q[j]
    BY <1>1, <1>4
  <2> QED
    BY <2>1 DEF FinishLast
<1>5. CASE j = Len(q) + 1 /\ i # Len(q) + 1
  <2>1. i \in 1..Len(q) /\ r[i] = q[i] /\ y = Msg("enqueue", k)
    BY <1>1, <1>5
  <2> QED
    BY <2>1 DEF In
<1> QED
  BY <1>3, <1>4, <1>5

\* An action executed keeps a turn's finish after its segments.
LEMMA FinishLastTail ==
  ASSUME NEW S, NEW q \in Seq(S), q # <<>>, NEW k, FinishLast(q, k)
  PROVE  /\ FinishLast(Tail(q), k)
         /\ Head(q) = Msg("finish", k) => ~In(Msg("enqueue", k), Tail(q))
<1> SUFFICES ASSUME NEW r, r = Tail(q)
             PROVE  /\ FinishLast(r, k)
                    /\ Head(q) = Msg("finish", k) => ~In(Msg("enqueue", k), r)
  OBVIOUS
<1>1. /\ Len(q) \in Nat /\ Len(q) > 0 /\ Len(r) = Len(q) - 1 /\ Head(q) = q[1]
      /\ \A i \in 1..Len(r) : r[i] = q[i + 1]
  BY Places
<1>2. \A i \in 1..Len(r) : i + 1 \in 1..Len(q)
  BY <1>1
<1>3. FinishLast(r, k)
  <2> SUFFICES ASSUME NEW i \in 1..Len(r), NEW j \in 1..Len(r),
                      r[i] = Msg("finish", k), r[j] = Msg("enqueue", k)
               PROVE  j < i
    BY DEF FinishLast
  <2>1. j + 1 < i + 1
    BY <1>1, <1>2 DEF FinishLast
  <2> QED
    BY <2>1
<1>4. ASSUME In(Msg("enqueue", k), r), Head(q) = Msg("finish", k) PROVE FALSE
  <2>1. PICK j \in 1..Len(r) : r[j] = Msg("enqueue", k)
    BY <1>4 DEF In
  <2>2. /\ q[j + 1] = Msg("enqueue", k) /\ q[1] = Msg("finish", k)
        /\ j + 1 \in 1..Len(q) /\ 1 \in 1..Len(q)
    BY <1>1, <1>2, <1>4, <2>1
  <2>3. j + 1 < 1
    BY <2>2 DEF FinishLast
  <2> QED
    BY <2>3
<1> QED
  BY <1>3, <1>4

\* A queue free of a turn
LEMMA FreeOf ==
  ASSUME NEW S, NEW q \in Seq(S), NEW k, Free(q, k)
  PROVE  /\ \A what : ~In(Msg(what, k), q) /\ N(q, Msg(what, k)) = 0
         /\ \A y \in S : y.k # k => Free(Append(q, y), k)
         /\ q # <<>> => Free(Tail(q), k) /\ Head(q).k # k
<1>1. \A what : Msg(what, k).k = k
  BY DEF Msg
<1>2. \A what : ~In(Msg(what, k), q)
  BY <1>1 DEF In, Free
<1>3. \A what : N(q, Msg(what, k)) = 0
  BY <1>2, NZero
<1>4. ASSUME NEW y \in S, y.k # k PROVE Free(Append(q, y), k)
  <2> SUFFICES ASSUME NEW r, r = Append(q, y), NEW i \in 1..Len(r) PROVE r[i].k # k
    BY DEF Free
  <2>1. /\ Len(q) \in Nat /\ Len(r) = Len(q) + 1 /\ r[Len(q) + 1] = y
        /\ \A j \in 1..Len(q) : r[j] = q[j]
    BY Places
  <2>2. CASE i = Len(q) + 1
    BY <1>4, <2>1, <2>2
  <2>3. CASE i # Len(q) + 1
    <3>1. i \in 1..Len(q) /\ r[i] = q[i]
      BY <2>1, <2>3
    <3> QED
      BY <3>1 DEF Free
  <2> QED
    BY <2>2, <2>3
<1>5. ASSUME q # <<>> PROVE Free(Tail(q), k) /\ Head(q).k # k
  <2> SUFFICES ASSUME NEW r, r = Tail(q) PROVE Free(r, k) /\ Head(q).k # k
    OBVIOUS
  <2>1. /\ Len(q) \in Nat /\ Len(q) > 0 /\ Len(r) = Len(q) - 1 /\ Head(q) = q[1]
        /\ \A i \in 1..Len(r) : r[i] = q[i + 1]
    BY <1>5, Places
  <2>2. (\A i \in 1..Len(r) : i + 1 \in 1..Len(q)) /\ 1 \in 1..Len(q)
    BY <2>1
  <2> QED
    BY <2>1, <2>2 DEF Free
<1> QED
  BY <1>2, <1>3, <1>4, <1>5

\* A report added at the end is credible only without an earlier failure.
LEMMA CredibleAppend ==
  ASSUME NEW S, NEW q \in Seq(S), NEW y \in S, NEW k, Credible(Append(q, y), k)
  PROVE  Credible(q, k) \/ (y = Msg("drained", k) /\ ~In(Msg("failed", k), q))
<1> SUFFICES ASSUME NEW r, r = Append(q, y), Credible(r, k)
             PROVE  Credible(q, k) \/ (y = Msg("drained", k) /\ ~In(Msg("failed", k), q))
  OBVIOUS
<1>1. /\ Len(q) \in Nat /\ Len(r) = Len(q) + 1 /\ r[Len(q) + 1] = y
      /\ \A i \in 1..Len(q) : r[i] = q[i]
  BY Places
<1>2. PICK i \in 1..Len(r) : r[i] = Msg("drained", k)
                             /\ \A j \in 1..Len(r) : j < i => r[j] # Msg("failed", k)
  BY DEF Credible
<1>3. CASE i = Len(q) + 1
  <2>1. \A j \in 1..Len(q) : j \in 1..Len(r) /\ j < i
    BY <1>1, <1>3
  <2>2. \A j \in 1..Len(q) : q[j] # Msg("failed", k)
    BY <1>1, <1>2, <2>1
  <2> QED
    BY <1>1, <1>2, <1>3, <2>2 DEF In
<1>4. CASE i # Len(q) + 1
  <2>1. i \in 1..Len(q) /\ q[i] = Msg("drained", k)
    BY <1>1, <1>2, <1>4
  <2>2. \A j \in 1..Len(q) : j \in 1..Len(r)
    BY <1>1
  <2>3. \A j \in 1..Len(q) : j < i => q[j] # Msg("failed", k)
    BY <1>1, <1>2, <2>2
  <2> QED
    BY <2>1, <2>3 DEF Credible
<1> QED
  BY <1>3, <1>4

\* Reports that are neither add nothing.
LEMMA CredibleCat ==
  ASSUME NEW S, NEW q \in Seq(S), NEW r \in Seq(S), NEW k,
         \A i \in 1..Len(r) : r[i] # Msg("drained", k), Credible(q \o r, k)
  PROVE  Credible(q, k)
<1>1. /\ Len(q) \in Nat /\ Len(r) \in Nat /\ Len(q \o r) = Len(q) + Len(r)
      /\ \A i \in 1..Len(q) : (q \o r)[i] = q[i]
      /\ \A i \in Len(q) + 1 .. Len(q) + Len(r) : (q \o r)[i] = r[i - Len(q)]
  OBVIOUS
<1>2. PICK i \in 1..Len(q \o r) : (q \o r)[i] = Msg("drained", k)
        /\ \A j \in 1..Len(q \o r) : j < i => (q \o r)[j] # Msg("failed", k)
  BY DEF Credible
<1>3. CASE i \in 1..Len(q)
  <2>1. \A j \in 1..Len(q) : j \in 1..Len(q \o r)
    BY <1>1
  <2> QED
    BY <1>1, <1>2, <1>3, <2>1 DEF Credible
<1>4. CASE i \notin 1..Len(q)
  <2>1. i - Len(q) \in 1..Len(r) /\ i \in Len(q) + 1 .. Len(q) + Len(r)
    BY <1>1, <1>4
  <2> QED
    BY <1>1, <1>2, <2>1
<1> QED
  BY <1>3, <1>4

\* The first report is credible, and one that no failure preceded was before.
LEMMA CredibleTail ==
  ASSUME NEW S, NEW q \in Seq(S), q # <<>>, NEW k
  PROVE  /\ Head(q) = Msg("drained", k) => Credible(q, k)
         /\ Head(q) # Msg("failed", k) /\ Credible(Tail(q), k) => Credible(q, k)
<1> SUFFICES ASSUME NEW r, r = Tail(q)
             PROVE  /\ Head(q) = Msg("drained", k) => Credible(q, k)
                    /\ Head(q) # Msg("failed", k) /\ Credible(r, k) => Credible(q, k)
  OBVIOUS
<1>1. /\ Len(q) \in Nat /\ Len(q) > 0 /\ Len(r) = Len(q) - 1 /\ Head(q) = q[1]
      /\ \A i \in 1..Len(r) : r[i] = q[i + 1]
  BY Places
<1>2. ASSUME Head(q) = Msg("drained", k) PROVE Credible(q, k)
  <2>1. 1 \in 1..Len(q) /\ \A j \in 1..Len(q) : ~(j < 1)
    BY <1>1
  <2> QED
    BY <1>1, <1>2, <2>1 DEF Credible
<1>3. ASSUME Head(q) # Msg("failed", k), Credible(r, k) PROVE Credible(q, k)
  <2>1. PICK i \in 1..Len(r) : r[i] = Msg("drained", k)
                               /\ \A j \in 1..Len(r) : j < i => r[j] # Msg("failed", k)
    BY <1>3 DEF Credible
  <2>2. i + 1 \in 1..Len(q) /\ q[i + 1] = Msg("drained", k)
    BY <1>1, <2>1
  <2>3. ASSUME NEW j \in 1..Len(q), j < i + 1 PROVE q[j] # Msg("failed", k)
    <3>1. CASE j = 1
      BY <1>1, <1>3, <3>1
    <3>2. CASE j # 1
      <4>1. j - 1 \in 1..Len(r) /\ j - 1 < i /\ j - 1 + 1 = j
        BY <1>1, <2>3, <3>2
      <4> QED
        BY <1>1, <2>1, <4>1
    <3> QED
      BY <3>1, <3>2
  <2> QED
    BY <2>2, <2>3 DEF Credible
<1> QED
  BY <1>2, <1>3

-----------------------------------------------------------------------------
(* The end of a turn in detail *)

\* DrainIfReady changes no pending count, hands on no segment, and reports a turn drained
\* only when nothing of it is pending and the ring is known empty.
LEMMA DrainFine ==
  ASSUME Typed, NEW c, NEW ts, MapOf(ts, begun), NEW told,
         told = <<>> \/ (\E j \in 1..begun : told = <<Msg("failed", j)>>),
         DrainIfReady(c, ts, outQ, told), NEW k
  PROVE  /\ Pending(turns', k) = Pending(ts, k)
         /\ DOMAIN turns' \subseteq DOMAIN ts
         /\ k \in DOMAIN turns' => turns'[k].finished = ts[k].finished
         /\ N(outQ', Msg("prepare", k)) = N(outQ, Msg("prepare", k))
         /\ In(Msg("failed", k), obs \o told) => In(Msg("failed", k), obs')
         /\ k # active \/ k \notin DOMAIN ts =>
              /\ Free(outQ, k) => Free(outQ', k)
              /\ Free(obs \o told, k) => Free(obs', k)
         /\ Credible(obs', k) =>
              \/ Credible(obs, k)
              \/ /\ k = active /\ k \in DOMAIN ts /\ ts[k].finished /\ ts[k].pending = 0
                 /\ empty /\ ~In(Msg("failed", k), obs')
<1> DEFINE here == c = active /\ c \in DOMAIN ts
           due == here /\ open /\ ts[c].finished /\ ts[c].pending = 0 /\ ~ts[c].finishing
           fits == Len(outQ) < OutputCapacity
           ts2 == IF due /\ fits THEN [ts EXCEPT ![c].finishing = TRUE] ELSE ts
           drained == /\ here /\ open /\ ts2[c].finished /\ ts2[c].pending = 0
                      /\ ts2[c].flushed /\ empty
           o == obs \o told
           p == o \o (IF due /\ ~fits THEN <<Msg("failed", c)>> ELSE <<>>)
<1>1. /\ turns' = IF drained THEN Without(ts2, c) ELSE ts2
      /\ outQ' = IF due /\ fits THEN Append(outQ, Msg("finish", c)) ELSE outQ
      /\ obs' = p \o (IF drained THEN <<Msg("drained", c)>> ELSE <<>>)
  BY DEF DrainIfReady, CanComplete
<1>2. /\ begun \in Nat /\ obs \in Seq(Reports(begun)) /\ outQ \in Seq(Works(begun))
  BY Bounds DEF Typed, CoreTypes, ExecutorTypes, OutputTypes
<1>3. here => /\ c \in 1..begun /\ Msg("finish", c) \in Works(begun)
              /\ Msg("failed", c) \in Reports(begun) /\ Msg("drained", c) \in Reports(begun)
  <2>1. here => c \in 1..begun
    BY DEF MapOf
  <2> QED
    BY <1>2, <2>1, MsgOf
<1>4. /\ DOMAIN ts2 = DOMAIN ts
      /\ \A j \in DOMAIN ts : ts2[j].finished = ts[j].finished /\ ts2[j].pending = ts[j].pending
  <2>1. CASE due /\ fits
    <3>1. ts[c] \in Entries
      BY <2>1 DEF MapOf
    <3>2. ts2 = [ts EXCEPT ![c] = [ts[c] EXCEPT !.finishing = TRUE]]
      BY <2>1
    <3>3. /\ [ts[c] EXCEPT !.finishing = TRUE].finished = ts[c].finished
          /\ [ts[c] EXCEPT !.finishing = TRUE].pending = ts[c].pending
      BY <3>1 DEF Entries
    <3>4. \A j \in DOMAIN ts : ts2[j] = IF j = c THEN [ts[c] EXCEPT !.finishing = TRUE] ELSE ts[j]
      BY <3>2 DEF MapOf
    <3> HIDE DEF ts2
    <3> QED
      BY <2>1, <3>2, <3>3, <3>4 DEF MapOf
  <2>2. CASE ~(due /\ fits)
    BY <2>2
  <2> QED
    BY <2>1, <2>2
<1>5. MapOf(ts2, begun)
  <2>1. CASE due /\ fits
    BY <1>2, <2>1, FlagOf
  <2>2. CASE ~(due /\ fits)
    BY <2>2
  <2> QED
    BY <2>1, <2>2
<1>6. (due => here) /\ (drained => here /\ ts2[c].finished /\ ts2[c].pending = 0 /\ empty)
      /\ (here <=> c = active /\ c \in DOMAIN ts)
  OBVIOUS
<1>7. /\ o \in Seq(Reports(begun))
      /\ o = obs \/ (\E j \in 1..begun : Msg("failed", j) \in Reports(begun) /\ o = Append(obs, Msg("failed", j)))
  <2>1. CASE told = <<>>
    BY <1>2, <2>1
  <2>2. CASE \E j \in 1..begun : told = <<Msg("failed", j)>>
    <3>1. PICK j \in 1..begun : told = <<Msg("failed", j)>>
      BY <2>2
    <3>2. Msg("failed", j) \in Reports(begun)
      BY <1>2, MsgOf
    <3> QED
      BY <1>2, <3>1, <3>2
  <2> QED
    BY <2>1, <2>2
<1> HIDE DEF o
<1>8. /\ p \in Seq(Reports(begun))
      /\ p = o \/ (here /\ p = Append(o, Msg("failed", c)))
  <2>1. CASE due /\ ~fits
    BY <1>3, <1>6, <1>7, <2>1
  <2>2. CASE ~(due /\ ~fits)
    <3>1. p = o \o <<>>
      BY <2>2
    <3> QED
      BY <1>7, <3>1
  <2> QED
    BY <2>1, <2>2
<1> HIDE DEF here, due, fits, ts2, drained, p
<1>9. obs' = p \/ (drained /\ here /\ obs' = Append(p, Msg("drained", c)))
  <2>1. CASE drained
    BY <1>1, <1>3, <1>6, <1>8, <2>1
  <2>2. CASE ~drained
    <3>1. obs' = p \o <<>>
      BY <1>1, <2>2
    <3> QED
      BY <1>8, <3>1
  <2> QED
    BY <2>1, <2>2
<1>10. DOMAIN turns' \subseteq DOMAIN ts /\ \A j \in DOMAIN turns' : turns'[j] = ts2[j]
  <2>1. CASE drained
    <3>1. /\ DOMAIN Without(ts2, c) = DOMAIN ts2 \ {c}
          /\ \A j \in DOMAIN ts2 \ {c} : Without(ts2, c)[j] = ts2[j]
      BY ONLY <1>2, <1>5, WithoutOf
    <3> QED
      BY <1>1, <1>4, <2>1, <3>1
  <2>2. CASE ~drained
    BY <1>1, <1>4, <2>2
  <2> QED
    BY <2>1, <2>2
<1>11. k \in DOMAIN ts /\ k \notin DOMAIN turns' => ts[k].pending = 0
  <2>1. CASE drained
    <3>1. DOMAIN turns' = DOMAIN ts \ {c}
      <4>1. DOMAIN Without(ts2, c) = DOMAIN ts2 \ {c}
        BY ONLY <1>2, <1>5, WithoutOf
      <4> QED
        BY <1>1, <1>4, <2>1, <4>1
    <3> QED
      BY <1>4, <1>6, <2>1, <3>1
  <2>2. CASE ~drained
    BY <1>1, <1>4, <2>2
  <2> QED
    BY <2>1, <2>2
<1>12. Pending(turns', k) = Pending(ts, k) /\ (k \in DOMAIN turns' => turns'[k].finished = ts[k].finished)
  BY <1>4, <1>10, <1>11 DEF Pending
<1>13. N(outQ', Msg("prepare", k)) = N(outQ, Msg("prepare", k))
  <2>1. CASE due /\ fits
    <3>1. Msg("finish", c) # Msg("prepare", k)
      BY DEF Msg
    <3>2. N(Append(outQ, Msg("finish", c)), Msg("prepare", k)) = N(outQ, Msg("prepare", k)) + 0
      BY <1>2, <1>3, <1>6, <2>1, <3>1, NAppend
    <3>3. N(outQ, Msg("prepare", k)) \in Nat
      BY <1>2, NZero
    <3> QED
      BY <1>1, <2>1, <3>2, <3>3
  <2>2. CASE ~(due /\ fits)
    BY <1>1, <2>2
  <2> QED
    BY <2>1, <2>2
<1>14. In(Msg("failed", k), o) => In(Msg("failed", k), p)
  <2>1. CASE p = o
    BY <2>1
  <2>2. CASE here /\ p = Append(o, Msg("failed", c))
    <3>1. o \in Seq(Reports(begun)) /\ Msg("failed", c) \in Reports(begun)
      BY <1>3, <1>7, <2>2
    <3>2. In(Msg("failed", k), Append(o, Msg("failed", c)))
          <=> In(Msg("failed", k), o) \/ Msg("failed", k) = Msg("failed", c)
      BY ONLY <3>1, InAppend
    <3> QED
      BY <2>2, <3>2
  <2> QED
    BY <1>8, <2>1, <2>2
<1>15. /\ In(Msg("failed", k), p) => In(Msg("failed", k), obs')
       /\ In(Msg("failed", k), obs') => In(Msg("failed", k), p)
  <2>1. CASE obs' = p
    BY <2>1
  <2>2. CASE here /\ obs' = Append(p, Msg("drained", c))
    <3>1. p \in Seq(Reports(begun)) /\ Msg("drained", c) \in Reports(begun)
      BY <1>3, <1>8, <2>2
    <3>2. In(Msg("failed", k), Append(p, Msg("drained", c)))
          <=> In(Msg("failed", k), p) \/ Msg("failed", k) = Msg("drained", c)
      BY ONLY <3>1, InAppend
    <3>3. Msg("failed", k) # Msg("drained", c)
      BY DEF Msg
    <3> QED
      BY <2>2, <3>2, <3>3
  <2> QED
    BY <1>9, <2>1, <2>2
<1>16. \A what : Msg(what, c).k = c
  BY DEF Msg
<1>17. ASSUME k # active \/ k \notin DOMAIN ts, Free(outQ, k) PROVE Free(outQ', k)
  <2>1. CASE due /\ fits
    <3>1. Msg("finish", c).k # k
      BY <1>6, <1>16, <1>17, <2>1
    <3> QED
      BY <1>1, <1>2, <1>3, <1>6, <1>17, <2>1, <3>1, FreeOf
  <2>2. CASE ~(due /\ fits)
    BY <1>1, <1>17, <2>2
  <2> QED
    BY <2>1, <2>2
<1>18. ASSUME k # active \/ k \notin DOMAIN ts, Free(o, k) PROVE Free(obs', k)
  <2>1. here => c # k
    BY <1>6, <1>18
  <2>2. Free(p, k)
    <3>1. CASE p = o
      BY <1>18, <3>1
    <3>2. CASE here /\ p = Append(o, Msg("failed", c))
      <4>1. /\ o \in Seq(Reports(begun)) /\ Msg("failed", c) \in Reports(begun)
            /\ Free(o, k) /\ Msg("failed", c).k # k
        BY <1>3, <1>7, <1>16, <1>18, <2>1, <3>2
      <4>2. Free(Append(o, Msg("failed", c)), k)
        BY ONLY <4>1, FreeOf
      <4> QED
        BY <3>2, <4>2
    <3> QED
      BY <1>8, <3>1, <3>2
  <2>3. CASE obs' = p
    BY <2>2, <2>3
  <2>4. CASE here /\ obs' = Append(p, Msg("drained", c))
    <3>1. /\ p \in Seq(Reports(begun)) /\ Msg("drained", c) \in Reports(begun)
          /\ Free(p, k) /\ Msg("drained", c).k # k
      BY <1>3, <1>8, <1>16, <2>1, <2>2, <2>4
    <3>2. Free(Append(p, Msg("drained", c)), k)
      BY ONLY <3>1, FreeOf
    <3> QED
      BY <2>4, <3>2
  <2> QED
    BY <1>9, <2>3, <2>4
<1>19. ASSUME Credible(obs', k)
       PROVE  \/ Credible(obs, k)
              \/ /\ k = active /\ k \in DOMAIN ts /\ ts[k].finished /\ ts[k].pending = 0
                 /\ empty /\ ~In(Msg("failed", k), obs')
  <2>1. \A j : Msg("failed", j) # Msg("drained", k)
    BY DEF Msg
  <2>2. Credible(o, k) => Credible(obs, k)
    <3>1. CASE o = obs
      BY <3>1
    <3>2. ASSUME NEW j \in 1..begun, o = Append(obs, Msg("failed", j))
          PROVE  Credible(o, k) => Credible(obs, k)
      <4>1. obs \in Seq(Reports(begun)) /\ Msg("failed", j) \in Reports(begun)
        BY <1>2, MsgOf
      <4> QED
        BY <2>1, <3>2, <4>1, CredibleAppend
    <3> QED
      BY <1>7, <3>1, <3>2
  <2>3. Credible(p, k) => Credible(o, k)
    <3>1. CASE p = o
      BY <3>1
    <3>2. CASE here /\ p = Append(o, Msg("failed", c))
      <4>1. o \in Seq(Reports(begun)) /\ Msg("failed", c) \in Reports(begun)
        BY <1>3, <1>7, <3>2
      <4>2. Credible(Append(o, Msg("failed", c)), k) => Credible(o, k) \/ Msg("failed", c) = Msg("drained", k)
        BY ONLY <4>1, CredibleAppend
      <4> QED
        BY <2>1, <3>2, <4>2
    <3> QED
      BY <1>8, <3>1, <3>2
  <2>4. CASE Credible(p, k)
    BY <2>2, <2>3, <2>4
  <2>5. CASE ~Credible(p, k)
    <3>1. drained /\ here /\ obs' = Append(p, Msg("drained", c))
      BY <1>9, <1>19, <2>5
    <3>2. Msg("drained", c) = Msg("drained", k) /\ ~In(Msg("failed", k), p)
      BY <1>3, <1>8, <1>19, <2>5, <3>1, CredibleAppend
    <3>3. c = k
      BY <3>2 DEF Msg
    <3>4. ~In(Msg("failed", k), obs')
      BY <1>15, <3>2
    <3> QED
      BY <1>4, <1>6, <3>1, <3>3, <3>4
  <2> QED
    BY <2>4, <2>5
<1> QED
  BY <1>10, <1>12, <1>13, <1>14, <1>15, <1>17, <1>18, <1>19 DEF o

-----------------------------------------------------------------------------
(* The order of actions is kept *)

\* How a step changes the queue of actions
LEMMA ActsStep ==
  ASSUME Typed, Next
  PROVE  \/ /\ UNCHANGED <<acts, begun, segs, active>>
            /\ turn' = 0 \/ UNCHANGED <<turn, finished>>
         \/ /\ acts # <<>> /\ Execute /\ acts' = Tail(acts)
            /\ UNCHANGED <<turn, finished, segs, begun>>
         \/ BeginSpeech \/ EnqueueSpeech \/ FinishSpeech \/ CloseSession
         \/ acts' = acts \o RetireActions /\ turn' = 0 /\ UNCHANGED <<begun, segs>>
<1>1. core' = core => UNCHANGED <<begun, segs, turn, finished>>
  BY DEF core
<1>2. CASE Execute
  BY <1>1, <1>2 DEF Execute
<1>3. CASE CancelSpeech
  BY <1>3 DEF CancelSpeech
<1>4. CASE Observe
  <2>1. UNCHANGED <<begun, segs, finished, active>>
    BY <1>4 DEF Observe
  <2>2. \/ acts' = acts \o RetireActions /\ turn' = 0
        \/ acts' = acts /\ (turn' = 0 \/ turn' = turn)
    BY <1>4 DEF Observe, SynthesisStarted, SynthesisFailed, PlaybackDrained, FadeDrained
  <2> QED
    BY <2>1, <2>2
<1>5. CASE TtsFeedback \/ OutputFeedback \/ RenderFeedback \/ SilentFeedback
  <2>1. core' = core
    BY <1>5, CoreFrame
  <2>2. UNCHANGED <<acts, active>>
    BY <1>5 DEF TtsFeedback, OutputFeedback, RenderFeedback, SilentFeedback
  <2> QED
    BY <1>1, <2>1, <2>2
<1>6. CASE Synthesize \/ Synthesized \/ Prepare \/ FinishOutput \/ ServiceCapacity \/ Play \/ FadeComplete
  BY <1>1, <1>6, CoreFrame, ExecutorFrame
<1> QED
  BY <1>2, <1>3, <1>4, <1>5, <1>6 DEF Next

\* The set of a turn comes first and its finish last.
LEMMA OrderStep ==
  ASSUME Typed, Sequel, Next, NEW k \in Turns, SetFirst(acts, k), FinishLast(acts, k)
  PROVE  SetFirst(acts', k) /\ FinishLast(acts', k)
<1>1. begun \in Nat /\ acts \in Seq(Commands(begun)) /\ k \in Nat \ {0}
  BY Bounds DEF Typed, CoreTypes, ExecutorTypes, Turns
<1>2. SetFirst(acts \o RetireActions, k) /\ FinishLast(acts \o RetireActions, k)
  <2>1. CASE turn = 0
    BY <2>1, Retiring
  <2>2. CASE turn # 0
    <3>1. acts \o RetireActions = Append(acts, Msg("retire", turn)) /\ turn \in 1..begun
      BY <2>2, Retiring
    <3>2. Msg("retire", turn) \in Commands(begun)
      BY <1>1, <3>1, MsgOf
    <3>3. Msg("retire", turn) # Msg("set", k) /\ Msg("retire", turn) # Msg("enqueue", k)
      BY DEF Msg
    <3>4. SetFirst(Append(acts, Msg("retire", turn)), k)
      BY <1>1, <3>2, <3>3, SetFirstAppend
    <3>5. FinishLast(Append(acts, Msg("retire", turn)), k)
      BY <1>1, <3>2, <3>3, FinishLastAppend
    <3> QED
      BY <3>1, <3>4, <3>5
  <2> QED
    BY <2>1, <2>2
<1>3. acts \o RetireActions \in Seq(Commands(begun))
  BY Retiring
<1>4. CASE acts' = acts \/ acts' = acts \o RetireActions
  BY <1>2, <1>4
<1>5. CASE acts # <<>> /\ acts' = Tail(acts)
  BY <1>1, <1>5, SetFirstTail, FinishLastTail
<1>6. CASE BeginSpeech
  <2> DEFINE r == acts \o RetireActions
             y == Msg("set", begun + 1)
  <2>1. acts' = r \o <<y>>
    BY <1>6 DEF BeginSpeech
  <2>2. r \in Seq(Commands(begun + 1)) /\ y \in Commands(begun + 1)
    <3>1. begun + 1 \in Nat /\ begun + 1 \in 1..begun + 1
      BY <1>1
    <3> QED
      BY <1>1, <1>3, <3>1, OneMoreOf, MsgOf
  <2>3. y = Msg("set", k) => Free(r, k)
    <3>1. y = Msg("set", k) => k = begun + 1
      BY DEF Msg
    <3>2. \A a \in Commands(begun) : a.k # begun + 1
      <4>1. \A kinds : \A a \in Of(kinds, begun) : a.k # begun + 1
        BY <1>1 DEF Of
      <4>2. Msg("close", 0).k # begun + 1
        BY <1>1 DEF Msg
      <4> QED
        BY <4>1, <4>2 DEF Commands
    <3>3. \A i \in 1..Len(r) : r[i] \in Commands(begun)
      BY <1>3
    <3> QED
      BY <3>1, <3>2, <3>3 DEF Free
  <2>4. y # Msg("enqueue", k)
    BY DEF Msg
  <2> HIDE DEF r, y
  <2>5. acts' = Append(r, y)
    BY <2>1, <2>2
  <2>6. SetFirst(Append(r, y), k)
    BY <1>2, <2>2, <2>3, SetFirstAppend DEF r
  <2>7. FinishLast(Append(r, y), k)
    BY <1>2, <2>2, <2>4, FinishLastAppend DEF r
  <2> QED
    BY <2>5, <2>6, <2>7
<1>7. CASE EnqueueSpeech
  <2>1. acts' = Append(acts, Msg("enqueue", turn)) /\ turn # 0 /\ ~finished
    BY <1>7 DEF EnqueueSpeech
  <2>2. Msg("enqueue", turn) \in Commands(begun)
    BY <1>1, <2>1, MsgOf, Retiring
  <2>3. Msg("enqueue", turn) # Msg("set", k)
    BY DEF Msg
  <2>4. Msg("enqueue", turn) = Msg("enqueue", k) => turn = k
    BY DEF Msg
  <2>5. ~In(Msg("finish", turn), acts)
    BY <2>1 DEF Sequel
  <2>6. SetFirst(Append(acts, Msg("enqueue", turn)), k)
    BY <1>1, <2>2, <2>3, SetFirstAppend
  <2>7. FinishLast(Append(acts, Msg("enqueue", turn)), k)
    BY <1>1, <2>2, <2>4, <2>5, FinishLastAppend
  <2> QED
    BY <2>1, <2>6, <2>7
<1>8. CASE FinishSpeech
  <2>1. acts' = Append(acts, Msg("finish", turn)) /\ turn # 0
    BY <1>8 DEF FinishSpeech
  <2>2. Msg("finish", turn) \in Commands(begun)
    BY <1>1, <2>1, MsgOf, Retiring
  <2>3. Msg("finish", turn) # Msg("set", k) /\ Msg("finish", turn) # Msg("enqueue", k)
    BY DEF Msg
  <2>6. SetFirst(Append(acts, Msg("finish", turn)), k)
    BY <1>1, <2>2, <2>3, SetFirstAppend
  <2>7. FinishLast(Append(acts, Msg("finish", turn)), k)
    BY <1>1, <2>2, <2>3, FinishLastAppend
  <2> QED
    BY <2>1, <2>6, <2>7
<1>9. CASE CloseSession
  <2> DEFINE r == acts \o RetireActions
  <2>1. acts' = r \o <<Msg("close", 0)>>
    BY <1>9 DEF CloseSession
  <2>2. r \in Seq(Commands(begun)) /\ Msg("close", 0) \in Commands(begun)
    BY <1>3 DEF Commands
  <2>3. Msg("close", 0) # Msg("set", k) /\ Msg("close", 0) # Msg("enqueue", k)
    BY DEF Msg
  <2> HIDE DEF r
  <2>5. acts' = Append(r, Msg("close", 0))
    BY <2>1, <2>2
  <2>6. SetFirst(Append(r, Msg("close", 0)), k)
    BY <1>2, <2>2, <2>3, SetFirstAppend DEF r
  <2>7. FinishLast(Append(r, Msg("close", 0)), k)
    BY <1>2, <2>2, <2>3, FinishLastAppend DEF r
  <2> QED
    BY <2>5, <2>6, <2>7
<1> QED
  BY <1>4, <1>5, <1>6, <1>7, <1>8, <1>9, ActsStep

\* The ring is empty whenever the output worker believes so.
LEMMA EmptyStep ==
  ASSUME Typed, empty => ring = 0, Next
  PROVE  empty' => ring' = 0
<1>1. ring \in Nat
  BY Bounds DEF Typed, OutputTypes
<1>2. CASE Execute
  <2>1. CASE \E k : EnqueueTts(k) \/ FinishTts(k)
    BY <2>1 DEF EnqueueTts, FinishTts
  <2>2. CASE \E k : SetOutputGeneration(k) \/ RetireOutput(k)
    BY <2>2 DEF SetOutputGeneration, RetireOutput
  <2>3. CASE CloseRoute
    BY <2>3 DEF CloseRoute
  <2> QED
    BY <1>2, <2>1, <2>2, <2>3 DEF Execute
<1>3. CASE Prepare
  <2>1. UNCHANGED <<ring, empty>> \/ empty' = FALSE
    BY <1>3 DEF Prepare
  <2> QED
    BY <2>1
<1>4. CASE FinishOutput
  <2>1. ring' = ring /\ (empty' = empty \/ empty' = (ring = 0))
    BY <1>4 DEF FinishOutput
  <2> QED
    BY <2>1
<1>5. CASE ServiceCapacity
  BY <1>5 DEF ServiceCapacity
<1>6. CASE Play
  <2>1. ring > 0 /\ empty' = empty
    BY <1>6 DEF Play
  <2> QED
    BY <1>1, <2>1
<1>7. CASE UNCHANGED <<ring, empty>>
  BY <1>7
<1>8. BeginSpeech \/ EnqueueSpeech \/ FinishSpeech \/ CancelSpeech \/ CloseSession \/ Observe
      => UNCHANGED <<ring, empty>>
  BY DEF BeginSpeech, EnqueueSpeech, FinishSpeech, CancelSpeech, CloseSession, Observe, output
<1>9. TtsFeedback \/ OutputFeedback \/ RenderFeedback \/ SilentFeedback => UNCHANGED <<ring, empty>>
  BY DEF TtsFeedback, OutputFeedback, RenderFeedback, SilentFeedback, output
<1>10. Synthesize \/ Synthesized \/ FadeComplete => UNCHANGED <<ring, empty>>
  BY DEF Synthesize, Synthesized, FadeComplete, output
<1> QED
  BY <1>2, <1>3, <1>4, <1>5, <1>6, <1>7, <1>8, <1>9, <1>10 DEF Next

\* The executor is at work on the active turn, or will be.
LEMMA SequelStep ==
  ASSUME Typed, Sequel, Next
  PROVE  Sequel'
<1> DEFINE Going(t, act, q) == \/ act = t /\ \A i \in 1..Len(q) : Ordinary(q[i])
                               \/ SetLast(q, t)
<1>1. /\ begun \in Nat /\ acts \in Seq(Commands(begun)) /\ segs \in [Turns -> Nat]
      /\ turn # 0 => turn \in 1..begun /\ turn \in Turns
  BY Bounds, Retiring DEF Typed, CoreTypes, ExecutorTypes
<1>2. turn # 0 => Going(turn, active, acts)
  BY DEF Sequel
<1>3. ASSUME turn # 0, NEW y \in Commands(begun), Ordinary(y), acts' = Append(acts, y), active' = active
      PROVE  Going(turn, active', acts')
  <2>1. CASE active = turn /\ \A i \in 1..Len(acts) : Ordinary(acts[i])
    <3>1. /\ Len(acts) \in Nat /\ Len(acts') = Len(acts) + 1 /\ acts'[Len(acts) + 1] = y
          /\ \A i \in 1..Len(acts) : acts'[i] = acts[i]
      BY <1>1, <1>3, Places
    <3>2. ASSUME NEW i \in 1..Len(acts') PROVE Ordinary(acts'[i])
      <4>1. CASE i = Len(acts) + 1
        BY <1>3, <3>1, <4>1
      <4>2. CASE i # Len(acts) + 1
        <5>1. i \in 1..Len(acts) /\ acts'[i] = acts[i]
          BY <3>1, <4>2
        <5> QED
          BY <2>1, <5>1
      <4> QED
        BY <4>1, <4>2
    <3> QED
      BY <1>3, <2>1, <3>2
  <2>2. CASE SetLast(acts, turn)
    <3>1. SetLast(Append(acts, y), turn)
      BY <1>1, <1>3, <2>2, SetLastAppend
    <3> QED
      BY <1>3, <3>1
  <2> QED
    BY <1>2, <1>3, <2>1, <2>2
<1> DEFINE Goal == /\ turn' # 0 => Going(turn', active', acts')
                   /\ turn' # 0 /\ In(Msg("finish", turn'), acts') => finished'
<1>4. CASE turn' = 0
  <2>1. Goal
    BY <1>4
  <2> QED
    BY <2>1, EmptyStep DEF Sequel
<1>5. CASE acts' = acts /\ active' = active /\ UNCHANGED <<turn, finished, segs>>
  <2>1. Goal
    BY <1>2, <1>5 DEF Sequel
  <2> QED
    BY <2>1, EmptyStep DEF Sequel
<1>6. CASE acts # <<>> /\ Execute /\ acts' = Tail(acts) /\ UNCHANGED <<turn, finished, segs>>
  <2> DEFINE b == Head(acts)
  <2>1. turn # 0 => Going(turn, active', acts')
    <3>1. CASE turn # 0 /\ active = turn /\ \A i \in 1..Len(acts) : Ordinary(acts[i])
      <4>1. Ordinary(b) /\ \A i \in 1..Len(acts') : Ordinary(acts'[i])
        <5>1. /\ Len(acts) \in Nat /\ Len(acts) > 0 /\ Len(acts') = Len(acts) - 1 /\ b = acts[1]
              /\ \A i \in 1..Len(acts') : acts'[i] = acts[i + 1]
          BY <1>1, <1>6, Places
        <5>2. (\A i \in 1..Len(acts') : i + 1 \in 1..Len(acts)) /\ 1 \in 1..Len(acts)
          BY <5>1
        <5> QED
          BY <3>1, <5>1, <5>2
      <4>2. EnqueueTts(b.k) \/ FinishTts(b.k)
        <5>1. b.m \in {"enqueue", "finish"}
          BY <4>1 DEF Ordinary
        <5>2. b.m # "set" /\ b.m # "retire" /\ b.m # "close"
          BY <5>1
        <5> QED
          BY <1>6, <5>2 DEF Execute
      <4>3. active' = active
        BY <4>2 DEF EnqueueTts, FinishTts
      <4> QED
        BY <3>1, <4>1, <4>3
    <3>2. CASE turn # 0 /\ SetLast(acts, turn)
      <4>1. \/ SetLast(Tail(acts), turn)
            \/ b = Msg("set", turn) /\ \A i \in 1..Len(Tail(acts)) : Ordinary(Tail(acts)[i])
        BY <1>1, <1>6, <3>2, SetLastTail
      <4>2. CASE SetLast(Tail(acts), turn)
        BY <1>6, <4>2
      <4>3. CASE b = Msg("set", turn) /\ \A i \in 1..Len(Tail(acts)) : Ordinary(Tail(acts)[i])
        <5>1. b.m = "set" /\ b.k = turn
          BY <4>3 DEF Msg
        <5>2. SetOutputGeneration(turn)
          BY <1>6, <5>1 DEF Execute
        <5>3. active' = turn
          BY <5>2 DEF SetOutputGeneration
        <5> QED
          BY <1>6, <4>3, <5>3
      <4> QED
        BY <4>1, <4>2, <4>3
    <3> QED
      BY <1>2, <3>1, <3>2
  <2>2. turn # 0 /\ In(Msg("finish", turn), acts') => finished
    BY <1>1, <1>6, InTail DEF Sequel
  <2>3. Goal
    BY <1>6, <2>1, <2>2 DEF Sequel
  <2> QED
    BY <2>3, EmptyStep DEF Sequel
<1>7. CASE EnqueueSpeech
  <2> DEFINE y == Msg("enqueue", turn)
  <2>1. /\ turn # 0 /\ ~finished /\ acts' = Append(acts, y)
        /\ UNCHANGED <<turn, finished, active>>
    BY <1>7 DEF EnqueueSpeech
  <2>2. y \in Commands(begun) /\ Ordinary(y) /\ y # Msg("finish", turn)
    <3>1. y \in Commands(begun)
      BY <1>1, <2>1, MsgOf
    <3> QED
      BY <3>1 DEF Msg, Ordinary
  <2>3. Going(turn, active', acts')
    BY <1>3, <2>1, <2>2
  <2>4. In(Msg("finish", turn), acts') => In(Msg("finish", turn), acts)
    BY <1>1, <2>1, <2>2, InAppend
  <2>5. Goal
    BY <2>1, <2>3, <2>4 DEF Sequel
  <2> QED
    BY <2>5, EmptyStep DEF Sequel
<1>8. CASE FinishSpeech
  <2> DEFINE y == Msg("finish", turn)
  <2>1. /\ turn # 0 /\ finished' = TRUE /\ acts' = Append(acts, y)
        /\ UNCHANGED <<turn, active, segs>>
    BY <1>8 DEF FinishSpeech
  <2>2. y \in Commands(begun) /\ Ordinary(y)
    <3>1. y \in Commands(begun)
      BY <1>1, <2>1, MsgOf
    <3> QED
      BY <3>1 DEF Msg, Ordinary
  <2>3. Going(turn, active', acts')
    BY <1>3, <2>1, <2>2
  <2>5. Goal
    BY <2>1, <2>3
  <2> QED
    BY <2>5, EmptyStep DEF Sequel
<1>9. CASE BeginSpeech
  <2> DEFINE r == acts \o RetireActions
             y == Msg("set", begun + 1)
  <2>1. acts' = r \o <<y>> /\ turn' = begun + 1 /\ finished' = FALSE
    BY <1>9 DEF BeginSpeech
  <2>2. r \in Seq(Commands(begun + 1)) /\ y \in Commands(begun + 1) /\ r \in Seq(Commands(begun))
    <3>1. begun + 1 \in Nat /\ begun + 1 \in 1..begun + 1
      BY <1>1
    <3> QED
      BY <1>1, <3>1, OneMoreOf, MsgOf, Retiring
  <2> HIDE DEF r
  <2>3. acts' = Append(r, y)
    BY <2>1, <2>2
  <2>4. SetLast(Append(r, y), begun + 1)
    BY <2>2, SetLastAppend
  <2>5. ~In(Msg("finish", begun + 1), acts')
    <3>1. Msg("finish", begun + 1) \notin Commands(begun)
      BY <1>1 DEF Msg, Commands, Of
    <3>2. ~In(Msg("finish", begun + 1), r)
      BY <2>2, <3>1 DEF In
    <3>3. Msg("finish", begun + 1) # y
      BY DEF Msg
    <3> QED
      BY <2>2, <2>3, <3>2, <3>3, InAppend
  <2>6. Goal
    BY <2>1, <2>3, <2>4, <2>5
  <2> QED
    BY <2>6, EmptyStep DEF Sequel
<1>10. CloseSession => turn' = 0
  BY DEF CloseSession
<1> QED
  BY <1>4, <1>5, <1>6, <1>7, <1>8, <1>9, <1>10, ActsStep

-----------------------------------------------------------------------------
(* The steps of a turn: the client's commands *)

\* What an action appended changes of the segments and the set of a turn
LEMMA ActsAppended ==
  ASSUME NEW n \in Nat, NEW a \in Seq(Commands(n)), NEW y \in Commands(n), NEW k
  PROVE  /\ N(Append(a, y), Msg("enqueue", k)) =
              N(a, Msg("enqueue", k)) + (IF y = Msg("enqueue", k) THEN 1 ELSE 0)
         /\ In(Msg("enqueue", k), Append(a, y)) <=> In(Msg("enqueue", k), a) \/ y = Msg("enqueue", k)
         /\ In(Msg("set", k), Append(a, y)) <=> In(Msg("set", k), a) \/ y = Msg("set", k)
         /\ N(a, Msg("enqueue", k)) \in Nat
<1>1. N(Append(a, y), Msg("enqueue", k)) =
        N(a, Msg("enqueue", k)) + (IF y = Msg("enqueue", k) THEN 1 ELSE 0)
  BY NAppend
<1>2. /\ In(Msg("enqueue", k), Append(a, y)) <=> In(Msg("enqueue", k), a) \/ y = Msg("enqueue", k)
      /\ In(Msg("set", k), Append(a, y)) <=> In(Msg("set", k), a) \/ y = Msg("set", k)
  BY InAppend
<1>3. N(a, Msg("enqueue", k)) \in Nat
  BY NZero
<1> QED
  BY <1>1, <1>2, <1>3

\* Two queues agree on the segments and the set of turn k.
SameFor(a, b, k) ==
  /\ N(b, Msg("enqueue", k)) = N(a, Msg("enqueue", k))
  /\ In(Msg("enqueue", k), b) <=> In(Msg("enqueue", k), a)
  /\ In(Msg("set", k), b) <=> In(Msg("set", k), a)

\* An action that is neither a segment nor a set of k
LEMMA SameAppended ==
  ASSUME NEW n \in Nat, NEW a \in Seq(Commands(n)), NEW y \in Commands(n), NEW k,
         y # Msg("enqueue", k), y # Msg("set", k)
  PROVE  SameFor(a, Append(a, y), k)
<1>1. N(Append(a, y), Msg("enqueue", k)) = N(a, Msg("enqueue", k)) + 0 /\ N(a, Msg("enqueue", k)) \in Nat
  BY ActsAppended
<1>2. N(Append(a, y), Msg("enqueue", k)) = N(a, Msg("enqueue", k))
  BY <1>1
<1> QED
  BY <1>2, ActsAppended DEF SameFor

\* A retirement appended to the actions
LEMMA SameRetired ==
  ASSUME Typed, NEW k
  PROVE  SameFor(acts, acts \o RetireActions, k)
<1>1. CASE turn = 0
  BY <1>1, Retiring DEF SameFor
<1>2. CASE turn # 0
  <2>1. /\ begun \in Nat /\ turn \in 1..begun /\ acts \in Seq(Commands(begun))
        /\ acts \o RetireActions = Append(acts, Msg("retire", turn))
    BY <1>2, Retiring DEF Typed, ExecutorTypes
  <2>2. Msg("retire", turn) \in Commands(begun)
    BY <2>1, MsgOf
  <2>3. Msg("retire", turn) # Msg("enqueue", k) /\ Msg("retire", turn) # Msg("set", k)
    BY DEF Msg
  <2>4. SameFor(acts, Append(acts, Msg("retire", turn)), k)
    BY ONLY <2>1, <2>2, <2>3, SameAppended
  <2> QED
    BY <2>1, <2>4
<1> QED
  BY <1>1, <1>2

\* What a command of the client leaves alone
Workers == <<obs, open, turns, active, synthesis, output, callback, spoken>>

\* A command that gives turn k nothing, and leaves it no more active than it was
LEMMA QuietCommand ==
  ASSUME Typed, NEW k \in Turns, OfTurn(k), UNCHANGED Workers, UNCHANGED ended,
         SameFor(acts, acts', k), segs'[k] = segs[k], begun' >= begun, begun' \in Nat,
         turn' = k => turn = k /\ (finished => finished')
  PROVE  /\ k > begun' => spoken'[k] = 0
         /\ Unset(k)' /\ Retired(k)' /\ Counted(k)' /\ Complete(k)' /\ Drained(k)'
<1> USE DEF Workers, synthesis, output, callback, OfTurn
<1>1. begun \in Nat /\ k \in Nat
  BY Bounds DEF Typed, CoreTypes, Turns
<1>2. k > begun' => spoken'[k] = 0
  BY <1>1
<1>3. Unset(k)'
  BY DEF Unset, SameFor
<1>4. Retired(k)'
  BY DEF Retired
<1>5. Counted(k)'
  BY DEF Counted, SameFor
<1>6. Complete(k)'
  BY DEF Complete, SameFor
<1>7. Done(k) => Done(k)'
  BY DEF Done, SameFor
<1>8. Drained(k)'
  BY <1>7 DEF Drained
<1> QED
  BY <1>2, <1>3, <1>4, <1>5, <1>6, <1>8

\* A segment of turn k is accepted.
LEMMA EnqueueOwn ==
  ASSUME Typed, Sequel, OneTerminalEvent, NEW k \in Turns, OfTurn(k), EnqueueSpeech, turn = k
  PROVE  /\ k > begun' => spoken'[k] = 0
         /\ Unset(k)' /\ Retired(k)' /\ Counted(k)' /\ Complete(k)' /\ Drained(k)'
<1> USE DEF Workers, synthesis, output, callback, OfTurn
<1> DEFINE y == Msg("enqueue", k)
<1>1. /\ UNCHANGED Workers /\ UNCHANGED <<ended, begun, turn, finished>> /\ ~finished
      /\ acts' = Append(acts, y) /\ segs' = [segs EXCEPT ![k] = @ + 1]
  BY DEF EnqueueSpeech, history
<1>2. /\ begun \in Nat /\ acts \in Seq(Commands(begun)) /\ k \in 1..begun /\ k # 0
      /\ segs[k] \in Nat /\ spoken[k] \in Nat /\ ring \in Nat /\ segs'[k] = segs[k] + 1
  BY <1>1, Retiring, Bounds DEF Typed, CoreTypes, ExecutorTypes, CallbackTypes, OutputTypes, Turns
<1>3. y \in Commands(begun)
  BY <1>2, MsgOf
<1>4. y # Msg("set", k)
  BY DEF Msg
<1> HIDE DEF y
<1>5. /\ N(acts', Msg("enqueue", k)) = N(acts, Msg("enqueue", k)) + 1 /\ N(acts, Msg("enqueue", k)) \in Nat
      /\ In(Msg("set", k), acts') <=> In(Msg("set", k), acts)
  BY <1>1, <1>2, <1>3, <1>4, ActsAppended DEF y
<1>6. Unset(k)'
  BY <1>1, <1>2, <1>5 DEF Unset
<1>7. Retired(k)'
  BY <1>1 DEF Retired
<1>8. Counted(k)'
  <2> SUFFICES ASSUME active = k, ~In(Msg("failed", k), obs)
               PROVE  Counted(k)'
    BY <1>1 DEF Counted
  <2> DEFINE up == Upstream(ttsQ, busy, ttsEv, outQ, outEv, k)
  <2>1. segs[k] = N(acts, Msg("enqueue", k)) + up + spoken[k] + ring
        /\ Pending(turns, k) = up + N(outEv, Msg("prepared", k))
    BY DEF Counted
  <2>2. up \in Nat
    <3>1. /\ N(ttsQ, k) \in Nat /\ N(ttsEv, Msg("done", k)) \in Nat /\ N(ttsEv, Msg("failed", k)) \in Nat
          /\ N(outQ, Msg("prepare", k)) \in Nat /\ N(outEv, Msg("failed", k)) \in Nat
      BY NZero DEF Typed, SynthesisTypes, OutputTypes
    <3> QED
      BY <3>1 DEF Upstream
  <2>3. up' = up
    BY <1>1
  <2> HIDE DEF up
  <2>4. segs'[k] = N(acts', Msg("enqueue", k)) + up + spoken[k] + ring
    BY <1>2, <1>5, <2>1, <2>2, SMTT(60)
  <2> QED
    BY <1>1, <2>1, <2>3, <2>4 DEF Counted, up
<1>9. Complete(k)'
  BY <1>1 DEF Complete
<1>10. Drained(k)'
  <2>1. ~Done(k)
    BY <1>1 DEF Done
  <2>2. ended[k] = <<>>
    BY DEF OneTerminalEvent
  <2> QED
    BY <1>1, <2>1, <2>2 DEF Drained
<1> QED
  BY <1>1, <1>2, <1>6, <1>7, <1>8, <1>9, <1>10

\* Nothing is about a turn that has not begun.
LEMMA UnbegunFree ==
  ASSUME Typed, NEW k, k = begun + 1
  PROVE  /\ Free(acts, k) /\ Free(obs, k) /\ Free(ttsEv, k) /\ Free(outQ, k) /\ Free(outEv, k)
         /\ ~In(k, ttsQ) /\ ~In(k, rendEv) /\ k \notin DOMAIN turns /\ k \notin cancelled
         /\ k \notin faded /\ active # k /\ busy # k /\ fade # k /\ k # 0
<1>1. /\ begun \in Nat /\ acts \in Seq(Commands(begun)) /\ obs \in Seq(Reports(begun))
      /\ ttsEv \in Seq(Syntheses(begun)) /\ outQ \in Seq(Works(begun)) /\ outEv \in Seq(Prepared(begun))
  BY Bounds DEF Typed, CoreTypes, ExecutorTypes, SynthesisTypes, OutputTypes
<1>2. \A kinds : \A x \in Of(kinds, begun) : x.k # k
  BY <1>1 DEF Of
<1>3. \A what : Msg(what, 0).k # k
  BY <1>1 DEF Msg
<1>4. \A x \in Commands(begun) \cup Reports(begun) \cup Syntheses(begun) \cup Works(begun)
               \cup Prepared(begun) : x.k # k
  BY <1>2, <1>3 DEF Commands, Reports, Syntheses, Works, Prepared
<1>5. \A S : \A q \in Seq(S) : \A i \in 1..Len(q) : q[i] \in S
  OBVIOUS
<1>6. Free(acts, k) /\ Free(obs, k) /\ Free(ttsEv, k) /\ Free(outQ, k) /\ Free(outEv, k)
  BY <1>1, <1>4, <1>5 DEF Free
<1>7. k \notin 1..begun /\ k \notin 0..begun /\ k # 0
  BY <1>1
<1>8. ttsQ \in Seq(1..begun) /\ rendEv \in Seq(1..begun)
  BY DEF Typed, SynthesisTypes, CallbackTypes
<1>9. ~In(k, ttsQ) /\ ~In(k, rendEv)
  BY <1>5, <1>7, <1>8 DEF In
<1>10. k \notin DOMAIN turns /\ k \notin cancelled /\ k \notin faded
  BY <1>7 DEF Typed, ExecutorTypes, MapOf, SynthesisTypes, CallbackTypes
<1>11. active # k /\ busy # k /\ fade # k
  BY <1>7 DEF Typed, ExecutorTypes, SynthesisTypes, CallbackTypes
<1> QED
  BY <1>6, <1>7, <1>9, <1>10, <1>11

\* Turn k begins.
LEMMA BeginOwn ==
  ASSUME Typed, NEW k \in Turns, OfTurn(k), BeginSpeech, k = begun + 1
  PROVE  /\ k > begun' => spoken'[k] = 0
         /\ Unset(k)' /\ Retired(k)' /\ Counted(k)' /\ Complete(k)' /\ Drained(k)'
<1> USE DEF Workers, synthesis, output, callback, OfTurn
<1> DEFINE r == acts \o RetireActions
<1>1. /\ UNCHANGED Workers /\ UNCHANGED <<ended, segs>> /\ begun' = begun + 1
      /\ acts' = r \o <<Msg("set", k)>>
  BY DEF BeginSpeech, history
<1>2. /\ begun \in Nat /\ segs[k] = 0 /\ ended[k] = <<>> /\ spoken[k] = 0 /\ acts \in Seq(Commands(begun))
  <2>1. begun \in Nat
    BY Bounds DEF Typed, CoreTypes
  <2>2. k > begun
    BY <2>1
  <2> QED
    BY <2>1, <2>2 DEF Typed, CoreTypes, ExecutorTypes
<1>3. /\ Free(acts, k) /\ Free(obs, k) /\ Free(ttsEv, k) /\ Free(outQ, k) /\ Free(outEv, k)
      /\ ~In(k, ttsQ) /\ ~In(k, rendEv) /\ k \notin DOMAIN turns /\ k \notin cancelled
      /\ k \notin faded /\ active # k /\ busy # k /\ fade # k
  BY UnbegunFree
<1>4. r \in Seq(Commands(begun + 1)) /\ begun + 1 \in Nat /\ Msg("set", k) \in Commands(begun + 1)
  <2>1. begun + 1 \in Nat /\ begun + 1 \in 1..begun + 1
    BY <1>2
  <2> QED
    BY <1>2, <2>1, OneMoreOf, MsgOf, Retiring
<1>5. SameFor(acts, r, k)
  BY SameRetired
<1> HIDE DEF r
<1>6. N(acts', Msg("enqueue", k)) = 0
  <2>1. N(acts, Msg("enqueue", k)) = 0
    BY <1>2, <1>3, FreeOf
  <2>2. acts' = Append(r, Msg("set", k))
    BY <1>1, <1>4
  <2>3. Msg("set", k) # Msg("enqueue", k)
    BY DEF Msg
  <2>4. N(Append(r, Msg("set", k)), Msg("enqueue", k)) = N(r, Msg("enqueue", k)) + 0
    BY <1>4, <2>3, NAppend
  <2> QED
    BY <1>5, <2>1, <2>2, <2>4 DEF SameFor
<1>7. k > begun' => spoken'[k] = 0
  BY <1>1, <1>2
<1>8. Unset(k)'
  BY <1>1, <1>2, <1>3, <1>6 DEF Unset
<1>9. Retired(k)'
  <2>1. \A what : ~In(Msg(what, k), ttsEv)
    BY <1>3, FreeOf DEF Typed, SynthesisTypes
  <2> QED
    BY <1>1, <1>3, <2>1 DEF Retired
<1>10. Counted(k)' /\ Complete(k)'
  BY <1>1, <1>3 DEF Counted, Complete
<1>11. Drained(k)'
  <2>1. ~Credible(obs, k)
    <3>1. Msg("drained", k).k = k
      BY DEF Msg
    <3> QED
      BY <1>3, <3>1 DEF Credible, Free
  <2> QED
    BY <1>1, <1>2, <2>1 DEF Drained
<1> QED
  BY <1>7, <1>8, <1>9, <1>10, <1>11

\* The commands of the client
LEMMA CommandStep ==
  ASSUME Typed, Sequel, OneTerminalEvent, NEW k \in Turns, OfTurn(k),
         BeginSpeech \/ EnqueueSpeech \/ FinishSpeech \/ CancelSpeech \/ CloseSession
  PROVE  /\ k > begun' => spoken'[k] = 0
         /\ Unset(k)' /\ Retired(k)' /\ Counted(k)' /\ Complete(k)' /\ Drained(k)'
<1>1. /\ begun \in Nat /\ acts \in Seq(Commands(begun)) /\ segs \in [Turns -> Nat] /\ k \in Nat \ {0}
      /\ turn # 0 => turn \in 1..begun /\ turn \in Turns
  <2>1. k \in Nat \ {0}
    BY Bounds DEF Turns
  <2>2. acts \in Seq(Commands(begun)) /\ segs \in [Turns -> Nat]
    BY DEF Typed, CoreTypes, ExecutorTypes
  <2> QED
    BY <2>1, <2>2, Retiring
<1>2. SameFor(acts, acts \o RetireActions, k) /\ acts \o RetireActions \in Seq(Commands(begun))
  BY SameRetired, Retiring
<1>3. \A a, b, c : SameFor(a, b, k) /\ SameFor(b, c, k) => SameFor(a, c, k)
  BY DEF SameFor
<1>4. UNCHANGED Workers /\ UNCHANGED ended
  BY DEF BeginSpeech, EnqueueSpeech, FinishSpeech, CancelSpeech, CloseSession, Workers, history
<1>5. CASE BeginSpeech
  <2> DEFINE r == acts \o RetireActions
             y == Msg("set", begun + 1)
  <2>1. CASE k = begun + 1
    BY <1>5, <2>1, BeginOwn
  <2>2. CASE k # begun + 1
    <3>1. begun' = begun + 1 /\ turn' = begun + 1 /\ segs' = segs /\ acts' = r \o <<y>>
      BY <1>5 DEF BeginSpeech
    <3>2. begun + 1 \in Nat /\ begun + 1 \in 1..begun + 1
      BY <1>1
    <3>3. r \in Seq(Commands(begun + 1)) /\ y \in Commands(begun + 1)
      BY <1>1, <1>2, <3>2, OneMoreOf, MsgOf
    <3>4. y # Msg("set", k) /\ y # Msg("enqueue", k)
      BY <2>2 DEF Msg
    <3> HIDE DEF r, y
    <3>5. acts' = Append(r, y)
      BY <3>1, <3>3
    <3>6. SameFor(r, Append(r, y), k)
      BY <3>2, <3>3, <3>4, SameAppended
    <3>7. SameFor(acts, acts', k)
      BY <1>2, <1>3, <3>5, <3>6 DEF r
    <3>8. begun' >= begun /\ begun' \in Nat /\ turn' # k /\ segs'[k] = segs[k]
      BY <1>1, <2>2, <3>1
    <3> QED
      BY <1>4, <3>7, <3>8, QuietCommand
  <2> QED
    BY <2>1, <2>2
<1>6. CASE EnqueueSpeech
  <2>1. CASE turn = k
    BY <1>6, <2>1, EnqueueOwn
  <2>2. CASE turn # k
    <3> DEFINE y == Msg("enqueue", turn)
    <3>1. begun' = begun /\ turn' = turn /\ segs' = [segs EXCEPT ![turn] = @ + 1] /\ turn # 0
          /\ acts' = Append(acts, y)
      BY <1>6 DEF EnqueueSpeech
    <3>2. y \in Commands(begun)
      BY <1>1, <3>1, MsgOf
    <3>3. y # Msg("set", k) /\ y # Msg("enqueue", k)
      BY <2>2 DEF Msg
    <3> HIDE DEF y
    <3>4. SameFor(acts, acts', k)
      BY <1>1, <3>1, <3>2, <3>3, SameAppended
    <3>5. begun' >= begun /\ begun' \in Nat /\ turn' # k /\ segs'[k] = segs[k]
      BY <1>1, <2>2, <3>1
    <3> QED
      BY <1>4, <3>4, <3>5, QuietCommand
  <2> QED
    BY <2>1, <2>2
<1>7. CASE FinishSpeech
  <2> DEFINE y == Msg("finish", turn)
  <2>1. begun' = begun /\ turn' = turn /\ segs' = segs /\ turn # 0 /\ finished' = TRUE
        /\ acts' = Append(acts, y)
    BY <1>7 DEF FinishSpeech
  <2>2. y \in Commands(begun)
    BY <1>1, <2>1, MsgOf
  <2>3. y # Msg("set", k) /\ y # Msg("enqueue", k)
    BY DEF Msg
  <2> HIDE DEF y
  <2>4. SameFor(acts, acts', k)
    BY <1>1, <2>1, <2>2, <2>3, SameAppended
  <2>5. begun' >= begun /\ begun' \in Nat /\ (turn' = k => turn = k) /\ segs'[k] = segs[k]
    BY <1>1, <2>1
  <2>6. finished'
    BY <2>1
  <2> QED
    BY <1>4, <2>4, <2>5, <2>6, QuietCommand
<1>8. CASE CancelSpeech
  <2>1. begun' = begun /\ turn' = 0 /\ segs' = segs /\ acts' = acts \o RetireActions
    BY <1>8 DEF CancelSpeech
  <2>2. begun' >= begun /\ begun' \in Nat /\ turn' # k /\ segs'[k] = segs[k]
    BY <1>1, <2>1
  <2> QED
    BY <1>2, <1>4, <2>1, <2>2, QuietCommand
<1>9. CASE CloseSession
  <2> DEFINE r == acts \o RetireActions
             y == Msg("close", 0)
  <2>1. begun' = begun /\ turn' = 0 /\ segs' = segs /\ acts' = r \o <<y>>
    BY <1>9 DEF CloseSession
  <2>2. r \in Seq(Commands(begun)) /\ y \in Commands(begun)
    BY <1>2 DEF Commands
  <2>3. y # Msg("set", k) /\ y # Msg("enqueue", k)
    BY DEF Msg
  <2> HIDE DEF r, y
  <2>4. acts' = Append(r, y)
    BY <2>1, <2>2
  <2>5. SameFor(r, Append(r, y), k)
    BY <1>1, <2>2, <2>3, SameAppended
  <2>6. SameFor(acts, acts', k)
    BY <1>2, <1>3, <2>4, <2>5 DEF r
  <2>7. begun' >= begun /\ begun' \in Nat /\ turn' # k /\ segs'[k] = segs[k]
    BY <1>1, <2>1
  <2> QED
    BY <1>4, <2>6, <2>7, QuietCommand
<1> QED
  BY <1>5, <1>6, <1>7, <1>8, <1>9

-----------------------------------------------------------------------------
(* The steps of a turn: the two workers and the callback *)

\* A message is its kind and its turn.
LEMMA MsgEq ==
  \A a, b, j, k : Msg(a, j) = Msg(b, k) <=> a = b /\ j = k
BY DEF Msg

\* What an appended message changes
LEMMA Appended ==
  ASSUME NEW S, NEW q \in Seq(S), NEW y \in S, NEW x
  PROVE  /\ N(q, x) \in Nat /\ (In(x, Append(q, y)) <=> In(x, q) \/ x = y)
         /\ y = x => N(Append(q, y), x) = N(q, x) + 1
         /\ y # x => N(Append(q, y), x) = N(q, x)
<1>1. N(q, x) \in Nat
  BY NZero
<1>2. N(Append(q, y), x) = N(q, x) + (IF y = x THEN 1 ELSE 0)
  BY NAppend
<1>3. In(x, Append(q, y)) <=> In(x, q) \/ x = y
  BY InAppend
<1> QED
  BY <1>1, <1>2, <1>3

\* What taking the head changes
LEMMA Taken ==
  ASSUME NEW S, NEW q \in Seq(S), q # <<>>, NEW x
  PROVE  /\ N(Tail(q), x) \in Nat /\ (In(x, q) <=> In(x, Tail(q)) \/ x = Head(q))
         /\ Head(q) = x => N(q, x) = N(Tail(q), x) + 1
         /\ Head(q) # x => N(q, x) = N(Tail(q), x)
<1>1. Tail(q) \in Seq(S)
  OBVIOUS
<1>2. N(Tail(q), x) \in Nat
  BY <1>1, NZero
<1>3. N(q, x) = N(Tail(q), x) + (IF Head(q) = x THEN 1 ELSE 0)
  BY NTail
<1>4. In(x, q) <=> In(x, Tail(q)) \/ x = Head(q)
  BY InTail
<1> QED
  BY <1>2, <1>3, <1>4

\* The parts of the count of segments on their way
LEMMA UpstreamParts ==
  ASSUME NEW n \in Nat, NEW q \in Seq(1..n), NEW b, NEW e \in Seq(Syntheses(n)),
         NEW w \in Seq(Works(n)), NEW v \in Seq(Prepared(n)), NEW k
  PROVE  /\ N(q, k) \in Nat /\ N(e, Msg("done", k)) \in Nat /\ N(e, Msg("failed", k)) \in Nat
         /\ N(w, Msg("prepare", k)) \in Nat /\ N(v, Msg("failed", k)) \in Nat
         /\ N(v, Msg("prepared", k)) \in Nat
         /\ Upstream(q, b, e, w, v, k) \in Nat
         /\ Upstream(q, b, e, w, v, k) = 0 =>
              /\ ~In(k, q) /\ b # k /\ ~In(Msg("done", k), e) /\ ~In(Msg("prepare", k), w)
<1>1. /\ N(q, k) \in Nat /\ N(e, Msg("done", k)) \in Nat /\ N(e, Msg("failed", k)) \in Nat
      /\ N(w, Msg("prepare", k)) \in Nat /\ N(v, Msg("failed", k)) \in Nat
      /\ N(v, Msg("prepared", k)) \in Nat
  BY NZero
<1> DEFINE one == IF b = k THEN 1 ELSE 0
<1>2. one \in Nat /\ (one = 0 => b # k)
  OBVIOUS
<1>3. Upstream(q, b, e, w, v, k) =
        N(q, k) + one + N(e, Msg("done", k)) + N(e, Msg("failed", k)) + N(w, Msg("prepare", k))
          + N(v, Msg("failed", k))
  BY DEF Upstream
<1> HIDE DEF one
<1>5. /\ Upstream(q, b, e, w, v, k) \in Nat
      /\ Upstream(q, b, e, w, v, k) = 0 =>
           N(q, k) = 0 /\ one = 0 /\ N(e, Msg("done", k)) = 0 /\ N(w, Msg("prepare", k)) = 0
  BY ONLY <1>1, <1>2, <1>3, SMTT(60)
<1>4. /\ N(q, k) = 0 <=> ~In(k, q)
      /\ N(e, Msg("done", k)) = 0 <=> ~In(Msg("done", k), e)
      /\ N(w, Msg("prepare", k)) = 0 <=> ~In(Msg("prepare", k), w)
  BY NZero
<1> QED
  BY <1>1, <1>2, <1>4, <1>5

\* What the proofs of the steps take from the types
LEMMA StateOf ==
  ASSUME Typed, NEW k \in Turns
  PROVE  /\ begun \in Nat /\ k \in Nat \ {0} /\ acts \in Seq(Commands(begun)) /\ obs \in Seq(Reports(begun))
         /\ ttsQ \in Seq(1..begun) /\ ttsEv \in Seq(Syntheses(begun))
         /\ outQ \in Seq(Works(begun)) /\ outEv \in Seq(Prepared(begun)) /\ rendEv \in Seq(1..begun)
         /\ segs[k] \in Nat /\ spoken[k] \in Nat /\ ring \in Nat /\ MapOf(turns, begun)
         /\ busy \in 0..begun /\ active \in 0..begun
<1>1. k \in Nat \ {0} /\ begun \in Nat
  BY Bounds DEF Turns, Typed, CoreTypes
<1>2. acts \in Seq(Commands(begun)) /\ obs \in Seq(Reports(begun)) /\ MapOf(turns, begun) /\ active \in 0..begun
  BY DEF Typed, ExecutorTypes
<1>3. ttsQ \in Seq(1..begun) /\ ttsEv \in Seq(Syntheses(begun)) /\ busy \in 0..begun
  BY DEF Typed, SynthesisTypes
<1>4. outQ \in Seq(Works(begun)) /\ outEv \in Seq(Prepared(begun)) /\ ring \in Nat
  BY Bounds DEF Typed, OutputTypes
<1>5. rendEv \in Seq(1..begun) /\ segs[k] \in Nat /\ spoken[k] \in Nat
  BY DEF Typed, CallbackTypes, CoreTypes
<1> QED
  BY <1>1, <1>2, <1>3, <1>4, <1>5

\* A turn played out stays so while segments move on by one stage at a time.
LEMMA DoneKept ==
  ASSUME NEW k, Done(k), segs'[k] = segs[k], spoken'[k] = spoken[k],
         turn' = k => turn = k /\ finished' = finished,
         In(Msg("enqueue", k), acts') => In(Msg("enqueue", k), acts),
         In(k, ttsQ') => In(k, ttsQ) \/ In(Msg("enqueue", k), acts),
         busy' = k => busy = k \/ In(k, ttsQ),
         In(Msg("done", k), ttsEv') => In(Msg("done", k), ttsEv) \/ busy = k,
         In(Msg("prepare", k), outQ') => In(Msg("prepare", k), outQ) \/ In(Msg("done", k), ttsEv),
         active' = k /\ ring' # 0 => (active = k /\ ring # 0) \/ In(Msg("prepare", k), outQ)
  PROVE  Done(k)'
BY DEF Done

\* A worker's step changes nothing that the coordinator and the executor know.
LEMMA WorkerQuiet ==
  ASSUME Typed, NEW k \in Turns, OfTurn(k), UNCHANGED <<core, acts, obs, turns, active>>,
         Done(k) => Done(k)'
  PROVE  Complete(k)' /\ Drained(k)'
<1>1. UNCHANGED <<turn, finished, ended>>
  BY DEF core
<1>2. Complete(k)'
  BY <1>1 DEF OfTurn, Complete
<1>3. Drained(k)'
  BY <1>1 DEF OfTurn, Drained
<1> QED
  BY <1>2, <1>3

\* A segment is taken up by the synthesis worker.
LEMMA SynthesizeStep ==
  ASSUME Typed, NEW k \in Turns, OfTurn(k), Synthesize
  PROVE  /\ k > begun' => spoken'[k] = 0
         /\ Unset(k)' /\ Retired(k)' /\ Counted(k)' /\ Complete(k)' /\ Drained(k)'
<1> DEFINE j == Head(ttsQ)
           y == Msg(IF j \in cancelled THEN "cancelled" ELSE "started", j)
<1>1. /\ ttsQ # <<>> /\ busy = 0 /\ busy' = (IF j \in cancelled THEN 0 ELSE j)
      /\ ttsEv' = Append(ttsEv, y) /\ ttsQ' = Tail(ttsQ)
      /\ UNCHANGED <<core, acts, obs, open, turns, active, cancelled, output, callback, history>>
  BY DEF Synthesize
<1>2. /\ UNCHANGED <<begun, turn, segs, finished, ended, outQ, outEv, ring, fade, rendEv, faded, spoken>>
  BY <1>1 DEF core, output, callback, history
<1>3. begun \in Nat /\ k # 0 /\ ttsQ \in Seq(1..begun) /\ ttsEv \in Seq(Syntheses(begun)) /\ j \in 1..begun
      /\ outQ \in Seq(Works(begun)) /\ outEv \in Seq(Prepared(begun)) /\ Tail(ttsQ) \in Seq(1..begun)
  BY <1>1, StateOf, HeadOf
<1>4. /\ y \in Syntheses(begun) /\ y # Msg("done", k) /\ y # Msg("failed", k) /\ y.k = j
      /\ y = Msg("cancelled", k) <=> j = k /\ j \in cancelled
  <2>1. CASE j \in cancelled
    <3>1. y = Msg("cancelled", j) /\ y.k = j
      BY <2>1 DEF Msg
    <3> HIDE DEF y
    <3> QED
      <4>1. y \in Syntheses(begun)
        BY <1>3, <3>1, MsgOf
      <4>2. /\ y # Msg("done", k) /\ y # Msg("failed", k)
            /\ y = Msg("cancelled", k) <=> j = k /\ j \in cancelled
        BY <2>1, <3>1, MsgEq
      <4> QED
        BY <3>1, <4>1, <4>2
  <2>2. CASE j \notin cancelled
    <3>1. y = Msg("started", j) /\ y.k = j
      BY <2>2 DEF Msg
    <3> HIDE DEF y
    <3> QED
      <4>1. y \in Syntheses(begun)
        BY <1>3, <3>1, MsgOf
      <4>2. /\ y # Msg("done", k) /\ y # Msg("failed", k)
            /\ y = Msg("cancelled", k) <=> j = k /\ j \in cancelled
        BY <2>2, <3>1, MsgEq
      <4> QED
        BY <3>1, <4>1, <4>2
  <2> QED
    BY <2>1, <2>2
<1> HIDE DEF y, j
<1>5. /\ N(ttsEv', Msg("done", k)) = N(ttsEv, Msg("done", k))
      /\ N(ttsEv', Msg("failed", k)) = N(ttsEv, Msg("failed", k))
      /\ In(Msg("done", k), ttsEv') <=> In(Msg("done", k), ttsEv)
      /\ In(Msg("cancelled", k), ttsEv') => In(Msg("cancelled", k), ttsEv) \/ k \in cancelled
  BY <1>1, <1>3, <1>4, Appended
<1>6. /\ N(ttsQ', k) \in Nat /\ (In(k, ttsQ) <=> In(k, ttsQ') \/ j = k)
      /\ N(ttsQ, k) = N(ttsQ', k) + (IF j = k THEN 1 ELSE 0)
  BY <1>1, <1>3, Taken, SMTT(60) DEF j
<1>7. Unset(k)'
  <2>1. ~In(k, ttsQ) /\ Free(ttsEv, k) => busy' # k /\ ~In(k, ttsQ') /\ Free(ttsEv', k)
    BY <1>1, <1>3, <1>4, <1>6, FreeOf
  <2> QED
    BY <1>1, <1>2, <2>1 DEF OfTurn, Unset
<1>8. Retired(k)'
  BY <1>1, <1>2, <1>5 DEF OfTurn, Retired
<1>9. Counted(k)'
  <2> SUFFICES ASSUME turn = k, active = k, ~In(Msg("failed", k), obs)
               PROVE  Counted(k)'
    BY <1>1, <1>2 DEF Counted
  <2>1. k \notin cancelled
    BY DEF OfTurn, Retired
  <2>2. N(ttsQ, k) + (IF busy = k THEN 1 ELSE 0) = N(ttsQ', k) + (IF busy' = k THEN 1 ELSE 0)
    BY <1>1, <1>3, <1>6, <2>1
  <2>3. Upstream(ttsQ', busy', ttsEv', outQ, outEv, k) = Upstream(ttsQ, busy, ttsEv, outQ, outEv, k)
    BY <1>5, <2>2 DEF Upstream
  <2> QED
    BY <1>1, <1>2, <2>3 DEF OfTurn, Counted
<1>10. Done(k) => Done(k)'
  BY <1>1, <1>2, <1>3, <1>5, <1>6, DoneKept
<1>11. Complete(k)' /\ Drained(k)'
  BY <1>1, <1>10, WorkerQuiet
<1> QED
  BY <1>2, <1>7, <1>8, <1>9, <1>11 DEF OfTurn

\* A segment is synthesized, fails, or is found cancelled.
LEMMA SynthesizedStep ==
  ASSUME Typed, NEW k \in Turns, OfTurn(k), Synthesized
  PROVE  /\ k > begun' => spoken'[k] = 0
         /\ Unset(k)' /\ Retired(k)' /\ Counted(k)' /\ Complete(k)' /\ Drained(k)'
<1>1. PICK what \in {"done", "failed", "cancelled"} :
        ttsEv' = Append(ttsEv, Msg(what, busy)) /\ (what = "cancelled" => busy \in cancelled)
  BY DEF Synthesized
<1> DEFINE y == Msg(what, busy)
<1>2. /\ busy # 0 /\ busy' = 0 /\ ttsEv' = Append(ttsEv, y)
      /\ UNCHANGED <<core, acts, obs, open, turns, active, ttsQ, cancelled, output, callback, spoken>>
  BY <1>1 DEF Synthesized
<1>3. /\ UNCHANGED <<begun, turn, segs, finished, ended, outQ, outEv, ring, fade, rendEv, faded>>
  BY <1>2 DEF core, output, callback
<1>4. begun \in Nat /\ k # 0 /\ ttsEv \in Seq(Syntheses(begun)) /\ busy \in 1..begun
  <2>1. begun \in Nat /\ k # 0 /\ ttsEv \in Seq(Syntheses(begun)) /\ busy \in 0..begun
    BY StateOf
  <2> QED
    BY <1>2, <2>1
<1>5. /\ y \in Syntheses(begun) /\ y.k = busy
      /\ \A w : y = Msg(w, k) <=> what = w /\ busy = k
  <2>1. y \in Syntheses(begun)
    BY <1>1, <1>4, MsgOf
  <2>2. y.k = busy
    BY DEF Msg
  <2> QED
    BY <2>1, <2>2, MsgEq
<1> HIDE DEF y
<1>6. /\ In(Msg("done", k), ttsEv') => In(Msg("done", k), ttsEv) \/ busy = k
      /\ In(Msg("cancelled", k), ttsEv') => In(Msg("cancelled", k), ttsEv) \/ k \in cancelled
  <2>1. \A x : In(x, ttsEv') <=> In(x, ttsEv) \/ x = y
    BY <1>2, <1>4, <1>5, Appended
  <2> QED
    BY <1>1, <1>5, <2>1
<1>7. Unset(k)'
  <2>1. busy # k /\ Free(ttsEv, k) => Free(ttsEv', k)
    BY <1>2, <1>4, <1>5, FreeOf
  <2> QED
    BY <1>2, <1>3, <1>4, <2>1 DEF OfTurn, Unset
<1>8. Retired(k)'
  BY <1>2, <1>3, <1>6 DEF OfTurn, Retired
<1>9. Counted(k)'
  <2> SUFFICES ASSUME turn = k, active = k, ~In(Msg("failed", k), obs)
               PROVE  Counted(k)'
    BY <1>2, <1>3 DEF Counted
  <2>1. k \notin cancelled
    BY DEF OfTurn, Retired
  <2> DEFINE d == N(ttsEv, Msg("done", k))
             f == N(ttsEv, Msg("failed", k))
             d1 == N(ttsEv', Msg("done", k))
             f1 == N(ttsEv', Msg("failed", k))
  <2>2. d \in Nat /\ f \in Nat
    BY <1>2, <1>4, <1>5, Appended
  <2>3. /\ y = Msg("done", k) => d1 = d + 1
        /\ y # Msg("done", k) => d1 = d
        /\ y = Msg("failed", k) => f1 = f + 1
        /\ y # Msg("failed", k) => f1 = f
    BY <1>2, <1>4, <1>5, Appended
  <2>4. /\ busy = k => \/ d1 = d + 1 /\ f1 = f
                       \/ d1 = d /\ f1 = f + 1
        /\ busy # k => d1 = d /\ f1 = f
    BY <1>1, <1>5, <2>1, <2>3
  <2> HIDE DEF d, f, d1, f1
  <2> DEFINE b == IF busy = k THEN 1 ELSE 0
  <2>5. b \in Nat /\ d1 + f1 = d + f + b /\ d1 \in Nat /\ f1 \in Nat
    <3>1. CASE busy = k
      <4>1. b = 1
        BY <3>1
      <4> HIDE DEF b
      <4> QED
        BY <2>2, <2>4, <3>1, <4>1
    <3>2. CASE busy # k
      <4>1. b = 0
        BY <3>2
      <4> HIDE DEF b
      <4> QED
        BY <2>2, <2>4, <3>2, <4>1
    <3> QED
      BY <3>1, <3>2
  <2>6. N(ttsQ, k) \in Nat /\ N(outQ, Msg("prepare", k)) \in Nat /\ N(outEv, Msg("failed", k)) \in Nat
    BY StateOf, UpstreamParts
  <2>7. N(ttsQ, k) + 0 + d1 + f1 + N(outQ, Msg("prepare", k)) + N(outEv, Msg("failed", k))
        = N(ttsQ, k) + b + d + f + N(outQ, Msg("prepare", k))
            + N(outEv, Msg("failed", k))
    <3> HIDE DEF b
    <3> QED
      BY ONLY <2>2, <2>5, <2>6
  <2>8. Upstream(ttsQ, busy', ttsEv', outQ, outEv, k) = Upstream(ttsQ, busy, ttsEv, outQ, outEv, k)
    BY <1>2, <1>4, <2>7 DEF Upstream, d, f, d1, f1
  <2> QED
    BY <1>2, <1>3, <2>8 DEF OfTurn, Counted
<1>10. Done(k) => Done(k)'
  BY <1>2, <1>3, <1>4, <1>6, DoneKept
<1>11. Complete(k)' /\ Drained(k)'
  BY <1>2, <1>10, WorkerQuiet
<1> QED
  BY <1>2, <1>3, <1>7, <1>8, <1>9, <1>11 DEF OfTurn

\* A segment is moved to the ring, fails, or is dropped.
LEMMA PrepareStep ==
  ASSUME Typed, NEW k \in Turns, OfTurn(k), Prepare
  PROVE  /\ k > begun' => spoken'[k] = 0
         /\ Unset(k)' /\ Retired(k)' /\ Counted(k)' /\ Complete(k)' /\ Drained(k)'
<1> DEFINE j == Head(outQ).k
<1>1. PICK what \in {"prepared", "failed", "cancelled"} :
        /\ outEv' = Append(outEv, Msg(what, j))
        /\ what = "cancelled" <=> j # active
        /\ what = "prepared" => ring' = ring + 1
        /\ what # "prepared" => ring' = ring
  BY DEF Prepare
<1> DEFINE y == Msg(what, j)
<1>2. /\ outQ # <<>> /\ Head(outQ).m = "prepare" /\ outEv' = Append(outEv, y) /\ outQ' = Tail(outQ)
      /\ UNCHANGED <<core, acts, obs, open, turns, active, synthesis, callback, spoken>>
  BY <1>1 DEF Prepare
<1>3. /\ UNCHANGED <<begun, turn, segs, finished, ended, ttsQ, busy, ttsEv, cancelled, fade, rendEv, faded>>
  BY <1>2 DEF core, synthesis, callback
<1>4. /\ begun \in Nat /\ k # 0 /\ outQ \in Seq(Works(begun)) /\ outEv \in Seq(Prepared(begun))
      /\ j \in 1..begun /\ Head(outQ) = Msg("prepare", j) /\ ring \in Nat
  BY <1>2, StateOf, HeadOf
<1>5. /\ y \in Prepared(begun) /\ y.k = j
      /\ \A w : y = Msg(w, k) <=> what = w /\ j = k
  <2>1. y \in Prepared(begun)
    BY <1>1, <1>4, MsgOf
  <2>2. y.k = j
    BY DEF Msg
  <2> QED
    BY <2>1, <2>2, MsgEq
<1>6. Head(outQ) = Msg("prepare", k) <=> j = k
  BY <1>4, MsgEq
<1> HIDE DEF y, j
<1>7. /\ In(Msg("cancelled", k), outEv') => In(Msg("cancelled", k), outEv) \/ k # active
      /\ In(Msg("finish failed", k), outEv') => In(Msg("finish failed", k), outEv)
      /\ In(Msg("prepare", k), outQ) <=> In(Msg("prepare", k), outQ') \/ j = k
  <2>1. \A x : In(x, outEv') <=> In(x, outEv) \/ x = y
    BY <1>2, <1>4, <1>5, Appended
  <2>2. In(Msg("prepare", k), outQ) <=> In(Msg("prepare", k), outQ') \/ Msg("prepare", k) = Head(outQ)
    BY <1>2, <1>4, Taken
  <2>3. y = Msg("cancelled", k) => k # active
    BY <1>1, <1>5
  <2>4. y # Msg("finish failed", k)
    <3>1. what # "finish failed"
      OBVIOUS
    <3> QED
      BY <1>5, <3>1
  <2> QED
    BY <1>6, <2>1, <2>2, <2>3, <2>4
<1>8. Unset(k)'
  <2>1. Free(outQ, k) /\ Free(outEv, k) => Free(outQ', k) /\ Free(outEv', k)
    BY <1>2, <1>4, <1>5, FreeOf DEF j
  <2> QED
    BY <1>2, <1>3, <2>1 DEF OfTurn, Unset
<1>9. Retired(k)'
  BY <1>2, <1>3, <1>7 DEF OfTurn, Retired
<1>10. Counted(k)'
  <2> SUFFICES ASSUME turn = k, active = k, ~In(Msg("failed", k), obs)
               PROVE  Counted(k)'
    BY <1>2, <1>3 DEF Counted
  <2> DEFINE c == N(acts, Msg("enqueue", k))
             a == N(ttsQ, k)
             b == IF busy = k THEN 1 ELSE 0
             d == N(ttsEv, Msg("done", k))
             f == N(ttsEv, Msg("failed", k))
             w == N(outQ, Msg("prepare", k))
             v == N(outEv, Msg("failed", k))
             p == N(outEv, Msg("prepared", k))
             w1 == N(outQ', Msg("prepare", k))
             v1 == N(outEv', Msg("failed", k))
             p1 == N(outEv', Msg("prepared", k))
  <2>1. c \in Nat /\ a \in Nat /\ b \in Nat /\ d \in Nat /\ f \in Nat /\ v \in Nat /\ p \in Nat
    BY StateOf, NZero
  <2>2. w1 \in Nat /\ (j = k => w = w1 + 1) /\ (j # k => w = w1)
    BY <1>2, <1>4, <1>6, Taken
  <2>3. /\ y = Msg("prepared", k) => p1 = p + 1
        /\ y # Msg("prepared", k) => p1 = p
        /\ y = Msg("failed", k) => v1 = v + 1
        /\ y # Msg("failed", k) => v1 = v
    BY <1>2, <1>4, <1>5, Appended
  <2>4. \/ w = w1 + 1 /\ p1 = p + 1 /\ v1 = v /\ ring' = ring + 1
        \/ w = w1 + 1 /\ p1 = p /\ v1 = v + 1 /\ ring' = ring
        \/ w = w1 /\ p1 = p /\ v1 = v /\ ring' = ring
    <3>1. CASE j = k
      BY <1>1, <1>5, <2>2, <2>3, <3>1
    <3>2. CASE j # k
      BY <1>1, <1>5, <2>2, <2>3, <3>2
    <3> QED
      BY <3>1, <3>2
  <2>5. /\ segs[k] = c + (a + b + d + f + w + v) + spoken[k] + ring
        /\ Pending(turns, k) = (a + b + d + f + w + v) + p
    BY DEF OfTurn, Counted, Upstream
  <2>6. segs[k] \in Nat /\ spoken[k] \in Nat
    BY StateOf
  <2> HIDE DEF c, a, b, d, f, w, v, p, w1, v1, p1
  <2>7. /\ segs[k] = c + (a + b + d + f + w1 + v1) + spoken[k] + ring'
        /\ Pending(turns, k) = (a + b + d + f + w1 + v1) + p1
    <3>0. w1 \in Nat /\ ring \in Nat
      BY <1>4, <2>2
    <3>1. CASE w = w1 + 1 /\ p1 = p + 1 /\ v1 = v /\ ring' = ring + 1
      BY ONLY <2>1, <2>5, <2>6, <3>0, <3>1, SMTT(60)
    <3>2. CASE w = w1 + 1 /\ p1 = p /\ v1 = v + 1 /\ ring' = ring
      BY ONLY <2>1, <2>5, <2>6, <3>0, <3>2, SMTT(60)
    <3>3. CASE w = w1 /\ p1 = p /\ v1 = v /\ ring' = ring
      BY ONLY <2>5, <3>3
    <3> QED
      BY <2>4, <3>1, <3>2, <3>3
  <2> QED
    BY <1>2, <1>3, <2>7 DEF Counted, Upstream, c, a, b, d, f, w1, v1, p1
<1>11. Done(k) => Done(k)'
  <2>1. active' = k /\ ring' # 0 => (active = k /\ ring # 0) \/ In(Msg("prepare", k), outQ)
    BY <1>1, <1>2, <1>7
  <2> QED
    BY <1>2, <1>3, <1>7, <2>1, DoneKept
<1>12. Complete(k)' /\ Drained(k)'
  BY <1>2, <1>11, WorkerQuiet
<1> QED
  BY <1>2, <1>3, <1>8, <1>9, <1>10, <1>12 DEF OfTurn

\* The end of a turn reaches the output worker.
LEMMA FinishOutputStep ==
  ASSUME Typed, NEW k \in Turns, OfTurn(k), FinishOutput
  PROVE  /\ k > begun' => spoken'[k] = 0
         /\ Unset(k)' /\ Retired(k)' /\ Counted(k)' /\ Complete(k)' /\ Drained(k)'
<1> DEFINE j == Head(outQ).k
<1>1. /\ outQ # <<>> /\ Head(outQ).m = "finish" /\ outQ' = Tail(outQ)
      /\ UNCHANGED <<core, acts, obs, open, turns, active, synthesis, ring, callback, spoken>>
  BY DEF FinishOutput, history
<1>2. \/ outEv' = outEv
      \/ outEv' = Append(outEv, Msg("finished", j))
      \/ j # active /\ outEv' = Append(outEv, Msg("finish failed", j))
  BY DEF FinishOutput
<1>3. /\ UNCHANGED <<begun, turn, segs, finished, ended, ttsQ, busy, ttsEv, cancelled, fade, rendEv, faded>>
  BY <1>1 DEF core, synthesis, callback
<1>4. /\ begun \in Nat /\ k # 0 /\ outQ \in Seq(Works(begun)) /\ outEv \in Seq(Prepared(begun))
      /\ j \in 1..begun /\ Head(outQ) = Msg("finish", j)
  BY <1>1, StateOf, HeadOf
<1>5. Head(outQ) # Msg("prepare", k)
  BY <1>4, MsgEq
<1> HIDE DEF j
<1>7. /\ In(Msg("cancelled", k), outEv') => In(Msg("cancelled", k), outEv)
      /\ In(Msg("finish failed", k), outEv') => In(Msg("finish failed", k), outEv) \/ active # k
      /\ N(outEv', Msg("failed", k)) = N(outEv, Msg("failed", k))
      /\ N(outEv', Msg("prepared", k)) = N(outEv, Msg("prepared", k))
      /\ Free(outQ, k) /\ Free(outEv, k) => Free(outEv', k)
  <2>1. CASE outEv' = outEv
    BY <2>1
  <2>2. ASSUME NEW y \in Prepared(begun), y.k = j, outEv' = Append(outEv, y),
               y # Msg("cancelled", k), y # Msg("failed", k), y # Msg("prepared", k),
               y = Msg("finish failed", k) => active # k
        PROVE  /\ In(Msg("cancelled", k), outEv') => In(Msg("cancelled", k), outEv)
               /\ In(Msg("finish failed", k), outEv') => In(Msg("finish failed", k), outEv) \/ active # k
               /\ N(outEv', Msg("failed", k)) = N(outEv, Msg("failed", k))
               /\ N(outEv', Msg("prepared", k)) = N(outEv, Msg("prepared", k))
               /\ Free(outQ, k) /\ Free(outEv, k) => Free(outEv', k)
    <3>1. \A x : In(x, outEv') <=> In(x, outEv) \/ x = y
      BY <1>4, <2>2, Appended
    <3>2. /\ N(outEv', Msg("failed", k)) = N(outEv, Msg("failed", k))
          /\ N(outEv', Msg("prepared", k)) = N(outEv, Msg("prepared", k))
      <4>1. /\ outEv \in Seq(Prepared(begun)) /\ y \in Prepared(begun)
            /\ y # Msg("failed", k) /\ y # Msg("prepared", k)
        BY <1>4, <2>2
      <4>2. N(Append(outEv, y), Msg("failed", k)) = N(outEv, Msg("failed", k))
        BY ONLY <4>1, Appended
      <4>3. N(Append(outEv, y), Msg("prepared", k)) = N(outEv, Msg("prepared", k))
        BY ONLY <4>1, Appended
      <4> QED
        BY <2>2, <4>2, <4>3
    <3>3. Free(outQ, k) => j # k
      BY <1>1, <1>4, FreeOf DEF j
    <3>4. Free(outEv, k) /\ j # k => Free(outEv', k)
      BY <1>4, <2>2, FreeOf
    <3> QED
      BY <2>2, <3>1, <3>2, <3>3, <3>4
  <2>3. CASE outEv' = Append(outEv, Msg("finished", j))
    <3> DEFINE y == Msg("finished", j)
    <3>1. y \in Prepared(begun)
      BY <1>4, MsgOf
    <3>2. /\ y # Msg("cancelled", k) /\ y # Msg("failed", k) /\ y # Msg("prepared", k)
          /\ y # Msg("finish failed", k) /\ y.k = j
      BY DEF Msg
    <3> HIDE DEF y
    <3> QED
      BY <2>2, <2>3, <3>1, <3>2 DEF y
  <2>4. CASE j # active /\ outEv' = Append(outEv, Msg("finish failed", j))
    <3> DEFINE y == Msg("finish failed", j)
    <3>1. y \in Prepared(begun)
      BY <1>4, MsgOf
    <3>2. /\ y # Msg("cancelled", k) /\ y # Msg("failed", k) /\ y # Msg("prepared", k)
          /\ (y = Msg("finish failed", k) => j = k) /\ y.k = j
      BY DEF Msg
    <3> HIDE DEF y
    <3> QED
      BY <2>2, <2>4, <3>1, <3>2 DEF y
  <2> QED
    BY <1>2, <2>1, <2>3, <2>4 DEF j
<1>8. /\ N(outQ', Msg("prepare", k)) = N(outQ, Msg("prepare", k))
      /\ In(Msg("prepare", k), outQ') <=> In(Msg("prepare", k), outQ)
      /\ Free(outQ, k) => Free(outQ', k)
  BY <1>1, <1>4, <1>5, Taken, FreeOf
<1>9. Unset(k)'
  BY <1>1, <1>3, <1>7, <1>8 DEF OfTurn, Unset
<1>10. Retired(k)'
  BY <1>1, <1>3, <1>7 DEF OfTurn, Retired
<1>11. Counted(k)'
  BY <1>1, <1>3, <1>7, <1>8 DEF OfTurn, Counted, Upstream
<1>12. Done(k) => Done(k)'
  BY <1>1, <1>3, <1>8, DoneKept
<1>13. Complete(k)' /\ Drained(k)'
  BY <1>1, <1>12, WorkerQuiet
<1> QED
  BY <1>1, <1>3, <1>9, <1>10, <1>11, <1>13 DEF OfTurn

\* The output worker reports room.
LEMMA ServiceCapacityStep ==
  ASSUME Typed, NEW k \in Turns, OfTurn(k), ServiceCapacity
  PROVE  /\ k > begun' => spoken'[k] = 0
         /\ Unset(k)' /\ Retired(k)' /\ Counted(k)' /\ Complete(k)' /\ Drained(k)'
<1> DEFINE y == Msg("capacity", 0)
<1>1. /\ outEv' = outEv \/ outEv' = Append(outEv, y)
      /\ UNCHANGED <<core, acts, obs, open, turns, active, synthesis, outQ, ring, callback, spoken>>
  BY DEF ServiceCapacity, history
<1>2. /\ UNCHANGED <<begun, turn, segs, finished, ended, ttsQ, busy, ttsEv, cancelled, fade, rendEv, faded>>
  BY <1>1 DEF core, synthesis, callback
<1>3. /\ begun \in Nat /\ k # 0 /\ outEv \in Seq(Prepared(begun)) /\ y \in Prepared(begun)
  BY StateOf DEF Prepared
<1>4. y.k # k /\ \A w : y # Msg(w, k)
  BY <1>3 DEF Msg
<1> HIDE DEF y
<1>5. /\ \A w : In(Msg(w, k), outEv') <=> In(Msg(w, k), outEv)
      /\ \A w : N(outEv', Msg(w, k)) = N(outEv, Msg(w, k))
      /\ Free(outEv, k) => Free(outEv', k)
  <2>1. CASE outEv' = outEv
    BY <2>1
  <2>2. CASE outEv' = Append(outEv, y)
    <3>1. \A x : In(x, outEv') <=> In(x, outEv) \/ x = y
      BY <1>3, <2>2, Appended
    <3>2. \A x : x # y => N(outEv', x) = N(outEv, x)
      BY <1>3, <2>2, Appended
    <3>3. Free(outEv, k) => Free(outEv', k)
      BY <1>3, <1>4, <2>2, FreeOf
    <3> QED
      BY <1>4, <3>1, <3>2, <3>3
  <2> QED
    BY <1>1, <2>1, <2>2
<1>6. Unset(k)'
  BY <1>1, <1>2, <1>5 DEF OfTurn, Unset
<1>7. Retired(k)'
  BY <1>1, <1>2, <1>5 DEF OfTurn, Retired
<1>8. Counted(k)'
  BY <1>1, <1>2, <1>5 DEF OfTurn, Counted, Upstream
<1>9. Done(k) => Done(k)'
  BY <1>1, <1>2, DoneKept
<1>10. Complete(k)' /\ Drained(k)'
  BY <1>1, <1>9, WorkerQuiet
<1> QED
  BY <1>1, <1>2, <1>6, <1>7, <1>8, <1>10 DEF OfTurn

\* A segment of the active generation is played to its end.
LEMMA PlayStep ==
  ASSUME Typed, NEW k \in Turns, OfTurn(k), Play
  PROVE  /\ k > begun' => spoken'[k] = 0
         /\ Unset(k)' /\ Retired(k)' /\ Counted(k)' /\ Complete(k)' /\ Drained(k)'
<1>1. /\ ring > 0 /\ ring' = ring - 1 /\ spoken' = [spoken EXCEPT ![active] = @ + 1]
      /\ UNCHANGED <<core, acts, obs, open, turns, active, synthesis, outQ, outEv, callback>>
  BY DEF Play
<1>2. /\ UNCHANGED <<begun, turn, segs, finished, ended, ttsQ, busy, ttsEv, cancelled, fade, rendEv, faded>>
  BY <1>1 DEF core, synthesis, callback
<1>3. begun \in Nat /\ k \in Nat /\ active \in 1..begun /\ spoken[k] \in Nat /\ segs[k] \in Nat /\ ring \in Nat
  <2>1. begun \in Nat /\ k \in Nat /\ active \in 0..begun /\ spoken[k] \in Nat /\ segs[k] \in Nat /\ ring \in Nat
    BY StateOf
  <2>2. active # 0
    BY <1>1 DEF Typed, OutputTypes
  <2> QED
    BY <2>1, <2>2
<1>4. spoken'[k] = IF active = k THEN spoken[k] + 1 ELSE spoken[k]
  BY <1>1 DEF Typed, CallbackTypes
<1>5. k > begun' => spoken'[k] = 0
  <2>1. k > begun => active # k
    BY <1>3
  <2> QED
    BY <1>2, <1>4, <2>1 DEF OfTurn
<1>6. Unset(k)'
  BY <1>1, <1>2, <1>4 DEF OfTurn, Unset
<1>7. Retired(k)'
  BY <1>1, <1>2 DEF OfTurn, Retired
<1>8. Counted(k)'
  <2> SUFFICES ASSUME turn = k, active = k, ~In(Msg("failed", k), obs)
               PROVE  Counted(k)'
    BY <1>1, <1>2 DEF Counted
  <2> DEFINE c == N(acts, Msg("enqueue", k))
             u == Upstream(ttsQ, busy, ttsEv, outQ, outEv, k)
  <2>1. c \in Nat /\ u \in Nat
    BY StateOf, NZero, UpstreamParts
  <2>2. segs[k] = c + u + spoken[k] + ring /\ Pending(turns, k) = u + N(outEv, Msg("prepared", k))
    BY DEF OfTurn, Counted
  <2> HIDE DEF c, u
  <2>3. segs[k] = c + u + spoken'[k] + ring'
    BY <1>1, <1>3, <1>4, <2>1, <2>2
  <2> QED
    BY <1>1, <1>2, <2>2, <2>3 DEF Counted, c, u
<1>9. Done(k) => Done(k)'
  <2>1. Done(k) => active # k
    BY <1>1, <1>3 DEF Done
  <2> QED
    BY <1>1, <1>2, <1>4, <2>1, DoneKept
<1>10. Complete(k)' /\ Drained(k)'
  BY <1>1, <1>9, WorkerQuiet
<1> QED
  BY <1>5, <1>6, <1>7, <1>8, <1>10

\* A fade ends.
LEMMA FadeCompleteStep ==
  ASSUME Typed, NEW k \in Turns, OfTurn(k), FadeComplete
  PROVE  /\ k > begun' => spoken'[k] = 0
         /\ Unset(k)' /\ Retired(k)' /\ Counted(k)' /\ Complete(k)' /\ Drained(k)'
<1>1. /\ fade # 0 /\ fade' = 0 /\ faded' = faded \cup {fade} /\ rendEv' = Append(rendEv, fade)
      /\ UNCHANGED <<core, acts, obs, open, turns, active, synthesis, output, spoken>>
  BY DEF FadeComplete, FadeEnd, history
<1>2. /\ UNCHANGED <<begun, turn, segs, finished, ended, ttsQ, busy, ttsEv, cancelled, outQ, outEv, ring>>
  BY <1>1 DEF core, synthesis, output
<1>3. begun \in Nat /\ k # 0 /\ rendEv \in Seq(1..begun) /\ fade \in 1..begun
  <2>1. fade \in 0..begun
    BY DEF Typed, CallbackTypes
  <2> QED
    BY <1>1, <2>1, StateOf
<1>4. In(k, rendEv') <=> In(k, rendEv) \/ k = fade
  <2>1. In(k, Append(rendEv, fade)) <=> In(k, rendEv) \/ k = fade
    BY ONLY <1>3, InAppend
  <2> QED
    BY <1>1, <2>1
<1>5. Unset(k)'
  BY <1>1, <1>2 DEF OfTurn, Unset
<1>6. Retired(k)'
  BY <1>1, <1>2, <1>3, <1>4 DEF OfTurn, Retired
<1>7. Counted(k)'
  BY <1>1, <1>2 DEF OfTurn, Counted
<1>8. Done(k) => Done(k)'
  BY <1>1, <1>2, DoneKept
<1>9. Complete(k)' /\ Drained(k)'
  BY <1>1, <1>8, WorkerQuiet
<1> QED
  BY <1>1, <1>2, <1>5, <1>6, <1>7, <1>9 DEF OfTurn

-----------------------------------------------------------------------------
(* The steps of a turn: the coordinator's observations *)

\* A report is handled by the coordinator.
LEMMA ObserveStep ==
  ASSUME Typed, NEW k \in Turns, OfTurn(k), Observe
  PROVE  /\ k > begun' => spoken'[k] = 0
         /\ Unset(k)' /\ Retired(k)' /\ Counted(k)' /\ Complete(k)' /\ Drained(k)'
<1> DEFINE o == Head(obs)
<1>1. /\ obs # <<>> /\ obs' = Tail(obs)
      /\ UNCHANGED <<begun, segs, finished, open, turns, active, synthesis, output, callback, spoken>>
  BY DEF Observe
<1>2. /\ UNCHANGED <<ttsQ, busy, ttsEv, cancelled, outQ, outEv, ring, fade, rendEv, faded>>
  BY <1>1 DEF synthesis, output, callback
<1>3. begun \in Nat /\ k # 0 /\ obs \in Seq(Reports(begun)) /\ o = Msg(o.m, o.k) /\ o.k \in 1..begun
      /\ o.k \in Turns
  <2>1. begun \in Nat /\ k # 0 /\ obs \in Seq(Reports(begun)) /\ o = Msg(o.m, o.k) /\ o.k \in 1..begun
    BY <1>1, StateOf, HeadOf
  <2>2. begun <= MaxTurns
    BY DEF Typed, CoreTypes
  <2> QED
    BY <2>1, <2>2, Bounds DEF Turns
<1>4. /\ turn' = turn \/ turn' = 0
      /\ o.m = "failed" /\ turn = o.k => turn' = 0
      /\ acts' = acts \/ acts' = acts \o RetireActions
  BY DEF Observe, SynthesisStarted, SynthesisFailed, PlaybackDrained, FadeDrained
<1>5. \/ ended' = ended
      \/ o.m = "drained" /\ turn = o.k /\ ended' = [ended EXCEPT ![o.k] = Append(@, "completed")]
      \/ o.m = "faded" /\ ended' = [ended EXCEPT ![o.k] = Append(@, outcome)]
  BY DEF Observe, SynthesisStarted, SynthesisFailed, PlaybackDrained, FadeDrained, Emit, Completes
<1>6. SameFor(acts, acts', k)
  <2>1. SameFor(acts, acts, k)
    BY DEF SameFor
  <2> QED
    BY <1>4, <2>1, SameRetired
<1>7. \A what : o = Msg(what, k) <=> o.m = what /\ o.k = k
  BY <1>3, MsgEq
<1> HIDE DEF o
<1>8. \A x : In(x, obs) <=> In(x, obs') \/ x = o
  BY ONLY <1>1, <1>3, Taken DEF o
<1>9. turn' = k => turn = k
  BY <1>3, <1>4
<1>10. Unset(k)'
  <2>1. Free(obs, k) => Free(obs', k)
    BY <1>1, <1>3, FreeOf
  <2> QED
    BY <1>1, <1>2, <1>6, <1>9, <2>1 DEF OfTurn, Unset, SameFor
<1>11. Retired(k)'
  BY <1>1, <1>2, <1>9 DEF OfTurn, Retired
<1>12. turn' = k => o # Msg("failed", k)
  BY <1>3, <1>4, <1>7
<1>13. Counted(k)'
  <2>1. turn' = k => (In(Msg("failed", k), obs) <=> In(Msg("failed", k), obs'))
    BY <1>8, <1>12
  <2> QED
    BY <1>1, <1>2, <1>6, <1>9, <2>1 DEF OfTurn, Counted, SameFor
<1>14. Complete(k)'
  BY <1>1, <1>6, <1>9 DEF OfTurn, Complete, SameFor
<1>15. Done(k) => Done(k)'
  <2>1. In(Msg("enqueue", k), acts') => In(Msg("enqueue", k), acts)
    BY <1>6 DEF SameFor
  <2> QED
    BY <1>1, <1>2, <1>9, <2>1, DoneKept
<1>16. ASSUME turn' = k, Credible(obs', k) PROVE Done(k)'
  <2>1. Credible(obs, k)
    BY <1>1, <1>3, <1>12, <1>16, CredibleTail DEF o
  <2> QED
    BY <1>9, <1>15, <1>16, <2>1 DEF OfTurn, Drained
<1>17. ASSUME ended'[k] # <<>>, ended'[k][1] = "completed" PROVE Done(k)'
  <2>1. ended[k] \in Seq({"completed", "cancelled", "failed"}) /\ ended \in [Turns -> Seq({"completed", "cancelled", "failed"})]
        /\ outcome # "completed" /\ outcome \in {"cancelled", "failed"}
    BY DEF Typed, CoreTypes
  <2>2. CASE ended'[k] = ended[k]
    BY <1>15, <1>17, <2>2 DEF OfTurn, Drained
  <2>3. CASE ended'[k] # ended[k]
    <3>1. /\ o.k = k
          /\ \/ o.m = "drained" /\ turn = k /\ ended'[k] = Append(ended[k], "completed")
             \/ ended'[k] = Append(ended[k], outcome)
      BY <1>3, <1>5, <2>1, <2>3
    <3>2. CASE ended[k] # <<>>
      <4>1. ended'[k][1] = ended[k][1]
        BY <2>1, <3>1, <3>2
      <4> QED
        BY <1>15, <1>17, <3>2, <4>1 DEF OfTurn, Drained
    <3>3. CASE ended[k] = <<>>
      <4>1. Append(ended[k], outcome)[1] = outcome
        BY <2>1, <3>3
      <4>2. o = Msg("drained", k) /\ turn = k
        BY <1>7, <1>17, <2>1, <3>1, <4>1
      <4>3. Credible(obs, k)
        BY <1>1, <1>3, <4>2, CredibleTail DEF o
      <4> QED
        BY <1>15, <4>2, <4>3 DEF OfTurn, Drained
    <3> QED
      BY <3>2, <3>3
  <2> QED
    BY <2>2, <2>3
<1>18. Drained(k)'
  BY <1>16, <1>17 DEF Drained
<1> QED
  BY <1>1, <1>10, <1>11, <1>13, <1>14, <1>18 DEF OfTurn

-----------------------------------------------------------------------------
(* The steps of a turn: the executor's feedback *)

\* When DrainIfReady ends a step: if the segments are accounted for with what it is given,
\* they still are, and a new report that a turn is drained is right.
LEMMA DrainTurn ==
  ASSUME Typed, Typed', Sequel, NEW k \in Turns, OfTurn(k),
         NEW c, NEW ts, MapOf(ts, begun), NEW told,
         told = <<>> \/ (\E j \in 1..begun : told = <<Msg("failed", j)>>),
         DrainIfReady(c, ts, outQ, told),
         UNCHANGED <<core, active, ttsQ, busy, ring, spoken>>,
         In(Msg("enqueue", k), acts') => In(Msg("enqueue", k), acts),
         In(Msg("done", k), ttsEv') => In(Msg("done", k), ttsEv),
         turn = k /\ k \in DOMAIN ts /\ ts[k].finished => finished /\ ~In(Msg("enqueue", k), acts'),
         turn = k /\ k \in DOMAIN ts => segs[k] > 0,
         turn = k /\ active = k /\ ~In(Msg("failed", k), obs \o told) =>
           /\ segs[k] = N(acts', Msg("enqueue", k)) + Upstream(ttsQ, busy, ttsEv', outQ, outEv', k)
                          + spoken[k] + ring
           /\ Pending(ts, k) = Upstream(ttsQ, busy, ttsEv', outQ, outEv', k)
                                 + N(outEv', Msg("prepared", k))
  PROVE  Counted(k)' /\ Complete(k)' /\ Drained(k)'
<1> DEFINE u == Upstream(ttsQ, busy, ttsEv', outQ, outEv', k)
<1>1. UNCHANGED <<begun, turn, segs, finished, ended, active, ttsQ, busy, ring, spoken>>
  BY DEF core
<1>2. /\ Pending(turns', k) = Pending(ts, k) /\ DOMAIN turns' \subseteq DOMAIN ts
      /\ k \in DOMAIN turns' => turns'[k].finished = ts[k].finished
      /\ N(outQ', Msg("prepare", k)) = N(outQ, Msg("prepare", k))
      /\ In(Msg("failed", k), obs \o told) => In(Msg("failed", k), obs')
      /\ Credible(obs', k) =>
           \/ Credible(obs, k)
           \/ /\ k = active /\ k \in DOMAIN ts /\ ts[k].finished /\ ts[k].pending = 0
              /\ empty /\ ~In(Msg("failed", k), obs')
  BY DrainFine
<1>3. Upstream(ttsQ', busy', ttsEv', outQ', outEv', k) = u
  BY <1>1, <1>2 DEF Upstream
<1>4. /\ begun \in Nat /\ ttsQ \in Seq(1..begun) /\ ttsEv' \in Seq(Syntheses(begun)) /\ outQ \in Seq(Works(begun))
      /\ outEv' \in Seq(Prepared(begun)) /\ acts' \in Seq(Commands(begun)) /\ outQ' \in Seq(Works(begun))
      /\ k # 0 /\ segs[k] \in Nat /\ spoken[k] \in Nat /\ ring \in Nat
  <2>1. /\ begun \in Nat /\ ttsQ \in Seq(1..begun) /\ outQ \in Seq(Works(begun))
        /\ k # 0 /\ segs[k] \in Nat /\ spoken[k] \in Nat /\ ring \in Nat
    BY StateOf
  <2>2. ttsEv' \in Seq(Syntheses(begun)) /\ outEv' \in Seq(Prepared(begun)) /\ acts' \in Seq(Commands(begun))
        /\ outQ' \in Seq(Works(begun))
    BY <1>1 DEF Typed, SynthesisTypes, OutputTypes, ExecutorTypes
  <2> QED
    BY <2>1, <2>2
<1>5. Counted(k)'
  BY <1>1, <1>2, <1>3 DEF Counted
<1>6. Complete(k)'
  BY <1>1, <1>2 DEF Complete
<1>7. In(Msg("prepare", k), outQ') <=> In(Msg("prepare", k), outQ)
  <2>1. /\ N(outQ', Msg("prepare", k)) = 0 <=> ~In(Msg("prepare", k), outQ')
        /\ N(outQ, Msg("prepare", k)) = 0 <=> ~In(Msg("prepare", k), outQ)
    BY ONLY <1>4, NZero
  <2> QED
    BY <1>2, <2>1
<1>8. Done(k) => Done(k)'
  BY <1>1, <1>7, DoneKept
<1>9. ASSUME turn = k, Credible(obs', k) PROVE Done(k)'
  <2>1. CASE Credible(obs, k)
    BY <1>8, <1>9, <2>1 DEF OfTurn, Drained
  <2>2. CASE ~Credible(obs, k)
    <3>1. /\ k = active /\ k \in DOMAIN ts /\ ts[k].finished /\ ts[k].pending = 0
          /\ empty /\ ~In(Msg("failed", k), obs \o told)
      BY <1>2, <1>9, <2>2
    <3>2. finished /\ ~In(Msg("enqueue", k), acts')
      BY <1>9, <3>1
    <3>3. ring = 0 /\ segs[k] > 0
      BY <1>4, <1>9, <3>1, <3>2 DEF Sequel
    <3>4. /\ segs[k] = N(acts', Msg("enqueue", k)) + u + spoken[k] + ring
          /\ Pending(ts, k) = u + N(outEv', Msg("prepared", k)) /\ Pending(ts, k) = 0
      BY <1>9, <3>1 DEF Pending
    <3>5. N(acts', Msg("enqueue", k)) = 0
      BY <1>4, <3>2, NZero
    <3>6. u \in Nat /\ N(outEv', Msg("prepared", k)) \in Nat
      BY <1>4, UpstreamParts
    <3>7. u = 0 => ~In(k, ttsQ) /\ busy # k /\ ~In(Msg("done", k), ttsEv') /\ ~In(Msg("prepare", k), outQ)
      BY <1>4, UpstreamParts
    <3> HIDE DEF u
    <3>8. u = 0 /\ segs[k] = spoken[k]
      <4>1. segs[k] \in Nat /\ spoken[k] \in Nat
        BY <1>4
      <4>2. u = 0
        BY ONLY <3>4, <3>6
      <4>3. segs[k] = 0 + 0 + spoken[k] + 0
        BY <3>3, <3>4, <3>5, <4>2
      <4> QED
        BY ONLY <4>1, <4>2, <4>3
    <3> QED
      BY <1>1, <1>7, <3>2, <3>3, <3>7, <3>8 DEF Done
  <2> QED
    BY <2>1, <2>2
<1>10. Drained(k)'
  BY <1>1, <1>8, <1>9 DEF OfTurn, Drained
<1> QED
  BY <1>5, <1>6, <1>10

\* What terminating a segment of turn j does to what is remembered of turn k
LEMMA TerminalFine ==
  ASSUME NEW n \in Nat, NEW ts, MapOf(ts, n), NEW j, NEW k
  PROVE  /\ MapOf(Terminal(ts, j), n) /\ DOMAIN Terminal(ts, j) = DOMAIN ts
         /\ k \in DOMAIN ts => Terminal(ts, j)[k].finished = ts[k].finished
         /\ j # k => Pending(Terminal(ts, j), k) = Pending(ts, k)
         /\ j = k /\ Pending(ts, k) > 0 => Pending(Terminal(ts, j), k) = Pending(ts, k) - 1
         /\ Pending(ts, k) \in Nat
<1>1. MapOf(Terminal(ts, j), n) /\ DOMAIN Terminal(ts, j) = DOMAIN ts
  BY TerminalOf
<1>2. ASSUME k \in DOMAIN ts
      PROVE  ts[k] \in Entries /\ ts[k].pending \in Nat
  BY <1>2 DEF MapOf, Entries
<1>3. CASE j \in DOMAIN ts
  <2> DEFINE e == [ts[j] EXCEPT !.pending = IF @ > 0 THEN @ - 1 ELSE 0]
  <2>1. ts[j] \in Entries
    BY <1>3 DEF MapOf
  <2>2. e.finished = ts[j].finished /\ e.pending = (IF ts[j].pending > 0 THEN ts[j].pending - 1 ELSE 0)
    BY <2>1 DEF Entries
  <2>3. Terminal(ts, j) = [ts EXCEPT ![j] = e]
    BY <1>3 DEF Terminal
  <2> HIDE DEF e
  <2>4. \A i \in DOMAIN ts : Terminal(ts, j)[i] = IF i = j THEN e ELSE ts[i]
    BY <1>3, <2>3 DEF MapOf
  <2> QED
    BY <1>1, <1>2, <1>3, <2>2, <2>4 DEF Pending
<1>4. CASE j \notin DOMAIN ts
  <2>1. Terminal(ts, j) = ts
    BY <1>4 DEF Terminal
  <2> QED
    BY <1>1, <1>2, <1>4, <2>1 DEF Pending
<1> QED
  BY <1>3, <1>4

\* A fade the callback reported is passed on.
LEMMA RenderFeedbackStep ==
  ASSUME Typed, NEW k \in Turns, OfTurn(k), RenderFeedback
  PROVE  /\ k > begun' => spoken'[k] = 0
         /\ Unset(k)' /\ Retired(k)' /\ Counted(k)' /\ Complete(k)' /\ Drained(k)'
<1> DEFINE j == Head(rendEv)
<1>1. /\ rendEv # <<>> /\ turns' = Without(turns, j)
      /\ obs' = IF j \in DOMAIN turns THEN Append(obs, Msg("faded", j)) ELSE obs
      /\ rendEv' = Tail(rendEv)
      /\ UNCHANGED <<core, acts, open, active, synthesis, output, fade, faded, spoken>>
  BY DEF RenderFeedback, history
<1>2. UNCHANGED <<begun, turn, segs, finished, ended, ttsQ, busy, ttsEv, cancelled, outQ, outEv, ring>>
  BY <1>1 DEF core, synthesis, output
<1>3. /\ begun \in Nat /\ k # 0 /\ rendEv \in Seq(1..begun) /\ obs \in Seq(Reports(begun))
      /\ MapOf(turns, begun) /\ j \in 1..begun
  BY <1>1, StateOf, HeadOf
<1>4. /\ DOMAIN turns' = DOMAIN turns \ {j} /\ \A i \in DOMAIN turns \ {j} : turns'[i] = turns[i]
  BY <1>1, <1>3, WithoutOf
<1>5. In(k, rendEv) <=> In(k, rendEv') \/ k = j
  <2>1. In(k, rendEv) <=> In(k, Tail(rendEv)) \/ k = Head(rendEv)
    BY ONLY <1>1, <1>3, InTail
  <2> QED
    BY <1>1, <2>1
<1>6. j = k => k \in cancelled /\ active # k
  BY <1>5 DEF OfTurn, Retired
<1> DEFINE y == Msg("faded", j)
<1>7. y \in Reports(begun)
  BY <1>3, MsgOf
<1>18. y.k = j
  BY DEF Msg
<1>8. y # Msg("drained", k) /\ y # Msg("failed", k)
  BY DEF Msg
<1>9. obs' = obs \/ obs' = Append(obs, y)
  BY <1>1
<1> HIDE DEF y, j
<1>10. In(Msg("failed", k), obs') <=> In(Msg("failed", k), obs)
  <2>1. obs \in Seq(Reports(begun))
    BY <1>3
  <2>2. In(Msg("failed", k), Append(obs, y)) <=> In(Msg("failed", k), obs) \/ Msg("failed", k) = y
    BY ONLY <1>7, <2>1, InAppend
  <2> QED
    BY <1>8, <1>9, <2>2
<1>11. Credible(obs', k) => Credible(obs, k)
  BY <1>3, <1>7, <1>8, <1>9, CredibleAppend
<1>12. Unset(k)'
  <2>1. k \notin cancelled /\ Free(obs, k) => Free(obs', k)
    <3>1. obs \in Seq(Reports(begun))
      BY <1>3
    <3>2. Free(obs, k) /\ y.k # k => Free(Append(obs, y), k)
      BY ONLY <1>7, <3>1, FreeOf
    <3> QED
      BY <1>6, <1>9, <1>18, <3>2
  <2> QED
    BY <1>1, <1>2, <1>4, <2>1 DEF OfTurn, Unset
<1>13. Retired(k)'
  BY <1>1, <1>2, <1>5 DEF OfTurn, Retired
<1>14. Counted(k)'
  <2>1. j # k => Pending(turns', k) = Pending(turns, k)
    BY <1>4 DEF Pending
  <2> QED
    BY <1>1, <1>2, <1>6, <1>10, <2>1 DEF OfTurn, Counted
<1>15. Complete(k)'
  BY <1>1, <1>2, <1>4 DEF OfTurn, Complete
<1>16. Done(k) => Done(k)'
  BY <1>1, <1>2, DoneKept
<1>17. Drained(k)'
  BY <1>2, <1>11, <1>16 DEF OfTurn, Drained
<1> QED
  BY <1>1, <1>2, <1>12, <1>13, <1>14, <1>15, <1>17 DEF OfTurn

\* What a failure report before the rest changes
LEMMA ToldOf ==
  ASSUME NEW n \in Nat, NEW o \in Seq(Reports(n)), NEW told, NEW j \in 1..n, NEW k,
         told = <<>> \/ told = <<Msg("failed", j)>>
  PROVE  /\ In(Msg("failed", k), o) => In(Msg("failed", k), o \o told)
         /\ told # <<>> /\ j = k => In(Msg("failed", k), o \o told)
         /\ Free(o, k) /\ (told = <<>> \/ j # k) => Free(o \o told, k)
<1> DEFINE y == Msg("failed", j)
<1>1. y \in Reports(n)
  BY MsgOf
<1>2. y.k = j /\ (j = k => y = Msg("failed", k))
  BY DEF Msg
<1> HIDE DEF y
<1>3. o \o told = o \/ o \o told = Append(o, y)
  BY <1>1, CatOne DEF y
<1>4. In(Msg("failed", k), Append(o, y)) <=> In(Msg("failed", k), o) \/ Msg("failed", k) = y
  BY ONLY <1>1, o \in Seq(Reports(n)), InAppend
<1>5. Free(o, k) /\ y.k # k => Free(Append(o, y), k)
  BY ONLY <1>1, o \in Seq(Reports(n)), FreeOf
<1>6. CASE told = <<>>
  <2>1. o \o told = o
    BY <1>6, CatOne
  <2> QED
    BY <1>6, <2>1
<1>7. CASE told = <<y>>
  <2>1. o \o told = Append(o, y)
    BY <1>1, <1>7, CatOne
  <2>2. told # <<>>
    BY <1>7
  <2> QED
    BY <1>2, <1>4, <1>5, <2>1, <2>2
<1> QED
  BY <1>6, <1>7 DEF y

\* The callback fell silent.
LEMMA SilentFeedbackStep ==
  ASSUME Typed, Typed', Sequel, Given, NEW k \in Turns, OfTurn(k), SilentFeedback
  PROVE  /\ k > begun' => spoken'[k] = 0
         /\ Unset(k)' /\ Retired(k)' /\ Counted(k)' /\ Complete(k)' /\ Drained(k)'
<1> DEFINE none == <<>>
<1>1. /\ DrainIfReady(active, turns, outQ, none)
      /\ UNCHANGED <<core, acts, open, active, synthesis, outEv, ring, callback, spoken>>
  BY DEF SilentFeedback, history
<1>2. UNCHANGED <<begun, turn, segs, finished, ended, ttsQ, busy, ttsEv, cancelled, fade, rendEv, faded>>
  BY <1>1 DEF core, synthesis, callback
<1>3. k # 0 /\ MapOf(turns, begun) /\ obs \o none = obs
  BY StateOf, CatOne
<1>4. none = <<>>
  OBVIOUS
<1> HIDE DEF none
<1>5. /\ DOMAIN turns' \subseteq DOMAIN turns
      /\ k \notin DOMAIN turns /\ Free(outQ, k) => Free(outQ', k)
      /\ k \notin DOMAIN turns /\ Free(obs, k) => Free(obs', k)
  BY <1>1, <1>3, <1>4, DrainFine
<1>6. Unset(k)'
  BY <1>1, <1>2, <1>5 DEF OfTurn, Unset
<1>7. Retired(k)'
  BY <1>1, <1>2 DEF OfTurn, Retired
<1>8. /\ UNCHANGED <<core, active, ttsQ, busy, ring, spoken, acts, ttsEv, outEv>>
      /\ turn = k /\ k \in DOMAIN turns /\ turns[k].finished => finished /\ ~In(Msg("enqueue", k), acts)
      /\ turn = k /\ k \in DOMAIN turns => segs[k] > 0
  BY <1>1, <1>2, <1>3 DEF OfTurn, Complete, Given
<1>9. turn = k /\ active = k /\ ~In(Msg("failed", k), obs) =>
           /\ segs[k] = N(acts, Msg("enqueue", k)) + Upstream(ttsQ, busy, ttsEv, outQ, outEv, k)
                          + spoken[k] + ring
           /\ Pending(turns, k) = Upstream(ttsQ, busy, ttsEv, outQ, outEv, k)
                                 + N(outEv, Msg("prepared", k))
  BY DEF OfTurn, Counted
<1>10. Counted(k)' /\ Complete(k)' /\ Drained(k)'
  BY <1>1, <1>3, <1>4, <1>8, <1>9, DrainTurn
<1> QED
  BY <1>1, <1>2, <1>6, <1>7, <1>10 DEF OfTurn

\* The output worker's reports
LEMMA OutputFeedbackStep ==
  ASSUME Typed, Typed', Sequel, Given, NEW k \in Turns, OfTurn(k), OutputFeedback
  PROVE  /\ k > begun' => spoken'[k] = 0
         /\ Unset(k)' /\ Retired(k)' /\ Counted(k)' /\ Complete(k)' /\ Drained(k)'
<1> DEFINE e == Head(outEv)
           j == Head(outEv).k
           what == Head(outEv).m
           told == IF what \in {"failed", "finish failed"} THEN <<Msg("failed", j)>> ELSE <<>>
           ts == IF what \in {"prepared", "cancelled", "failed", "finish failed"}
                   THEN Terminal(turns, j)
                 ELSE IF what = "finished" /\ j \in DOMAIN turns
                   THEN [turns EXCEPT ![j].flushed = TRUE]
                 ELSE turns
<1>1. /\ outEv # <<>> /\ DrainIfReady(active, ts, outQ, told) /\ outEv' = Tail(outEv)
      /\ UNCHANGED <<core, acts, open, active, synthesis, ring, callback, spoken>>
  BY DEF OutputFeedback
<1>2. UNCHANGED <<begun, turn, segs, finished, ended, ttsQ, busy, ttsEv, cancelled, fade, rendEv, faded>>
  BY <1>1 DEF core, synthesis, callback
<1>3. /\ begun \in Nat /\ k # 0 /\ outEv \in Seq(Prepared(begun)) /\ obs \in Seq(Reports(begun))
      /\ MapOf(turns, begun) /\ e = Msg(what, j)
      /\ what # "capacity" => j \in 1..begun
  BY <1>1, StateOf, HeadOf
<1>4. \A w : e = Msg(w, k) <=> what = w /\ j = k
  BY <1>3, MsgEq
<1>5. /\ DOMAIN ts = DOMAIN turns /\ MapOf(ts, begun)
      /\ k \in DOMAIN turns => ts[k].finished = turns[k].finished
      /\ j # k \/ what \notin {"prepared", "cancelled", "failed", "finish failed"} =>
           Pending(ts, k) = Pending(turns, k)
      /\ what = "prepared" /\ j = k /\ Pending(turns, k) > 0 => Pending(ts, k) = Pending(turns, k) - 1
  <2>1. CASE what \in {"prepared", "cancelled", "failed", "finish failed"}
    <3>1. ts = Terminal(turns, j)
      BY <2>1
    <3> HIDE DEF ts, j, what
    <3> QED
      <4>1. begun \in Nat /\ MapOf(turns, begun)
        BY <1>3
      <4>2. /\ MapOf(Terminal(turns, j), begun) /\ DOMAIN Terminal(turns, j) = DOMAIN turns
            /\ k \in DOMAIN turns => Terminal(turns, j)[k].finished = turns[k].finished
            /\ j # k => Pending(Terminal(turns, j), k) = Pending(turns, k)
            /\ j = k /\ Pending(turns, k) > 0 => Pending(Terminal(turns, j), k) = Pending(turns, k) - 1
        BY ONLY <4>1, TerminalFine
      <4> QED
        BY <2>1, <3>1, <4>2
  <2>2. CASE what = "finished" /\ j \in DOMAIN turns
    <3>1. ts = [turns EXCEPT ![j].flushed = TRUE]
      BY <2>2
    <3>2. what \notin {"prepared", "cancelled", "failed", "finish failed"}
      BY <2>2
    <3> HIDE DEF ts, j, what
    <3>3. MapOf(ts, begun) /\ DOMAIN ts = DOMAIN turns
      BY <1>3, <2>2, <3>1, FlagOf DEF MapOf
    <3>4. \A i \in DOMAIN turns : ts[i].finished = turns[i].finished /\ ts[i].pending = turns[i].pending
      <4>1. turns[j] \in Entries
        BY <1>3, <2>2 DEF MapOf
      <4>2. /\ [turns[j] EXCEPT !.flushed = TRUE].finished = turns[j].finished
            /\ [turns[j] EXCEPT !.flushed = TRUE].pending = turns[j].pending
        BY <4>1 DEF Entries
      <4>3. \A i \in DOMAIN turns : ts[i] = IF i = j THEN [turns[j] EXCEPT !.flushed = TRUE] ELSE turns[i]
        BY <1>3, <3>1 DEF MapOf
      <4> QED
        BY <4>2, <4>3
    <3> QED
      BY <3>2, <3>3, <3>4 DEF Pending
  <2>3. CASE /\ what \notin {"prepared", "cancelled", "failed", "finish failed"}
             /\ ~(what = "finished" /\ j \in DOMAIN turns)
    <3>1. ts = turns
      BY <2>3
    <3> HIDE DEF ts, j, what
    <3> QED
      BY <1>3, <2>3, <3>1
  <2> QED
    BY <2>1, <2>2, <2>3
<1>6. /\ told = <<>> \/ (j \in 1..begun /\ told = <<Msg("failed", j)>>)
      /\ what \in {"failed", "finish failed"} => told # <<>>
      /\ what \notin {"failed", "finish failed"} => told = <<>>
  BY <1>3
<1> HIDE DEF e, j, what, told, ts
<1>7. /\ In(Msg("failed", k), obs) => In(Msg("failed", k), obs \o told)
      /\ told # <<>> /\ j = k => In(Msg("failed", k), obs \o told)
      /\ Free(obs, k) /\ (told = <<>> \/ j # k) => Free(obs \o told, k)
  <2>1. CASE told = <<>>
    <3>1. obs \o told = obs
      BY <1>3, <2>1, CatOne
    <3> QED
      BY <2>1, <3>1
  <2>2. CASE j \in 1..begun /\ told = <<Msg("failed", j)>>
    BY <1>3, <2>2, ToldOf
  <2> QED
    BY <1>6, <2>1, <2>2
<1>8. told = <<>> \/ (\E i \in 1..begun : told = <<Msg("failed", i)>>)
  BY <1>6
<1>9. \A x : In(x, outEv) <=> In(x, outEv') \/ x = e
  BY <1>1, <1>3, InTail DEF e
<1>10. Unset(k)'
  <2> SUFFICES ASSUME In(Msg("set", k), acts)
               PROVE  Unset(k)'
    BY <1>1 DEF Unset
  <2>1. k \notin DOMAIN turns /\ Free(outEv, k) /\ Free(obs, k) /\ Free(outQ, k)
    BY DEF OfTurn, Unset
  <2>2. Free(outEv', k) /\ j # k
    BY <1>1, <1>3, <2>1, FreeOf DEF j
  <2>3. Free(obs', k) /\ Free(outQ', k) /\ k \notin DOMAIN turns'
    BY <1>1, <1>5, <1>7, <1>8, <2>1, <2>2, DrainFine
  <2> QED
    BY <1>1, <1>2, <2>2, <2>3 DEF OfTurn, Unset
<1>11. Retired(k)'
  BY <1>1, <1>2, <1>9 DEF OfTurn, Retired
<1>12. ASSUME turn = k, active = k, ~In(Msg("failed", k), obs \o told)
       PROVE  /\ segs[k] = N(acts, Msg("enqueue", k)) + Upstream(ttsQ, busy, ttsEv, outQ, outEv', k)
                             + spoken[k] + ring
              /\ Pending(ts, k) = Upstream(ttsQ, busy, ttsEv, outQ, outEv', k)
                                    + N(outEv', Msg("prepared", k))
  <2>1. ~In(Msg("failed", k), obs) /\ (told = <<>> \/ j # k)
    BY <1>7, <1>12
  <2>2. e # Msg("failed", k) /\ e # Msg("finish failed", k)
    BY <1>4, <1>6, <2>1
  <2>3. e # Msg("cancelled", k)
    BY <1>9, <1>12 DEF OfTurn, Retired
  <2>4. N(outEv', Msg("failed", k)) = N(outEv, Msg("failed", k))
    BY <1>1, <1>3, <2>2, Taken DEF e
  <2>5. Upstream(ttsQ, busy, ttsEv, outQ, outEv', k) = Upstream(ttsQ, busy, ttsEv, outQ, outEv, k)
    BY <2>4 DEF Upstream
  <2> DEFINE u == Upstream(ttsQ, busy, ttsEv, outQ, outEv, k)
             p == N(outEv, Msg("prepared", k))
             p1 == N(outEv', Msg("prepared", k))
  <2>6. /\ segs[k] = N(acts, Msg("enqueue", k)) + u + spoken[k] + ring
        /\ Pending(turns, k) = u + p
    BY <1>12, <2>1 DEF OfTurn, Counted
  <2>7. u \in Nat
    BY StateOf, UpstreamParts
  <2>8. p1 \in Nat /\ (e = Msg("prepared", k) => p = p1 + 1) /\ (e # Msg("prepared", k) => p = p1)
    BY <1>1, <1>3, Taken DEF e
  <2>9. CASE e = Msg("prepared", k)
    <3>1. what = "prepared" /\ j = k
      BY <1>4, <2>9
    <3> HIDE DEF u, p, p1
    <3>2. Pending(turns, k) > 0 /\ Pending(turns, k) - 1 = u + p1
      BY <2>6, <2>7, <2>8, <2>9
    <3>3. Pending(ts, k) = u + p1
      BY <1>5, <3>1, <3>2
    <3> QED
      BY <2>5, <2>6, <3>3 DEF u, p1
  <2>10. CASE e # Msg("prepared", k)
    <3>1. j # k \/ what \notin {"prepared", "cancelled", "failed", "finish failed"}
      BY <1>4, <2>2, <2>3, <2>10
    <3>2. Pending(ts, k) = Pending(turns, k)
      BY <1>5, <3>1
    <3> QED
      BY <2>5, <2>6, <2>8, <2>10, <3>2
  <2> QED
    BY <2>9, <2>10
<1>13. /\ UNCHANGED <<core, active, ttsQ, busy, ring, spoken, acts, ttsEv>>
       /\ turn = k /\ k \in DOMAIN ts /\ ts[k].finished => finished /\ ~In(Msg("enqueue", k), acts)
       /\ turn = k /\ k \in DOMAIN ts => segs[k] > 0
  BY <1>1, <1>2, <1>3, <1>5 DEF OfTurn, Complete, Given
<1>14. Counted(k)' /\ Complete(k)' /\ Drained(k)'
  BY <1>1, <1>5, <1>8, <1>12, <1>13, DrainTurn
<1> QED
  BY <1>1, <1>2, <1>10, <1>11, <1>14 DEF OfTurn

\* The synthesis worker's reports
LEMMA TtsFeedbackStep ==
  ASSUME Typed, Typed', Sequel, Given, NEW k \in Turns, OfTurn(k), TtsFeedback
  PROVE  /\ k > begun' => spoken'[k] = 0
         /\ Unset(k)' /\ Retired(k)' /\ Counted(k)' /\ Complete(k)' /\ Drained(k)'
<1> DEFINE e == Head(ttsEv)
           j == Head(ttsEv).k
           what == Head(ttsEv).m
           none == <<>>
           failed == <<Msg("failed", j)>>
<1>1. /\ ttsEv # <<>> /\ ttsEv' = Tail(ttsEv)
      /\ UNCHANGED <<core, acts, open, active, ttsQ, busy, cancelled, outEv, ring, callback, spoken>>
  BY DEF TtsFeedback
<1>2. UNCHANGED <<begun, turn, segs, finished, ended, fade, rendEv, faded>>
  BY <1>1 DEF core, callback
<1>3. \/ what = "started" /\ obs' = Append(obs, Msg("started", j)) /\ UNCHANGED <<turns, outQ>>
      \/ what = "done" /\ outQ' = Append(outQ, Msg("prepare", j)) /\ UNCHANGED <<turns, obs>>
      \/ what \in {"done", "failed"} /\ DrainIfReady(j, Terminal(turns, j), outQ, failed)
      \/ what = "cancelled" /\ DrainIfReady(j, Terminal(turns, j), outQ, none)
  BY DEF TtsFeedback
<1>4. /\ begun \in Nat /\ k # 0 /\ ttsEv \in Seq(Syntheses(begun)) /\ obs \in Seq(Reports(begun))
      /\ outQ \in Seq(Works(begun)) /\ MapOf(turns, begun) /\ e = Msg(what, j) /\ j \in 1..begun
  BY <1>1, StateOf, HeadOf
<1>5. \A w : e = Msg(w, k) <=> what = w /\ j = k
  BY <1>4, MsgEq
<1>6. /\ none = <<>> /\ failed = <<Msg("failed", j)>> /\ failed # <<>>
  OBVIOUS
<1> HIDE DEF e, j, what, none, failed
<1>7. /\ \A x : In(x, ttsEv) <=> In(x, ttsEv') \/ x = e
      /\ Free(ttsEv, k) => Free(ttsEv', k) /\ j # k
  <2>1. \A x : In(x, ttsEv) <=> In(x, ttsEv') \/ x = e
    BY <1>1, <1>4, InTail DEF e
  <2>2. Free(ttsEv, k) => Free(ttsEv', k) /\ j # k
    BY <1>1, <1>4, FreeOf DEF j
  <2> QED
    BY <2>1, <2>2
<1>8. /\ N(ttsEv', Msg("done", k)) \in Nat /\ N(ttsEv', Msg("failed", k)) \in Nat
      /\ e = Msg("done", k) => N(ttsEv, Msg("done", k)) = N(ttsEv', Msg("done", k)) + 1
      /\ e # Msg("done", k) => N(ttsEv, Msg("done", k)) = N(ttsEv', Msg("done", k))
      /\ e # Msg("failed", k) => N(ttsEv, Msg("failed", k)) = N(ttsEv', Msg("failed", k))
  BY <1>1, <1>4, Taken DEF e
<1>9. Retired(k)'
  BY <1>1, <1>2, <1>7 DEF OfTurn, Retired
<1> DEFINE Rest == Unset(k)' /\ Counted(k)' /\ Complete(k)' /\ Drained(k)'
\* Synthesis of a segment has started.
<1>10. CASE what = "started" /\ obs' = Append(obs, Msg("started", j)) /\ UNCHANGED <<turns, outQ>>
  <2> DEFINE y == Msg("started", j)
  <2>1. y \in Reports(begun)
    BY <1>4, MsgOf
  <2>2. y # Msg("failed", k) /\ y # Msg("drained", k)
    BY DEF Msg
  <2>3. y.k = j
    BY DEF Msg
  <2>4. obs' = Append(obs, y) /\ obs \in Seq(Reports(begun))
    BY <1>4, <1>10
  <2> HIDE DEF y
  <2>5. In(Msg("failed", k), Append(obs, y)) <=> In(Msg("failed", k), obs) \/ Msg("failed", k) = y
    BY ONLY <2>1, <2>4, InAppend
  <2>6. Free(obs, k) /\ y.k # k => Free(Append(obs, y), k)
    BY ONLY <2>1, <2>4, FreeOf
  <2>7. Credible(obs', k) => Credible(obs, k)
    BY <2>1, <2>2, <2>4, CredibleAppend
  <2>8. e # Msg("done", k) /\ e # Msg("failed", k)
    BY <1>5, <1>10
  <2>9. Unset(k)'
    BY <1>1, <1>2, <1>7, <1>10, <2>3, <2>4, <2>6 DEF OfTurn, Unset
  <2>10. Counted(k)'
    <3>1. Upstream(ttsQ, busy, ttsEv', outQ, outEv, k) = Upstream(ttsQ, busy, ttsEv, outQ, outEv, k)
      BY <1>8, <2>8 DEF Upstream
    <3>2. In(Msg("failed", k), obs') <=> In(Msg("failed", k), obs)
      BY <2>2, <2>4, <2>5
    <3> QED
      BY <1>1, <1>2, <1>10, <3>1, <3>2 DEF OfTurn, Counted
  <2>11. Complete(k)'
    BY <1>1, <1>2, <1>10 DEF OfTurn, Complete
  <2>12. Done(k) => Done(k)'
    BY <1>1, <1>2, <1>7, <1>10, DoneKept
  <2>13. Drained(k)'
    BY <1>2, <2>7, <2>12 DEF OfTurn, Drained
  <2>14. Rest
    BY <2>9, <2>10, <2>11, <2>13
  <2> QED
    BY <1>1, <1>2, <1>9, <2>14 DEF OfTurn
\* A synthesized segment is handed to the output worker.
<1>11. CASE what = "done" /\ outQ' = Append(outQ, Msg("prepare", j)) /\ UNCHANGED <<turns, obs>>
  <2> DEFINE y == Msg("prepare", j)
  <2>1. y \in Works(begun)
    BY <1>4, MsgOf
  <2>2. y = Msg("prepare", k) <=> j = k
    BY MsgEq
  <2>3. y.k = j
    BY DEF Msg
  <2>4. outQ' = Append(outQ, y) /\ outQ \in Seq(Works(begun))
    BY <1>4, <1>11
  <2> HIDE DEF y
  <2>5. Free(outQ, k) /\ y.k # k => Free(Append(outQ, y), k)
    BY ONLY <2>1, <2>4, FreeOf
  <2>6. /\ In(Msg("prepare", k), outQ') <=> In(Msg("prepare", k), outQ) \/ Msg("prepare", k) = y
        /\ N(outQ, Msg("prepare", k)) \in Nat
        /\ y = Msg("prepare", k) => N(outQ', Msg("prepare", k)) = N(outQ, Msg("prepare", k)) + 1
        /\ y # Msg("prepare", k) => N(outQ', Msg("prepare", k)) = N(outQ, Msg("prepare", k))
    BY <2>1, <2>4, Appended
  <2>7. (e = Msg("done", k) <=> j = k) /\ e # Msg("failed", k)
    BY <1>5, <1>11
  <2>8. Unset(k)'
    BY <1>1, <1>2, <1>7, <1>11, <2>3, <2>4, <2>5 DEF OfTurn, Unset
  <2>9. Counted(k)'
    <3> DEFINE a == N(ttsQ, k)
               b == IF busy = k THEN 1 ELSE 0
               d == N(ttsEv, Msg("done", k))
               d1 == N(ttsEv', Msg("done", k))
               f == N(ttsEv, Msg("failed", k))
               w == N(outQ, Msg("prepare", k))
               w1 == N(outQ', Msg("prepare", k))
               v == N(outEv, Msg("failed", k))
    <3>1. a \in Nat /\ b \in Nat /\ f \in Nat /\ w \in Nat /\ v \in Nat /\ d1 \in Nat
      BY <1>8, <2>6, StateOf, NZero
    <3>2. \/ d = d1 + 1 /\ w1 = w + 1
          \/ d = d1 /\ w1 = w
      BY <1>8, <2>2, <2>6, <2>7
    <3> HIDE DEF a, b, d, d1, f, w, w1, v
    <3>3. a + b + d1 + f + w1 + v = a + b + d + f + w + v
      BY ONLY <3>1, <3>2
    <3>4. Upstream(ttsQ, busy, ttsEv', outQ', outEv, k) = Upstream(ttsQ, busy, ttsEv, outQ, outEv, k)
      BY <1>8, <2>7, <3>3 DEF Upstream, a, b, d, d1, f, w, w1, v
    <3> QED
      BY <1>1, <1>2, <1>11, <3>4 DEF OfTurn, Counted
  <2>10. Complete(k)'
    BY <1>1, <1>2, <1>11 DEF OfTurn, Complete
  <2>11. Done(k) => Done(k)'
    <3>1. In(Msg("prepare", k), outQ') => In(Msg("prepare", k), outQ) \/ In(Msg("done", k), ttsEv)
      BY <1>7, <2>2, <2>6, <2>7
    <3> QED
      BY <1>1, <1>2, <1>7, <3>1, DoneKept
  <2>12. Drained(k)'
    BY <1>2, <1>11, <2>11 DEF OfTurn, Drained
  <2>13. Rest
    BY <2>8, <2>9, <2>10, <2>12
  <2> QED
    BY <1>1, <1>2, <1>9, <2>13 DEF OfTurn
\* A segment ends in the executor.
<1>12. ASSUME NEW told, told = none \/ told = failed, DrainIfReady(j, Terminal(turns, j), outQ, told),
              told = none => what = "cancelled", told = failed => what \in {"done", "failed"}
       PROVE  Rest
  <2> DEFINE ts == Terminal(turns, j)
  <2>1. /\ MapOf(ts, begun) /\ DOMAIN ts = DOMAIN turns
        /\ k \in DOMAIN turns => ts[k].finished = turns[k].finished
        /\ j # k => Pending(ts, k) = Pending(turns, k)
    <3>1. begun \in Nat /\ MapOf(turns, begun)
      BY <1>4
    <3> QED
      BY ONLY <3>1, TerminalFine
  <2>2. told = <<>> \/ told = <<Msg("failed", j)>>
    BY <1>6, <1>12
  <2> HIDE DEF ts
  <2>3. DrainIfReady(j, ts, outQ, told)
    BY <1>12 DEF ts
  <2>4. /\ In(Msg("failed", k), obs) => In(Msg("failed", k), obs \o told)
        /\ told # <<>> /\ j = k => In(Msg("failed", k), obs \o told)
        /\ Free(obs, k) /\ (told = <<>> \/ j # k) => Free(obs \o told, k)
    BY <1>4, <2>2, ToldOf
  <2>5. told = <<>> \/ (\E i \in 1..begun : told = <<Msg("failed", i)>>)
    BY <1>4, <2>2
  <2>6. Unset(k)'
    <3> SUFFICES ASSUME In(Msg("set", k), acts)
                 PROVE  Unset(k)'
      BY <1>1 DEF Unset
    <3>1. k \notin DOMAIN turns /\ Free(ttsEv, k) /\ Free(obs, k) /\ Free(outQ, k)
      BY DEF OfTurn, Unset
    <3>2. Free(ttsEv', k) /\ j # k
      BY <1>7, <3>1
    <3>3. Free(obs', k) /\ Free(outQ', k) /\ k \notin DOMAIN turns'
      BY <2>1, <2>3, <2>4, <2>5, <3>1, <3>2, DrainFine
    <3> QED
      BY <1>1, <1>2, <3>2, <3>3 DEF OfTurn, Unset
  <2>7. ASSUME turn = k, active = k, ~In(Msg("failed", k), obs \o told)
        PROVE  /\ segs[k] = N(acts, Msg("enqueue", k)) + Upstream(ttsQ, busy, ttsEv', outQ, outEv, k)
                              + spoken[k] + ring
               /\ Pending(ts, k) = Upstream(ttsQ, busy, ttsEv', outQ, outEv, k)
                                     + N(outEv, Msg("prepared", k))
    <3>1. ~In(Msg("failed", k), obs) /\ (told = <<>> \/ j # k)
      BY <2>4, <2>7
    <3>2. e # Msg("cancelled", k)
      BY <1>7, <2>7 DEF OfTurn, Retired
    <3>3. j # k
      BY <1>5, <1>6, <1>12, <3>1, <3>2
    <3>4. e # Msg("done", k) /\ e # Msg("failed", k)
      BY <1>5, <3>3
    <3>5. Upstream(ttsQ, busy, ttsEv', outQ, outEv, k) = Upstream(ttsQ, busy, ttsEv, outQ, outEv, k)
      BY <1>8, <3>4 DEF Upstream
    <3> QED
      BY <2>1, <2>7, <3>1, <3>3, <3>5 DEF OfTurn, Counted
  <2>8. /\ UNCHANGED <<core, active, ttsQ, busy, ring, spoken, acts, outEv>>
        /\ In(Msg("done", k), ttsEv') => In(Msg("done", k), ttsEv)
        /\ turn = k /\ k \in DOMAIN ts /\ ts[k].finished => finished /\ ~In(Msg("enqueue", k), acts)
        /\ turn = k /\ k \in DOMAIN ts => segs[k] > 0
    BY <1>1, <1>2, <1>4, <1>7, <2>1 DEF OfTurn, Complete, Given
  <2>9. Counted(k)' /\ Complete(k)' /\ Drained(k)'
    BY <2>1, <2>3, <2>5, <2>7, <2>8, DrainTurn
  <2> QED
    BY <2>6, <2>9
<1>13. CASE what \in {"done", "failed"} /\ DrainIfReady(j, Terminal(turns, j), outQ, failed)
  <2>1. failed # none
    BY <1>6
  <2>2. Rest
    BY <1>12, <1>13, <2>1
  <2> QED
    BY <1>1, <1>2, <1>9, <2>2 DEF OfTurn
<1>14. CASE what = "cancelled" /\ DrainIfReady(j, Terminal(turns, j), outQ, none)
  <2>1. failed # none
    BY <1>6
  <2>2. Rest
    BY <1>12, <1>14, <2>1
  <2> QED
    BY <1>1, <1>2, <1>9, <2>2 DEF OfTurn
<1> QED
  BY <1>3, <1>10, <1>11, <1>13, <1>14

-----------------------------------------------------------------------------
(* The steps of a turn: the executor's actions *)

\* What every action of the executor has in common
LEMMA ExecuteFrame ==
  ASSUME Typed, NEW k \in Turns, OfTurn(k), Execute
  PROVE  /\ acts # <<>> /\ acts' = Tail(acts) /\ Head(acts) = Msg(Head(acts).m, Head(acts).k)
         /\ Head(acts).m # "close" => Head(acts).k \in 1..begun
         /\ UNCHANGED <<core, begun, turn, segs, finished, ended, ttsEv, outEv, spoken>>
         /\ In(Msg("set", k), acts') => In(Msg("set", k), acts) /\ Head(acts).k # k
         /\ In(Msg("enqueue", k), acts') => In(Msg("enqueue", k), acts)
         /\ Head(acts) = Msg("enqueue", k) => In(Msg("enqueue", k), acts)
         /\ Head(acts) = Msg("set", k) => In(Msg("set", k), acts)
         /\ N(acts', Msg("enqueue", k)) \in Nat
         /\ Head(acts) = Msg("enqueue", k) => N(acts, Msg("enqueue", k)) = N(acts', Msg("enqueue", k)) + 1
         /\ Head(acts) # Msg("enqueue", k) => N(acts, Msg("enqueue", k)) = N(acts', Msg("enqueue", k))
         /\ Head(acts) = Msg("finish", k) => ~In(Msg("enqueue", k), acts')
<1>1. /\ acts # <<>> /\ acts' = Tail(acts) /\ UNCHANGED <<core, ttsEv, outEv, spoken>>
  BY DEF Execute
<1>2. UNCHANGED <<begun, turn, segs, finished, ended>>
  BY <1>1 DEF core
<1>3. /\ begun \in Nat /\ acts \in Seq(Commands(begun))
      /\ Head(acts).m # "close" => Head(acts).k \in 1..begun
      /\ Head(acts) = Msg(Head(acts).m, Head(acts).k)
  BY <1>1, StateOf, HeadOf
<1>4. \A x : In(x, acts) <=> In(x, acts') \/ x = Head(acts)
  BY <1>1, <1>3, InTail
<1>5. In(Msg("set", k), acts') => Head(acts).k # k
  BY <1>1, <1>3, SetFirstTail DEF OfTurn
<1>6. Head(acts) = Msg("finish", k) => ~In(Msg("enqueue", k), acts')
  BY <1>1, <1>3, FinishLastTail DEF OfTurn
<1>7. /\ N(acts', Msg("enqueue", k)) \in Nat
      /\ Head(acts) = Msg("enqueue", k) => N(acts, Msg("enqueue", k)) = N(acts', Msg("enqueue", k)) + 1
      /\ Head(acts) # Msg("enqueue", k) => N(acts, Msg("enqueue", k)) = N(acts', Msg("enqueue", k))
  BY <1>1, <1>3, Taken
<1> QED
  BY <1>1, <1>2, <1>3, <1>4, <1>5, <1>6, <1>7

\* An action that is not work on a turn is not about the active one, unless it sets it,
\* and the executor is not at work on the active turn then.
LEMMA NotActive ==
  ASSUME Typed, Sequel, NEW k \in Turns, OfTurn(k), turn = k, acts # <<>>, ~Ordinary(Head(acts))
  PROVE  active # k /\ (Head(acts).m # "set" => Head(acts).k # k)
<1>1. begun \in Nat /\ acts \in Seq(Commands(begun)) /\ k # 0
  BY StateOf
<1>2. Len(acts) \in Nat /\ Len(acts) > 0 /\ Head(acts) = acts[1] /\ 1 \in 1..Len(acts)
  <2>1. Len(acts) \in Nat /\ Len(acts) > 0 /\ Head(acts) = acts[1]
    BY <1>1, Places
  <2> QED
    BY <2>1
<1>3. SetLast(acts, k)
  BY <1>1, <1>2 DEF Sequel
<1>4. PICK i \in 1..Len(acts) : acts[i] = Msg("set", k)
  BY <1>3 DEF SetLast
<1>5. active # k
  BY <1>4 DEF OfTurn, Unset, In
<1>6. ASSUME Head(acts).k = k PROVE Head(acts).m = "set"
  <2>1. i <= 1
    BY <1>2, <1>4, <1>6 DEF OfTurn, SetFirst
  <2>2. i = 1
    BY <1>2, <2>1
  <2> QED
    BY <1>2, <1>4, <2>2 DEF Msg
<1> QED
  BY <1>5, <1>6

\* What a new segment of turn j does to what is remembered
LEMMA EnqueuedFine ==
  ASSUME NEW ts, ts \in [DOMAIN ts -> Entries], NEW j
  PROVE  /\ DOMAIN Enqueued(ts, j) = DOMAIN ts \cup {j}
         /\ \A i \in DOMAIN ts : i # j => Enqueued(ts, j)[i] = ts[i]
         /\ j \in DOMAIN ts => /\ Enqueued(ts, j)[j].finished = ts[j].finished
                               /\ Enqueued(ts, j)[j].pending = ts[j].pending + 1
         /\ j \notin DOMAIN ts => /\ Enqueued(ts, j)[j].finished = FALSE
                                  /\ Enqueued(ts, j)[j].pending = 1
<1> DEFINE us == Known(ts, j)
           t == [us[j] EXCEPT !.pending = @ + 1]
<1>1. /\ us = [i \in DOMAIN us |-> us[i]] /\ DOMAIN us = DOMAIN ts \cup {j}
      /\ \A i \in DOMAIN ts : us[i] = ts[i]
      /\ j \notin DOMAIN ts => us[j] = NewTurn
  BY DEF Known
<1>2. Enqueued(ts, j) = [us EXCEPT ![j] = t]
  BY DEF Enqueued
<1>3. t.finished = us[j].finished /\ t.pending = us[j].pending + 1
  <2>1. us[j] \in Entries
    <3>1. NewTurn \in Entries
      BY DEF NewTurn, Entries
    <3> HIDE DEF us
    <3>2. CASE j \in DOMAIN ts
      BY <1>1, <3>2
    <3>3. CASE j \notin DOMAIN ts
      BY <1>1, <3>1, <3>3
    <3> QED
      BY <3>2, <3>3
  <2> HIDE DEF us
  <2> QED
    BY <2>1 DEF Entries
<1>4. NewTurn.finished = FALSE /\ NewTurn.pending = 0
  BY DEF NewTurn
<1> HIDE DEF us, t
<1>5. DOMAIN Enqueued(ts, j) = DOMAIN us /\ \A i \in DOMAIN us : Enqueued(ts, j)[i] = IF i = j THEN t ELSE us[i]
  BY <1>1, <1>2
<1>6. Enqueued(ts, j)[j] = t
  BY <1>1, <1>5
<1>7. j \notin DOMAIN ts => Enqueued(ts, j)[j].finished = FALSE /\ Enqueued(ts, j)[j].pending = 1
  BY <1>1, <1>3, <1>4, <1>6
<1>8. j \in DOMAIN ts => /\ Enqueued(ts, j)[j].finished = ts[j].finished
                         /\ Enqueued(ts, j)[j].pending = ts[j].pending + 1
  BY <1>1, <1>3, <1>6
<1> QED
  BY <1>1, <1>5, <1>7, <1>8

\* A turn the executor is told of is not finished.
LEMMA KnownFine ==
  ASSUME NEW ts, ts \in [DOMAIN ts -> Entries], NEW j, NEW k
  PROVE  /\ DOMAIN Known(ts, j) = DOMAIN ts \cup {j}
         /\ k \in DOMAIN Known(ts, j) /\ Known(ts, j)[k].finished => k \in DOMAIN ts /\ ts[k].finished
<1>1. /\ DOMAIN Known(ts, j) = DOMAIN ts \cup {j}
      /\ \A i \in DOMAIN ts : Known(ts, j)[i] = ts[i]
      /\ j \notin DOMAIN ts => Known(ts, j)[j] = NewTurn
  BY DEF Known
<1>2. NewTurn.finished = FALSE
  BY DEF NewTurn
<1> QED
  BY <1>1, <1>2

\* A segment is handed to the synthesis worker, or rejected.
LEMMA EnqueueTtsStep ==
  ASSUME Typed, NEW k \in Turns, OfTurn(k), Execute, Head(acts).m = "enqueue", EnqueueTts(Head(acts).k)
  PROVE  /\ k > begun' => spoken'[k] = 0
         /\ Unset(k)' /\ Retired(k)' /\ Counted(k)' /\ Complete(k)' /\ Drained(k)'
<1> DEFINE a == Head(acts)
           j == Head(acts).k
<1>1. /\ \/ ttsQ' = Append(ttsQ, j) /\ turns' = Enqueued(turns, j) /\ obs' = obs
         \/ obs' = Append(obs, Msg("failed", j)) /\ UNCHANGED <<ttsQ, turns>>
      /\ UNCHANGED <<active, busy, cancelled, outQ, ring, fade, rendEv, faded>>
  BY DEF EnqueueTts
<1>2. /\ UNCHANGED <<core, begun, turn, segs, finished, ended, ttsEv, outEv, spoken>>
      /\ j \in 1..begun /\ a = Msg("enqueue", j)
      /\ In(Msg("set", k), acts') => In(Msg("set", k), acts) /\ j # k
      /\ In(Msg("enqueue", k), acts') => In(Msg("enqueue", k), acts)
      /\ a = Msg("enqueue", k) => In(Msg("enqueue", k), acts)
      /\ N(acts', Msg("enqueue", k)) \in Nat
      /\ a = Msg("enqueue", k) => N(acts, Msg("enqueue", k)) = N(acts', Msg("enqueue", k)) + 1
      /\ a # Msg("enqueue", k) => N(acts, Msg("enqueue", k)) = N(acts', Msg("enqueue", k))
  BY ExecuteFrame
<1>3. a = Msg("enqueue", k) <=> j = k
  BY <1>2, MsgEq
<1>4. /\ begun \in Nat /\ k # 0 /\ ttsQ \in Seq(1..begun) /\ obs \in Seq(Reports(begun)) /\ MapOf(turns, begun)
      /\ segs[k] \in Nat /\ spoken[k] \in Nat /\ ring \in Nat
  BY StateOf
<1> HIDE DEF a, j
<1>5. Retired(k)'
  BY <1>1, <1>2 DEF OfTurn, Retired
\* There is room.
<1>6. CASE ttsQ' = Append(ttsQ, j) /\ turns' = Enqueued(turns, j) /\ obs' = obs
  <2>1. /\ In(k, ttsQ') <=> In(k, ttsQ) \/ k = j
        /\ N(ttsQ, k) \in Nat
        /\ j = k => N(ttsQ', k) = N(ttsQ, k) + 1
        /\ j # k => N(ttsQ', k) = N(ttsQ, k)
    <3>1. ttsQ \in Seq(1..begun) /\ j \in 1..begun
      BY <1>2, <1>4
    <3>2. In(k, Append(ttsQ, j)) <=> In(k, ttsQ) \/ k = j
      BY ONLY <3>1, InAppend
    <3> DEFINE S == 1..begun
    <3>4. ttsQ \in Seq(S) /\ j \in S
      BY <3>1
    <3> HIDE DEF S
    <3>3. /\ N(ttsQ, k) \in Nat
          /\ j = k => N(Append(ttsQ, j), k) = N(ttsQ, k) + 1
          /\ j # k => N(Append(ttsQ, j), k) = N(ttsQ, k)
      BY ONLY <3>4, Appended
    <3> QED
      BY <1>6, <3>2, <3>3
  <2>2. /\ DOMAIN turns' = DOMAIN turns \cup {j}
        /\ \A i \in DOMAIN turns : i # j => turns'[i] = turns[i]
        /\ j \in DOMAIN turns =>
             turns'[j].finished = turns[j].finished /\ turns'[j].pending = turns[j].pending + 1
        /\ j \notin DOMAIN turns => turns'[j].finished = FALSE /\ turns'[j].pending = 1
    <3>1. turns \in [DOMAIN turns -> Entries]
      BY <1>4 DEF MapOf
    <3>2. /\ DOMAIN Enqueued(turns, j) = DOMAIN turns \cup {j}
          /\ \A i \in DOMAIN turns : i # j => Enqueued(turns, j)[i] = turns[i]
          /\ j \in DOMAIN turns => /\ Enqueued(turns, j)[j].finished = turns[j].finished
                                   /\ Enqueued(turns, j)[j].pending = turns[j].pending + 1
          /\ j \notin DOMAIN turns => /\ Enqueued(turns, j)[j].finished = FALSE
                                      /\ Enqueued(turns, j)[j].pending = 1
      BY ONLY <3>1, EnqueuedFine
    <3> QED
      BY <1>6, <3>2
  <2>3. Unset(k)'
    <3> SUFFICES ASSUME In(Msg("set", k), acts')
                 PROVE  Unset(k)'
      BY DEF Unset
    <3>1. j # k /\ Unset(k) /\ In(Msg("set", k), acts) /\ a # Msg("enqueue", k)
      BY <1>2, <1>3 DEF OfTurn
    <3>2. k \notin DOMAIN turns' /\ ~In(k, ttsQ')
      BY <2>1, <2>2, <3>1 DEF Unset
    <3>3. turn' = k => segs'[k] = N(acts', Msg("enqueue", k))
      BY <1>2, <3>1 DEF Unset
    <3> QED
      BY <1>1, <1>2, <1>6, <3>1, <3>2, <3>3 DEF Unset
  <2>4. Counted(k)'
    <3> SUFFICES ASSUME turn = k, active = k, ~In(Msg("failed", k), obs)
                 PROVE  Counted(k)'
      BY <1>1, <1>2, <1>6 DEF Counted
    <3> DEFINE c == N(acts, Msg("enqueue", k))
               c1 == N(acts', Msg("enqueue", k))
               q == N(ttsQ, k)
               q1 == N(ttsQ', k)
               b == IF busy = k THEN 1 ELSE 0
               d == N(ttsEv, Msg("done", k))
               f == N(ttsEv, Msg("failed", k))
               w == N(outQ, Msg("prepare", k))
               v == N(outEv, Msg("failed", k))
               p == N(outEv, Msg("prepared", k))
               s == Pending(turns, k)
               s1 == Pending(turns', k)
    <3>1. /\ segs[k] = c + (q + b + d + f + w + v) + spoken[k] + ring
          /\ s = (q + b + d + f + w + v) + p
      BY DEF OfTurn, Counted, Upstream
    <3>2. q \in Nat /\ b \in Nat /\ d \in Nat /\ f \in Nat /\ w \in Nat /\ v \in Nat /\ p \in Nat
      BY StateOf, NZero
    <3>3. c1 \in Nat /\ s \in Nat
      BY <1>2, <1>4, TerminalFine
    <3>4. \/ c = c1 + 1 /\ q1 = q + 1 /\ s1 = s + 1
          \/ c = c1 /\ q1 = q /\ s1 = s
      <4>1. CASE j = k
        <5>1. s1 = s + 1
          BY <2>2, <4>1 DEF Pending
        <5> QED
          BY <1>2, <1>3, <2>1, <4>1, <5>1
      <4>2. CASE j # k
        <5>1. s1 = s
          BY <2>2, <4>2 DEF Pending
        <5> QED
          BY <1>2, <1>3, <2>1, <4>2, <5>1
      <4> QED
        BY <4>1, <4>2
    <3>5. segs[k] \in Nat /\ spoken[k] \in Nat /\ ring \in Nat
      BY <1>4
    <3> HIDE DEF c, c1, q, q1, b, d, f, w, v, p, s, s1
    <3>6. /\ segs[k] = c1 + (q1 + b + d + f + w + v) + spoken[k] + ring
          /\ s1 = (q1 + b + d + f + w + v) + p
      <4>1. CASE c = c1 + 1 /\ q1 = q + 1 /\ s1 = s + 1
        BY ONLY <3>1, <3>2, <3>3, <3>5, <4>1
      <4>2. CASE c = c1 /\ q1 = q /\ s1 = s
        BY ONLY <3>1, <4>2
      <4> QED
        BY <3>4, <4>1, <4>2
    <3> QED
      BY <1>1, <1>2, <3>6 DEF Counted, Upstream, c1, q1, b, d, f, w, v, p, s1
  <2>5. Complete(k)'
    <3>1. k \in DOMAIN turns' /\ turns'[k].finished => k \in DOMAIN turns /\ turns[k].finished
      BY <2>2
    <3> QED
      BY <1>2, <3>1 DEF OfTurn, Complete
  <2>6. Done(k) => Done(k)'
    <3>1. In(k, ttsQ') => In(k, ttsQ) \/ In(Msg("enqueue", k), acts)
      BY <1>2, <1>3, <2>1
    <3> QED
      BY <1>1, <1>2, <3>1, DoneKept
  <2>7. Drained(k)'
    BY <1>2, <1>6, <2>6 DEF OfTurn, Drained
  <2> QED
    BY <1>2, <1>5, <2>3, <2>4, <2>5, <2>7 DEF OfTurn
\* The queue is full.
<1>7. CASE obs' = Append(obs, Msg("failed", j)) /\ UNCHANGED <<ttsQ, turns>>
  <2> DEFINE y == Msg("failed", j)
  <2>1. y \in Reports(begun) /\ obs \in Seq(Reports(begun)) /\ obs' = Append(obs, y)
    BY <1>2, <1>4, <1>7, MsgOf
  <2>2. y # Msg("drained", k) /\ (j = k => y = Msg("failed", k))
    BY DEF Msg
  <2>3. y.k = j
    BY DEF Msg
  <2> HIDE DEF y
  <2>4. In(Msg("failed", k), Append(obs, y)) <=> In(Msg("failed", k), obs) \/ Msg("failed", k) = y
    BY ONLY <2>1, InAppend
  <2>5. Free(obs, k) /\ y.k # k => Free(Append(obs, y), k)
    BY ONLY <2>1, FreeOf
  <2>6. Credible(obs', k) => Credible(obs, k)
    BY <2>1, <2>2, CredibleAppend
  <2>7. Unset(k)'
    BY <1>1, <1>2, <1>3, <1>7, <2>1, <2>3, <2>5 DEF OfTurn, Unset
  <2>8. Counted(k)'
    <3>1. ~In(Msg("failed", k), obs') => ~In(Msg("failed", k), obs) /\ a # Msg("enqueue", k)
      BY <1>3, <2>1, <2>2, <2>4
    <3> QED
      BY <1>1, <1>2, <1>7, <3>1 DEF OfTurn, Counted
  <2>9. Complete(k)'
    BY <1>2, <1>7 DEF OfTurn, Complete
  <2>10. Done(k) => Done(k)'
    BY <1>1, <1>2, <1>7, DoneKept
  <2>11. Drained(k)'
    BY <1>2, <2>6, <2>10 DEF OfTurn, Drained
  <2> QED
    BY <1>2, <1>5, <2>7, <2>8, <2>9, <2>11 DEF OfTurn
<1> QED
  BY <1>1, <1>6, <1>7

\* A turn's text is complete.
LEMMA FinishTtsStep ==
  ASSUME Typed, Typed', Sequel, Given, NEW k \in Turns, OfTurn(k), Execute, Head(acts).m = "finish",
         FinishTts(Head(acts).k)
  PROVE  /\ k > begun' => spoken'[k] = 0
         /\ Unset(k)' /\ Retired(k)' /\ Counted(k)' /\ Complete(k)' /\ Drained(k)'
<1> DEFINE a == Head(acts)
           j == Head(acts).k
           none == <<>>
           ts == [turns EXCEPT ![j].finished = TRUE]
<1>1. /\ IF j \in DOMAIN turns THEN DrainIfReady(j, ts, outQ, none) ELSE UNCHANGED <<turns, outQ, obs>>
      /\ UNCHANGED <<active, ttsQ, busy, cancelled, ring, fade, rendEv, faded>>
  BY DEF FinishTts
<1>2. /\ UNCHANGED <<core, begun, turn, segs, finished, ended, ttsEv, outEv, spoken>>
      /\ j \in 1..begun /\ a = Msg("finish", j)
      /\ In(Msg("set", k), acts') => In(Msg("set", k), acts) /\ j # k
      /\ In(Msg("enqueue", k), acts') => In(Msg("enqueue", k), acts)
      /\ a # Msg("enqueue", k) => N(acts, Msg("enqueue", k)) = N(acts', Msg("enqueue", k))
      /\ a = Msg("finish", k) => ~In(Msg("enqueue", k), acts')
      /\ acts # <<>>
  BY ExecuteFrame
<1>3. (a = Msg("finish", k) <=> j = k) /\ a # Msg("enqueue", k)
  BY <1>2, MsgEq
<1>4. begun \in Nat /\ k # 0 /\ MapOf(turns, begun) /\ obs \o none = obs /\ acts \in Seq(Commands(begun))
  BY StateOf, CatOne
<1>5. none = <<>>
  OBVIOUS
<1>6. In(a, acts)
  BY <1>2, <1>4, InTail
<1> HIDE DEF a, j, none
<1>7. N(acts', Msg("enqueue", k)) = N(acts, Msg("enqueue", k))
  BY <1>2, <1>3
<1>8. Retired(k)'
  BY <1>1, <1>2 DEF OfTurn, Retired
<1>9. CASE j \in DOMAIN turns
  <2>1. DrainIfReady(j, ts, outQ, none)
    BY <1>1, <1>9
  <2>2. MapOf(ts, begun) /\ DOMAIN ts = DOMAIN turns
    <3>1. MapOf(ts, begun)
      BY <1>4, <1>9, FlagOf
    <3> QED
      BY <1>4, <3>1 DEF MapOf
  <2>3. \A i \in DOMAIN turns : ts[i].pending = turns[i].pending /\ (i # j => ts[i].finished = turns[i].finished)
    <3>1. turns[j] \in Entries
      BY <1>4, <1>9 DEF MapOf
    <3>2. [turns[j] EXCEPT !.finished = TRUE].pending = turns[j].pending
      BY <3>1 DEF Entries
    <3>3. \A i \in DOMAIN turns : ts[i] = IF i = j THEN [turns[j] EXCEPT !.finished = TRUE] ELSE turns[i]
      BY <1>4 DEF MapOf
    <3> HIDE DEF ts
    <3> QED
      BY <3>2, <3>3
  <2> HIDE DEF ts
  <2>4. Pending(ts, k) = Pending(turns, k)
    BY <2>2, <2>3 DEF Pending
  <2>5. turn = k /\ k \in DOMAIN ts /\ ts[k].finished => finished /\ ~In(Msg("enqueue", k), acts')
    <3>1. CASE j = k
      <4>1. ~In(Msg("enqueue", k), acts') /\ In(Msg("finish", k), acts)
        BY <1>2, <1>3, <1>6, <3>1
      <4> QED
        BY <1>4, <4>1 DEF Sequel
    <3>2. CASE j # k
      BY <1>2, <2>2, <2>3, <3>2 DEF OfTurn, Complete
    <3> QED
      BY <3>1, <3>2
  <2>6. Unset(k)'
    <3> SUFFICES ASSUME In(Msg("set", k), acts')
                 PROVE  Unset(k)'
      BY DEF Unset
    <3>1. j # k /\ Unset(k) /\ In(Msg("set", k), acts)
      BY <1>2 DEF OfTurn
    <3>2. k \notin DOMAIN turns /\ Free(obs, k) /\ Free(outQ, k)
      BY <3>1 DEF Unset
    <3>3. Free(obs', k) /\ Free(outQ', k) /\ k \notin DOMAIN turns'
      BY <1>4, <1>5, <2>1, <2>2, <3>2, DrainFine
    <3> QED
      BY <1>1, <1>2, <1>7, <3>1, <3>3 DEF Unset
  <2>7. turn = k /\ active = k /\ ~In(Msg("failed", k), obs) =>
           /\ segs[k] = N(acts', Msg("enqueue", k)) + Upstream(ttsQ, busy, ttsEv, outQ, outEv, k)
                          + spoken[k] + ring
           /\ Pending(ts, k) = Upstream(ttsQ, busy, ttsEv, outQ, outEv, k)
                                 + N(outEv, Msg("prepared", k))
    BY <1>7, <2>4 DEF OfTurn, Counted
  <2>8. /\ UNCHANGED <<core, active, ttsQ, busy, ring, spoken, ttsEv, outEv>>
        /\ turn = k /\ k \in DOMAIN ts => segs[k] > 0
    BY <1>1, <1>2, <1>4, <2>2 DEF Given
  <2>9. Counted(k)' /\ Complete(k)' /\ Drained(k)'
    BY <1>2, <1>4, <1>5, <2>1, <2>2, <2>5, <2>7, <2>8, DrainTurn
  <2> QED
    BY <1>2, <1>8, <2>6, <2>9 DEF OfTurn
<1>10. CASE j \notin DOMAIN turns
  <2>1. UNCHANGED <<turns, outQ, obs>>
    BY <1>1, <1>10
  <2>2. Unset(k)'
    BY <1>1, <1>2, <1>7, <2>1 DEF OfTurn, Unset
  <2>3. Counted(k)'
    BY <1>1, <1>2, <1>7, <2>1 DEF OfTurn, Counted
  <2>4. Complete(k)'
    BY <1>2, <2>1 DEF OfTurn, Complete
  <2>5. Done(k) => Done(k)'
    BY <1>1, <1>2, <2>1, DoneKept
  <2>6. Drained(k)'
    BY <1>2, <2>1, <2>5 DEF OfTurn, Drained
  <2> QED
    BY <1>2, <1>8, <2>2, <2>3, <2>4, <2>6 DEF OfTurn
<1> QED
  BY <1>9, <1>10

\* A turn's generation becomes the active one.
LEMMA SetOutputStep ==
  ASSUME Typed, NEW k \in Turns, OfTurn(k), Execute, Head(acts).m = "set",
         SetOutputGeneration(Head(acts).k)
  PROVE  /\ k > begun' => spoken'[k] = 0
         /\ Unset(k)' /\ Retired(k)' /\ Counted(k)' /\ Complete(k)' /\ Drained(k)'
<1> DEFINE a == Head(acts)
           j == Head(acts).k
<1>1. /\ active' = j /\ ring' = 0
      /\ UNCHANGED <<turns, ttsQ, busy, cancelled, outQ, obs, fade, rendEv, faded>>
  BY DEF SetOutputGeneration
<1>2. /\ UNCHANGED <<core, begun, turn, segs, finished, ended, ttsEv, outEv, spoken>>
      /\ j \in 1..begun /\ a = Msg("set", j)
      /\ In(Msg("set", k), acts') => In(Msg("set", k), acts) /\ j # k
      /\ In(Msg("enqueue", k), acts') => In(Msg("enqueue", k), acts)
      /\ a # Msg("enqueue", k) => N(acts, Msg("enqueue", k)) = N(acts', Msg("enqueue", k))
      /\ a = Msg("set", k) => In(Msg("set", k), acts)
  BY ExecuteFrame
<1>3. (a = Msg("set", k) <=> j = k) /\ a # Msg("enqueue", k)
  BY <1>2, MsgEq
<1> HIDE DEF a, j
<1>4. /\ k # 0 /\ ttsQ \in Seq(1..begun) /\ ttsEv \in Seq(Syntheses(begun)) /\ outQ \in Seq(Works(begun))
      /\ outEv \in Seq(Prepared(begun)) /\ segs[k] \in Nat
  BY StateOf
<1>5. N(acts', Msg("enqueue", k)) = N(acts, Msg("enqueue", k))
  BY <1>2, <1>3
<1>6. j = k => /\ k \notin DOMAIN turns /\ k \notin cancelled /\ spoken[k] = 0 /\ busy # k
               /\ ~In(k, ttsQ) /\ Free(ttsEv, k) /\ Free(outQ, k) /\ Free(outEv, k)
               /\ turn = k => segs[k] = N(acts, Msg("enqueue", k))
  BY <1>2, <1>3 DEF OfTurn, Unset
<1>7. Unset(k)'
  BY <1>1, <1>2, <1>5 DEF OfTurn, Unset
<1>8. Retired(k)'
  <2>1. CASE j = k
    <3>1. \A what : ~In(Msg(what, k), outEv)
      BY <1>4, <1>6, <2>1, FreeOf
    <3> QED
      BY <1>1, <1>2, <1>6, <2>1, <3>1 DEF OfTurn, Retired
  <2>2. CASE j # k
    BY <1>1, <1>2, <2>2 DEF OfTurn, Retired
  <2> QED
    BY <2>1, <2>2
<1>9. Counted(k)'
  <2> SUFFICES ASSUME turn = k, j = k
               PROVE  Counted(k)'
    BY <1>1, <1>2 DEF Counted
  <2>1. \A what : N(ttsEv, Msg(what, k)) = 0
    BY <1>4, <1>6, FreeOf
  <2>2. \A what : N(outQ, Msg(what, k)) = 0
    BY <1>4, <1>6, FreeOf
  <2>3. \A what : N(outEv, Msg(what, k)) = 0
    BY <1>4, <1>6, FreeOf
  <2>4. N(ttsQ, k) = 0
    <3> DEFINE S == 1..begun
    <3>1. ttsQ \in Seq(S) /\ ~In(k, ttsQ)
      BY <1>4, <1>6
    <3> HIDE DEF S
    <3> QED
      BY ONLY <3>1, NZero
  <2>5. Upstream(ttsQ, busy, ttsEv, outQ, outEv, k) = 0
    BY <1>6, <2>1, <2>2, <2>3, <2>4 DEF Upstream
  <2>6. Pending(turns, k) = 0
    BY <1>6 DEF Pending
  <2>7. segs[k] = N(acts', Msg("enqueue", k)) /\ spoken[k] = 0
    BY <1>5, <1>6
  <2>8. segs[k] = N(acts', Msg("enqueue", k)) + 0 + 0 + 0
    BY <1>4, <2>7
  <2>9. Pending(turns, k) = 0 + N(outEv, Msg("prepared", k))
    BY <2>3, <2>6
  <2> QED
    BY <1>1, <1>2, <2>5, <2>7, <2>8, <2>9 DEF Counted
<1>10. Complete(k)'
  BY <1>1, <1>2 DEF OfTurn, Complete
<1>11. Done(k) => Done(k)'
  BY <1>1, <1>2, DoneKept
<1>12. Drained(k)'
  BY <1>1, <1>2, <1>11 DEF OfTurn, Drained
<1> QED
  BY <1>2, <1>7, <1>8, <1>9, <1>10, <1>12 DEF OfTurn

\* A turn is retired: its fade begins, and its synthesis is cancelled.
LEMMA RetireOutputStep ==
  ASSUME Typed, Sequel, NEW k \in Turns, OfTurn(k), Execute, Head(acts).m = "retire",
         RetireOutput(Head(acts).k)
  PROVE  /\ k > begun' => spoken'[k] = 0
         /\ Unset(k)' /\ Retired(k)' /\ Counted(k)' /\ Complete(k)' /\ Drained(k)'
<1> DEFINE a == Head(acts)
           j == Head(acts).k
<1>1. /\ active' = 0 /\ ring' = 0 /\ cancelled' = cancelled \cup {j} /\ turns' = Known(turns, j)
      /\ \/ fade' = j /\ UNCHANGED <<rendEv, faded>>
         \/ fade # 0 /\ fade' = 0 /\ faded' = faded \cup {fade} /\ rendEv' = Append(rendEv, fade)
      /\ UNCHANGED <<ttsQ, busy, outQ, obs>>
  BY DEF RetireOutput, FadeEnd
<1>2. /\ UNCHANGED <<core, begun, turn, segs, finished, ended, ttsEv, outEv, spoken>>
      /\ j \in 1..begun /\ a = Msg("retire", j) /\ acts # <<>>
      /\ In(Msg("set", k), acts') => In(Msg("set", k), acts) /\ j # k
      /\ In(Msg("enqueue", k), acts') => In(Msg("enqueue", k), acts)
      /\ a # Msg("enqueue", k) => N(acts, Msg("enqueue", k)) = N(acts', Msg("enqueue", k))
  BY ExecuteFrame
<1>3. a # Msg("enqueue", k)
  BY <1>2, MsgEq
<1>4. turn = k => j # k
  <2>1. ~Ordinary(Head(acts)) /\ Head(acts).m # "set"
    BY DEF Ordinary
  <2> QED
    BY <1>2, <2>1, NotActive
<1> HIDE DEF a, j
<1>5. begun \in Nat /\ k # 0 /\ rendEv \in Seq(1..begun) /\ fade \in 0..begun
      /\ turns \in [DOMAIN turns -> Entries]
  BY StateOf DEF Typed, CallbackTypes, MapOf
<1>6. /\ DOMAIN turns' = DOMAIN turns \cup {j}
      /\ k \in DOMAIN turns' /\ turns'[k].finished => k \in DOMAIN turns /\ turns[k].finished
  <2>1. /\ DOMAIN Known(turns, j) = DOMAIN turns \cup {j}
        /\ k \in DOMAIN Known(turns, j) /\ Known(turns, j)[k].finished => k \in DOMAIN turns /\ turns[k].finished
    BY ONLY <1>5, KnownFine
  <2> QED
    BY <1>1, <2>1
<1>7. fade # 0 => (In(k, Append(rendEv, fade)) <=> In(k, rendEv) \/ k = fade)
  <2> SUFFICES ASSUME fade # 0 PROVE In(k, Append(rendEv, fade)) <=> In(k, rendEv) \/ k = fade
    OBVIOUS
  <2>1. fade \in 1..begun
    BY <1>5
  <2> QED
    BY <1>5, <2>1, InAppend
<1>8. Unset(k)'
  BY <1>1, <1>2, <1>3, <1>5, <1>6 DEF OfTurn, Unset
<1>9. Retired(k)'
  <2>1. k \in cancelled' => turn' # k /\ active' # k
    BY <1>1, <1>2, <1>4, <1>5 DEF OfTurn, Retired
  <2>2. fade' = k \/ In(k, rendEv') \/ k \in faded' => k \in cancelled'
    <3>1. CASE fade' = j /\ UNCHANGED <<rendEv, faded>>
      BY <1>1, <3>1 DEF OfTurn, Retired
    <3>2. CASE fade # 0 /\ fade' = 0 /\ faded' = faded \cup {fade} /\ rendEv' = Append(rendEv, fade)
      BY <1>1, <1>5, <1>7, <3>2 DEF OfTurn, Retired
    <3> QED
      BY <1>1, <3>1, <3>2
  <2>3. /\ In(Msg("cancelled", k), ttsEv') => k \in cancelled'
        /\ active' # k
    BY <1>1, <1>2, <1>5 DEF OfTurn, Retired
  <2> QED
    BY <2>1, <2>2, <2>3 DEF Retired
<1>10. Counted(k)'
  BY <1>1, <1>5 DEF Counted
<1>11. Complete(k)'
  BY <1>2, <1>6 DEF OfTurn, Complete
<1>12. Done(k) => Done(k)'
  BY <1>1, <1>2, DoneKept
<1>13. Drained(k)'
  BY <1>1, <1>2, <1>12 DEF OfTurn, Drained
<1> QED
  BY <1>2, <1>8, <1>9, <1>10, <1>11, <1>13 DEF OfTurn

\* The route is closed; the turns whose fades are not done are reported.
LEMMA CloseRouteStep ==
  ASSUME Typed, Sequel, NEW k \in Turns, OfTurn(k), Execute, Head(acts).m = "close", CloseRoute
  PROVE  /\ k > begun' => spoken'[k] = 0
         /\ Unset(k)' /\ Retired(k)' /\ Counted(k)' /\ Complete(k)' /\ Drained(k)'
<1> DEFINE a == Head(acts)
           L == SetToSeq(DOMAIN turns)
           r == [i \in 1..Len(L) |-> Msg("faded", L[i])]
<1>1. /\ \/ UNCHANGED <<turns, obs>>
         \/ turns' = <<>> /\ obs' = obs \o r
      /\ faded' = faded \ DOMAIN turns /\ outQ' = <<>> /\ ring' = 0 /\ fade' = 0
      /\ UNCHANGED <<rendEv, active, ttsQ, busy, cancelled>>
  BY DEF CloseRoute
<1>2. /\ UNCHANGED <<core, begun, turn, segs, finished, ended, ttsEv, outEv, spoken>>
      /\ a = Msg("close", a.k) /\ acts # <<>>
      /\ In(Msg("set", k), acts') => In(Msg("set", k), acts)
      /\ In(Msg("enqueue", k), acts') => In(Msg("enqueue", k), acts)
      /\ a # Msg("enqueue", k) => N(acts, Msg("enqueue", k)) = N(acts', Msg("enqueue", k))
  BY ExecuteFrame
<1>3. a # Msg("enqueue", k)
  BY <1>2, MsgEq
<1>4. turn = k => active # k
  <2>1. ~Ordinary(Head(acts))
    BY DEF Ordinary
  <2> QED
    BY <1>2, <2>1, NotActive
<1> HIDE DEF a
<1>5. begun \in Nat /\ k # 0 /\ obs \in Seq(Reports(begun)) /\ MapOf(turns, begun)
  BY StateOf
<1>6. L \in Seq(DOMAIN turns) /\ DOMAIN turns \subseteq 1..begun
  BY <1>5, Listing DEF MapOf
<1> HIDE DEF L
<1>7. /\ r \in Seq(Reports(begun))
      /\ \A i \in 1..Len(r) : r[i] # Msg("drained", k) /\ r[i].k \in DOMAIN turns
  <2>1. Len(L) \in Nat /\ \A i \in 1..Len(L) : L[i] \in DOMAIN turns
    BY <1>6
  <2>2. \A i \in 1..Len(L) : Msg("faded", L[i]) \in Reports(begun)
    <3> SUFFICES ASSUME NEW i \in 1..Len(L) PROVE Msg("faded", L[i]) \in Reports(begun)
      OBVIOUS
    <3>1. L[i] \in 1..begun
      BY <1>6, <2>1
    <3> QED
      BY <1>5, <3>1, MsgOf
  <2>3. Len(r) = Len(L) /\ \A i \in 1..Len(L) : r[i] = Msg("faded", L[i])
    BY <2>1
  <2>4. r \in Seq(Reports(begun))
    BY <2>1, <2>2
  <2>5. \A i : Msg("faded", L[i]) # Msg("drained", k) /\ Msg("faded", L[i]).k = L[i]
    BY DEF Msg
  <2> HIDE DEF r
  <2> QED
    BY <2>1, <2>3, <2>4, <2>5
<1> HIDE DEF r
<1>8. Credible(obs', k) => Credible(obs, k)
  BY <1>1, <1>5, <1>7, CredibleCat
<1>9. k \notin DOMAIN turns /\ Free(obs, k) => Free(obs', k)
  <2>1. /\ Len(r) \in Nat /\ Len(obs) \in Nat /\ Len(obs \o r) = Len(obs) + Len(r)
        /\ \A i \in 1..Len(obs) : (obs \o r)[i] = obs[i]
        /\ \A i \in 1..Len(r) : (obs \o r)[Len(obs) + i] = r[i]
    BY <1>5, <1>7
  <2>2. ASSUME k \notin DOMAIN turns, Free(obs, k), NEW i \in 1..Len(obs \o r) PROVE (obs \o r)[i].k # k
    <3>1. CASE i <= Len(obs)
      <4>1. i \in 1..Len(obs)
        BY <2>1, <3>1
      <4> QED
        BY <2>1, <2>2, <4>1 DEF Free
    <3>2. CASE i > Len(obs)
      <4>1. i - Len(obs) \in 1..Len(r) /\ Len(obs) + (i - Len(obs)) = i
        BY <2>1, <3>2
      <4> QED
        BY <1>7, <2>1, <2>2, <4>1
    <3> QED
      BY <2>1, <3>1, <3>2
  <2> QED
    BY <1>1, <2>2 DEF Free
<1>10. turns' = turns \/ DOMAIN turns' = {}
  BY <1>1
<1>11. Unset(k)'
  <2>1. Free(outQ', k)
    BY <1>1 DEF Free
  <2> QED
    BY <1>1, <1>2, <1>3, <1>9, <1>10, <2>1 DEF OfTurn, Unset
<1>12. Retired(k)'
  BY <1>1, <1>2, <1>5 DEF OfTurn, Retired
<1>13. Counted(k)'
  BY <1>1, <1>2, <1>4 DEF Counted
<1>14. Complete(k)'
  BY <1>2, <1>10 DEF OfTurn, Complete
<1>15. Done(k) => Done(k)'
  <2>1. ~In(Msg("prepare", k), outQ')
    BY <1>1 DEF In
  <2> QED
    BY <1>1, <1>2, <2>1, DoneKept
<1>16. Drained(k)'
  BY <1>2, <1>8, <1>15 DEF OfTurn, Drained
<1> QED
  BY <1>2, <1>11, <1>12, <1>13, <1>14, <1>16 DEF OfTurn

-----------------------------------------------------------------------------
(* The theorems *)

\* Nothing is queued at the start.
LEMMA BaseInit ==
  ASSUME Init
  PROVE  Base
<1>1. \A S : <<>> \in Seq(S)
  OBVIOUS
<1>2. MapOf(turns, 0)
  BY DEF Init, MapOf
<1>3. CoreTypes
  <2>1. \A k \in Turns : ended[k] = <<>> /\ segs[k] = 0
    BY DEF Init
  <2>2. ended \in [Turns -> Seq({"completed", "cancelled", "failed"})]
    BY <1>1 DEF Init
  <2>3. live \in BOOLEAN /\ finished \in BOOLEAN /\ segs \in [Turns -> Nat]
    BY DEF Init
  <2>4. \A k \in Turns : segs[k] <= accepted
    BY <2>1 DEF Init
  <2>5. /\ begun \in 0..MaxTurns /\ turn \in 0..begun /\ retiring \in 0..begun
        /\ outcome \in {"cancelled", "failed"} /\ accepted \in 0..MaxSegments
        /\ started \in 0..MaxSegments
    BY Bounds DEF Init
  <2> QED
    BY <2>1, <2>2, <2>3, <2>4, <2>5 DEF CoreTypes
<1>4. ExecutorTypes /\ SynthesisTypes
  BY <1>1, <1>2, Bounds DEF Init, ExecutorTypes, SynthesisTypes
<1>5. OutputTypes /\ CallbackTypes
  <2>1. /\ outQ \in Seq(Works(begun)) /\ Len(outQ) <= OutputCapacity
        /\ outEv \in Seq(Prepared(begun)) /\ rendEv \in Seq(1..begun)
    BY <1>1, Bounds DEF Init
  <2>2. empty \in BOOLEAN /\ wake \in BOOLEAN /\ faded \subseteq 1..begun
    BY DEF Init
  <2>3. ring = 0 /\ fade \in 0..begun /\ failures = 0 /\ spoken \in [Turns -> Nat]
    BY DEF Init
  <2> QED
    BY <2>1, <2>2, <2>3, Bounds DEF OutputTypes, CallbackTypes
<1>6. Terminal1
  BY DEF Init, Terminal1, OneTerminalEvent
<1>7. Admitted
  <2>1. \A k : Unstarted(acts, ttsQ, ttsEv, obs, k) = 0
    BY NEmpty DEF Init, Unstarted
  <2> QED
    BY <2>1, Bounds DEF Init, Admitted
<1> QED
  BY <1>3, <1>4, <1>5, <1>6, <1>7 DEF Base, Typed

\* The invariant of the counts is inductive.
LEMMA BaseStep ==
  ASSUME Base, [Next]_vars
  PROVE  Base'
<1>1. CASE Next
  <2>1. Typed'
    BY <1>1, CoreStep, ExecutorStep, SynthesisStep, OutputStep, CallbackStep DEF Base, Typed
  <2> QED
    BY <1>1, <2>1, TerminalStep, AdmittedStep DEF Base
<1>2. CASE vars' = vars
  <2> USE <1>2 DEF vars, core, synthesis, output, callback, history, Base
  <2>1. CoreTypes'
    BY DEF Typed, CoreTypes
  <2>2. ExecutorTypes' /\ SynthesisTypes'
    BY DEF Typed, ExecutorTypes, SynthesisTypes
  <2>3. OutputTypes' /\ CallbackTypes'
    BY DEF Typed, OutputTypes, CallbackTypes
  <2>4. Terminal1'
    BY DEF Terminal1, OneTerminalEvent
  <2>5. Admitted'
    BY DEF Admitted
  <2> QED
    BY <2>1, <2>2, <2>3, <2>4, <2>5 DEF Typed
<1> QED
  BY <1>1, <1>2

\* The counts and types hold in every reachable state.
THEOREM BaseInvariance == Spec => []Base
<1>1. Init => Base
  BY BaseInit
<1>2. Base /\ [Next]_vars => Base'
  BY BaseStep
<1> QED
  BY <1>1, <1>2, PTL DEF Spec

\* Every variable keeps its type, both workers' queues and the synthesized lead their bounds, and
\* no more segments are started than can be accepted (state.rs, output.rs, workers.rs).
THEOREM TypeCorrectness == Spec => []TypeOK
<1>1. Base => TypeOK
  <2> SUFFICES ASSUME Base PROVE TypeOK
    OBVIOUS
  <2>1. /\ begun \in Nat /\ begun <= MaxTurns /\ begun \in 0..MaxTurns
        /\ MaxTurns \in Nat /\ MaxSegments \in Nat /\ MaxFailures \in Nat
    BY Bounds DEF Base, Typed, CoreTypes
  <2>2. {live, finished, open, empty, wake} \subseteq BOOLEAN
    BY DEF Base, Typed, CoreTypes, ExecutorTypes, OutputTypes
  <2>3. /\ failures \in 0..MaxFailures /\ {turn, retiring} \subseteq 0..begun
        /\ started \in 0..MaxSegments /\ outcome \in {"cancelled", "failed"}
    BY DEF Base, Typed, CoreTypes, CallbackTypes
  <2>4. segs \in [Turns -> 0..MaxSegments]
    BY <2>1 DEF Base, Typed, CoreTypes
  <2>5. DOMAIN turns \subseteq Turns /\ active \in 0..MaxTurns
    BY <2>1 DEF Base, Typed, ExecutorTypes, MapOf, Turns
  <2>6. ring \in 0..Lead /\ Len(outQ) <= OutputCapacity /\ Len(ttsQ) <= TtsCapacity
    BY DEF Base, Typed, OutputTypes, SynthesisTypes
  <2>7. {busy, fade} \subseteq 0..MaxTurns /\ faded \subseteq Turns
    BY <2>1 DEF Base, Typed, SynthesisTypes, CallbackTypes, Turns
  <2> QED
    BY <2>1, <2>2, <2>3, <2>4, <2>5, <2>6, <2>7 DEF TypeOK
<1> QED
  BY <1>1, BaseInvariance, PTL

\* A turn gets at most one terminal event, and none while it is active or retiring, for any
\* number of turns, segments, failures and late reports (state.rs PlaybackDrained,
\* FadeDrained, SynthesisFailed).
THEOREM SingleTerminalEvent == Spec => []OneTerminalEvent
<1>1. Base => OneTerminalEvent
  BY DEF Base, Terminal1
<1> QED
  BY <1>1, BaseInvariance, PTL

\* A turn's own segments never overflow the synthesis queue, whatever the lengths of the
\* queues between them, as long as max_queued_segments is at most its capacity (state.rs
\* EnqueueSpeech, workers.rs enqueue).
THEOREM AdmissionIsSafe == Spec => []AdmissionFitsQueue
<1>1. Base => AdmissionFitsQueue
  <2> SUFFICES ASSUME Base, acts # <<>>, Head(acts).m = "enqueue", ~(Len(ttsQ) < TtsCapacity),
                      \A i \in DOMAIN ttsQ : ttsQ[i] = Head(acts).k
               PROVE  FALSE
    BY DEF AdmissionFitsQueue
  <2> DEFINE k == Head(acts).k
  <2>1. /\ begun \in Nat /\ begun <= MaxTurns /\ acts \in Seq(Commands(begun))
        /\ ttsQ \in Seq(1..begun) /\ ttsEv \in Seq(Syntheses(begun)) /\ obs \in Seq(Reports(begun))
        /\ MaxTurns \in Nat /\ MaxQueued \in Nat /\ TtsCapacity \in Nat /\ MaxQueued <= TtsCapacity
    BY Bounds DEF Base, Typed, CoreTypes, ExecutorTypes, SynthesisTypes
  <2>2. k \in 1..begun /\ Head(acts) = Msg("enqueue", k)
    BY <2>1, HeadOf
  <2>3. k \in Turns
    BY <2>1, <2>2 DEF Turns
  <2>4. N(acts, Msg("enqueue", k)) > 0
    <3>1. In(Msg("enqueue", k), acts)
      BY <2>1, <2>2 DEF In
    <3> QED
      BY <2>1, <3>1, NZero
  <2>5. N(ttsQ, k) = Len(ttsQ)
    <3>1. {i \in 1..Len(ttsQ) : ttsQ[i] = k} = 1..Len(ttsQ) /\ Len(ttsQ) \in Nat
      BY <2>1
    <3>2. Cardinality(1..Len(ttsQ)) = Len(ttsQ)
      <4> DEFINE n == Len(ttsQ)
      <4>1. n \in Int /\ 1 \in Int /\ n >= 0
        BY <3>1
      <4> HIDE DEF n
      <4>2. Cardinality(1..n) = IF 1 > n THEN 0 ELSE n - 1 + 1
        BY <4>1, FS_Interval
      <4>3. Cardinality(1..n) = n
        BY <4>1, <4>2
      <4> QED
        BY <4>3 DEF n
    <3> QED
      BY <3>1, <3>2 DEF N
  <2>6. Unstarted(acts, ttsQ, ttsEv, obs, k) <= MaxQueued
    BY <2>3 DEF Base, Admitted
  <2>7. /\ N(acts, Msg("enqueue", k)) \in Nat /\ N(ttsQ, k) \in Nat
        /\ N(ttsEv, Msg("started", k)) \in Nat /\ N(obs, Msg("started", k)) \in Nat
        /\ Unstarted(acts, ttsQ, ttsEv, obs, k) =
              N(acts, Msg("enqueue", k)) + N(ttsQ, k) + N(ttsEv, Msg("started", k))
                + N(obs, Msg("started", k))
    BY <2>1, UnstartedType
  <2> HIDE DEF k
  <2> QED
    BY <2>1, <2>4, <2>5, <2>6, <2>7, SMTT(60)
<1> QED
  BY <1>1, BaseInvariance, PTL

\* A turn enters the executor's map with a segment of its own, or when it is retired.
LEMMA DomainStep ==
  ASSUME Typed, Next
  PROVE  \/ DOMAIN turns' \subseteq DOMAIN turns
         \/ /\ Execute /\ Head(acts).m \in {"enqueue", "retire"}
            /\ DOMAIN turns' \subseteq DOMAIN turns \cup {Head(acts).k}
<1>1. begun \in Nat /\ MapOf(turns, begun) /\ turns \in [DOMAIN turns -> Entries]
  <2>1. begun \in Nat /\ MapOf(turns, begun)
    BY Bounds DEF Typed, ExecutorTypes, CoreTypes
  <2> QED
    BY <2>1 DEF MapOf
<1>2. CASE Execute
  <2> DEFINE j == Head(acts).k
  <2>1. CASE Head(acts).m = "enqueue" /\ EnqueueTts(j)
    <3>1. DOMAIN Enqueued(turns, j) = DOMAIN turns \cup {j}
      BY <1>1, EnqueuedFine
    <3> QED
      BY <1>2, <2>1, <3>1 DEF EnqueueTts
  <2>2. CASE Head(acts).m = "retire" /\ RetireOutput(j)
    <3>1. DOMAIN Known(turns, j) = DOMAIN turns \cup {j}
      BY <1>1, KnownFine
    <3> QED
      BY <1>2, <2>2, <3>1 DEF RetireOutput
  <2>3. CASE FinishTts(j)
    <3> DEFINE ts == [turns EXCEPT ![j].finished = TRUE]
               none == <<>>
    <3>1. CASE j \in DOMAIN turns
      <4>1. DrainIfReady(j, ts, outQ, none)
        BY <2>3, <3>1 DEF FinishTts
      <4>2. MapOf(ts, begun) /\ DOMAIN ts = DOMAIN turns
        <5>1. MapOf(ts, begun)
          BY <1>1, <3>1, FlagOf
        <5> QED
          BY <1>1, <5>1
      <4> HIDE DEF ts
      <4>3. DOMAIN turns' \subseteq DOMAIN ts
        BY <4>1, <4>2, DrainFine
      <4> QED
        BY <4>2, <4>3
    <3>2. CASE j \notin DOMAIN turns
      BY <2>3, <3>2 DEF FinishTts
    <3> QED
      BY <3>1, <3>2
  <2>4. CASE SetOutputGeneration(j) \/ CloseRoute
    <3>1. turns' = turns \/ turns' = <<>>
      BY <2>4 DEF SetOutputGeneration, CloseRoute
    <3>2. DOMAIN <<>> = {}
      OBVIOUS
    <3> QED
      BY <3>1, <3>2
  <2> QED
    BY <1>2, <2>1, <2>2, <2>3, <2>4 DEF Execute
<1>3. CASE TtsFeedback
  <2> DEFINE j == Head(ttsEv).k
             none == <<>>
             failed == <<Msg("failed", j)>>
  <2>1. \/ UNCHANGED turns
        \/ DrainIfReady(j, Terminal(turns, j), outQ, failed)
        \/ DrainIfReady(j, Terminal(turns, j), outQ, none)
    BY <1>3 DEF TtsFeedback
  <2>2. j \in 1..begun
    BY <1>3, HeadOf, <1>1 DEF Typed, SynthesisTypes, TtsFeedback
  <2>3. MapOf(Terminal(turns, j), begun) /\ DOMAIN Terminal(turns, j) = DOMAIN turns
    BY <1>1, TerminalOf
  <2>4. none = <<>> /\ failed = <<Msg("failed", j)>>
    OBVIOUS
  <2> HIDE DEF j, none, failed
  <2> QED
    BY <2>1, <2>2, <2>3, <2>4, DrainFine
<1>4. CASE OutputFeedback
  <2> DEFINE j == Head(outEv).k
             what == Head(outEv).m
             told == IF what \in {"failed", "finish failed"} THEN <<Msg("failed", j)>> ELSE <<>>
             ts == IF what \in {"prepared", "cancelled", "failed", "finish failed"}
                     THEN Terminal(turns, j)
                   ELSE IF what = "finished" /\ j \in DOMAIN turns
                     THEN [turns EXCEPT ![j].flushed = TRUE]
                   ELSE turns
  <2>1. DrainIfReady(active, ts, outQ, told)
    BY <1>4 DEF OutputFeedback
  <2>2. what # "capacity" => j \in 1..begun
    BY <1>4, HeadOf, <1>1 DEF Typed, OutputTypes, OutputFeedback
  <2>3. told = <<>> \/ (\E i \in 1..begun : told = <<Msg("failed", i)>>)
    BY <2>2
  <2>4. MapOf(ts, begun) /\ DOMAIN ts = DOMAIN turns
    <3>1. MapOf(Terminal(turns, j), begun) /\ DOMAIN Terminal(turns, j) = DOMAIN turns
      BY <1>1, TerminalOf
    <3>2. ASSUME j \in DOMAIN turns
          PROVE  MapOf([turns EXCEPT ![j].flushed = TRUE], begun)
      BY <1>1, <3>2, FlagOf
    <3>3. DOMAIN [turns EXCEPT ![j].flushed = TRUE] = DOMAIN turns
      OBVIOUS
    <3> QED
      BY <1>1, <3>1, <3>2, <3>3
  <2> HIDE DEF ts, told
  <2> QED
    BY <2>1, <2>3, <2>4, DrainFine
<1>5. CASE RenderFeedback
  <2>1. turns' = Without(turns, Head(rendEv))
    BY <1>5 DEF RenderFeedback
  <2>2. DOMAIN Without(turns, Head(rendEv)) = DOMAIN turns \ {Head(rendEv)}
    BY <1>1, WithoutOf
  <2> QED
    BY <2>1, <2>2
<1>6. CASE SilentFeedback
  <2> DEFINE none == <<>>
  <2>1. DrainIfReady(active, turns, outQ, none) /\ none = <<>>
    BY <1>6 DEF SilentFeedback
  <2> HIDE DEF none
  <2> QED
    BY <1>1, <2>1, DrainFine
<1>7. CASE BeginSpeech \/ EnqueueSpeech \/ FinishSpeech \/ CancelSpeech \/ CloseSession \/ Observe
  <2>1. turns' = turns
    BY <1>7 DEF BeginSpeech, EnqueueSpeech, FinishSpeech, CancelSpeech, CloseSession, Observe
  <2> QED
    BY <2>1
<1>8. CASE Synthesize \/ Synthesized \/ Prepare \/ FinishOutput \/ ServiceCapacity \/ Play \/ FadeComplete
  <2>1. turns' = turns
    BY <1>8, ExecutorFrame
  <2> QED
    BY <2>1
<1> QED
  BY <1>2, <1>3, <1>4, <1>5, <1>6, <1>7, <1>8 DEF Next

\* A turn finished without a segment stays unknown to the executor.
LEMMA GivenStep ==
  ASSUME Typed, Sequel, Given, Admitted, \A k \in Turns : OfTurn(k), Next
  PROVE  Given'
<1>1. /\ begun \in Nat /\ turn \in 0..begun /\ DOMAIN turns \subseteq 1..begun
      /\ segs \in [Turns -> Nat] /\ 1..begun \subseteq Turns
  <2>1. begun \in 0..MaxTurns /\ turn \in 0..begun /\ segs \in [Turns -> Nat]
    BY DEF Typed, CoreTypes
  <2>2. DOMAIN turns \subseteq 1..begun
    BY DEF Typed, ExecutorTypes, MapOf
  <2> QED
    BY <2>1, <2>2, Bounds DEF Turns
<1>2. CASE Execute
  <2>1. acts # <<>> /\ UNCHANGED <<turn, segs>>
    BY <1>2 DEF Execute, core
  <2> SUFFICES ASSUME turn # 0, turn \in DOMAIN turns', turn \notin DOMAIN turns
               PROVE  segs[turn] > 0
    BY <2>1 DEF Given
  <2>2. turn \in Turns /\ OfTurn(turn)
    BY <1>1
  <2>3. Head(acts).m \in {"enqueue", "retire"} /\ Head(acts).k = turn
    BY DomainStep
  <2>4. Head(acts).m = "enqueue"
    <3>1. CASE ~Ordinary(Head(acts))
      BY <2>1, <2>2, <2>3, <3>1, NotActive
    <3>2. CASE Ordinary(Head(acts))
      BY <2>3, <3>2 DEF Ordinary
    <3> QED
      BY <3>1, <3>2
  <2>5. In(Msg("enqueue", turn), acts)
    BY <1>2, <2>2, <2>3, <2>4, ExecuteFrame
  <2>6. /\ acts \in Seq(Commands(begun)) /\ ttsQ \in Seq(1..begun) /\ ttsEv \in Seq(Syntheses(begun))
        /\ obs \in Seq(Reports(begun)) /\ segs[turn] \in Nat /\ started \in Nat
    BY <2>2, Bounds, StateOf DEF Typed, CoreTypes
  <2>7. /\ N(acts, Msg("enqueue", turn)) \in Nat /\ N(acts, Msg("enqueue", turn)) > 0
        /\ N(ttsQ, turn) \in Nat /\ N(ttsEv, Msg("started", turn)) \in Nat
        /\ N(obs, Msg("started", turn)) \in Nat
    BY <2>5, <2>6, NZero
  <2>8. Unstarted(acts, ttsQ, ttsEv, obs, turn) + started <= segs[turn]
    BY DEF Admitted
  <2> QED
    BY <2>6, <2>7, <2>8 DEF Unstarted
<1>3. CASE ~Execute
  <2>1. DOMAIN turns' \subseteq DOMAIN turns
    BY <1>3, DomainStep
  <2>2. CASE turn' = 0 \/ UNCHANGED <<turn, segs>>
    BY <2>1, <2>2 DEF Given
  <2>3. CASE BeginSpeech
    <3>1. turn' = begun + 1
      BY <2>3 DEF BeginSpeech
    <3> QED
      BY <1>1, <2>1, <3>1 DEF Given
  <2>4. CASE EnqueueSpeech
    <3>1. turn' = turn /\ segs' = [segs EXCEPT ![turn] = @ + 1] /\ turn # 0
      BY <2>4 DEF EnqueueSpeech
    <3>2. turn \in Turns /\ segs[turn] \in Nat
      BY <1>1, <3>1
    <3>3. segs'[turn'] = segs[turn] + 1
      BY <1>1, <3>1, <3>2
    <3> QED
      BY <3>2, <3>3 DEF Given
  <2>5. CASE FinishSpeech \/ CloseSession
    <3>1. turn' = 0 \/ UNCHANGED <<turn, segs>>
      BY <2>5 DEF FinishSpeech, CloseSession
    <3> QED
      BY <2>2, <3>1
  <2> QED
    BY <1>3, <2>2, <2>3, <2>4, <2>5, ActsStep
<1> QED
  BY <1>2, <1>3

\* The executor's actions
LEMMA ExecuteStep ==
  ASSUME Typed, Typed', Sequel, Given, NEW k \in Turns, OfTurn(k), Execute
  PROVE  /\ k > begun' => spoken'[k] = 0
         /\ Unset(k)' /\ Retired(k)' /\ Counted(k)' /\ Complete(k)' /\ Drained(k)'
<1>1. \/ Head(acts).m = "enqueue" /\ EnqueueTts(Head(acts).k)
      \/ Head(acts).m = "finish" /\ FinishTts(Head(acts).k)
      \/ Head(acts).m = "set" /\ SetOutputGeneration(Head(acts).k)
      \/ Head(acts).m = "retire" /\ RetireOutput(Head(acts).k)
      \/ Head(acts).m = "close" /\ CloseRoute
  BY DEF Execute
<1> QED
  BY <1>1, EnqueueTtsStep, FinishTtsStep, SetOutputStep, RetireOutputStep, CloseRouteStep

\* What holds of a turn still does after a step.
LEMMA TurnStep ==
  ASSUME Typed, Typed', Sequel, Given, OneTerminalEvent, Next, NEW k \in Turns, OfTurn(k)
  PROVE  OfTurn(k)'
<1>1. SetFirst(acts', k) /\ FinishLast(acts', k)
  BY OrderStep DEF OfTurn
<1> DEFINE Rest == /\ k > begun' => spoken'[k] = 0
                   /\ Unset(k)' /\ Retired(k)' /\ Counted(k)' /\ Complete(k)' /\ Drained(k)'
<1>2. CASE BeginSpeech \/ EnqueueSpeech \/ FinishSpeech \/ CancelSpeech \/ CloseSession
  <2>1. Rest
    BY <1>2, CommandStep
  <2> QED
    BY <1>1, <2>1 DEF OfTurn
<1>3. CASE Observe \/ Execute
  <2>1. Rest
    BY <1>3, ObserveStep, ExecuteStep
  <2> QED
    BY <1>1, <2>1 DEF OfTurn
<1>4. CASE TtsFeedback \/ OutputFeedback \/ RenderFeedback \/ SilentFeedback
  <2>1. Rest
    BY <1>4, TtsFeedbackStep, OutputFeedbackStep, RenderFeedbackStep, SilentFeedbackStep
  <2> QED
    BY <1>1, <2>1 DEF OfTurn
<1>5. CASE Synthesize \/ Synthesized \/ Prepare \/ FinishOutput
  <2>1. Rest
    BY <1>5, SynthesizeStep, SynthesizedStep, PrepareStep, FinishOutputStep
  <2> QED
    BY <1>1, <2>1 DEF OfTurn
<1>6. CASE ServiceCapacity \/ Play \/ FadeComplete
  <2>1. Rest
    BY <1>6, ServiceCapacityStep, PlayStep, FadeCompleteStep
  <2> QED
    BY <1>1, <2>1 DEF OfTurn
<1> QED
  BY <1>2, <1>3, <1>4, <1>5, <1>6 DEF Next

\* No turn has begun at the start.
LEMMA IInvInit ==
  ASSUME Init
  PROVE  IInv
<1>1. Base
  BY BaseInit
<1>2. Sequel /\ Given
  BY DEF Init, Sequel, Given
<1>3. PerTurn
  <2> SUFFICES ASSUME NEW k \in Turns PROVE OfTurn(k)
    BY DEF PerTurn
  <2>1. k # 0 /\ k \in Nat
    BY Bounds DEF Turns
  <2>2. Len(<<>>) = 0
    OBVIOUS
  <2>3. SetFirst(acts, k) /\ FinishLast(acts, k) /\ spoken[k] = 0 /\ ended[k] = <<>>
    BY <2>2 DEF Init, SetFirst, FinishLast
  <2>4. \A x : ~In(x, <<>>)
    BY <2>2 DEF In
  <2>5. Unset(k) /\ Retired(k)
    BY <2>1, <2>4 DEF Init, Unset, Retired
  <2>6. Counted(k) /\ Complete(k) /\ Drained(k)
    BY <2>1, <2>3 DEF Init, Counted, Complete, Drained
  <2> QED
    BY <2>3, <2>5, <2>6 DEF OfTurn
<1> QED
  BY <1>1, <1>2, <1>3 DEF IInv

\* The invariant is inductive.
LEMMA IInvStep ==
  ASSUME IInv, [Next]_vars
  PROVE  IInv'
<1>1. Base'
  BY BaseStep DEF IInv
<1>2. CASE Next
  <2>0. \A k \in Turns : OfTurn(k)
    BY DEF IInv, PerTurn
  <2>1. Sequel' /\ Given'
    BY <1>2, <2>0, SequelStep, GivenStep DEF IInv, Base
  <2>2. PerTurn'
    <3> SUFFICES ASSUME NEW k \in Turns PROVE OfTurn(k)'
      BY DEF PerTurn, OfTurn, Unset, Retired, Counted, Complete, Drained, Done
    <3>1. Typed /\ Typed' /\ Sequel /\ Given /\ OneTerminalEvent /\ OfTurn(k)
      BY <1>1 DEF IInv, Base, Terminal1, PerTurn
    <3> QED
      BY <1>2, <3>1, TurnStep
  <2> QED
    BY <1>1, <2>1, <2>2 DEF IInv
<1>3. CASE vars' = vars
  <2>0. UNCHANGED <<begun, turn, segs, finished, ended, acts, obs, turns, active, ttsQ, busy,
                    ttsEv, cancelled, outQ, outEv, ring, empty, fade, rendEv, faded, spoken>>
    BY <1>3 DEF vars, core, synthesis, output, callback, history
  <2>1. Sequel' /\ Given'
    BY <2>0 DEF IInv, Sequel, Given
  <2>2. PerTurn'
    <3> SUFFICES ASSUME NEW k \in Turns PROVE OfTurn(k)'
      BY DEF PerTurn, OfTurn, Unset, Retired, Counted, Complete, Drained, Done
    <3>1. OfTurn(k)
      BY DEF IInv, PerTurn
    <3>2. SetFirst(acts', k) /\ FinishLast(acts', k) /\ (k > begun' => spoken'[k] = 0)
      BY <2>0, <3>1 DEF OfTurn
    <3>3. Unset(k)'
      BY <2>0, <3>1 DEF OfTurn, Unset
    <3>4. Retired(k)'
      BY <2>0, <3>1 DEF OfTurn, Retired
    <3>5. Counted(k)'
      BY <2>0, <3>1 DEF OfTurn, Counted
    <3>6. Complete(k)'
      BY <2>0, <3>1 DEF OfTurn, Complete
    <3>7. Done(k) => Done(k)'
      BY <2>0 DEF Done
    <3>8. Drained(k)'
      BY <2>0, <3>1, <3>7 DEF OfTurn, Drained
    <3> QED
      BY <3>2, <3>3, <3>4, <3>5, <3>6, <3>8 DEF OfTurn
  <2> QED
    BY <1>1, <2>1, <2>2 DEF IInv
<1> QED
  BY <1>2, <1>3

\* The whole invariant holds in every reachable state.
THEOREM Invariance == Spec => []IInv
<1>1. Init => IInv
  BY IInvInit
<1>2. IInv /\ [Next]_vars => IInv'
  BY IInvStep
<1> QED
  BY <1>1, <1>2, PTL DEF Spec

\* A turn is reported completed only when every segment accepted for it was played to its
\* end, whatever the workers, the callback and their late reports do in between
\* (service.rs publish_playback_drained_if_ready, OutputTurnState::can_complete).
THEOREM CompletedTurnsAreSpoken == Spec => []CompletedIsSpoken
<1>1. IInv => CompletedIsSpoken
  <2> SUFFICES ASSUME IInv, NEW k \in Turns, ended[k] # <<>>, ended[k][1] = "completed"
               PROVE  segs[k] > 0 /\ spoken[k] = segs[k]
    BY DEF CompletedIsSpoken
  <2>1. Drained(k)
    BY DEF IInv, PerTurn, OfTurn
  <2> QED
    BY <2>1 DEF Drained, Done
<1> QED
  BY <1>1, Invariance, PTL
=============================================================================
