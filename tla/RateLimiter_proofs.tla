-------------------------- MODULE RateLimiter_proofs --------------------------
(***************************************************************************)
(* What the rate limiter guarantees for any number of threads, any limit   *)
(* and any window, however the calls of allow interleave.                  *)
(***************************************************************************)
EXTENDS RateLimiter, OrderLemmas, FiniteSetTheorems, SequenceTheorems, TLAPS

Thread ==
    [pc : {"out", "loop", "head", "pop", "measure", "decide", "refused"}, now : Nat, len : Nat]

\* How many of the admitted calls the deque no longer holds.
Forgotten == Len(log) - Len(q)

\* The deque is the end of the log, nothing in it is ahead of the clock, and
\* the calls under way are no more than the most there have been.
Typed ==
    /\ clock \in 0 .. MaxClock
    /\ q \in Seq(Nat) /\ log \in Seq(Nat)
    /\ thr \in [Threads -> Thread]
    /\ peak \in Nat
    /\ Len(q) <= Len(log) /\ \A k \in 1 .. Len(q) : q[k] = log[Forgotten + k]
    /\ \A j \in 1 .. Len(log) : log[j] <= clock
    /\ \A t \in Threads : thr[t].now <= clock
    /\ Cardinality(Inside) <= peak
    /\ log # << >> => peak >= 1
    /\ \A t \in Threads : thr[t].pc # "out" => peak >= 1

-----------------------------------------------------------------------------
(* Counting *)

LEMMA SmallerPart ==
    ASSUME NEW S, IsFiniteSet(S), NEW T \in SUBSET S
    PROVE  /\ IsFiniteSet(T) /\ Cardinality(T) \in Nat /\ Cardinality(S) \in Nat
           /\ Cardinality(T) <= Cardinality(S)
BY FS_Subset, FS_CardinalityType

LEMMA OneMore ==
    ASSUME NEW S, IsFiniteSet(S), NEW x, NEW T \in SUBSET (S \cup {x})
    PROVE  /\ IsFiniteSet(T) /\ Cardinality(T) \in Nat /\ Cardinality(S) \in Nat
           /\ Cardinality(T) <= Cardinality(S) + 1
<1>1. /\ IsFiniteSet(S \cup {x}) /\ Cardinality(S) \in Nat
      /\ Cardinality(S \cup {x}) <= Cardinality(S) + 1
  <2>1. IsFiniteSet(S \cup {x})
        /\ (Cardinality(S \cup {x}) = Cardinality(S) \/ Cardinality(S \cup {x}) = Cardinality(S) + 1)
    BY FS_AddElement
  <2>2. Cardinality(S) \in Nat
    BY FS_CardinalityType
  <2> QED
    BY <2>1, <2>2
<1>2. IsFiniteSet(T) /\ Cardinality(T) \in Nat /\ Cardinality(S \cup {x}) \in Nat
      /\ Cardinality(T) <= Cardinality(S \cup {x})
  BY <1>1, SmallerPart
<1> QED
  BY <1>1, <1>2

LEMMA OneFewer ==
    ASSUME NEW S, IsFiniteSet(S), NEW x \in S, NEW T \in SUBSET (S \ {x})
    PROVE  /\ IsFiniteSet(T) /\ Cardinality(T) \in Nat /\ Cardinality(S) \in Nat
           /\ Cardinality(T) <= Cardinality(S) - 1
<1>1. /\ IsFiniteSet(S \ {x}) /\ Cardinality(S) \in Nat
      /\ Cardinality(S \ {x}) = Cardinality(S) - 1
  BY FS_RemoveElement, FS_CardinalityType
<1>2. IsFiniteSet(T) /\ Cardinality(T) \in Nat /\ Cardinality(T) <= Cardinality(S \ {x})
  BY <1>1, SmallerPart
<1> QED
  BY <1>1, <1>2

\* The threads inside, and the entries of the log, are finitely many.
LEMMA FinitelyManyInside ==
    ASSUME NEW S \in SUBSET Inside
    PROVE  IsFiniteSet(S) /\ Cardinality(S) \in Nat /\ Cardinality(Inside) \in Nat
           /\ Cardinality(S) <= Cardinality(Inside)
<1>1. IsFiniteSet(Inside)
  BY LimitAssumption, FS_Subset DEF Inside
<1> QED
  BY <1>1, SmallerPart

LEMMA FinitelyManyEntries ==
    ASSUME NEW n \in Nat, NEW S \in SUBSET (1 .. n)
    PROVE  IsFiniteSet(S) /\ Cardinality(S) \in Nat /\ Cardinality(S) <= n
<1>1. IsFiniteSet(1 .. n) /\ Cardinality(1 .. n) = n
  <2>1. IsFiniteSet(1 .. n) /\ Cardinality(1 .. n) = IF 1 > n THEN 0 ELSE n - 1 + 1
    BY FS_Interval
  <2> QED
    BY <2>1
<1> QED
  BY <1>1, SmallerPart

-----------------------------------------------------------------------------
(* The pieces of a step *)

LEMMA Shapes ==
    ASSUME Typed
    PROVE  /\ clock \in Nat /\ MaxClock \in Nat /\ clock <= MaxClock
           /\ Len(q) \in Nat /\ Len(log) \in Nat /\ Forgotten \in Nat
           /\ DOMAIN log = 1 .. Len(log) /\ DOMAIN q = 1 .. Len(q)
           /\ Len(log) = Forgotten + Len(q)
           /\ \A j \in 1 .. Len(log) : log[j] \in Nat
           /\ \A t \in Threads : /\ thr[t] \in Thread /\ thr[t].now \in Nat /\ thr[t].len \in Nat
           /\ WindowSeconds \in Nat /\ MaxRequests \in Nat /\ MaxRequests >= 1
<1>1. /\ Len(q) \in Nat /\ Len(log) \in Nat /\ DOMAIN log = 1 .. Len(log) /\ DOMAIN q = 1 .. Len(q)
      /\ \A j \in 1 .. Len(log) : log[j] \in Nat
  BY LenProperties, ElementOfSeq DEF Typed
<1>2. Forgotten \in Nat /\ Len(log) = Forgotten + Len(q)
  BY <1>1 DEF Forgotten, Typed
<1>3. /\ clock \in Nat /\ MaxClock \in Nat /\ clock <= MaxClock
      /\ WindowSeconds \in Nat /\ MaxRequests \in Nat /\ MaxRequests >= 1
  BY LimitAssumption DEF Typed
<1>4. \A t \in Threads : thr[t] \in Thread /\ thr[t].now \in Nat /\ thr[t].len \in Nat
  BY DEF Typed, Thread
<1> QED
  BY <1>1, <1>2, <1>3, <1>4

LEMMA ThreadStep ==
    ASSUME thr \in [Threads -> Thread], NEW t \in Threads, NEW v \in Thread,
           thr' = [thr EXCEPT ![t] = v]
    PROVE  /\ thr' \in [Threads -> Thread] /\ thr'[t] = v
           /\ \A u \in Threads : u # t => thr'[u] = thr[u]
OBVIOUS

\* What a call does to its thread, and to the set of those under way.
LEMMA EnterEffect ==
    ASSUME Typed, NEW t \in Threads, Enter(t)
    PROVE  /\ UNCHANGED <<clock, q, log>> /\ t \notin Inside /\ Inside' = Inside \cup {t}
           /\ thr' \in [Threads -> Thread] /\ thr[t].pc \notin {"decide", "pop"}
           /\ thr'[t].pc = "loop" /\ thr'[t].now = clock /\ thr[t].now <= clock
           /\ \A u \in Threads : u # t => thr'[u] = thr[u]
           /\ peak' \in Nat /\ peak' >= peak /\ peak' >= Cardinality(Inside) + 1
<1> DEFINE v == [pc |-> "loop", now |-> clock, len |-> 0]
<1>1. v \in Thread /\ v.pc = "loop" /\ v.now = clock
  BY Shapes DEF Thread
<1>2. /\ UNCHANGED <<clock, q, log>> /\ thr[t].pc \in {"out", "refused"}
      /\ thr' = [thr EXCEPT ![t] = v]
      /\ peak' = IF Cardinality(Inside) + 1 > peak THEN Cardinality(Inside) + 1 ELSE peak
  BY DEF Enter
<1> HIDE DEF v
<1>3. /\ thr' \in [Threads -> Thread] /\ thr'[t] = v
      /\ \A u \in Threads : u # t => thr'[u] = thr[u]
  BY <1>1, <1>2, ThreadStep DEF Typed
<1>4. t \notin Inside /\ Inside' = Inside \cup {t}
  BY <1>1, <1>2, <1>3 DEF Inside
<1>5. peak' \in Nat /\ peak' >= peak /\ peak' >= Cardinality(Inside) + 1
  <2>1. Cardinality(Inside) \in Nat /\ peak \in Nat
    BY FinitelyManyInside DEF Typed
  <2> QED
    BY <1>2, <2>1
<1> QED
  BY <1>1, <1>2, <1>3, <1>4, <1>5 DEF Typed

\* The steps that leave the deque alone: they move their thread on, or end it.
Turn(t) == Look(t) \/ Test(t) \/ Fail(t) \/ Measure(t) \/ Refuse(t)

LEMMA TurnEffect ==
    ASSUME Typed, NEW t \in Threads, Turn(t)
    PROVE  /\ UNCHANGED <<clock, q, log, peak>>
           /\ t \in Inside /\ Inside' \in SUBSET Inside
           /\ thr' \in [Threads -> Thread] /\ thr'[t].now = thr[t].now
           /\ \A u \in Threads : u # t => thr'[u] = thr[u]
           /\ thr[t].pc = "decide" => thr[t].len >= MaxRequests
           /\ thr'[t].pc = "pop" => q # << >> /\ thr[t].now - Head(q) > WindowSeconds
           /\ thr'[t].pc = "measure" => q = << >> \/ ~(thr[t].now - Head(q) > WindowSeconds)
           /\ thr'[t].pc = "decide" => thr[t].pc = "measure" /\ thr'[t].len = Len(q)
           /\ thr'[t].pc = "refused" =>
                  thr[t].pc = "decide" /\ thr[t].len >= MaxRequests /\ thr'[t].len = thr[t].len
<1>0. thr \in [Threads -> Thread] /\ thr[t] \in Thread /\ Len(q) \in Nat
  BY Shapes DEF Typed
<1>1. ASSUME NEW v \in Thread, thr' = [thr EXCEPT ![t] = v], thr[t].pc \notin {"out", "refused"}
      PROVE  /\ thr' \in [Threads -> Thread] /\ thr'[t] = v
             /\ \A u \in Threads : u # t => thr'[u] = thr[u]
             /\ t \in Inside /\ Inside' \in SUBSET Inside
  <2>1. /\ thr' \in [Threads -> Thread] /\ thr'[t] = v
        /\ \A u \in Threads : u # t => thr'[u] = thr[u]
    BY <1>0, <1>1, ThreadStep
  <2>2. t \in Inside
    BY <1>0, <1>1 DEF Inside, Thread
  <2>3. Inside' \in SUBSET Inside
    BY <2>1, <2>2 DEF Inside
  <2> QED
    BY <2>1, <2>2, <2>3
<1>2. CASE Look(t)
  <2> DEFINE v == [thr[t] EXCEPT !.pc = IF q # << >> THEN "head" ELSE "measure"]
  <2>1. /\ v \in Thread /\ v.now = thr[t].now /\ v.pc \in {"head", "measure"}
        /\ v.pc = "measure" => q = << >>
    BY <1>0 DEF Thread
  <2>2. /\ UNCHANGED <<clock, q, log, peak>> /\ thr[t].pc = "loop" /\ thr' = [thr EXCEPT ![t] = v]
    BY <1>0, <1>2 DEF Look
  <2> HIDE DEF v
  <2> QED
    BY <1>1, <2>1, <2>2
<1>3. CASE Test(t)
  <2> DEFINE v == [thr[t] EXCEPT !.pc = IF Outdated(t) THEN "pop" ELSE "measure"]
  <2>1. /\ v \in Thread /\ v.now = thr[t].now /\ v.pc \in {"pop", "measure"}
        /\ v.pc = "pop" <=> thr[t].now - Head(q) > WindowSeconds
    BY <1>0 DEF Thread, Outdated
  <2>2. /\ UNCHANGED <<clock, q, log, peak>> /\ thr[t].pc = "head" /\ q # << >>
        /\ thr' = [thr EXCEPT ![t] = v]
    BY <1>0, <1>3 DEF Test
  <2> HIDE DEF v
  <2> QED
    BY <1>1, <2>1, <2>2
<1>4. CASE Fail(t)
  <2> DEFINE v == [thr[t] EXCEPT !.pc = "out"]
  <2>1. v \in Thread /\ v.now = thr[t].now /\ v.pc = "out"
    BY <1>0 DEF Thread
  <2>2. /\ UNCHANGED <<clock, q, log, peak>> /\ thr[t].pc \in {"head", "pop"}
        /\ thr' = [thr EXCEPT ![t] = v]
    BY <1>0, <1>4 DEF Fail
  <2> HIDE DEF v
  <2> QED
    BY <1>1, <2>1, <2>2
<1>5. CASE Measure(t)
  <2> DEFINE v == [thr[t] EXCEPT !.pc = "decide", !.len = Len(q)]
  <2>1. v \in Thread /\ v.now = thr[t].now /\ v.pc = "decide" /\ v.len = Len(q)
    BY <1>0 DEF Thread
  <2>2. /\ UNCHANGED <<clock, q, log, peak>> /\ thr[t].pc = "measure"
        /\ thr' = [thr EXCEPT ![t] = v]
    BY <1>0, <1>5 DEF Measure
  <2> HIDE DEF v
  <2> QED
    BY <1>1, <2>1, <2>2
<1>6. CASE Refuse(t)
  <2> DEFINE v == [thr[t] EXCEPT !.pc = "refused"]
  <2>1. v \in Thread /\ v.now = thr[t].now /\ v.pc = "refused" /\ v.len = thr[t].len
    BY <1>0 DEF Thread
  <2>2. /\ UNCHANGED <<clock, q, log, peak>> /\ thr[t].pc = "decide" /\ thr[t].len >= MaxRequests
        /\ thr' = [thr EXCEPT ![t] = v]
    BY <1>0, <1>6 DEF Refuse
  <2> HIDE DEF v
  <2> QED
    BY <1>1, <2>1, <2>2
<1> QED
  BY <1>2, <1>3, <1>4, <1>5, <1>6 DEF Turn

LEMMA AdmitEffect ==
    ASSUME Typed, NEW t \in Threads, Admit(t)
    PROVE  /\ UNCHANGED <<clock, peak>> /\ t \in Inside /\ Inside' = Inside \ {t}
           /\ thr[t].pc = "decide" /\ thr[t].len < MaxRequests
           /\ thr' \in [Threads -> Thread] /\ thr'[t].pc = "out" /\ thr'[t].now = 0
           /\ \A u \in Threads : u # t => thr'[u] = thr[u]
           /\ q' \in Seq(Nat) /\ log' \in Seq(Nat)
           /\ Len(q') = Len(q) + 1 /\ Len(log') = Len(log) + 1 /\ Forgotten' = Forgotten
           /\ DOMAIN log' = 1 .. Len(log) + 1
           /\ \A j \in 1 .. Len(log) : log'[j] = log[j]
           /\ log'[Len(log) + 1] = thr[t].now
           /\ \A k \in 1 .. Len(q) : q'[k] = q[k]
           /\ q'[Len(q) + 1] = thr[t].now
<1>1. Idle \in Thread /\ Idle.pc = "out" /\ Idle.now = 0
  BY DEF Idle, Thread
<1>2. /\ UNCHANGED <<clock, peak>> /\ thr[t].pc = "decide" /\ thr[t].len < MaxRequests
      /\ thr' = [thr EXCEPT ![t] = Idle]
      /\ q' = Append(q, thr[t].now) /\ log' = Append(log, thr[t].now)
  BY DEF Admit
<1>3. /\ thr' \in [Threads -> Thread] /\ thr'[t] = Idle
      /\ \A u \in Threads : u # t => thr'[u] = thr[u]
  BY <1>1, <1>2, ThreadStep DEF Typed
<1>4. t \in Inside /\ Inside' = Inside \ {t}
  BY <1>1, <1>2, <1>3 DEF Inside
<1>5. thr[t].now \in Nat /\ Len(q) \in Nat /\ Len(log) \in Nat
  BY Shapes
<1>6. /\ q' \in Seq(Nat) /\ Len(q') = Len(q) + 1 /\ q'[Len(q) + 1] = thr[t].now
      /\ \A k \in 1 .. Len(q) : q'[k] = q[k]
  BY <1>2, <1>5, AppendProperties DEF Typed
<1>7. /\ log' \in Seq(Nat) /\ Len(log') = Len(log) + 1 /\ log'[Len(log) + 1] = thr[t].now
      /\ \A j \in 1 .. Len(log) : log'[j] = log[j]
  BY <1>2, <1>5, AppendProperties DEF Typed
<1>8. DOMAIN log' = 1 .. Len(log) + 1
  BY <1>7, LenProperties
<1>9. Forgotten' = Forgotten
  BY <1>5, <1>6, <1>7 DEF Forgotten
<1> QED
  BY <1>1, <1>2, <1>3, <1>4, <1>6, <1>7, <1>8, <1>9

LEMMA PopEffect ==
    ASSUME Typed, NEW t \in Threads, Pop(t)
    PROVE  /\ UNCHANGED <<clock, log, peak>> /\ t \in Inside /\ Inside' = Inside
           /\ thr[t].pc = "pop" /\ thr' \in [Threads -> Thread]
           /\ thr'[t].pc = "loop" /\ thr'[t].now = thr[t].now
           /\ \A u \in Threads : u # t => thr'[u] = thr[u]
           /\ q' \in Seq(Nat) /\ Len(q') = Len(q) - 1 /\ Len(q) >= 1
           /\ Forgotten' = Forgotten + 1 /\ Forgotten + 1 \in 1 .. Len(log)
           /\ q # << >> /\ Head(q) = log[Forgotten + 1]
           /\ \A k \in 1 .. Len(q') : q'[k] = q[k + 1]
<1> DEFINE v == [thr[t] EXCEPT !.pc = "loop"]
<1>1. v \in Thread /\ v.pc = "loop" /\ v.now = thr[t].now
  BY Shapes DEF Thread
<1>2. /\ UNCHANGED <<clock, log, peak>> /\ thr[t].pc = "pop" /\ q # << >> /\ q' = Tail(q)
      /\ thr' = [thr EXCEPT ![t] = v]
  BY DEF Pop, Typed
<1> HIDE DEF v
<1>3. /\ thr' \in [Threads -> Thread] /\ thr'[t] = v
      /\ \A u \in Threads : u # t => thr'[u] = thr[u]
  BY <1>1, <1>2, ThreadStep DEF Typed
<1>4. t \in Inside /\ Inside' = Inside
  BY <1>1, <1>2, <1>3 DEF Inside
<1>5. /\ q' \in Seq(Nat) /\ Len(q') = Len(q) - 1
      /\ \A k \in 1 .. Len(q') : q'[k] = q[k + 1]
  BY <1>2, HeadTailProperties DEF Typed
<1>6. Len(q) \in Nat /\ Len(q) # 0 /\ Head(q) = q[1]
  BY <1>2, Shapes, EmptySeq DEF Typed
<1>7. 1 \in 1 .. Len(q) /\ q[1] = log[Forgotten + 1]
  BY <1>6 DEF Typed
<1>8. Len(q) >= 1 /\ Forgotten' = Forgotten + 1 /\ Forgotten + 1 \in 1 .. Len(log)
  BY <1>2, <1>5, <1>6, Shapes DEF Forgotten
<1> QED
  BY <1>1, <1>2, <1>3, <1>4, <1>5, <1>6, <1>7, <1>8

-----------------------------------------------------------------------------
(* The type invariant *)

LEMMA TypedInit == Init => Typed
<1> SUFFICES ASSUME Init
             PROVE  Typed
  OBVIOUS
<1>1. clock = 0 /\ q = << >> /\ log = << >> /\ peak = 0
  BY DEF Init
<1>2. Len(q) = 0 /\ Len(log) = 0 /\ q \in Seq(Nat) /\ log \in Seq(Nat)
  BY <1>1
<1>3. thr \in [Threads -> Thread] /\ \A t \in Threads : thr[t].now = 0 /\ thr[t].pc = "out"
  BY DEF Init, Idle, Thread
<1>4. Inside = {} /\ Cardinality(Inside) = 0
  <2>1. Inside = {}
    BY <1>3 DEF Inside
  <2> QED
    BY <2>1, FS_EmptySet
<1>5. clock \in 0 .. MaxClock /\ peak \in Nat
  BY <1>1, LimitAssumption
<1>6. Len(q) <= Len(log) /\ \A k \in 1 .. Len(q) : q[k] = log[Forgotten + k]
  BY <1>2
<1>7. \A j \in 1 .. Len(log) : log[j] <= clock
  BY <1>2
<1>8. \A t \in Threads : thr[t].now <= clock
  BY <1>1, <1>3
<1> QED
  BY <1>1, <1>2, <1>3, <1>4, <1>5, <1>6, <1>7, <1>8 DEF Typed

LEMMA TypedStep == Typed /\ [Next]_vars => Typed'
<1> SUFFICES ASSUME Typed, [Next]_vars
             PROVE  Typed'
  OBVIOUS
<1>1. /\ IsFiniteSet(Inside) /\ Cardinality(Inside) \in Nat /\ Cardinality(Inside) <= peak
      /\ peak \in Nat
  BY FinitelyManyInside DEF Typed
<1>2. CASE UNCHANGED vars
  BY <1>2 DEF Typed, vars, Forgotten, Inside
<1>3. CASE Tick
  <2>1. UNCHANGED <<q, thr, log, peak>> /\ clock < MaxClock /\ clock' = clock + 1
    BY <1>3 DEF Tick
  <2>2. clock' \in 0 .. MaxClock /\ clock <= clock'
    BY <2>1, Shapes
  <2>3. \A j \in 1 .. Len(log') : log'[j] <= clock'
    BY <2>1, <2>2, Shapes DEF Typed
  <2>4. \A t \in Threads : thr'[t].now <= clock'
    BY <2>1, <2>2, Shapes DEF Typed
  <2>5. Inside' = Inside /\ Forgotten' = Forgotten
    BY <2>1 DEF Inside, Forgotten
  <2> QED
    BY <2>1, <2>2, <2>3, <2>4, <2>5 DEF Typed
<1>4. ASSUME NEW t \in Threads, Enter(t)
      PROVE  Typed'
  <2>1. /\ UNCHANGED <<clock, q, log>> /\ Inside' = Inside \cup {t}
        /\ thr' \in [Threads -> Thread] /\ thr'[t].now = clock
        /\ \A u \in Threads : u # t => thr'[u] = thr[u]
        /\ peak' \in Nat /\ peak' >= peak /\ peak' >= Cardinality(Inside) + 1
    BY <1>4, EnterEffect
  <2>2. peak' >= 1
    BY <1>1, <2>1
  <2>3. Cardinality(Inside') \in Nat /\ Cardinality(Inside') <= Cardinality(Inside) + 1
    BY <1>1, <2>1, OneMore
  <2>4. Cardinality(Inside') <= peak'
    BY <1>1, <2>1, <2>3
  <2>5. \A u \in Threads : thr'[u].now <= clock'
    BY <2>1, Shapes DEF Typed
  <2>6. Forgotten' = Forgotten
    BY <2>1 DEF Forgotten
  <2> QED
    BY <2>1, <2>2, <2>4, <2>5, <2>6 DEF Typed
<1>5. ASSUME NEW t \in Threads, Pop(t)
      PROVE  Typed'
  <2>1. /\ UNCHANGED <<clock, log, peak>> /\ t \in Inside /\ Inside' = Inside
        /\ thr' \in [Threads -> Thread] /\ thr'[t].now = thr[t].now
        /\ \A u \in Threads : u # t => thr'[u] = thr[u]
        /\ q' \in Seq(Nat) /\ Len(q') = Len(q) - 1 /\ Len(q) >= 1 /\ Forgotten' = Forgotten + 1
        /\ \A k \in 1 .. Len(q') : q'[k] = q[k + 1]
    BY <1>5, PopEffect
  <2>2. Len(q') <= Len(log')
    BY <2>1, Shapes
  <2>3. \A k \in 1 .. Len(q') : q'[k] = log'[Forgotten' + k]
    <3>1. ASSUME NEW k \in 1 .. Len(q')
          PROVE  q'[k] = log'[Forgotten' + k]
      <4>1. k + 1 \in 1 .. Len(q) /\ Forgotten + (k + 1) = (Forgotten + 1) + k
        BY <2>1, Shapes
      <4>2. q[k + 1] = log[Forgotten + (k + 1)]
        BY <4>1 DEF Typed
      <4> QED
        BY <2>1, <4>1, <4>2
    <3> QED
      BY <3>1
  <2>4. peak >= 1
    BY <2>1 DEF Typed, Inside
  <2>5. \A u \in Threads : thr'[u].now <= clock'
    BY <2>1 DEF Typed
  <2> QED
    BY <2>1, <2>2, <2>3, <2>4, <2>5 DEF Typed
<1>6. ASSUME NEW t \in Threads, Turn(t)
      PROVE  Typed'
  <2>1. /\ UNCHANGED <<clock, q, log, peak>> /\ Inside' \in SUBSET Inside
        /\ t \in Inside /\ thr' \in [Threads -> Thread] /\ thr'[t].now = thr[t].now
        /\ \A u \in Threads : u # t => thr'[u] = thr[u]
    BY <1>6, TurnEffect
  <2>2. peak >= 1
    BY <2>1 DEF Typed, Inside
  <2>3. \A u \in Threads : thr'[u].now <= clock'
    BY <2>1 DEF Typed
  <2>4. Forgotten' = Forgotten
    BY <2>1 DEF Forgotten
  <2>5. Cardinality(Inside') \in Nat /\ Cardinality(Inside') <= Cardinality(Inside)
    BY <1>1, <2>1, SmallerPart
  <2>6. Cardinality(Inside') <= peak'
    BY <1>1, <2>1, <2>5
  <2> QED
    BY <2>1, <2>2, <2>3, <2>4, <2>6 DEF Typed
<1>7. ASSUME NEW t \in Threads, Admit(t)
      PROVE  Typed'
  <2>1. /\ UNCHANGED <<clock, peak>> /\ t \in Inside /\ Inside' = Inside \ {t}
        /\ thr' \in [Threads -> Thread] /\ thr'[t].now = 0
        /\ \A u \in Threads : u # t => thr'[u] = thr[u]
        /\ q' \in Seq(Nat) /\ log' \in Seq(Nat)
        /\ Len(q') = Len(q) + 1 /\ Len(log') = Len(log) + 1 /\ Forgotten' = Forgotten
    BY <1>7, AdmitEffect
  <2>2. /\ \A j \in 1 .. Len(log) : log'[j] = log[j]
        /\ log'[Len(log) + 1] = thr[t].now
        /\ \A k \in 1 .. Len(q) : q'[k] = q[k]
        /\ q'[Len(q) + 1] = thr[t].now
    BY <1>7, AdmitEffect
  <2>3. peak >= 1
    BY <2>1 DEF Typed, Inside
  <2>4. \A u \in Threads : thr'[u].now <= clock'
    BY <2>1, Shapes DEF Typed
  <2>5. Len(q') <= Len(log')
    BY <2>1, Shapes
  <2>6. \A k \in 1 .. Len(q') : q'[k] = log'[Forgotten' + k]
    <3>1. ASSUME NEW k \in 1 .. Len(q')
          PROVE  q'[k] = log'[Forgotten' + k]
      <4>1. CASE k = Len(q) + 1
        <5>1. Forgotten + k = Len(log) + 1
          BY <4>1, Shapes
        <5> QED
          BY <2>1, <2>2, <4>1, <5>1
      <4>2. CASE k # Len(q) + 1
        <5>1. k \in 1 .. Len(q) /\ Forgotten + k \in 1 .. Len(log)
          <6>1. Len(q) \in Nat /\ Forgotten \in Nat /\ Len(log) = Forgotten + Len(q)
            BY Shapes
          <6>2. k \in 1 .. Len(q) + 1 /\ k # Len(q) + 1
            BY <2>1, <4>2
          <6> QED
            BY <6>1, <6>2
        <5>2. q[k] = log[Forgotten + k]
          BY <5>1 DEF Typed
        <5> QED
          BY <2>1, <2>2, <5>1, <5>2
      <4> QED
        BY <4>1, <4>2
    <3> QED
      BY <3>1
  <2>7. \A j \in 1 .. Len(log') : log'[j] <= clock'
    <3>1. \A j \in 1 .. Len(log') : j = Len(log) + 1 \/ j \in 1 .. Len(log)
      BY <2>1, Shapes
    <3> QED
      BY <2>1, <2>2, <3>1 DEF Typed
  <2>8. Cardinality(Inside') \in Nat /\ Cardinality(Inside') <= Cardinality(Inside)
    BY <1>1, <2>1, SmallerPart
  <2>9. Cardinality(Inside') <= peak'
    BY <1>1, <2>1, <2>8
  <2> QED
    BY <2>1, <2>3, <2>4, <2>5, <2>6, <2>7, <2>9 DEF Typed
<1> QED
  BY <1>2, <1>3, <1>4, <1>5, <1>6, <1>7 DEF Next, Turn

-----------------------------------------------------------------------------
(* The order of the log *)

\* The calls admitted after the k-th that had read the clock before it, and
\* those under way that may still become such.
Overtaken(k) == {j \in DOMAIN log : j > k /\ log[j] < log[k]}
Behind(k) == {u \in Inside : thr[u].now < log[k]}

\* All of them overlapped the k-th call.
OrderInv == \A k \in DOMAIN log : Cardinality(Overtaken(k)) + Cardinality(Behind(k)) <= peak - 1

LEMMA OrderCount ==
    ASSUME Typed, NEW k
    PROVE  /\ IsFiniteSet(Overtaken(k)) /\ Cardinality(Overtaken(k)) \in Nat
           /\ IsFiniteSet(Behind(k)) /\ Cardinality(Behind(k)) \in Nat
           /\ Cardinality(Behind(k)) <= Cardinality(Inside)
           /\ Cardinality(Inside) \in Nat /\ Cardinality(Inside) <= peak /\ peak \in Nat
<1>1. Overtaken(k) \in SUBSET (1 .. Len(log)) /\ Len(log) \in Nat
  BY Shapes DEF Overtaken
<1>2. Behind(k) \in SUBSET Inside
  BY DEF Behind
<1>3. IsFiniteSet(Overtaken(k)) /\ Cardinality(Overtaken(k)) \in Nat
  BY <1>1, FinitelyManyEntries
<1>5. /\ IsFiniteSet(Behind(k)) /\ Cardinality(Behind(k)) \in Nat
      /\ Cardinality(Behind(k)) <= Cardinality(Inside) /\ Cardinality(Inside) \in Nat
  BY <1>2, FinitelyManyInside
<1> QED
  BY <1>3, <1>5 DEF Typed

LEMMA OrderStep == Typed /\ OrderInv /\ [Next]_vars => OrderInv'
<1> SUFFICES ASSUME Typed, OrderInv, [Next]_vars
             PROVE  OrderInv'
  OBVIOUS
<1>1. ASSUME UNCHANGED <<thr, log, peak>>
      PROVE  OrderInv'
  BY <1>1 DEF OrderInv, Overtaken, Behind, Inside
<1>2. CASE UNCHANGED vars \/ Tick
  BY <1>1, <1>2 DEF vars, Tick
<1>3. ASSUME NEW t \in Threads, Enter(t)
      PROVE  OrderInv'
  <2>1. /\ UNCHANGED <<clock, q, log>> /\ t \notin Inside /\ Inside' = Inside \cup {t}
        /\ thr'[t].now = clock /\ \A u \in Threads : u # t => thr'[u] = thr[u]
        /\ peak' \in Nat /\ peak' >= peak
    BY <1>3, EnterEffect
  <2>2. ASSUME NEW k \in DOMAIN log
        PROVE  Cardinality(Overtaken(k)') + Cardinality(Behind(k)') <= peak' - 1
    <3>1. Overtaken(k)' = Overtaken(k)
      BY <2>1 DEF Overtaken
    <3>2. Behind(k)' = Behind(k)
      <4>1. ~(thr'[t].now < log[k])
        <5>1. log[k] \in Nat /\ clock \in Nat /\ log[k] <= clock
          BY Shapes DEF Typed
        <5> QED
          BY <2>1, <5>1
      <4>2. \A u \in Inside : u \in Threads /\ u # t
        BY <2>1 DEF Inside
      <4> QED
        BY <2>1, <4>1, <4>2 DEF Behind
    <3>3. Cardinality(Overtaken(k)) + Cardinality(Behind(k)) <= peak - 1
      BY DEF OrderInv
    <3>4. Cardinality(Overtaken(k)) \in Nat /\ Cardinality(Behind(k)) \in Nat /\ peak \in Nat
      BY OrderCount
    <3>5. Cardinality(Overtaken(k)) + Cardinality(Behind(k)) <= peak' - 1
      BY <2>1, <3>3, <3>4
    <3> QED
      BY <3>1, <3>2, <3>5
  <2> QED
    BY <2>1, <2>2 DEF OrderInv
<1>4. ASSUME NEW t \in Threads, Pop(t) \/ Turn(t)
      PROVE  OrderInv'
  <2>1. /\ UNCHANGED <<log, peak>> /\ Inside' \in SUBSET Inside /\ thr'[t].now = thr[t].now
        /\ \A u \in Threads : u # t => thr'[u] = thr[u]
    BY <1>4, PopEffect, TurnEffect
  <2>2. ASSUME NEW k \in DOMAIN log
        PROVE  Cardinality(Overtaken(k)') + Cardinality(Behind(k)') <= peak' - 1
    <3>1. Overtaken(k)' = Overtaken(k)
      BY <2>1 DEF Overtaken
    <3>2. Behind(k)' \in SUBSET Behind(k)
      <4>1. Inside \in SUBSET Threads
        BY DEF Inside
      <4> QED
        BY <2>1, <4>1 DEF Behind
    <3>3. /\ Cardinality(Overtaken(k)) \in Nat /\ Cardinality(Behind(k)) \in Nat /\ peak \in Nat
          /\ IsFiniteSet(Behind(k))
      BY OrderCount
    <3>4. Cardinality(Behind(k)') \in Nat /\ Cardinality(Behind(k)') <= Cardinality(Behind(k))
      BY <3>2, <3>3, SmallerPart
    <3>5. Cardinality(Overtaken(k)) + Cardinality(Behind(k)) <= peak - 1
      BY DEF OrderInv
    <3>6. Cardinality(Overtaken(k)) + Cardinality(Behind(k)') <= peak - 1
      BY <3>3, <3>4, <3>5
    <3> QED
      BY <2>1, <3>1, <3>6
  <2> QED
    BY <2>1, <2>2 DEF OrderInv
<1>5. ASSUME NEW t \in Threads, Admit(t)
      PROVE  OrderInv'
  <2>0. PICK n \in Nat : n = Len(log) + 1
    BY Shapes
  <2>1. /\ UNCHANGED <<clock, peak>> /\ t \in Inside /\ Inside' = Inside \ {t}
        /\ \A u \in Threads : u # t => thr'[u] = thr[u]
        /\ DOMAIN log' = 1 .. n /\ \A j \in 1 .. Len(log) : log'[j] = log[j]
        /\ log'[n] = thr[t].now
    BY <1>5, <2>0, AdmitEffect
  <2>2. /\ DOMAIN log = 1 .. Len(log) /\ Len(log) \in Nat /\ DOMAIN log' = DOMAIN log \cup {n}
        /\ \A j \in DOMAIN log : j \in Nat /\ ~(j > n)
        /\ ~(n > n)
    BY <2>0, <2>1, Shapes
  <2>3. \A u \in Inside : u \in Threads
    BY DEF Inside
  <2>4. ASSUME NEW k \in DOMAIN log
        PROVE  Cardinality(Overtaken(k)') + Cardinality(Behind(k)') <= peak' - 1
    <3>1. /\ Cardinality(Overtaken(k)) \in Nat /\ Cardinality(Behind(k)) \in Nat /\ peak \in Nat
          /\ IsFiniteSet(Behind(k)) /\ IsFiniteSet(Overtaken(k))
      BY OrderCount
    <3>2. Cardinality(Overtaken(k)) + Cardinality(Behind(k)) <= peak - 1
      BY DEF OrderInv
    <3>3. Overtaken(k)' \in SUBSET (Overtaken(k) \cup {n})
      BY <2>1, <2>2 DEF Overtaken
    <3>4. Behind(k)' \in SUBSET (Behind(k) \ {t})
      BY <2>1, <2>2, <2>3 DEF Behind
    <3>5. CASE thr[t].now < log[k]
      <4>1. t \in Behind(k)
        BY <2>1, <3>5 DEF Behind
      <4>2. Cardinality(Behind(k)') \in Nat /\ Cardinality(Behind(k)') <= Cardinality(Behind(k)) - 1
        BY <3>1, <3>4, <4>1, OneFewer
      <4>3. Cardinality(Overtaken(k)') \in Nat /\ Cardinality(Overtaken(k)') <= Cardinality(Overtaken(k)) + 1
        BY <3>1, <3>3, OneMore
      <4>4. Cardinality(Overtaken(k)') + Cardinality(Behind(k)') <= peak - 1
        BY <3>1, <3>2, <4>2, <4>3
      <4> QED
        BY <2>1, <4>4
    <3>6. CASE ~(thr[t].now < log[k])
      <4>1. log'[k] = log[k]
        BY <2>1, <2>2
      <4>2. Overtaken(k)' \in SUBSET Overtaken(k)
        BY <2>1, <3>3, <3>6, <4>1 DEF Overtaken
      <4>3. Behind(k)' \in SUBSET Behind(k)
        BY <3>4
      <4>4. Cardinality(Overtaken(k)') \in Nat /\ Cardinality(Overtaken(k)') <= Cardinality(Overtaken(k))
        BY <3>1, <4>2, SmallerPart
      <4>5. Cardinality(Behind(k)') \in Nat /\ Cardinality(Behind(k)') <= Cardinality(Behind(k))
        BY <3>1, <4>3, SmallerPart
      <4>6. Cardinality(Overtaken(k)') + Cardinality(Behind(k)') <= peak - 1
        BY <3>1, <3>2, <4>4, <4>5
      <4> QED
        BY <2>1, <4>6
    <3> QED
      BY <3>5, <3>6
  <2>5. Cardinality(Overtaken(n)') + Cardinality(Behind(n)') <= peak' - 1
    <3>1. Overtaken(n)' = {}
      BY <2>2 DEF Overtaken
    <3>2. Cardinality(Overtaken(n)') = 0
      BY <3>1, FS_EmptySet
    <3>3. Behind(n)' \in SUBSET (Inside \ {t}) /\ IsFiniteSet(Inside)
      BY <2>1, FinitelyManyInside DEF Behind
    <3>4. Cardinality(Behind(n)') \in Nat /\ Cardinality(Behind(n)') <= Cardinality(Inside) - 1
          /\ Cardinality(Inside) \in Nat
      BY <2>1, <3>3, OneFewer
    <3>5. Cardinality(Inside) <= peak /\ peak \in Nat
      BY DEF Typed
    <3>6. Cardinality(Behind(n)') <= peak - 1
      BY <3>4, <3>5
    <3> QED
      BY <2>1, <3>2, <3>4, <3>5, <3>6
  <2> QED
    BY <2>2, <2>4, <2>5 DEF OrderInv
<1> QED
  BY <1>2, <1>3, <1>4, <1>5 DEF Next, Turn

-----------------------------------------------------------------------------
(* How many requests a window can let through *)

\* The admitted calls of the window that ends at T.
Hits(T) == {j \in DOMAIN log : log[j] \in T - WindowSeconds .. T}

\* The calls that have found room and have not used it yet.
Deciding == {t \in Threads : thr[t].pc = "decide" /\ thr[t].len < MaxRequests}

\* Some call has read the clock after T.
Passed(T) == (\E j \in DOMAIN log : log[j] > T) \/ (\E t \in Threads : thr[t].now > T)

\* The calls under way that read it no later than T.
Early(T) == {t \in Inside : thr[t].now <= T}

\* The hits of the window that the deque has lost, and the calls that are about
\* to take its head, whatever it is.
Taken(T) == {j \in Hits(T) : j <= Forgotten}
Pending == {t \in Threads : thr[t].pc = "pop"}

\* The head is older than the window, so that those calls do no harm.
HeadOld(T) == q # << >> /\ Head(q) < T - WindowSeconds

\* The lost hits that were recorded behind a younger one of the window: with
\* each of them at the head, the other calls can once more decide to pop.
Late(T) == {j \in 1 .. Forgotten : log[j] < T - WindowSeconds /\ \E i \in Hits(T) : i < j}

\* While no call is past T, a call decides to pop only under a head older than
\* the window of T.  So only the others that decided under the same head take
\* hits of the window: at most peak - 1, once and for every late hit, of which
\* there are at most peak - 1 as well.  Whoever found room saw all the other
\* hits of the window: only those who decide at the same time can exceed the
\* limit.  Once a call is past T, hits may be dropped, but only the calls that
\* are still under way with an early reading can add to the window.
Room(T) ==
    IF Passed(T)
    THEN Cardinality(Hits(T)) + Cardinality(Early(T))
             <= MaxRequests + 2 * (peak - 1) + peak * (peak - 1)
    ELSE /\ peak >= 1 =>
                Cardinality(Taken(T)) + (IF HeadOld(T) THEN 0 ELSE Cardinality(Pending))
                    <= (peak - 1) * (1 + Cardinality(Late(T)))
         /\ Cardinality(Hits(T)) + Cardinality(Deciding)
                <= MaxRequests + (peak - 1) + peak * (peak - 1)

RoomInv == \A T \in Nat : Room(T)

LEMMA HitsCount ==
    ASSUME Typed, NEW T
    PROVE  /\ IsFiniteSet(Hits(T)) /\ Cardinality(Hits(T)) \in Nat
           /\ IsFiniteSet(Deciding) /\ Cardinality(Deciding) \in Nat /\ Cardinality(Deciding) <= peak
           /\ IsFiniteSet(Early(T)) /\ Cardinality(Early(T)) \in Nat
           /\ IsFiniteSet(Taken(T)) /\ Cardinality(Taken(T)) \in Nat
           /\ IsFiniteSet(Pending) /\ Cardinality(Pending) \in Nat
           /\ IsFiniteSet(Late(T)) /\ Cardinality(Late(T)) \in Nat
           /\ peak \in Nat /\ MaxRequests \in Nat /\ MaxRequests >= 1
<1>1. /\ Hits(T) \in SUBSET (1 .. Len(log)) /\ Len(log) \in Nat
      /\ Taken(T) \in SUBSET (1 .. Len(log))
      /\ Forgotten \in Nat /\ Late(T) \in SUBSET (1 .. Forgotten)
  BY Shapes DEF Hits, Taken, Late
<1>2. Deciding \in SUBSET Inside /\ Early(T) \in SUBSET Inside /\ Pending \in SUBSET Inside
  BY DEF Deciding, Early, Pending, Inside
<1>3. /\ IsFiniteSet(Hits(T)) /\ Cardinality(Hits(T)) \in Nat
      /\ IsFiniteSet(Taken(T)) /\ Cardinality(Taken(T)) \in Nat
      /\ IsFiniteSet(Late(T)) /\ Cardinality(Late(T)) \in Nat
  BY <1>1, FinitelyManyEntries
<1>4. /\ IsFiniteSet(Deciding) /\ Cardinality(Deciding) \in Nat
      /\ Cardinality(Deciding) <= Cardinality(Inside) /\ Cardinality(Inside) \in Nat
  BY <1>2, FinitelyManyInside
<1>5. /\ IsFiniteSet(Early(T)) /\ Cardinality(Early(T)) \in Nat
      /\ IsFiniteSet(Pending) /\ Cardinality(Pending) \in Nat
  BY <1>2, FinitelyManyInside
<1>6. peak \in Nat /\ Cardinality(Inside) <= peak /\ MaxRequests \in Nat /\ MaxRequests >= 1
  BY Shapes DEF Typed
<1>7. Cardinality(Deciding) <= peak
  BY <1>4, <1>6
<1> QED
  BY <1>3, <1>4, <1>5, <1>6, <1>7

\* All that is late overlapped the first call of the window.
LEMMA FewLate ==
    ASSUME Typed, OrderInv, NEW T \in Nat, peak >= 1
    PROVE  Cardinality(Late(T)) \in Nat /\ Cardinality(Late(T)) <= peak - 1
<1>1. Cardinality(Late(T)) \in Nat /\ peak \in Nat
  BY HitsCount
<1>2. CASE Hits(T) = {}
  <2>1. Late(T) = {}
    BY <1>2 DEF Late
  <2> QED
    BY <1>1, <2>1, FS_EmptySet
<1>3. CASE Hits(T) # {}
  <2>1. Hits(T) \in SUBSET Nat
    BY Shapes DEF Hits
  <2>2. PICK m \in Hits(T) : \A i \in Hits(T) : m <= i
    BY <1>3, <2>1, LeastNatural
  <2>3. m \in DOMAIN log /\ m \in Nat /\ log[m] \in Nat /\ log[m] >= T - WindowSeconds
    BY <2>2, Shapes DEF Hits
  <2>4. Late(T) \in SUBSET Overtaken(m)
    <3>1. ASSUME NEW j \in Late(T)
          PROVE  j \in Overtaken(m)
      <4>1. j \in 1 .. Forgotten /\ log[j] < T - WindowSeconds
        BY <3>1 DEF Late
      <4>2. PICK i \in Hits(T) : i < j
        BY <3>1 DEF Late
      <4>3. j \in DOMAIN log /\ j \in Nat /\ log[j] \in Nat /\ WindowSeconds \in Nat
        <5>1. /\ Forgotten \in Nat /\ Len(log) \in Nat /\ Len(q) \in Nat
              /\ Len(log) = Forgotten + Len(q)
          BY Shapes
        <5>2. j \in 1 .. Len(log)
          BY <4>1, <5>1
        <5> QED
          BY <5>2, Shapes
      <4>4. m <= i /\ i \in Nat
        BY <2>1, <2>2
      <4>5. j > m
        BY <2>3, <4>2, <4>3, <4>4
      <4>6. log[j] < log[m]
        BY <2>3, <4>1, <4>3
      <4> QED
        BY <4>3, <4>5, <4>6 DEF Overtaken
    <3> QED
      BY <3>1
  <2>5. /\ IsFiniteSet(Overtaken(m)) /\ Cardinality(Overtaken(m)) \in Nat
        /\ Cardinality(Behind(m)) \in Nat
        /\ Cardinality(Overtaken(m)) + Cardinality(Behind(m)) <= peak - 1
    BY <2>3, OrderCount DEF OrderInv
  <2>6. Cardinality(Late(T)) <= Cardinality(Overtaken(m))
    BY <2>4, <2>5, SmallerPart
  <2> QED
    BY <1>1, <2>5, <2>6
<1> QED
  BY <1>2, <1>3

\* Products grow with their factors.
LEMMA ProductGrows ==
    ASSUME NEW a \in Nat, NEW b \in Nat, NEW c \in Nat, b <= c
    PROVE  a * b \in Nat /\ a * c \in Nat /\ a * b <= a * c /\ b * a <= c * a
<1>1. PICK d \in Nat : c = b + d
  <2>1. c - b \in Nat /\ c = b + (c - b)
    OBVIOUS
  <2> QED
    BY <2>1
<1>2. a * d \in Nat /\ a * b \in Nat /\ a * c = a * b + a * d
  BY <1>1
<1>3. d * a \in Nat /\ b * a \in Nat /\ c * a = b * a + d * a
  BY <1>1
<1> QED
  BY <1>2, <1>3

LEMMA BoundsGrow ==
    ASSUME NEW p \in Nat, NEW r \in Nat, p <= r, NEW f \in Nat
    PROVE  /\ p * (p - 1) \in Int /\ r * (r - 1) \in Int /\ p * (p - 1) <= r * (r - 1)
           /\ p >= 1 => /\ (p - 1) * (1 + f) \in Nat /\ (r - 1) * (1 + f) \in Nat
                        /\ (p - 1) * (1 + f) <= (r - 1) * (1 + f)
           /\ p >= 1 /\ f <= p - 1 => (p - 1) * (1 + f) <= p * (p - 1)
<1>1. p * (p - 1) \in Int /\ r * (r - 1) \in Int
  OBVIOUS
<1>2. CASE p = 0
  <2>1. p * (p - 1) = 0
    BY <1>2
  <2>2. r * (r - 1) >= 0
    <3>1. CASE r = 0
      BY <3>1
    <3>2. CASE r # 0
      <4>1. r - 1 \in Nat
        BY <3>2
      <4>2. r * (r - 1) \in Nat
        BY <4>1, ProductGrows
      <4> QED
        BY <4>2
    <3> QED
      BY <3>1, <3>2
  <2> QED
    BY <1>1, <1>2, <2>1, <2>2
<1>3. CASE p # 0
  <2>1. PICK a \in Nat : a = p - 1
    BY <1>3
  <2>2. PICK b \in Nat : b = r - 1
    BY <1>3
  <2>3. a <= b
    BY <2>1, <2>2
  <2>4. p * a <= p * b /\ p * b <= r * b /\ p * a \in Nat /\ p * b \in Nat /\ r * b \in Nat
    BY <2>3, ProductGrows
  <2>5. p * a <= r * b
    BY <2>4
  <2>6. /\ a * (1 + f) \in Nat /\ b * (1 + f) \in Nat /\ a * (1 + f) <= b * (1 + f)
    BY <2>3, ProductGrows
  <2>7. ASSUME f <= a
        PROVE  a * (1 + f) <= p * a
    <3>1. 1 + f \in Nat /\ 1 + f <= p
      BY <2>1, <2>7
    <3>2. a * (1 + f) <= a * p /\ a * p = p * a
      BY <3>1, ProductGrows
    <3> QED
      BY <3>2
  <2> QED
    BY <1>1, <2>1, <2>2, <2>5, <2>6, <2>7
<1> QED
  BY <1>2, <1>3

LEMMA RoomInit == Init => RoomInv
<1> SUFFICES ASSUME Init, NEW T \in Nat
             PROVE  Room(T)
  BY DEF RoomInv
<1>1. Typed
  BY TypedInit
<1>2. log = << >> /\ q = << >> /\ peak = 0 /\ \A t \in Threads : thr[t].now = 0 /\ thr[t].pc = "out"
  BY DEF Init, Idle
<1>3. Len(log) = 0 /\ Len(q) = 0 /\ DOMAIN log = {}
  BY <1>2
<1>4. Hits(T) = {} /\ Deciding = {}
  BY <1>2, <1>3 DEF Hits, Deciding
<1>5. Cardinality(Hits(T)) = 0 /\ Cardinality(Deciding) = 0
  BY <1>4, FS_EmptySet
<1>6. ~Passed(T)
  BY <1>2, <1>3 DEF Passed
<1>7. Cardinality(Hits(T)) + Cardinality(Deciding) <= MaxRequests + (peak - 1) + peak * (peak - 1)
  <2>1. MaxRequests \in Nat /\ MaxRequests >= 1
    BY <1>1, Shapes
  <2> QED
    BY <1>2, <1>5, <2>1
<1> QED
  BY <1>2, <1>6, <1>7 DEF Room

\* A call that enters after T is the first past T, or one more of them.
LEMMA RoomEnter ==
    ASSUME Typed, NEW T \in Nat, Room(T), NEW t \in Threads, Enter(t)
    PROVE  Room(T)'
<1>1. /\ UNCHANGED <<clock, q, log>> /\ t \notin Inside /\ Inside' = Inside \cup {t}
      /\ thr' \in [Threads -> Thread] /\ thr[t].pc \notin {"decide", "pop"}
      /\ thr'[t].pc = "loop" /\ thr'[t].now = clock /\ thr[t].now <= clock
      /\ \A u \in Threads : u # t => thr'[u] = thr[u]
      /\ peak' \in Nat /\ peak' >= peak /\ peak' >= Cardinality(Inside) + 1
  BY EnterEffect
<1>2. /\ Hits(T)' = Hits(T) /\ Forgotten' = Forgotten /\ Taken(T)' = Taken(T)
      /\ Late(T)' = Late(T) /\ HeadOld(T)' = HeadOld(T)
  BY <1>1 DEF Hits, Forgotten, Taken, Late, HeadOld
<1>3. Deciding' = Deciding /\ Pending' = Pending
  BY <1>1 DEF Deciding, Pending
<1>4. /\ Cardinality(Hits(T)) \in Nat /\ Cardinality(Deciding) \in Nat
      /\ Cardinality(Taken(T)) \in Nat /\ Cardinality(Pending) \in Nat
      /\ Cardinality(Late(T)) \in Nat /\ peak \in Nat /\ MaxRequests \in Nat
  BY HitsCount
<1>5. peak * (peak - 1) \in Int /\ peak' * (peak' - 1) \in Int
      /\ peak * (peak - 1) <= peak' * (peak' - 1)
  BY <1>1, <1>4, BoundsGrow
<1>6. CASE ~Passed(T)'
  <2>1. ~Passed(T)
    <3>1. \A j \in DOMAIN log : ~(log[j] > T)
      BY <1>1, <1>6 DEF Passed
    <3>2. \A u \in Threads : u # t => ~(thr[u].now > T)
      BY <1>1, <1>6 DEF Passed
    <3>3. ~(thr[t].now > T)
      <4>1. ~(clock > T)
        BY <1>1, <1>6 DEF Passed
      <4>2. clock \in Nat /\ thr[t].now \in Nat
        BY Shapes
      <4> QED
        BY <1>1, <4>1, <4>2
    <3> QED
      BY <3>1, <3>2, <3>3 DEF Passed
  <2> DEFINE loss == Cardinality(Taken(T)) + (IF HeadOld(T) THEN 0 ELSE Cardinality(Pending))
  <2>2. /\ peak >= 1 => loss <= (peak - 1) * (1 + Cardinality(Late(T)))
        /\ Cardinality(Hits(T)) + Cardinality(Deciding)
              <= MaxRequests + (peak - 1) + peak * (peak - 1)
    BY <2>1 DEF Room
  <2>3. loss \in Nat
    BY <1>4
  <2>4. loss <= (peak' - 1) * (1 + Cardinality(Late(T)))
    <3>1. CASE peak >= 1
      <4>1. /\ (peak - 1) * (1 + Cardinality(Late(T))) \in Nat
            /\ (peak' - 1) * (1 + Cardinality(Late(T))) \in Nat
            /\ (peak - 1) * (1 + Cardinality(Late(T))) <= (peak' - 1) * (1 + Cardinality(Late(T)))
        BY <1>1, <1>4, <3>1, BoundsGrow
      <4> HIDE DEF loss
      <4> QED
        BY <2>2, <2>3, <3>1, <4>1
    <3>2. CASE ~(peak >= 1)
      <4>1. log = << >> /\ \A u \in Threads : thr[u].pc = "out"
        BY <3>2 DEF Typed
      <4>2. DOMAIN log = {}
        BY <4>1
      <4>3. Taken(T) = {} /\ Pending = {}
        BY <4>1, <4>2 DEF Taken, Hits, Pending
      <4>4. loss = 0
        BY <4>3, FS_EmptySet
      <4>5. peak' >= 1
        <5>1. Cardinality(Inside) \in Nat
          BY FinitelyManyInside
        <5> QED
          BY <1>1, <5>1
      <4>6. (peak' - 1) * (1 + Cardinality(Late(T))) \in Nat
        BY <1>1, <1>4, <4>5, BoundsGrow
      <4> HIDE DEF loss
      <4> QED
        BY <4>4, <4>6
    <3> QED
      BY <3>1, <3>2
  <2>5. Cardinality(Hits(T)) + Cardinality(Deciding) <= MaxRequests + (peak' - 1) + peak' * (peak' - 1)
    <3> HIDE DEF loss
    <3> QED
      BY <1>1, <1>4, <1>5, <2>2
  <2> QED
    BY <1>2, <1>3, <1>6, <2>4, <2>5 DEF Room
<1>7. CASE Passed(T)'
  <2>1. clock > T
    <3>1. clock \in Nat /\ T \in Nat
      BY Shapes
    <3>2. ASSUME NEW j \in DOMAIN log, log[j] > T
          PROVE  clock > T
      <4>1. log[j] <= clock /\ log[j] \in Nat
        BY Shapes DEF Typed
      <4> QED
        BY <3>1, <3>2, <4>1
    <3>3. ASSUME NEW u \in Threads, thr'[u].now > T
          PROVE  clock > T
      <4>1. thr'[u].now <= clock /\ thr'[u].now \in Nat
        BY <1>1, Shapes DEF Typed
      <4> QED
        BY <3>1, <3>3, <4>1
    <3> QED
      BY <1>1, <1>7, <3>2, <3>3 DEF Passed
  <2>2. Early(T)' = Early(T)
    <3>1. ~(thr'[t].now <= T)
      BY <1>1, <2>1, Shapes
    <3>2. \A u \in Inside : u \in Threads /\ u # t
      BY <1>1 DEF Inside
    <3> QED
      BY <1>1, <3>1, <3>2 DEF Early
  <2>3. Cardinality(Early(T)) \in Nat /\ Cardinality(Early(T)) <= Cardinality(Inside)
        /\ Cardinality(Inside) \in Nat
    <3>1. Early(T) \in SUBSET Inside
      BY DEF Early
    <3> QED
      BY <3>1, FinitelyManyInside
  <2>4. Cardinality(Hits(T)) + Cardinality(Early(T))
            <= MaxRequests + 2 * (peak' - 1) + peak' * (peak' - 1)
    <3>1. CASE Passed(T)
      <4>1. Cardinality(Hits(T)) + Cardinality(Early(T))
               <= MaxRequests + 2 * (peak - 1) + peak * (peak - 1)
        BY <3>1 DEF Room
      <4> QED
        BY <1>1, <1>4, <1>5, <2>3, <4>1
    <3>2. CASE ~Passed(T)
      <4>1. Cardinality(Hits(T)) + Cardinality(Deciding)
               <= MaxRequests + (peak - 1) + peak * (peak - 1)
        BY <3>2 DEF Room
      <4> QED
        BY <1>1, <1>4, <1>5, <2>3, <4>1
    <3> QED
      BY <3>1, <3>2
  <2> QED
    BY <1>2, <1>7, <2>2, <2>4 DEF Room
<1> QED
  BY <1>6, <1>7

\* Of the calls that decided to pop, the first takes the old head; another takes
\* a hit of the window, and there is one less of them.
LEMMA RoomPop ==
    ASSUME Typed, NEW T \in Nat, Room(T), NEW t \in Threads, Pop(t)
    PROVE  Room(T)'
<1> DEFINE k == Forgotten + 1
<1>1. /\ UNCHANGED <<clock, log, peak>> /\ t \in Inside /\ Inside' = Inside
      /\ thr[t].pc = "pop" /\ thr' \in [Threads -> Thread]
      /\ thr'[t].pc = "loop" /\ thr'[t].now = thr[t].now
      /\ \A u \in Threads : u # t => thr'[u] = thr[u]
      /\ Forgotten' = k /\ k \in 1 .. Len(log) /\ q # << >> /\ Head(q) = log[k]
  BY PopEffect
<1>2. Forgotten \in Nat /\ k \in DOMAIN log /\ log[k] \in Nat /\ WindowSeconds \in Nat
  BY <1>1, Shapes
<1>3. \A i \in 1 .. k : i \in 1 .. Forgotten \/ i = k
  BY <1>2
<1>4. \A i \in 1 .. Forgotten : i \in 1 .. k
  BY <1>2
<1>5. k \in Nat /\ k \in 1 .. k /\ ~(k <= Forgotten) /\ \A i \in DOMAIN log : i \in Nat
  BY <1>2, Shapes
<1> HIDE DEF k
<1>6. Hits(T)' = Hits(T)
  BY <1>1 DEF Hits
<1>7. Deciding' = Deciding
  BY <1>1 DEF Deciding
<1>8. Passed(T)' = Passed(T)
  BY <1>1 DEF Passed
<1>9. Early(T)' = Early(T)
  <2>1. Inside \in SUBSET Threads
    BY DEF Inside
  <2> QED
    BY <1>1, <2>1 DEF Early
<1>10. CASE Passed(T)
  BY <1>1, <1>6, <1>8, <1>9, <1>10 DEF Room
<1>11. CASE ~Passed(T)
  <2>1. /\ Cardinality(Taken(T)) \in Nat /\ IsFiniteSet(Taken(T))
        /\ Cardinality(Pending) \in Nat /\ IsFiniteSet(Pending)
        /\ Cardinality(Late(T)) \in Nat /\ IsFiniteSet(Late(T))
        /\ peak \in Nat
    BY HitsCount
  <2>2. peak >= 1
    BY <1>1 DEF Typed
  <2>3. /\ Cardinality(Taken(T)) + (IF HeadOld(T) THEN 0 ELSE Cardinality(Pending))
              <= (peak - 1) * (1 + Cardinality(Late(T)))
        /\ Cardinality(Hits(T)) + Cardinality(Deciding)
              <= MaxRequests + (peak - 1) + peak * (peak - 1)
    BY <1>11, <2>2 DEF Room
  <2>4. HeadOld(T) <=> log[k] < T - WindowSeconds
    BY <1>1 DEF HeadOld
  <2>5. t \in Pending /\ Pending' \in SUBSET (Pending \ {t}) /\ Pending' \in SUBSET (Inside \ {t})
    BY <1>1 DEF Pending, Inside
  <2>6. Cardinality(Pending') \in Nat /\ Cardinality(Pending') <= Cardinality(Pending) - 1
    BY <2>1, <2>5, OneFewer
  <2>7. Cardinality(Pending') <= peak - 1
    <3>1. IsFiniteSet(Inside) /\ Cardinality(Inside) \in Nat /\ Cardinality(Inside) <= peak
      BY FinitelyManyInside DEF Typed
    <3>2. Cardinality(Pending') <= Cardinality(Inside) - 1
      BY <1>1, <2>5, <3>1, OneFewer
    <3> QED
      BY <2>1, <2>6, <3>1, <3>2
  <2> DEFINE after == IF HeadOld(T)' THEN 0 ELSE Cardinality(Pending')
  <2>8. after \in Nat /\ after <= Cardinality(Pending')
    BY <2>6
  <2> HIDE DEF after
  <2>9. (peak - 1) * (1 + Cardinality(Late(T))) \in Nat
    BY <2>1, <2>2, BoundsGrow
  <2>10. Late(T) \in SUBSET Late(T)'
    BY <1>1, <1>4, <1>6 DEF Late
  <2>11. /\ IsFiniteSet(Late(T)') /\ Cardinality(Late(T)') \in Nat
         /\ Cardinality(Late(T)) <= Cardinality(Late(T)')
    <3>1. Late(T)' \in SUBSET (Late(T) \cup {k})
      BY <1>1, <1>3, <1>6 DEF Late
    <3>2. IsFiniteSet(Late(T)')
      BY <2>1, <3>1, OneMore
    <3> QED
      BY <2>10, <3>2, SmallerPart
  <2>12. (peak - 1) * (1 + Cardinality(Late(T)')) \in Nat
         /\ (peak - 1) * (1 + Cardinality(Late(T))) <= (peak - 1) * (1 + Cardinality(Late(T)'))
    <3>1. peak - 1 \in Nat /\ 1 + Cardinality(Late(T)) \in Nat /\ 1 + Cardinality(Late(T)') \in Nat
          /\ 1 + Cardinality(Late(T)) <= 1 + Cardinality(Late(T)')
      BY <2>1, <2>2, <2>11
    <3> QED
      BY <3>1, ProductGrows
  <2>13. Cardinality(Taken(T)') \in Nat
         /\ Cardinality(Taken(T)') + after <= (peak - 1) * (1 + Cardinality(Late(T)'))
    <3>1. CASE ~HeadOld(T)
      <4>1. Taken(T)' \in SUBSET (Taken(T) \cup {k})
        <5>1. ASSUME NEW j \in Hits(T), j <= k, j # k
              PROVE  j <= Forgotten
          <6>1. j \in 1 .. k
            BY <1>5, <5>1, Shapes DEF Hits
          <6> QED
            BY <1>2, <1>3, <5>1, <6>1
        <5> QED
          BY <1>1, <1>6, <5>1 DEF Taken
      <4>2. Cardinality(Taken(T)') \in Nat /\ Cardinality(Taken(T)') <= Cardinality(Taken(T)) + 1
        BY <2>1, <4>1, OneMore
      <4> QED
        BY <2>1, <2>3, <2>6, <2>8, <2>9, <2>12, <3>1, <4>2
    <3>2. CASE HeadOld(T)
      <4>1. k \notin Hits(T)
        BY <1>2, <2>4, <3>2 DEF Hits
      <4>2. Taken(T)' = Taken(T)
        <5>1. ASSUME NEW j \in Hits(T)
              PROVE  j <= k <=> j <= Forgotten
          <6>1. j \in Nat /\ j # k
            BY <1>5, <4>1 DEF Hits
          <6> QED
            BY <1>2, <6>1 DEF k
        <5> QED
          BY <1>1, <1>6, <5>1 DEF Taken
      <4>3. CASE \E i \in Hits(T) : i < k
        <5>1. k \in Late(T)' /\ k \notin Late(T)
          <6>1. k \in Late(T)'
            BY <1>1, <1>5, <1>6, <2>4, <3>2, <4>3 DEF Late
          <6>2. k \notin Late(T)
            BY <1>5 DEF Late
          <6> QED
            BY <6>1, <6>2
        <5>2. Late(T) \in SUBSET (Late(T)' \ {k})
          BY <2>10, <5>1
        <5>3. Cardinality(Late(T)) <= Cardinality(Late(T)') - 1
          BY <2>11, <5>1, <5>2, OneFewer
        <5>4. (peak - 1) * (1 + (1 + Cardinality(Late(T)))) <= (peak - 1) * (1 + Cardinality(Late(T)'))
          <6>1. peak - 1 \in Nat /\ 1 + (1 + Cardinality(Late(T))) \in Nat
                /\ 1 + Cardinality(Late(T)') \in Nat
                /\ 1 + (1 + Cardinality(Late(T))) <= 1 + Cardinality(Late(T)')
            BY <2>1, <2>2, <2>11, <5>3
          <6> QED
            BY <6>1, ProductGrows
        <5>5. (peak - 1) * (1 + (1 + Cardinality(Late(T))))
                = (peak - 1) * (1 + Cardinality(Late(T))) + (peak - 1)
          <6>1. PICK a \in Nat : a = peak - 1
            BY <2>1, <2>2
          <6>2. PICK b \in Nat : b = 1 + Cardinality(Late(T))
            BY <2>1
          <6>3. a * (1 + b) = a * b + a
            OBVIOUS
          <6> QED
            BY <6>1, <6>2, <6>3
        <5>6. Cardinality(Taken(T)) <= (peak - 1) * (1 + Cardinality(Late(T)))
          BY <2>1, <2>3, <3>2
        <5>7. after <= peak - 1
          BY <2>1, <2>6, <2>7, <2>8
        <5> QED
          BY <2>1, <2>8, <2>9, <2>12, <4>2, <5>4, <5>5, <5>6, <5>7
      <4>4. CASE ~ \E i \in Hits(T) : i < k
        <5>1. Taken(T) = {}
          <6>1. ASSUME NEW j \in Hits(T), j <= Forgotten
                PROVE  FALSE
            <7>1. j \in Nat /\ j < k
              BY <1>2, <1>5, <6>1 DEF k, Hits
            <7> QED
              BY <4>4, <7>1
          <6> QED
            BY <6>1 DEF Taken
        <5>2. Cardinality(Taken(T)') = 0
          BY <4>2, <5>1, FS_EmptySet
        <5>3. peak - 1 <= (peak - 1) * (1 + Cardinality(Late(T)'))
          <6>1. peak - 1 \in Nat /\ 1 \in Nat /\ 1 + Cardinality(Late(T)') \in Nat
                /\ 1 <= 1 + Cardinality(Late(T)')
            BY <2>1, <2>2, <2>11
          <6>2. (peak - 1) * 1 <= (peak - 1) * (1 + Cardinality(Late(T)'))
            BY <6>1, ProductGrows
          <6> QED
            BY <6>1, <6>2
        <5>4. after <= peak - 1
          BY <2>1, <2>6, <2>7, <2>8
        <5> QED
          BY <2>1, <2>8, <2>12, <5>2, <5>3, <5>4
      <4> QED
        BY <4>3, <4>4
    <3> QED
      BY <3>1, <3>2
  <2> QED
    BY <1>1, <1>6, <1>7, <1>8, <1>11, <2>3, <2>13 DEF Room, after
<1> QED
  BY <1>10, <1>11

\* The measuring call sees every hit of a window nobody is past, but for those
\* taken.  To pop, a call that is not past T must find an old head.
LEMMA RoomTurn ==
    ASSUME Typed, OrderInv, NEW T \in Nat, Room(T), NEW t \in Threads, Turn(t)
    PROVE  Room(T)'
<1>1. /\ UNCHANGED <<clock, q, log, peak>>
      /\ t \in Inside /\ Inside' \in SUBSET Inside
      /\ thr' \in [Threads -> Thread] /\ thr'[t].now = thr[t].now
      /\ \A u \in Threads : u # t => thr'[u] = thr[u]
  BY TurnEffect
<1>2. /\ thr[t].pc = "decide" => thr[t].len >= MaxRequests
      /\ thr'[t].pc = "pop" => q # << >> /\ thr[t].now - Head(q) > WindowSeconds
      /\ thr'[t].pc = "decide" => thr[t].pc = "measure" /\ thr'[t].len = Len(q)
  BY TurnEffect
<1>3. /\ Hits(T)' = Hits(T) /\ Forgotten' = Forgotten /\ Taken(T)' = Taken(T)
      /\ Late(T)' = Late(T) /\ HeadOld(T)' = HeadOld(T)
  BY <1>1 DEF Hits, Forgotten, Taken, Late, HeadOld
<1>4. \A u \in Threads : thr'[u].now = thr[u].now
  BY <1>1
<1>5. Passed(T)' = Passed(T)
  BY <1>1, <1>4 DEF Passed
<1>6. Early(T)' \in SUBSET Early(T)
  <2>1. Inside \in SUBSET Threads
    BY DEF Inside
  <2> QED
    BY <1>1, <1>4, <2>1 DEF Early
<1>7. /\ Cardinality(Early(T)') \in Nat /\ Cardinality(Early(T)') <= Cardinality(Early(T))
      /\ Cardinality(Early(T)) \in Nat /\ Cardinality(Hits(T)) \in Nat
      /\ Cardinality(Taken(T)) \in Nat /\ IsFiniteSet(Taken(T))
      /\ Cardinality(Pending) \in Nat /\ IsFiniteSet(Pending)
      /\ Cardinality(Deciding) \in Nat /\ Cardinality(Late(T)) \in Nat
      /\ peak \in Nat /\ MaxRequests \in Nat
  BY <1>6, HitsCount, SmallerPart
<1>8. peak >= 1
  BY <1>1 DEF Typed, Inside
<1>9. peak * (peak - 1) \in Int
  BY <1>7, BoundsGrow
<1>10. CASE Passed(T)
  <2>1. Cardinality(Hits(T)) + Cardinality(Early(T))
            <= MaxRequests + 2 * (peak - 1) + peak * (peak - 1)
    BY <1>10 DEF Room
  <2>2. Cardinality(Hits(T)) + Cardinality(Early(T)')
            <= MaxRequests + 2 * (peak - 1) + peak * (peak - 1)
    BY <1>7, <1>9, <2>1
  <2> QED
    BY <1>1, <1>3, <1>5, <1>10, <2>2 DEF Room
<1>11. CASE ~Passed(T)
  <2> DEFINE bound == (peak - 1) * (1 + Cardinality(Late(T)))
  <2>1. /\ Cardinality(Taken(T)) + (IF HeadOld(T) THEN 0 ELSE Cardinality(Pending)) <= bound
        /\ Cardinality(Hits(T)) + Cardinality(Deciding)
              <= MaxRequests + (peak - 1) + peak * (peak - 1)
    BY <1>8, <1>11 DEF Room
  <2>2. bound \in Nat /\ bound <= peak * (peak - 1)
    <3>1. Cardinality(Late(T)) <= peak - 1
      BY <1>8, FewLate
    <3> QED
      BY <1>7, <1>8, <3>1, BoundsGrow
  <2>3. Cardinality(Taken(T)) + (IF HeadOld(T) THEN 0 ELSE Cardinality(Pending')) <= bound
    <3>1. CASE HeadOld(T)
      BY <2>1, <3>1
    <3>2. CASE ~HeadOld(T)
      <4>1. thr'[t].pc # "pop"
        <5>1. ASSUME q # << >>, thr[t].now - Head(q) > WindowSeconds
              PROVE  FALSE
          <6>1. ~(thr[t].now > T) /\ thr[t].now \in Nat /\ WindowSeconds \in Nat
            BY <1>11, Shapes DEF Passed
          <6>2. Head(q) \in Nat
            BY <5>1, HeadTailProperties DEF Typed
          <6>3. Head(q) < T - WindowSeconds
            BY <5>1, <6>1, <6>2
          <6> QED
            BY <3>2, <5>1, <6>3 DEF HeadOld
        <5> QED
          BY <1>2, <5>1
      <4>2. Pending' \in SUBSET Pending
        BY <1>1, <4>1 DEF Pending
      <4>3. Cardinality(Pending') \in Nat /\ Cardinality(Pending') <= Cardinality(Pending)
        BY <1>7, <4>2, SmallerPart
      <4> HIDE DEF bound
      <4> QED
        BY <1>7, <2>1, <2>2, <3>2, <4>3
    <3> QED
      BY <3>1, <3>2
  <2>4. Cardinality(Hits(T)) + Cardinality(Deciding') <= MaxRequests + (peak - 1) + peak * (peak - 1)
    <3>1. CASE ~(thr'[t].pc = "decide" /\ thr'[t].len < MaxRequests)
      <4>1. Deciding' \in SUBSET Deciding
        BY <1>1, <3>1 DEF Deciding
      <4>2. Cardinality(Deciding') \in Nat /\ Cardinality(Deciding') <= Cardinality(Deciding)
        BY <4>1, HitsCount, SmallerPart
      <4> HIDE DEF bound
      <4> QED
        BY <1>7, <1>9, <2>1, <4>2
    <3>2. CASE thr'[t].pc = "decide" /\ thr'[t].len < MaxRequests
      <4>1. Cardinality(Hits(T)) <= Len(q) + Cardinality(Taken(T)) /\ Len(q) \in Nat
        <5> DEFINE held == Forgotten + 1 .. Len(log)
        <5>1. Hits(T) \in SUBSET (Taken(T) \cup held)
          <6>1. ASSUME NEW j \in Hits(T), ~(j <= Forgotten)
                PROVE  j \in held
            <7>1. j \in 1 .. Len(log) /\ Forgotten \in Nat /\ Len(log) \in Nat
              BY Shapes DEF Hits
            <7> QED
              BY <6>1, <7>1
          <6> QED
            BY <6>1 DEF Taken
        <5>2. Forgotten + 1 \in Int /\ Len(log) \in Int
          BY Shapes
        <5>3. /\ IsFiniteSet(held)
              /\ Cardinality(held) =
                   IF Forgotten + 1 > Len(log) THEN 0 ELSE Len(log) - (Forgotten + 1) + 1
          BY <5>2, FS_Interval
        <5>4. Cardinality(held) = Len(q) /\ Len(q) \in Nat
          BY <5>3, Shapes
        <5> HIDE DEF held
        <5>5. IsFiniteSet(Taken(T) \cup held)
              /\ Cardinality(Taken(T) \cup held) <= Cardinality(Taken(T)) + Cardinality(held)
          <6>1. IsFiniteSet(Taken(T) \cup held)
            BY <1>7, <5>3, FS_Union
          <6>2. Cardinality(Taken(T) \cup held)
                  = Cardinality(Taken(T)) + Cardinality(held) - Cardinality(Taken(T) \cap held)
            BY <1>7, <5>3, FS_Union
          <6>3. Cardinality(Taken(T) \cap held) \in Nat
            <7>1. Taken(T) \cap held \in SUBSET held
              OBVIOUS
            <7> QED
              BY <5>3, <7>1, SmallerPart
          <6> QED
            BY <1>7, <5>4, <6>1, <6>2, <6>3
        <5>6. Cardinality(Hits(T)) <= Cardinality(Taken(T) \cup held)
              /\ Cardinality(Taken(T) \cup held) \in Nat
          BY <5>1, <5>5, SmallerPart
        <5> QED
          BY <1>7, <5>4, <5>5, <5>6
      <4>2. Cardinality(Deciding') \in Nat /\ Cardinality(Deciding') <= peak
        <5>1. Deciding' \in SUBSET Inside
          <6>1. \A u \in Threads : thr'[u].pc = "decide" => u \in Inside
            BY <1>1 DEF Inside
          <6> QED
            BY <6>1 DEF Deciding
        <5>2. /\ Cardinality(Deciding') \in Nat /\ Cardinality(Deciding') <= Cardinality(Inside)
              /\ Cardinality(Inside) \in Nat
          BY <5>1, FinitelyManyInside
        <5>3. Cardinality(Inside) <= peak
          BY DEF Typed
        <5> QED
          BY <1>7, <5>2, <5>3
      <4>3. Len(q) <= MaxRequests - 1
        BY <1>2, <1>7, <3>2, <4>1
      <4>4. Cardinality(Taken(T)) <= peak * (peak - 1)
        <5> HIDE DEF bound
        <5> QED
          BY <1>7, <1>9, <2>1, <2>2
      <4> HIDE DEF bound
      <4> QED
        BY <1>7, <1>9, <4>1, <4>2, <4>3, <4>4
    <3> QED
      BY <3>1, <3>2
  <2> QED
    BY <1>1, <1>3, <1>5, <1>11, <2>3, <2>4 DEF Room
<1> QED
  BY <1>10, <1>11

\* The call that appends leaves those who decide, or those that are early.
LEMMA RoomAdmit ==
    ASSUME Typed, NEW T \in Nat, Room(T), NEW t \in Threads, Admit(t)
    PROVE  Room(T)'
<1> DEFINE n == Len(log) + 1
<1>1. /\ UNCHANGED <<clock, peak>> /\ t \in Inside /\ Inside' = Inside \ {t}
      /\ thr[t].pc = "decide" /\ thr[t].len < MaxRequests
      /\ thr'[t].pc = "out" /\ thr'[t].now = 0
      /\ \A u \in Threads : u # t => thr'[u] = thr[u]
      /\ Forgotten' = Forgotten
      /\ DOMAIN log' = 1 .. n
      /\ \A j \in 1 .. Len(log) : log'[j] = log[j]
      /\ log'[n] = thr[t].now
  BY AdmitEffect
<1>2. /\ DOMAIN log = 1 .. Len(log) /\ Len(log) \in Nat /\ Forgotten \in 0 .. Len(log)
      /\ thr[t].now \in Nat /\ WindowSeconds \in Nat
  BY Shapes
<1>3. DOMAIN log' = DOMAIN log \cup {n} /\ n \notin DOMAIN log
  BY <1>1, <1>2
<1> HIDE DEF n
<1>4. Hits(T)' \in SUBSET (Hits(T) \cup {n})
  BY <1>1, <1>2, <1>3 DEF Hits
<1>5. Deciding' \in SUBSET (Deciding \ {t}) /\ t \in Deciding
  BY <1>1 DEF Deciding
<1>6. Early(T)' \in SUBSET (Early(T) \ {t})
  <2>1. Inside \in SUBSET Threads
    BY DEF Inside
  <2> QED
    BY <1>1, <2>1 DEF Early
<1>7. Passed(T)' = Passed(T)
  <2>1. ~(0 > T)
    OBVIOUS
  <2>2. (\E j \in DOMAIN log' : log'[j] > T) <=> (\E j \in DOMAIN log : log[j] > T) \/ thr[t].now > T
    BY <1>1, <1>2, <1>3
  <2>3. (\E u \in Threads : thr'[u].now > T) <=> (\E u \in Threads \ {t} : thr[u].now > T)
    BY <1>1, <2>1
  <2> QED
    BY <2>2, <2>3 DEF Passed
<1>8. /\ IsFiniteSet(Hits(T)) /\ IsFiniteSet(Deciding) /\ IsFiniteSet(Early(T))
      /\ Cardinality(Hits(T)) \in Nat /\ Cardinality(Early(T)) \in Nat /\ Cardinality(Deciding) \in Nat
      /\ peak \in Nat /\ MaxRequests \in Nat
  BY HitsCount
<1>9. Cardinality(Hits(T)') \in Nat /\ Cardinality(Hits(T)') <= Cardinality(Hits(T)) + 1
  BY <1>4, <1>8, OneMore
<1>10. peak * (peak - 1) \in Int
  BY <1>8, BoundsGrow
<1>11. n = Len(log) + 1
  BY DEF n
<1>12. CASE Passed(T)
  <2>1. Cardinality(Hits(T)) + Cardinality(Early(T)) <= MaxRequests + 2 * (peak - 1) + peak * (peak - 1)
    BY <1>12 DEF Room
  <2>2. Cardinality(Hits(T)') + Cardinality(Early(T)') <= Cardinality(Hits(T)) + Cardinality(Early(T))
    <3>1. CASE thr[t].now <= T
      <4>1. t \in Early(T)
        BY <1>1, <3>1 DEF Early
      <4>2. Cardinality(Early(T)') \in Nat /\ Cardinality(Early(T)') <= Cardinality(Early(T)) - 1
        BY <1>6, <1>8, <4>1, OneFewer
      <4> QED
        BY <1>8, <1>9, <4>2
    <3>2. CASE ~(thr[t].now <= T)
      <4>1. ~(log'[n] \in T - WindowSeconds .. T)
        BY <1>1, <1>2, <3>2
      <4>2. Hits(T)' \in SUBSET Hits(T)
        BY <1>4, <4>1 DEF Hits
      <4>3. Early(T)' \in SUBSET Early(T)
        BY <1>6
      <4>4. Cardinality(Hits(T)') <= Cardinality(Hits(T))
        BY <1>8, <4>2, SmallerPart
      <4>5. Cardinality(Early(T)') \in Nat /\ Cardinality(Early(T)') <= Cardinality(Early(T))
        BY <1>8, <4>3, SmallerPart
      <4> QED
        BY <1>8, <1>9, <4>4, <4>5
    <3> QED
      BY <3>1, <3>2
  <2>3. Cardinality(Early(T)') \in Nat
    BY <1>6, <1>8, SmallerPart
  <2>4. Cardinality(Hits(T)') + Cardinality(Early(T)') <= MaxRequests + 2 * (peak - 1) + peak * (peak - 1)
    BY <1>1, <1>8, <1>9, <1>10, <2>1, <2>2, <2>3
  <2> QED
    BY <1>1, <1>7, <1>12, <2>4 DEF Room
<1>13. CASE ~Passed(T)
  <2>1. /\ peak >= 1 =>
               Cardinality(Taken(T)) + (IF HeadOld(T) THEN 0 ELSE Cardinality(Pending))
                   <= (peak - 1) * (1 + Cardinality(Late(T)))
        /\ Cardinality(Hits(T)) + Cardinality(Deciding)
              <= MaxRequests + (peak - 1) + peak * (peak - 1)
    BY <1>13 DEF Room
  <2>2. Cardinality(Deciding') \in Nat /\ Cardinality(Deciding') <= Cardinality(Deciding) - 1
    BY <1>5, <1>8, OneFewer
  <2>3. Cardinality(Hits(T)') + Cardinality(Deciding') <= MaxRequests + (peak - 1) + peak * (peak - 1)
    BY <1>8, <1>9, <1>10, <2>1, <2>2
  <2>4. Pending' = Pending
    BY <1>1 DEF Pending
  <2>5. \A j \in 1 .. Forgotten : j \in DOMAIN log /\ j # n
    BY <1>2, <1>3
  <2>6. \A j \in Nat : j <= Forgotten => j # n
    BY <1>2, <1>11
  <2>7. Taken(T)' = Taken(T)
    BY <1>1, <1>2, <1>3, <1>11, <2>6 DEF Taken, Hits
  <2>8. Late(T)' = Late(T)
    <3>1. ASSUME NEW j \in 1 .. Forgotten
          PROVE  (\E i \in Hits(T)' : i < j) <=> (\E i \in Hits(T) : i < j)
      <4>1. ~(n < j)
        BY <1>2, <1>11, <3>1
      <4>2. \A i \in DOMAIN log : log'[i] = log[i]
        BY <1>1, <1>2
      <4> QED
        BY <1>1, <1>3, <4>1, <4>2 DEF Hits
    <3> QED
      BY <1>1, <1>2, <2>5, <3>1 DEF Late
  <2>9. HeadOld(T) => HeadOld(T)'
    <3>1. ASSUME q # << >>
          PROVE  q' # << >> /\ Head(q') = Head(q)
      <4>1. q' \in Seq(Nat) /\ Len(q') = Len(q) + 1 /\ Len(q) \in Nat
            /\ \A k \in 1 .. Len(q) : q'[k] = q[k]
        BY AdmitEffect, Shapes
      <4>2. Len(q) # 0 /\ Head(q) = q[1]
        BY <3>1, EmptySeq DEF Typed
      <4>3. Len(q') # 0 /\ q'[1] = q[1] /\ Len(<<>>) = 0
        BY <4>1, <4>2
      <4>4. q' # << >>
        BY <4>3
      <4>5. Head(q') = q'[1]
        BY <4>1, <4>4
      <4> QED
        BY <4>2, <4>3, <4>4, <4>5
    <3> QED
      BY <3>1 DEF HeadOld
  <2>10. /\ Cardinality(Taken(T)) \in Nat /\ Cardinality(Pending) \in Nat
         /\ Cardinality(Late(T)) \in Nat
    BY HitsCount
  <2>11. ASSUME peak >= 1
         PROVE  Cardinality(Taken(T)) + (IF HeadOld(T)' THEN 0 ELSE Cardinality(Pending))
                    <= (peak - 1) * (1 + Cardinality(Late(T)))
    <3>1. (peak - 1) * (1 + Cardinality(Late(T))) \in Nat
      BY <1>8, <2>10, <2>11, BoundsGrow
    <3> QED
      BY <2>1, <2>9, <2>10, <2>11, <3>1
  <2> QED
    BY <1>1, <1>7, <1>13, <2>3, <2>4, <2>7, <2>8, <2>11 DEF Room
<1> QED
  BY <1>12, <1>13

LEMMA RoomStep == Typed /\ OrderInv /\ RoomInv /\ [Next]_vars => RoomInv'
<1> SUFFICES ASSUME Typed, OrderInv, RoomInv, [Next]_vars, NEW T \in Nat
             PROVE  Room(T)'
  BY DEF RoomInv
<1>1. Room(T)
  BY DEF RoomInv
<1>2. CASE UNCHANGED vars \/ Tick
  <2>1. UNCHANGED <<q, thr, log, peak>>
    BY <1>2 DEF vars, Tick
  <2>2. /\ Passed(T)' = Passed(T) /\ Hits(T)' = Hits(T) /\ Early(T)' = Early(T)
        /\ Deciding' = Deciding /\ Taken(T)' = Taken(T) /\ Pending' = Pending
        /\ HeadOld(T)' = HeadOld(T) /\ Late(T)' = Late(T)
    BY <2>1 DEF Passed, Hits, Early, Deciding, Taken, Pending, HeadOld, Late, Forgotten, Inside
  <2> QED
    BY <1>1, <2>1, <2>2 DEF Room
<1>3. ASSUME NEW t \in Threads, Enter(t) \/ Pop(t) \/ Turn(t) \/ Admit(t)
      PROVE  Room(T)'
  BY <1>1, <1>3, RoomEnter, RoomPop, RoomTurn, RoomAdmit
<1> QED
  BY <1>2, <1>3 DEF Next, Turn

\* However many threads call allow at once, and wherever each is stopped, a
\* window lets through no more than the limit, two requests for every call but
\* one that overlaps, and those that replace the hits which overlapping calls
\* took from the deque too early (rate_limit.py:18-33).
THEOREM OvershootIsBounded == Spec => []OvershootBounded
<1>1. ASSUME Typed, RoomInv
      PROVE  OvershootBounded
  <2> DEFINE bound == MaxRequests + 2 * (peak - 1) + peak * (peak - 1)
  <2> SUFFICES ASSUME NEW i \in DOMAIN log
               PROVE  Cardinality(Hits(log[i])) <= bound
    BY DEF OvershootBounded, AdmittedIn, Hits
  <2> DEFINE T == log[i]
  <2>1. T \in Nat /\ log # << >>
    BY <1>1, Shapes
  <2>2. peak >= 1
    BY <1>1, <2>1 DEF Typed
  <2> HIDE DEF T
  <2>3. Room(T)
    BY <1>1, <2>1 DEF RoomInv
  <2>4. /\ Cardinality(Hits(T)) \in Nat /\ Cardinality(Early(T)) \in Nat /\ Cardinality(Deciding) \in Nat
        /\ peak \in Nat /\ MaxRequests \in Nat
    BY <1>1, HitsCount
  <2>5. \/ Cardinality(Hits(T)) + Cardinality(Early(T)) <= bound
        \/ Cardinality(Hits(T)) + Cardinality(Deciding) <= MaxRequests + (peak - 1) + peak * (peak - 1)
    BY <2>3 DEF Room
  <2>6. peak * (peak - 1) \in Int
    BY <2>4, BoundsGrow
  <2>7. Cardinality(Hits(T)) <= bound
    BY <2>2, <2>4, <2>5, <2>6
  <2> HIDE DEF bound
  <2> QED
    BY <2>7 DEF T
<1>2. Init => Typed /\ OrderInv /\ RoomInv
  <2>1. Init => OrderInv
    BY DEF Init, OrderInv
  <2> QED
    BY <2>1, TypedInit, RoomInit
<1>3. Typed /\ OrderInv /\ RoomInv /\ [Next]_vars => Typed' /\ OrderInv' /\ RoomInv'
  BY TypedStep, OrderStep, RoomStep
<1> QED
  BY <1>1, <1>2, <1>3, PTL DEF Spec

-----------------------------------------------------------------------------
(* What a refusal rests on *)

\* What a call has measured is no more than its window holds, but for the calls
\* recorded behind a younger one.
Basis(t) ==
    thr[t].pc \in {"decide", "refused"} =>
        /\ Cardinality(AdmittedIn(thr[t].now - WindowSeconds, MaxClock)) >= thr[t].len + 1 - peak
        /\ thr[t].pc = "refused" => thr[t].len >= MaxRequests

BasisInv == \A t \in Threads : Basis(t)

\* The hits in the deque that are too old for a call, and the calls under way
\* that may still add one.
Stale(t) == {j \in DOMAIN log : j > Forgotten /\ log[j] < thr[t].now - WindowSeconds}
Slow(t) == {u \in Inside : thr[u].now < thr[t].now - WindowSeconds}

\* When a call has ended its loop, all such calls overlap one that is not.
Fresh(t) == thr[t].pc = "measure" => Cardinality(Stale(t)) + Cardinality(Slow(t)) <= peak - 1

FreshInv == \A t \in Threads : Fresh(t)

LEMMA FreshCount ==
    ASSUME Typed, NEW t \in Threads
    PROVE  /\ IsFiniteSet(Stale(t)) /\ Cardinality(Stale(t)) \in Nat
           /\ IsFiniteSet(Slow(t)) /\ Cardinality(Slow(t)) \in Nat
           /\ IsFiniteSet(Inside) /\ Cardinality(Inside) \in Nat /\ Cardinality(Inside) <= peak
           /\ peak \in Nat /\ thr[t].now \in Nat /\ WindowSeconds \in Nat
<1>1. Stale(t) \in SUBSET (1 .. Len(log)) /\ Len(log) \in Nat
  BY Shapes DEF Stale
<1>2. Slow(t) \in SUBSET Inside
  BY DEF Slow
<1>3. IsFiniteSet(Stale(t)) /\ Cardinality(Stale(t)) \in Nat
  BY <1>1, FinitelyManyEntries
<1>4. IsFiniteSet(Slow(t)) /\ Cardinality(Slow(t)) \in Nat /\ IsFiniteSet(Inside)
      /\ Cardinality(Inside) \in Nat
  BY <1>2, FinitelyManyInside
<1> QED
  BY <1>3, <1>4, Shapes DEF Typed

\* A step that adds no old hit, and no slow call, leaves it so.
LEMMA FreshKept ==
    ASSUME Typed, NEW t \in Threads, Fresh(t), thr'[t] = thr[t],
           Stale(t)' \in SUBSET Stale(t), Slow(t)' \in SUBSET Slow(t),
           peak' \in Nat, peak' >= peak
    PROVE  Fresh(t)'
<1> SUFFICES ASSUME thr[t].pc = "measure"
             PROVE  Cardinality(Stale(t)') + Cardinality(Slow(t)') <= peak' - 1
  BY DEF Fresh
<1>1. Cardinality(Stale(t)) + Cardinality(Slow(t)) <= peak - 1
  BY DEF Fresh
<1>2. /\ Cardinality(Stale(t)') \in Nat /\ Cardinality(Stale(t)') <= Cardinality(Stale(t))
      /\ Cardinality(Slow(t)') \in Nat /\ Cardinality(Slow(t)') <= Cardinality(Slow(t))
      /\ Cardinality(Stale(t)) \in Nat /\ Cardinality(Slow(t)) \in Nat /\ peak \in Nat
  BY FreshCount, SmallerPart
<1> QED
  BY <1>1, <1>2

\* A call that ends its loop has found the deque empty, or its head in the
\* window; behind such a head only calls that overlapped it are older.
LEMMA FreshTurned ==
    ASSUME Typed, OrderInv, NEW t \in Threads, Turn(t), thr'[t].pc = "measure"
    PROVE  Fresh(t)'
<1>1. /\ UNCHANGED <<clock, q, log, peak>> /\ t \in Inside /\ Inside' \in SUBSET Inside
      /\ thr'[t].now = thr[t].now /\ \A u \in Threads : u # t => thr'[u] = thr[u]
      /\ q = << >> \/ ~(thr[t].now - Head(q) > WindowSeconds)
  BY TurnEffect
<1>2. /\ IsFiniteSet(Stale(t)) /\ Cardinality(Stale(t)) \in Nat
      /\ IsFiniteSet(Slow(t)) /\ Cardinality(Slow(t)) \in Nat
      /\ IsFiniteSet(Inside) /\ Cardinality(Inside) \in Nat /\ Cardinality(Inside) <= peak
      /\ peak \in Nat /\ thr[t].now \in Nat /\ WindowSeconds \in Nat
  BY FreshCount
<1>3. Stale(t)' = Stale(t)
  BY <1>1 DEF Stale, Forgotten
<1>4. Slow(t)' \in SUBSET Slow(t)
  <2>1. Inside \in SUBSET Threads
    BY DEF Inside
  <2> QED
    BY <1>1, <2>1 DEF Slow
<1>5. Cardinality(Slow(t)') \in Nat /\ Cardinality(Slow(t)') <= Cardinality(Slow(t))
  BY <1>2, <1>4, SmallerPart
<1>6. /\ Forgotten \in Nat /\ Len(q) \in Nat /\ Len(log) = Forgotten + Len(q)
      /\ DOMAIN log = 1 .. Len(log) /\ Len(log) \in Nat
  BY Shapes
<1>7. Cardinality(Stale(t)) + Cardinality(Slow(t)) <= peak - 1
  <2>1. CASE q = << >>
    <3>1. Stale(t) = {}
      <4>1. Len(q) = 0
        BY <2>1
      <4>2. \A j \in DOMAIN log : ~(j > Forgotten)
        BY <1>6, <4>1
      <4> QED
        BY <4>2 DEF Stale
    <3>2. Slow(t) \in SUBSET (Inside \ {t})
      BY <1>2 DEF Slow
    <3>3. Cardinality(Slow(t)) <= Cardinality(Inside) - 1
      BY <1>1, <1>2, <3>2, OneFewer
    <3>4. Cardinality(Stale(t)) = 0
      BY <3>1, FS_EmptySet
    <3> QED
      BY <1>2, <3>3, <3>4
  <2>2. CASE q # << >>
    <3> DEFINE k == Forgotten + 1
    <3>1. Len(q) # 0 /\ Head(q) = q[1]
      BY <2>2, EmptySeq DEF Typed
    <3>2. 1 \in 1 .. Len(q) /\ k \in DOMAIN log /\ k \in Nat
      BY <1>6, <3>1
    <3>3. Head(q) = log[k] /\ log[k] \in Nat
      BY <3>1, <3>2, Shapes DEF Typed
    <3>4. \A j \in DOMAIN log : j > Forgotten => j = k \/ j > k
      BY <1>6
    <3> HIDE DEF k
    <3>5. log[k] >= thr[t].now - WindowSeconds
      BY <1>1, <1>2, <2>2, <3>3
    <3>6. Stale(t) \in SUBSET Overtaken(k)
      <4>1. ASSUME NEW j \in Stale(t)
            PROVE  j \in Overtaken(k)
        <5>1. j \in DOMAIN log /\ j > Forgotten /\ log[j] < thr[t].now - WindowSeconds /\ log[j] \in Nat
          BY <4>1, Shapes DEF Stale
        <5>2. log[j] < log[k]
          BY <1>2, <3>3, <3>5, <5>1
        <5>3. j # k
          BY <3>3, <5>2
        <5> QED
          BY <3>4, <5>1, <5>2, <5>3 DEF Overtaken
      <4> QED
        BY <4>1
    <3>7. Slow(t) \in SUBSET Behind(k)
      <4>1. ASSUME NEW u \in Inside, thr[u].now < thr[t].now - WindowSeconds
            PROVE  thr[u].now < log[k]
        <5>1. thr[u].now \in Nat
          BY Shapes DEF Inside
        <5> QED
          BY <1>2, <3>3, <3>5, <4>1, <5>1
      <4> QED
        BY <4>1 DEF Slow, Behind
    <3>8. /\ IsFiniteSet(Overtaken(k)) /\ Cardinality(Overtaken(k)) \in Nat
          /\ IsFiniteSet(Behind(k)) /\ Cardinality(Behind(k)) \in Nat
          /\ Cardinality(Overtaken(k)) + Cardinality(Behind(k)) <= peak - 1
      BY <3>2, OrderCount DEF OrderInv
    <3>9. Cardinality(Stale(t)) <= Cardinality(Overtaken(k)) /\ Cardinality(Slow(t)) <= Cardinality(Behind(k))
      BY <3>6, <3>7, <3>8, SmallerPart
    <3> QED
      BY <1>2, <3>8, <3>9
  <2> QED
    BY <2>1, <2>2
<1>8. Cardinality(Stale(t)') + Cardinality(Slow(t)') <= peak' - 1
  BY <1>1, <1>2, <1>3, <1>5, <1>7
<1> QED
  BY <1>8 DEF Fresh

LEMMA FreshStep == Typed /\ OrderInv /\ FreshInv /\ [Next]_vars => FreshInv'
<1> SUFFICES ASSUME Typed, OrderInv, FreshInv, [Next]_vars, NEW t \in Threads
             PROVE  Fresh(t)'
  BY DEF FreshInv
<1>0. Fresh(t) /\ Inside \in SUBSET Threads
  BY DEF FreshInv, Inside
<1>1. /\ IsFiniteSet(Stale(t)) /\ Cardinality(Stale(t)) \in Nat
      /\ IsFiniteSet(Slow(t)) /\ Cardinality(Slow(t)) \in Nat
      /\ peak \in Nat /\ thr[t].now \in Nat /\ WindowSeconds \in Nat /\ clock \in Nat
      /\ thr[t].now <= clock
  BY FreshCount, Shapes DEF Typed
<1>2. CASE UNCHANGED vars \/ Tick
  <2>1. UNCHANGED <<q, thr, log, peak>>
    BY <1>2 DEF vars, Tick
  <2> QED
    BY <1>0, <2>1 DEF Fresh, Stale, Slow, Forgotten, Inside
<1>3. ASSUME NEW u \in Threads, Enter(u)
      PROVE  Fresh(t)'
  <2>1. /\ UNCHANGED <<clock, q, log>> /\ Inside' = Inside \cup {u}
        /\ thr'[u].pc = "loop" /\ thr'[u].now = clock
        /\ \A v \in Threads : v # u => thr'[v] = thr[v]
        /\ peak' \in Nat /\ peak' >= peak
    BY <1>3, EnterEffect
  <2>2. CASE u = t
    BY <2>1, <2>2 DEF Fresh
  <2>3. CASE u # t
    <3>1. thr'[t] = thr[t]
      BY <2>1, <2>3
    <3>2. Stale(t)' = Stale(t)
      BY <2>1, <3>1 DEF Stale, Forgotten
    <3>3. ~(clock < thr[t].now - WindowSeconds)
      BY <1>1
    <3>4. Slow(t)' \in SUBSET Slow(t)
      BY <1>0, <2>1, <3>1, <3>3 DEF Slow
    <3> QED
      BY <1>0, <2>1, <3>1, <3>2, <3>4, FreshKept
  <2> QED
    BY <2>2, <2>3
<1>4. ASSUME NEW u \in Threads, Pop(u) \/ Turn(u)
      PROVE  Fresh(t)'
  <2>1. /\ UNCHANGED <<log, peak>> /\ Inside' \in SUBSET Inside /\ thr'[u].now = thr[u].now
        /\ \A v \in Threads : v # u => thr'[v] = thr[v]
    BY <1>4, PopEffect, TurnEffect
  <2>2. Forgotten' \in Nat /\ Forgotten' >= Forgotten /\ Forgotten \in Nat
    <3>1. Forgotten \in Nat
      BY Shapes
    <3>2. CASE Pop(u)
      BY <3>1, <3>2, PopEffect
    <3>3. CASE Turn(u)
      <4>1. Forgotten' = Forgotten
        BY <3>3, TurnEffect DEF Forgotten
      <4> QED
        BY <3>1, <4>1
    <3> QED
      BY <1>4, <3>2, <3>3
  <2>3. CASE u = t
    <3>1. CASE Turn(t) /\ thr'[t].pc = "measure"
      BY <3>1, FreshTurned
    <3>2. CASE thr'[t].pc # "measure"
      BY <3>2 DEF Fresh
    <3>3. CASE Pop(t)
      <4>1. thr'[t].pc = "loop"
        BY <3>3, PopEffect
      <4> QED
        BY <4>1 DEF Fresh
    <3> QED
      BY <1>4, <2>3, <3>1, <3>2, <3>3
  <2>4. CASE u # t
    <3>1. thr'[t] = thr[t]
      BY <2>1, <2>4
    <3>2. Stale(t)' \in SUBSET Stale(t)
      <4>1. \A j \in DOMAIN log : j > Forgotten' => j > Forgotten
        BY <2>2, Shapes
      <4> QED
        BY <2>1, <3>1, <4>1 DEF Stale
    <3>3. Slow(t)' \in SUBSET Slow(t)
      BY <1>0, <2>1, <3>1 DEF Slow
    <3>4. peak' \in Nat /\ peak' >= peak
      BY <1>1, <2>1
    <3> QED
      BY <1>0, <3>1, <3>2, <3>3, <3>4, FreshKept
  <2> QED
    BY <2>3, <2>4
<1>5. ASSUME NEW u \in Threads, Admit(u)
      PROVE  Fresh(t)'
  <2>0. PICK n \in Nat : n = Len(log) + 1
    BY Shapes
  <2>1. /\ UNCHANGED <<clock, peak>> /\ u \in Inside /\ Inside' = Inside \ {u}
        /\ thr'[u].pc = "out" /\ \A v \in Threads : v # u => thr'[v] = thr[v]
        /\ Forgotten' = Forgotten
        /\ DOMAIN log' = 1 .. n /\ \A j \in 1 .. Len(log) : log'[j] = log[j]
        /\ log'[n] = thr[u].now
    BY <1>5, <2>0, AdmitEffect
  <2>2. DOMAIN log = 1 .. Len(log) /\ Len(log) \in Nat /\ DOMAIN log' = DOMAIN log \cup {n}
    BY <2>0, <2>1, Shapes
  <2>3. CASE u = t
    BY <2>1, <2>3 DEF Fresh
  <2>4. CASE u # t
    <3>1. thr'[t] = thr[t]
      BY <2>1, <2>4
    <3>2. Stale(t)' \in SUBSET (Stale(t) \cup {n})
      BY <2>1, <2>2, <3>1 DEF Stale
    <3>3. Slow(t)' \in SUBSET (Slow(t) \ {u})
      BY <1>0, <2>1, <3>1 DEF Slow
    <3>4. CASE thr[u].now < thr[t].now - WindowSeconds
      <4>1. u \in Slow(t)
        BY <2>1, <3>4 DEF Slow
      <4>2. Cardinality(Slow(t)') \in Nat /\ Cardinality(Slow(t)') <= Cardinality(Slow(t)) - 1
        BY <1>1, <3>3, <4>1, OneFewer
      <4>3. Cardinality(Stale(t)') \in Nat /\ Cardinality(Stale(t)') <= Cardinality(Stale(t)) + 1
        BY <1>1, <3>2, OneMore
      <4>4. Cardinality(Stale(t)) + Cardinality(Slow(t)) <= peak - 1 =>
               Cardinality(Stale(t)') + Cardinality(Slow(t)') <= peak - 1
        BY <1>1, <4>2, <4>3
      <4> QED
        BY <1>0, <2>1, <3>1, <4>4 DEF Fresh
    <3>5. CASE ~(thr[u].now < thr[t].now - WindowSeconds)
      <4>1. n \notin Stale(t)'
        BY <2>1, <3>1, <3>5 DEF Stale
      <4>2. Stale(t)' \in SUBSET Stale(t) /\ Slow(t)' \in SUBSET Slow(t)
        BY <3>2, <3>3, <4>1
      <4>3. peak' \in Nat /\ peak' >= peak
        BY <1>1, <2>1
      <4> QED
        BY <1>0, <3>1, <4>2, <4>3, FreshKept
    <3> QED
      BY <3>4, <3>5
  <2> QED
    BY <2>3, <2>4
<1> QED
  BY <1>2, <1>3, <1>4, <1>5 DEF Next, Turn

\* The admitted calls are only ever more.
LEMMA AdmittedGrow ==
    ASSUME Typed, [Next]_vars, NEW from \in Int
    PROVE  /\ Cardinality(AdmittedIn(from, MaxClock)) \in Nat
           /\ Cardinality(AdmittedIn(from, MaxClock)') \in Nat
           /\ Cardinality(AdmittedIn(from, MaxClock)) <= Cardinality(AdmittedIn(from, MaxClock)')
           /\ peak \in Nat /\ peak' \in Nat /\ peak <= peak'
<1>1. AdmittedIn(from, MaxClock) \in SUBSET AdmittedIn(from, MaxClock)'
  <2>1. CASE UNCHANGED log
    BY <2>1 DEF AdmittedIn
  <2>2. ASSUME NEW t \in Threads, Admit(t)
        PROVE  AdmittedIn(from, MaxClock) \in SUBSET AdmittedIn(from, MaxClock)'
    <3>1. /\ DOMAIN log' = 1 .. Len(log) + 1 /\ \A j \in 1 .. Len(log) : log'[j] = log[j]
          /\ DOMAIN log = 1 .. Len(log) /\ Len(log) \in Nat
      BY <2>2, AdmitEffect, Shapes
    <3>2. \A j \in DOMAIN log : j \in DOMAIN log' /\ log'[j] = log[j]
      BY <3>1
    <3> QED
      BY <3>2 DEF AdmittedIn
  <2>3. ASSUME NEW t \in Threads, Pop(t) \/ Turn(t)
        PROVE  UNCHANGED log
    BY <2>3, PopEffect, TurnEffect
  <2> QED
    BY <2>1, <2>2, <2>3 DEF Next, vars, Tick, Enter, Turn
<1>2. Typed'
  BY TypedStep
<1>3. AdmittedIn(from, MaxClock)' \in SUBSET (1 .. Len(log')) /\ Len(log') \in Nat
  <2>1. log' \in Seq(Nat)
    BY <1>2 DEF Typed
  <2> QED
    BY <2>1, LenProperties DEF AdmittedIn
<1>4. /\ IsFiniteSet(AdmittedIn(from, MaxClock)')
      /\ Cardinality(AdmittedIn(from, MaxClock)') \in Nat
  BY <1>3, FinitelyManyEntries
<1>5. peak \in Nat /\ peak' \in Nat
  BY <1>2 DEF Typed
<1>6. peak <= peak'
  <2>1. CASE UNCHANGED peak
    BY <1>5, <2>1
  <2>2. ASSUME NEW t \in Threads, Enter(t)
        PROVE  peak <= peak'
    BY <1>5, <2>2, EnterEffect
  <2>3. ASSUME NEW t \in Threads, Pop(t) \/ Turn(t)
        PROVE  UNCHANGED peak
    BY <2>3, PopEffect, TurnEffect
  <2> QED
    BY <2>1, <2>2, <2>3 DEF Next, vars, Tick, Admit, Turn
<1> QED
  BY <1>1, <1>4, <1>5, <1>6, SmallerPart

\* A call that measures the deque finds hits of its own window in it, except
\* for those that overlapping calls recorded out of order.
LEMMA Measured ==
    ASSUME Typed, NEW t \in Threads, Fresh(t), thr[t].pc = "measure"
    PROVE  Cardinality(AdmittedIn(thr[t].now - WindowSeconds, MaxClock)) >= Len(q) + 1 - peak
<1> DEFINE A == AdmittedIn(thr[t].now - WindowSeconds, MaxClock)
<1> DEFINE held == Forgotten + 1 .. Len(log)
<1>1. /\ Forgotten \in Nat /\ Len(q) \in Nat /\ Len(log) = Forgotten + Len(q)
      /\ DOMAIN log = 1 .. Len(log) /\ Len(log) \in Nat
      /\ clock \in Nat /\ MaxClock \in Nat /\ clock <= MaxClock
  BY Shapes
<1>2. A \in SUBSET (1 .. Len(log))
  BY <1>1 DEF AdmittedIn
<1>3. /\ IsFiniteSet(Stale(t)) /\ Cardinality(Stale(t)) \in Nat /\ Cardinality(Slow(t)) \in Nat
      /\ peak \in Nat /\ thr[t].now \in Nat /\ WindowSeconds \in Nat
      /\ Cardinality(Stale(t)) + Cardinality(Slow(t)) <= peak - 1
  BY FreshCount DEF Fresh
<1>4. held \in SUBSET (Stale(t) \cup A)
  <2>1. ASSUME NEW j \in held, ~(log[j] < thr[t].now - WindowSeconds)
        PROVE  j \in A
    <3>1. j \in DOMAIN log /\ log[j] \in Nat /\ log[j] <= clock
      <4>1. j \in 1 .. Len(log)
        BY <1>1
      <4> QED
        BY <4>1, Shapes DEF Typed
    <3>2. log[j] \in thr[t].now - WindowSeconds .. MaxClock
      BY <1>1, <1>3, <2>1, <3>1
    <3> QED
      BY <3>1, <3>2 DEF AdmittedIn
  <2>2. ASSUME NEW j \in held
        PROVE  j \in DOMAIN log /\ j > Forgotten
    BY <1>1
  <2> QED
    BY <2>1, <2>2 DEF Stale
<1>5. IsFiniteSet(held) /\ Cardinality(held) = Len(q)
  <2>1. Forgotten + 1 \in Int /\ Len(log) \in Int
    BY <1>1
  <2>2. IsFiniteSet(held)
        /\ Cardinality(held) = IF Forgotten + 1 > Len(log) THEN 0 ELSE Len(log) - (Forgotten + 1) + 1
    BY <2>1, FS_Interval
  <2> QED
    BY <1>1, <2>2
<1> HIDE DEF A, held
<1>6. IsFiniteSet(A) /\ Cardinality(A) \in Nat
  BY <1>1, <1>2, FinitelyManyEntries
<1>7. /\ IsFiniteSet(Stale(t) \cup A)
      /\ Cardinality(Stale(t) \cup A) <= Cardinality(Stale(t)) + Cardinality(A)
  <2>1. IsFiniteSet(Stale(t) \cup A)
    BY <1>3, <1>6, FS_Union
  <2>2. Cardinality(Stale(t) \cup A) = Cardinality(Stale(t)) + Cardinality(A) - Cardinality(Stale(t) \cap A)
    BY <1>3, <1>6, FS_Union
  <2>3. Cardinality(Stale(t) \cap A) \in Nat
    <3>1. Stale(t) \cap A \in SUBSET A
      OBVIOUS
    <3> QED
      BY <1>6, <3>1, SmallerPart
  <2> QED
    BY <1>3, <1>6, <2>1, <2>2, <2>3
<1>8. Cardinality(held) <= Cardinality(Stale(t) \cup A) /\ Cardinality(Stale(t) \cup A) \in Nat
  BY <1>4, <1>7, SmallerPart
<1>9. Cardinality(A) >= Len(q) + 1 - peak
  BY <1>1, <1>3, <1>5, <1>6, <1>7, <1>8
<1> QED
  BY <1>9 DEF A

LEMMA BasisKept ==
    ASSUME Typed, [Next]_vars, NEW t \in Threads, BasisInv,
           thr[t].pc \in {"decide", "refused"},
           thr'[t].now = thr[t].now, thr'[t].len = thr[t].len
    PROVE  Cardinality(AdmittedIn(thr[t].now - WindowSeconds, MaxClock)') >= thr'[t].len + 1 - peak'
<1>1. thr[t].now - WindowSeconds \in Int /\ thr[t].len \in Nat
  BY Shapes
<1>2. PICK from \in Int : from = thr[t].now - WindowSeconds
  BY <1>1
<1>3. thr'[t].now - WindowSeconds = from
  BY <1>2
<1>4. AdmittedIn(from, MaxClock)' = AdmittedIn(thr[t].now - WindowSeconds, MaxClock)'
  BY <1>3 DEF AdmittedIn
<1>5. AdmittedIn(from, MaxClock) = AdmittedIn(thr[t].now - WindowSeconds, MaxClock)
  BY <1>2
<1>6. Cardinality(AdmittedIn(from, MaxClock)) >= thr[t].len + 1 - peak
  BY <1>5 DEF BasisInv, Basis
<1>7. /\ Cardinality(AdmittedIn(from, MaxClock)) \in Nat
      /\ Cardinality(AdmittedIn(from, MaxClock)') \in Nat
      /\ Cardinality(AdmittedIn(from, MaxClock)) <= Cardinality(AdmittedIn(from, MaxClock)')
      /\ peak \in Nat /\ peak' \in Nat /\ peak <= peak'
  BY AdmittedGrow
<1>8. Cardinality(AdmittedIn(from, MaxClock)') >= thr[t].len + 1 - peak'
  BY <1>1, <1>6, <1>7
<1> QED
  BY <1>4, <1>8

LEMMA BasisStep == Typed /\ FreshInv /\ BasisInv /\ [Next]_vars => BasisInv'
<1> SUFFICES ASSUME Typed, FreshInv, BasisInv, [Next]_vars, NEW t \in Threads
             PROVE  Basis(t)'
  BY DEF BasisInv
<1>1. ASSUME thr'[t] = thr[t]
      PROVE  Basis(t)'
  <2>1. CASE thr[t].pc \in {"decide", "refused"}
    <3>1. Cardinality(AdmittedIn(thr[t].now - WindowSeconds, MaxClock)') >= thr'[t].len + 1 - peak'
      BY <1>1, <2>1, BasisKept
    <3>2. thr'[t].pc = "refused" => thr'[t].len >= MaxRequests
      BY <1>1, <2>1 DEF BasisInv, Basis
    <3> QED
      BY <3>1, <3>2 DEF Basis
  <2>2. CASE thr[t].pc \notin {"decide", "refused"}
    BY <1>1, <2>2 DEF Basis
  <2> QED
    BY <2>1, <2>2
<1>2. CASE UNCHANGED vars \/ Tick
  BY <1>1, <1>2 DEF vars, Tick
<1>3. ASSUME NEW u \in Threads, u # t, Enter(u) \/ Pop(u) \/ Turn(u) \/ Admit(u)
      PROVE  Basis(t)'
  BY <1>1, <1>3, EnterEffect, PopEffect, TurnEffect, AdmitEffect
<1>4. ASSUME Enter(t) \/ Pop(t) \/ Admit(t)
      PROVE  Basis(t)'
  <2>1. thr'[t].pc \in {"loop", "out"}
    BY <1>4, EnterEffect, PopEffect, AdmitEffect
  <2> QED
    BY <2>1 DEF Basis
<1>5. CASE Turn(t)
  <2>1. /\ UNCHANGED <<clock, q, log, peak>> /\ thr'[t].now = thr[t].now
        /\ thr'[t].pc = "decide" => thr[t].pc = "measure" /\ thr'[t].len = Len(q)
        /\ thr'[t].pc = "refused" =>
               thr[t].pc = "decide" /\ thr[t].len >= MaxRequests /\ thr'[t].len = thr[t].len
    BY <1>5, TurnEffect
  <2>2. CASE thr'[t].pc = "decide"
    <3>1. Cardinality(AdmittedIn(thr[t].now - WindowSeconds, MaxClock)) >= Len(q) + 1 - peak
      BY <2>1, <2>2, Measured DEF FreshInv
    <3>2. AdmittedIn(thr[t].now - WindowSeconds, MaxClock)'
            = AdmittedIn(thr[t].now - WindowSeconds, MaxClock)
      BY <2>1 DEF AdmittedIn
    <3> QED
      BY <2>1, <2>2, <3>1, <3>2 DEF Basis
  <2>3. CASE thr'[t].pc = "refused"
    <3>1. Cardinality(AdmittedIn(thr[t].now - WindowSeconds, MaxClock)') >= thr'[t].len + 1 - peak'
      BY <2>1, <2>3, BasisKept
    <3> QED
      BY <2>1, <2>3, <3>1 DEF Basis
  <2>4. CASE thr'[t].pc \notin {"decide", "refused"}
    BY <2>4 DEF Basis
  <2> QED
    BY <2>2, <2>3, <2>4
<1> QED
  BY <1>2, <1>3, <1>4, <1>5 DEF Next, Turn

\* A request is refused only if its own window holds the limit, less the calls
\* that overlapped (rate_limit.py:22-31).
THEOREM RefusalsAreJustified == Spec => []RefusalJustified
<1>1. ASSUME Typed, BasisInv
      PROVE  RefusalJustified
  <2> SUFFICES ASSUME NEW t \in Threads, thr[t].pc = "refused"
               PROVE  Cardinality(AdmittedIn(thr[t].now - WindowSeconds, MaxClock)) >= MaxRequests + 1 - peak
    BY DEF RefusalJustified
  <2> DEFINE n == Cardinality(AdmittedIn(thr[t].now - WindowSeconds, MaxClock))
  <2>1. n >= thr[t].len + 1 - peak /\ thr[t].len >= MaxRequests
    BY <1>1 DEF BasisInv, Basis
  <2>2. thr[t].len \in Nat /\ MaxRequests \in Nat /\ peak \in Nat
    BY <1>1, Shapes DEF Typed
  <2>3. n \in Nat
    <3>1. AdmittedIn(thr[t].now - WindowSeconds, MaxClock) \in SUBSET (1 .. Len(log)) /\ Len(log) \in Nat
      BY <1>1, Shapes DEF AdmittedIn
    <3> QED
      BY <3>1, FinitelyManyEntries
  <2> HIDE DEF n
  <2>4. n >= MaxRequests + 1 - peak
    BY <2>1, <2>2, <2>3
  <2> QED
    BY <2>4 DEF n
<1>2. Init => Typed /\ OrderInv /\ FreshInv /\ BasisInv
  <2>1. Init => OrderInv
    BY DEF Init, OrderInv
  <2>2. Init => FreshInv /\ BasisInv
    BY DEF Init, FreshInv, Fresh, BasisInv, Basis, Idle
  <2> QED
    BY <2>1, <2>2, TypedInit
<1>3. Typed /\ OrderInv /\ FreshInv /\ BasisInv /\ [Next]_vars
          => Typed' /\ OrderInv' /\ FreshInv' /\ BasisInv'
  BY TypedStep, OrderStep, FreshStep, BasisStep
<1> QED
  BY <1>1, <1>2, <1>3, PTL DEF Spec
=============================================================================
