----------------------------- MODULE RateLimiter -----------------------------
(***************************************************************************)
(* The sliding-window limiter in front of POST /ingest/events              *)
(* (security/rate_limit.py, auth/ingest_limits.py).  FastAPI runs the      *)
(* dependency in a pool of threads that share one deque per key, without a *)
(* lock.  Keys are independent; this is the deque of one of them.          *)
(*                                                                         *)
(* A thread may be stopped between any two operations on the deque: all    *)
(* that is relied on is that each is atomic, so an action does one of      *)
(* them.                                                                   *)
(***************************************************************************)
EXTENDS Integers, Sequences, FiniteSets

CONSTANTS
    Threads,        \* the threads of the pool
    MaxRequests,    \* limit.max_requests
    WindowSeconds,  \* limit.window_seconds
    MaxClock,       \* bound on Tick
    MaxCalls        \* bound on the calls of allow

ASSUME LimitAssumption ==
    /\ IsFiniteSet(Threads) /\ MaxRequests \in Nat \ {0}
    /\ {WindowSeconds, MaxClock, MaxCalls} \subseteq Nat

VARIABLES
    clock,    \* time.time()
    q,        \* self._hits[key]
    thr,      \* the threads
    calls,    \* how many calls there have been, for the bound
    log,      \* no variable of the code: the times of the admitted calls
    peak      \* nor this: the most calls ever under way at once

vars == <<clock, q, thr, calls, log, peak>>

Idle == [pc |-> "out", now |-> 0, len |-> 0]

Inside == {t \in Threads : thr[t].pc \in {"loop", "head", "pop", "measure", "decide"}}

\* now = time.time(); q = self._hits[key].
Enter(t) ==
    /\ thr[t].pc \in {"out", "refused"} /\ calls < MaxCalls
    /\ thr' = [thr EXCEPT ![t] = [pc |-> "loop", now |-> clock, len |-> 0]]
    /\ calls' = calls + 1
    /\ peak' = IF Cardinality(Inside) + 1 > peak THEN Cardinality(Inside) + 1 ELSE peak
    /\ UNCHANGED <<clock, q, log>>

\* while q: the loop goes on to the head, or ends.
Look(t) ==
    /\ thr[t].pc = "loop"
    /\ thr' = [thr EXCEPT ![t].pc = IF q # << >> THEN "head" ELSE "measure"]
    /\ UNCHANGED <<clock, q, calls, log, peak>>

\* Mutant: a hit is forgotten when it is as old as the window.
OutdatedEarly(t) == thr[t].now - Head(q) >= WindowSeconds

\* The head is too old for this thread.
Outdated(t) == thr[t].now - Head(q) > WindowSeconds

\* and (now - q[0]) > limit.window_seconds
Test(t) ==
    /\ thr[t].pc = "head" /\ q # << >>
    /\ thr' = [thr EXCEPT ![t].pc = IF Outdated(t) THEN "pop" ELSE "measure"]
    /\ UNCHANGED <<clock, q, calls, log, peak>>

\* q.popleft() takes what is the head by now.
Pop(t) ==
    /\ thr[t].pc = "pop" /\ q # << >>
    /\ q' = Tail(q)
    /\ thr' = [thr EXCEPT ![t].pc = "loop"]
    /\ UNCHANGED <<clock, calls, log, peak>>

\* q[0] or q.popleft() finds nothing, since another thread has popped the last
\* hit: IndexError, the request is answered with 500.
Fail(t) ==
    /\ thr[t].pc \in {"head", "pop"} /\ q = << >>
    /\ thr' = [thr EXCEPT ![t].pc = "out"]
    /\ UNCHANGED <<clock, q, calls, log, peak>>

\* Mutant: the length is measured before the old hits are dropped.
MeasureUnpruned(t) ==
    /\ thr[t].pc \in {"loop", "measure"}
    /\ thr' = [thr EXCEPT ![t].pc = "decide", ![t].len = Len(q)]
    /\ UNCHANGED <<clock, q, calls, log, peak>>

\* len(q)
Measure(t) ==
    /\ thr[t].pc = "measure"
    /\ thr' = [thr EXCEPT ![t].pc = "decide", ![t].len = Len(q)]
    /\ UNCHANGED <<clock, q, calls, log, peak>>

\* The request is answered with 429.
Refuse(t) ==
    /\ thr[t].pc = "decide" /\ thr[t].len >= MaxRequests
    /\ thr' = [thr EXCEPT ![t].pc = "refused"]
    /\ UNCHANGED <<clock, q, calls, log, peak>>

\* q.append(now); the request goes on to the router.
Admit(t) ==
    /\ thr[t].pc = "decide" /\ thr[t].len < MaxRequests
    /\ q' = Append(q, thr[t].now)
    /\ log' = Append(log, thr[t].now)
    /\ thr' = [thr EXCEPT ![t] = Idle]
    /\ UNCHANGED <<clock, calls, peak>>

Tick ==
    /\ clock < MaxClock
    /\ clock' = clock + 1
    /\ UNCHANGED <<q, thr, calls, log, peak>>

Init ==
    /\ clock = 0
    /\ q = << >>
    /\ thr = [t \in Threads |-> Idle]
    /\ calls = 0
    /\ log = << >>
    /\ peak = 0

Next ==
    \/ Tick
    \/ \E t \in Threads :
          \/ Enter(t) \/ Look(t) \/ Test(t) \/ Pop(t) \/ Fail(t)
          \/ Measure(t) \/ Refuse(t) \/ Admit(t)

Spec == Init /\ [][Next]_vars

-----------------------------------------------------------------------------
(* Properties *)

AdmittedIn(from, to) == {i \in DOMAIN log : log[i] \in from .. to}

\* What `peak` overlapping calls can let through beyond the limit in a window.
\* Each but one can overshoot it twice: by appending on a length that is no
\* longer true (rate_limit.py:29 and 32), and under an old `now` after a later
\* call has dropped the hits of that time (rate_limit.py:22 and 27).  And each
\* but one can take a hit of the window itself from the deque, having tested a
\* head that another has popped since (rate_limit.py:26 and 27): once when the
\* hits of earlier windows run out, and once more for every such hit that is
\* recorded late.  Calls that never overlap keep the limit.
OvershootBounded ==
    \A i \in DOMAIN log :
        Cardinality(AdmittedIn(log[i] - WindowSeconds, log[i]))
            <= MaxRequests + 2 * (peak - 1) + peak * (peak - 1)

\* A request is refused for requests of its own window only: as many as the
\* limit, less those that overlapping calls recorded out of order, which the
\* pruning loop cannot reach behind a younger head.
RefusalJustified ==
    \A t \in Threads :
        thr[t].pc = "refused" =>
            Cardinality(AdmittedIn(thr[t].now - WindowSeconds, MaxClock)) >= MaxRequests + 1 - peak
==============================================================================
