------------------------ MODULE DetectionRunner_proofs ------------------------
(***************************************************************************)
(* What detection runs guarantee, for any number of addresses, rules,      *)
(* events and crashes, and any lookback, gap and parameters of the rules.  *)
(*                                                                         *)
(* The first part is about the engine alone, for every finite snapshot: it *)
(* returns a list of candidates.  If no address mixes UTC offsets, each of *)
(* them stands for events of the snapshot within its rule's window         *)
(* (EngineJustified), and there is one for every burst, at most a cooldown *)
(* older than it (EngineComplete).  The sort and the loop are recursive    *)
(* functions, which are first shown to be defined.                         *)
(* The second part is about the runs.                                      *)
(***************************************************************************)
EXTENDS DetectionRunner, OrderLemmas, SequenceTheorems

\* The rows of events, and the candidates an engine returns.
Event     == [id : Nat \ {0}, at : Nat, zone : Int, ip : IPs, matches : SUBSET Rules]
Candidate == [rule : Rules, ip : IPs, position : Nat, started : Int, ended : Int, count : Nat]

Returns(snapshot) == Candidates(snapshot) \in Seq(Candidate)

\* A candidate stands for events of the snapshot, within its rule's window.
Justified(snapshot) ==
    \A k \in DOMAIN Candidates(snapshot) :
        LET c == Candidates(snapshot)[k] IN
        /\ c.ended - c.started <= RuleOf[c.rule].window
        /\ c.count >= RuleOf[c.rule].count
        /\ Cardinality(BurstOf(snapshot, c.rule, c.ip, c.started, c.ended)) >= c.count

\* A burst of the snapshot has a candidate at most a cooldown older.
Complete(snapshot) ==
    \A rule \in Rules : \A e \in Bursts(snapshot, rule) :
        \E k \in DOMAIN Candidates(snapshot) :
            LET c == Candidates(snapshot)[k] IN
            c.rule = rule /\ c.ip = e.ip /\ c.ended >= e.at - RuleOf[rule].cooldown

-----------------------------------------------------------------------------
(* Sorting *)

\* Every nonempty part of a set has an element that nothing comes before.
Sortable(S, before) ==
    \A T \in SUBSET S : T # {} => \E e \in T : \A f \in T : <<f, e>> \notin before

\* A sequence holds every element of a set once, in an order that is allowed.
Lists(s, T, before) ==
    /\ s \in Seq(T) /\ Len(s) = Cardinality(T)
    /\ \A e \in T : \E i \in 1 .. Len(s) : s[i] = e
    /\ \A i, j \in 1 .. Len(s) : i < j => s[i] # s[j] /\ <<s[j], s[i]>> \notin before

First(T, before) == CHOOSE e \in T : \A f \in T : <<f, e>> \notin before

\* What `sorted` of InOrder makes of a part, given what it makes of smaller ones.
Turn(T, before, g) ==
    IF T = {} THEN << >> ELSE <<First(T, before)>> \o g[T \ {First(T, before)}]

LEMMA FirstIsFirst ==
    ASSUME NEW S, NEW before, Sortable(S, before), NEW T \in SUBSET S, T # {}
    PROVE  First(T, before) \in T /\ \A f \in T : <<f, First(T, before)>> \notin before
BY DEF Sortable, First

\* Taking an element out makes a finite set smaller by one.
LEMMA OneLess ==
    ASSUME NEW T, IsFiniteSet(T), NEW e \in T
    PROVE  /\ IsFiniteSet(T \ {e}) /\ Cardinality(T) \in Nat \ {0}
           /\ Cardinality(T \ {e}) = Cardinality(T) - 1
<1>1. IsFiniteSet(T \ {e}) /\ Cardinality(T \ {e}) = Cardinality(T) - 1
  BY FS_RemoveElement
<1>2. Cardinality(T \ {e}) \in Nat /\ Cardinality(T) \in Nat
  BY <1>1, FS_CardinalityType
<1> QED
  BY <1>1, <1>2

\* The recursion of InOrder ends: there is a function that satisfies it.
LEMMA SortingEnds ==
    ASSUME NEW S, IsFiniteSet(S), NEW before, Sortable(S, before)
    PROVE  \E g : g = [T \in SUBSET S |-> Turn(T, before, g)]
<1> DEFINE Parts(n) == {T \in SUBSET S : Cardinality(T) <= n}
           Done(n)  == \E g : g = [T \in Parts(n) |-> Turn(T, before, g)]
           Stuck    == {n \in Nat : ~Done(n)}
<1>1. ASSUME NEW T \in SUBSET S
      PROVE  IsFiniteSet(T) /\ Cardinality(T) \in Nat /\ Cardinality(T) <= Cardinality(S)
  BY FS_Subset, FS_CardinalityType
<1>2. Done(0)
  <2>1. \A T \in Parts(0) : T = {}
    <3> SUFFICES ASSUME NEW T \in Parts(0) PROVE T = {}
      OBVIOUS
    <3>1. Cardinality(T) = 0 /\ IsFiniteSet(T)
      BY <1>1
    <3> QED
      BY <3>1, FS_EmptySet
  <2> DEFINE g == [T \in Parts(0) |-> << >>]
  <2>2. g = [T \in Parts(0) |-> Turn(T, before, g)]
    BY <2>1 DEF Turn
  <2> QED
    BY <2>2
<1>3. ASSUME NEW n \in Nat, Done(n)
      PROVE  Done(n + 1)
  <2>1. PICK g : g = [T \in Parts(n) |-> Turn(T, before, g)]
    BY <1>3
  <2> DEFINE h == [T \in Parts(n + 1) |-> Turn(T, before, g)]
  <2>2. ASSUME NEW T \in Parts(n + 1)
        PROVE  Turn(T, before, h) = Turn(T, before, g)
    <3>1. CASE T = {}
      BY <3>1 DEF Turn
    <3>2. CASE T # {}
      <4> DEFINE U == T \ {First(T, before)}
      <4>1. First(T, before) \in T
        BY <3>2, FirstIsFirst
      <4>2. Cardinality(U) = Cardinality(T) - 1 /\ Cardinality(T) \in Nat /\ U \in SUBSET S
        BY <1>1, <4>1, OneLess
      <4>3. U \in Parts(n) /\ U \in Parts(n + 1)
        <5> HIDE DEF U
        <5> QED
          BY <4>2
      <4>4. h[U] = g[U]
        <5> HIDE DEF U, Parts
        <5> QED
          BY <2>1, <4>3
      <4> QED
        BY <3>2, <4>4 DEF Turn
    <3> QED
      BY <3>1, <3>2
  <2>3. h = [T \in Parts(n + 1) |-> Turn(T, before, h)]
    <3> HIDE DEF Parts
    <3> QED
      BY <2>2
  <2> QED
    BY <2>3
<1>4. Stuck = {}
  <2> SUFFICES ASSUME Stuck # {} PROVE FALSE
    OBVIOUS
  <2> HIDE DEF Done
  <2>1. PICK m \in Stuck : \A n \in Stuck : m <= n
    BY LeastNatural
  <2>2. m \in Nat /\ m # 0 /\ ~Done(m)
    BY <1>2
  <2>3. m - 1 \in Nat /\ (m - 1) + 1 = m /\ ~(m <= m - 1)
    BY <2>2
  <2>4. Done(m - 1)
    BY <2>1, <2>3
  <2> QED
    BY <1>3, <2>2, <2>3, <2>4
<1>5. Done(Cardinality(S))
  <2> HIDE DEF Done
  <2> QED
    BY <1>4, FS_CardinalityType
<1>6. Parts(Cardinality(S)) = SUBSET S
  BY <1>1
<1> QED
  BY <1>5, <1>6

\* The first element of a part, and then the others, list the part.
LEMMA ListFirst ==
    ASSUME NEW before, NEW T, IsFiniteSet(T), NEW e \in T, \A f \in T : <<f, e>> \notin before,
           NEW s, Lists(s, T \ {e}, before)
    PROVE  Lists(<<e>> \o s, T, before)
<1> DEFINE U == T \ {e}
           r == <<e>> \o s
<1>1. /\ s \in Seq(U) /\ Len(s) \in Nat /\ DOMAIN s = 1 .. Len(s)
      /\ \A i \in 1 .. Len(s) : s[i] \in U
  BY LenProperties, ElementOfSeq DEF Lists
<1>2. Cardinality(T) \in Nat /\ Len(s) = Cardinality(T) - 1
  BY OneLess DEF Lists
<1>3. U \subseteq T /\ e \in T
  OBVIOUS
<1>4. <<e>> \in Seq(T) /\ s \in Seq(T) /\ Len(<<e>>) = 1 /\ <<e>>[1] = e
  <2>1. s \in Seq(T)
    <3> HIDE DEF U
    <3>1. s \in [1 .. Len(s) -> T]
      BY <1>1, <1>3
    <3> QED
      BY <1>1, <3>1, SeqDef
  <2> QED
    BY <2>1
<1>5. /\ r \in Seq(T) /\ Len(r) = Len(s) + 1
      /\ r[1] = e /\ \A i \in 1 .. Len(s) : r[i + 1] = s[i]
  <2>1. r \in Seq(T) /\ Len(r) = 1 + Len(s)
    BY <1>4, ConcatProperties
  <2>2. \A i \in 1 .. 1 + Len(s) : r[i] = IF i <= 1 THEN <<e>>[i] ELSE s[i - 1]
    BY <1>4, ConcatProperties
  <2> HIDE DEF r
  <2>3. 1 \in 1 .. 1 + Len(s) /\ 1 <= 1
    BY <1>1
  <2>4. \A i \in 1 .. Len(s) : i + 1 \in 1 .. 1 + Len(s) /\ ~(i + 1 <= 1) /\ (i + 1) - 1 = i
    BY <1>1
  <2> QED
    BY <1>1, <1>4, <2>1, <2>2, <2>3, <2>4
<1> HIDE DEF r
<1>6. \A i \in 1 .. Len(r) : i = 1 \/ (i - 1 \in 1 .. Len(s) /\ r[i] = s[i - 1])
  <2> SUFFICES ASSUME NEW i \in 1 .. Len(r), i # 1
               PROVE  i - 1 \in 1 .. Len(s) /\ r[i] = s[i - 1]
    OBVIOUS
  <2>1. i - 1 \in 1 .. Len(s) /\ (i - 1) + 1 = i
    BY <1>1, <1>5
  <2> QED
    BY <1>5, <2>1
<1>7. ASSUME NEW f \in T
      PROVE  \E i \in 1 .. Len(r) : r[i] = f
  <2>1. CASE f = e
    <3>1. 1 \in 1 .. Len(r)
      BY <1>1, <1>5
    <3> QED
      BY <1>5, <2>1, <3>1
  <2>2. CASE f # e
    <3>1. PICK i \in 1 .. Len(s) : s[i] = f
      BY <2>2 DEF Lists
    <3>2. i + 1 \in 1 .. Len(r)
      BY <1>1, <1>5
    <3> QED
      BY <1>5, <3>1, <3>2
  <2> QED
    BY <2>1, <2>2
<1>8. ASSUME NEW i \in 1 .. Len(r), NEW j \in 1 .. Len(r), i < j
      PROVE  r[i] # r[j] /\ <<r[j], r[i]>> \notin before
  <2>1. j - 1 \in 1 .. Len(s) /\ r[j] = s[j - 1]
    <3>1. j # 1
      BY <1>1, <1>5, <1>8
    <3> QED
      BY <1>6, <3>1
  <2>2. CASE i = 1
    <3>1. r[j] \in U
      BY <1>1, <2>1
    <3> QED
      BY <1>5, <2>2, <3>1
  <2>3. CASE i # 1
    <3>1. i - 1 \in 1 .. Len(s) /\ r[i] = s[i - 1]
      BY <1>6, <2>3
    <3>2. i - 1 < j - 1
      BY <1>1, <1>5, <1>8
    <3> QED
      BY <2>1, <3>1, <3>2 DEF Lists
  <2> QED
    BY <2>2, <2>3
<1>9. Len(r) = Cardinality(T)
  BY <1>1, <1>2, <1>5
<1>10. Lists(r, T, before)
  BY <1>5, <1>7, <1>8, <1>9 DEF Lists
<1> QED
  BY <1>10 DEF r

\* InOrder lists its set.
LEMMA InOrderLists ==
    ASSUME NEW S, IsFiniteSet(S), NEW before, Sortable(S, before)
    PROVE  Lists(InOrder(S, before), S, before)
<1>1. PICK g : g = [T \in SUBSET S |-> Turn(T, before, g)] /\ InOrder(S, before) = g[S]
  <2> DEFINE sorted == CHOOSE g : g = [T \in SUBSET S |-> Turn(T, before, g)]
  <2>1. sorted = [T \in SUBSET S |-> Turn(T, before, sorted)]
    BY SortingEnds
  <2>2. InOrder(S, before) = sorted[S]
    BY DEF InOrder, Turn, First
  <2> HIDE DEF sorted
  <2> QED
    BY <2>1, <2>2
<1> DEFINE Wrong(n) == \E T \in SUBSET S : Cardinality(T) = n /\ ~Lists(g[T], T, before)
           Wrongs   == {n \in Nat : Wrong(n)}
<1>2. ASSUME NEW T \in SUBSET S
      PROVE  IsFiniteSet(T) /\ Cardinality(T) \in Nat
  BY FS_Subset, FS_CardinalityType
<1>3. ASSUME NEW T \in SUBSET S, \A U \in SUBSET T : U # T => Lists(g[U], U, before)
      PROVE  Lists(g[T], T, before)
  <2>1. g[T] = Turn(T, before, g)
    BY <1>1
  <2>2. CASE T = {}
    <3>1. g[T] = << >> /\ Cardinality(T) = 0
      BY <2>1, <2>2, FS_EmptySet DEF Turn
    <3> QED
      BY <2>2, <3>1 DEF Lists
  <2>3. CASE T # {}
    <3>1. First(T, before) \in T /\ \A f \in T : <<f, First(T, before)>> \notin before
      BY <2>3, FirstIsFirst
    <3>2. Lists(g[T \ {First(T, before)}], T \ {First(T, before)}, before)
      BY <1>3, <3>1
    <3>3. g[T] = <<First(T, before)>> \o g[T \ {First(T, before)}]
      BY <2>1, <2>3 DEF Turn
    <3> QED
      BY <1>2, <3>1, <3>2, <3>3, ListFirst
  <2> QED
    BY <2>2, <2>3
<1>4. Wrongs = {}
  <2> SUFFICES ASSUME Wrongs # {} PROVE FALSE
    OBVIOUS
  <2>1. PICK m \in Wrongs : \A n \in Wrongs : m <= n
    <3> HIDE DEF Wrong
    <3> QED
      BY LeastNatural
  <2>2. PICK T \in SUBSET S : Cardinality(T) = m /\ ~Lists(g[T], T, before)
    BY <2>1
  <2>3. PICK U \in SUBSET T : U # T /\ ~Lists(g[U], U, before)
    BY <1>3, <2>2
  <2>4. Cardinality(U) < m /\ Cardinality(U) \in Nat /\ m \in Nat
    BY <1>2, <2>2, <2>3, FS_Subset
  <2>5. Cardinality(U) \in Wrongs
    BY <2>3, <2>4
  <2>6. m <= Cardinality(U)
    <3> HIDE DEF Wrongs
    <3> QED
      BY <2>1, <2>5
  <2> QED
    BY <2>4, <2>6
<1> QED
  BY <1>1, <1>2, <1>4

\* The rows of a snapshot can be sorted by time, and alerts by position.
LEMMA LeastKey ==
    ASSUME NEW T, T # {}, NEW key, \A e \in T : key[e] \in Nat
    PROVE  \E e \in T : \A f \in T : key[e] <= key[f]
<1> DEFINE Keyed == {key[e] : e \in T}
<1>1. Keyed \in SUBSET Nat /\ Keyed # {}
  OBVIOUS
<1>2. PICK m \in Keyed : \A n \in Keyed : m <= n
  <2> HIDE DEF Keyed
  <2> QED
    BY <1>1, LeastNatural
<1> QED
  BY <1>2

\* A finite set of numbers has a least one.
LEMMA LeastOfFinite ==
    ASSUME NEW T, T # {}, IsFiniteSet(T), NEW key, T \subseteq DOMAIN key,
           \A e \in T : key[e] \in Int
    PROVE  \E e \in T : \A f \in T : key[e] <= key[f]
<1> DEFINE Keyed == {key[e] : e \in T}
           Negated == {-k : k \in Keyed}
           negated == [e \in T |-> -key[e]]
<1>1. Negated \in SUBSET Int /\ Negated # {}
  OBVIOUS
<1>2. IsFiniteSet({negated[e] : e \in T})
  <2> HIDE DEF negated
  <2>1. T \subseteq DOMAIN negated
    BY DEF negated
  <2> QED
    BY <2>1, FiniteReadings
<1>3. Negated = {negated[e] : e \in T}
  OBVIOUS
<1>4. PICK m \in Negated : \A n \in Negated : n <= m
  <2> HIDE DEF Negated, negated
  <2> QED
    BY <1>1, <1>2, <1>3, GreatestOfFinite
<1>5. PICK e \in T : m = -key[e]
  OBVIOUS
<1>6. ASSUME NEW f \in T
      PROVE  key[e] <= key[f]
  <2>1. -key[f] \in Negated
    OBVIOUS
  <2>2. -key[f] <= -key[e]
    BY <1>4, <1>5, <2>1
  <2> QED
    BY <2>2
<1> QED
  BY <1>6

LEMMA RowsSortable ==
    ASSUME NEW S \in SUBSET Event, IsFiniteSet(S)
    PROVE  Sortable(S, ByTime(S))
<1> SUFFICES ASSUME NEW T \in SUBSET S, T # {}
             PROVE  \E e \in T : \A f \in T : <<f, e>> \notin ByTime(S)
  BY DEF Sortable
<1> DEFINE reading == [e \in T |-> Reading(e)]
           id == [e \in T |-> e.id]
<1>1. \A e \in T : /\ e \in Event /\ Reading(e) \in Int /\ e.id \in Nat
                   /\ reading[e] = Reading(e) /\ id[e] = e.id
  BY DEF Event, Reading
<1>2. IsFiniteSet(T) /\ T \subseteq DOMAIN reading
  BY FS_Subset
<1> HIDE DEF reading, id
<1>3. PICK e \in T : \A f \in T : reading[e] <= reading[f]
  BY <1>1, <1>2, LeastOfFinite
<1> DEFINE A == {f \in T : Reading(f) = Reading(e)}
<1>4. A # {} /\ \A f \in A : id[f] \in Nat
  BY <1>1
<1>5. PICK d \in A : \A f \in A : id[d] <= id[f]
  <2> HIDE DEF A
  <2> QED
    BY <1>4, LeastKey
<1>6. d \in T /\ Reading(d) = Reading(e)
  OBVIOUS
<1>7. ASSUME NEW f \in T, <<f, d>> \in ByTime(S)
      PROVE  FALSE
  <2>1. Reading(f) < Reading(d) \/ (Reading(f) = Reading(d) /\ f.id < d.id)
    BY <1>7 DEF ByTime
  <2>2. ~(Reading(f) < Reading(d))
    BY <1>1, <1>3, <1>6
  <2>3. f \in A
    BY <1>6, <2>1, <2>2
  <2>4. ~(f.id < d.id)
    BY <1>1, <1>5, <1>6, <2>3
  <2> QED
    BY <2>1, <2>2, <2>4
<1> QED
  BY <1>6, <1>7

LEMMA AlertsSortable ==
    ASSUME NEW S, \A a \in S : a.position \in Nat
    PROVE  Sortable(S, ByPosition(S))
<1> SUFFICES ASSUME NEW T \in SUBSET S, T # {}
             PROVE  \E e \in T : \A f \in T : <<f, e>> \notin ByPosition(S)
  BY DEF Sortable
<1> DEFINE position == [a \in T |-> a.position]
<1>1. \A a \in T : a.position \in Nat /\ position[a] = a.position
  OBVIOUS
<1> HIDE DEF position
<1>2. PICK e \in T : \A f \in T : position[e] <= position[f]
  BY <1>1, LeastKey
<1>3. \A f \in T : ~(f.position < e.position)
  BY <1>1, <1>2
<1> QED
  BY <1>3 DEF ByPosition

-----------------------------------------------------------------------------
(* The recursion of the engine *)

\* What the engine makes of event n, given where the events before left it.
Met(stream, n, engine) ==
    [counters |-> CountersAfter(stream, engine.counters, n),
     alerts   |-> engine.alerts \cup AlertsAfter(stream, engine.counters, n)]

Fresh == [counters |-> NoCounters, alerts |-> {}]

LEMMA EngineEnds ==
    ASSUME NEW stream, Len(stream) \in Nat
    PROVE  \E g : g = [n \in 0 .. Len(stream) |->
                          IF n = 0 THEN Fresh ELSE Met(stream, n, g[n - 1])]
<1> DEFINE Turned(n, g) == IF n = 0 THEN Fresh ELSE Met(stream, n, g[n - 1])
           Done(m) == \E g : g = [n \in 0 .. m |-> Turned(n, g)]
           Stuck   == {m \in Nat : ~Done(m)}
<1>1. Done(0)
  <2> DEFINE g == [n \in 0 .. 0 |-> Fresh]
  <2>1. \A n \in 0 .. 0 : Turned(n, g) = Fresh
    OBVIOUS
  <2>2. g = [n \in 0 .. 0 |-> Turned(n, g)]
    <3> HIDE DEF Turned
    <3> QED
      BY <2>1
  <2> QED
    BY <2>2
<1>2. ASSUME NEW m \in Nat, Done(m)
      PROVE  Done(m + 1)
  <2>1. PICK g : g = [n \in 0 .. m |-> Turned(n, g)]
    BY <1>2
  <2> DEFINE h == [n \in 0 .. m + 1 |-> Turned(n, g)]
  <2>2. ASSUME NEW n \in 0 .. m + 1
        PROVE  Turned(n, h) = Turned(n, g)
    <3>1. CASE n = 0
      BY <3>1
    <3>2. CASE n # 0
      <4>1. n - 1 \in 0 .. m /\ n - 1 \in 0 .. m + 1
        BY <3>2
      <4>2. h[n - 1] = g[n - 1]
        <5> HIDE DEF Turned
        <5> QED
          BY <2>1, <4>1
      <4> HIDE DEF h
      <4> QED
        BY <3>2, <4>2
    <3> QED
      BY <3>1, <3>2
  <2>3. h = [n \in 0 .. m + 1 |-> Turned(n, h)]
    <3> HIDE DEF Turned
    <3> QED
      BY <2>2
  <2> QED
    BY <2>3
<1>3. Stuck = {}
  <2> SUFFICES ASSUME Stuck # {} PROVE FALSE
    OBVIOUS
  <2> HIDE DEF Done
  <2>1. PICK m \in Stuck : \A n \in Stuck : m <= n
    BY LeastNatural
  <2>2. m \in Nat /\ m # 0 /\ ~Done(m)
    BY <1>1
  <2>3. m - 1 \in Nat /\ (m - 1) + 1 = m /\ ~(m <= m - 1)
    BY <2>2
  <2>4. Done(m - 1)
    BY <2>1, <2>3
  <2> QED
    BY <1>2, <2>2, <2>3, <2>4
<1>4. Done(Len(stream))
  <2> HIDE DEF Done
  <2> QED
    BY <1>3
<1> QED
  BY <1>4

LEMMA EngineTurns ==
    ASSUME NEW stream, Len(stream) \in Nat
    PROVE  /\ EngineAfter(stream)[0] = Fresh
           /\ \A n \in 1 .. Len(stream) :
                 EngineAfter(stream)[n] = Met(stream, n, EngineAfter(stream)[n - 1])
<1> DEFINE engine == CHOOSE g : g = [n \in 0 .. Len(stream) |->
                                        IF n = 0 THEN Fresh ELSE Met(stream, n, g[n - 1])]
<1>1. engine = [n \in 0 .. Len(stream) |-> IF n = 0 THEN Fresh ELSE Met(stream, n, engine[n - 1])]
  BY EngineEnds
<1>2. EngineAfter(stream) = engine
  BY DEF EngineAfter, Met, Fresh
<1> HIDE DEF engine
<1>3. engine[0] = Fresh
  BY <1>1
<1>4. \A n \in 1 .. Len(stream) : engine[n] = Met(stream, n, engine[n - 1])
  BY <1>1
<1> QED
  BY <1>2, <1>3, <1>4

-----------------------------------------------------------------------------
(* What the engine keeps *)

\* A stream that gives the events of each address in the order of time.
Stream(s) ==
    /\ s \in Seq(Event)
    /\ \A i, j \in 1 .. Len(s) : i < j /\ s[i].ip = s[j].ip => s[i].at <= s[j].at

\* Those of the first n events that a rule counts for an address.
MatchedPlaces(s, n, rule, ip) == {i \in 1 .. n : Applies(rule, s[i]) /\ s[i].ip = ip}

\* The burst that ends with event p.
Upto(s, p, rule) ==
    {i \in MatchedPlaces(s, p, rule, s[p].ip) : s[p].at - s[i].at <= RuleOf[rule].window}

\* What an alert says is so.
Tells(s, a) ==
    /\ a \in Candidate /\ a.position \in 1 .. Len(s)
    /\ a.ip = s[a.position].ip /\ a.ended = s[a.position].at
    /\ a.ended - a.started <= RuleOf[a.rule].window
    /\ a.count >= RuleOf[a.rule].count
    /\ \E B \in SUBSET MatchedPlaces(s, Len(s), a.rule, a.ip) :
          /\ a.count = Cardinality(B)
          /\ \A i \in B : a.started <= s[i].at /\ s[i].at <= a.ended

\* A counter holds events of its rule and address, all those that a later
\* event can still meet within the window; its last alert is on record.
CountersRight(s, n, e) ==
    \A k \in Keys :
        LET matching == MatchedPlaces(s, n, k[1], k[2]) IN
        /\ e.counters[k].stamps \subseteq matching
        /\ \A i \in matching \ e.counters[k].stamps :
              \E m \in matching : s[m].at - s[i].at > RuleOf[k[1]].window
        /\ e.counters[k].last # 0 =>
              \E a \in e.alerts : a.rule = k[1] /\ a.ip = k[2] /\ a.position = e.counters[k].last

AlertsRight(s, n, e) ==
    /\ IsFiniteSet(e.alerts)
    /\ \A a \in e.alerts : Tells(s, a)

\* Every burst met so far has an alert at most a cooldown older.
BurstsMet(s, n, e) ==
    \A rule \in Rules, p \in 1 .. n :
        Applies(rule, s[p]) /\ Cardinality(Upto(s, p, rule)) >= RuleOf[rule].count
            => \E a \in e.alerts : /\ a.rule = rule /\ a.ip = s[p].ip
                                   /\ a.ended >= s[p].at - RuleOf[rule].cooldown

EngineInv(s, n, e) == CountersRight(s, n, e) /\ AlertsRight(s, n, e) /\ BurstsMet(s, n, e)

LEMMA RowOfStream ==
    ASSUME NEW s, Stream(s)
    PROVE  /\ Len(s) \in Nat
           /\ \A i \in 1 .. Len(s) : s[i] \in Event /\ s[i].at \in Int /\ s[i].ip \in IPs
<1>1. Len(s) \in Nat /\ \A i \in 1 .. Len(s) : s[i] \in Event
  BY LenProperties, ElementOfSeq DEF Stream
<1> QED
  BY <1>1 DEF Event

LEMMA RuleNumbers ==
    ASSUME NEW rule \in Rules
    PROVE  /\ RuleOf[rule].window \in Nat /\ RuleOf[rule].cooldown \in Nat
           /\ RuleOf[rule].count \in Nat \ {0}
BY RuleOfAssumption DEF RuleParameters, Durations

\* One more event to be counted.
LEMMA MatchingGrows ==
    ASSUME NEW s, NEW n \in Nat, NEW rule, NEW ip
    PROVE  MatchedPlaces(s, n + 1, rule, ip) =
              IF Applies(rule, s[n + 1]) /\ s[n + 1].ip = ip
              THEN MatchedPlaces(s, n, rule, ip) \cup {n + 1} ELSE MatchedPlaces(s, n, rule, ip)
<1>1. 1 .. n + 1 = (1 .. n) \cup {n + 1}
  OBVIOUS
<1>2. MatchedPlaces(s, n + 1, rule, ip) =
         {i \in (1 .. n) \cup {n + 1} : Applies(rule, s[i]) /\ s[i].ip = ip}
  BY <1>1 DEF MatchedPlaces
<1> QED
  BY <1>2 DEF MatchedPlaces

\* The timestamps kept are the burst that ends with the event.
LEMMA SlideIsBurst ==
    ASSUME NEW s, Stream(s), NEW n \in Nat, NEW p \in 1 .. Len(s), p = n + 1,
           NEW e, CountersRight(s, n, e), NEW rule \in Rules, Applies(rule, s[p])
    PROVE  Slide(s, e.counters[<<rule, s[p].ip>>], p, rule) = Upto(s, p, rule)
<1> DEFINE ip == s[p].ip
           k  == <<rule, ip>>
           stamps == e.counters[k].stamps
           window == RuleOf[rule].window
           matching == MatchedPlaces(s, n, rule, ip)
<1>1. ip \in IPs /\ s[p].at \in Int /\ window \in Nat
  BY RowOfStream, RuleNumbers
<1>2. k \in Keys /\ k[1] = rule /\ k[2] = ip
  BY <1>1 DEF Keys
<1>3. stamps \subseteq matching
  BY <1>2 DEF CountersRight
<1>4. \A i \in matching \ stamps : \E m \in matching : s[m].at - s[i].at > window
  BY <1>2 DEF CountersRight
<1>5. \A i \in matching : s[i].at \in Int /\ s[i].at <= s[p].at
  <2>1. ASSUME NEW i \in 1 .. n, s[i].ip = s[p].ip
        PROVE  s[i].at \in Int /\ s[i].at <= s[p].at
    <3>1. i \in 1 .. Len(s) /\ i < p
      BY RowOfStream
    <3> QED
      BY <2>1, <3>1, RowOfStream DEF Stream
  <2> QED
    BY <2>1 DEF MatchedPlaces
<1>6. ASSUME NEW i \in matching, s[p].at - s[i].at <= window
      PROVE  i \in stamps
  <2> SUFFICES ASSUME i \notin stamps PROVE FALSE
    OBVIOUS
  <2>1. PICK m \in matching : s[m].at - s[i].at > window
    BY <1>4
  <2> HIDE DEF matching, stamps, window
  <2>2. s[m].at \in Int /\ s[m].at <= s[p].at /\ s[i].at \in Int
    BY <1>5
  <2> QED
    BY <1>1, <1>6, <2>1, <2>2
<1>7. Upto(s, p, rule) = {i \in matching \cup {p} : s[p].at - s[i].at <= window}
  <2>1. MatchedPlaces(s, p, rule, ip) = matching \cup {p}
    BY MatchingGrows
  <2> QED
    BY <2>1 DEF Upto
<1>8. Slide(s, e.counters[k], p, rule) = {i \in stamps : s[p].at - s[i].at <= window} \cup {p}
  BY DEF Slide
<1>9. s[p].at - s[p].at <= window
  BY <1>1
<1> HIDE DEF matching, stamps, window
<1>10. {i \in stamps : s[p].at - s[i].at <= window} \cup {p}
         = {i \in matching \cup {p} : s[p].at - s[i].at <= window}
  BY <1>3, <1>6, <1>9
<1> QED
  BY <1>7, <1>8, <1>10

\* A burst is finite, ends with its event, and starts within the window.
LEMMA BurstParts ==
    ASSUME NEW s, Stream(s), NEW p \in 1 .. Len(s), NEW rule \in Rules, Applies(rule, s[p])
    PROVE  /\ Upto(s, p, rule) \in SUBSET MatchedPlaces(s, Len(s), rule, s[p].ip)
           /\ Upto(s, p, rule) \subseteq 1 .. p
           /\ p \in Upto(s, p, rule)
           /\ IsFiniteSet(Upto(s, p, rule)) /\ Cardinality(Upto(s, p, rule)) \in Nat
           /\ \A i \in Upto(s, p, rule) :
                 /\ s[i].at \in Int /\ s[i].at <= s[p].at
                 /\ s[p].at - s[i].at <= RuleOf[rule].window
<1> DEFINE B == Upto(s, p, rule)
<1>1. Len(s) \in Nat /\ p \in Nat /\ p <= Len(s) /\ s[p].at \in Int
  BY RowOfStream
<1>2. 1 .. p \subseteq 1 .. Len(s) /\ p \in 1 .. p
  BY <1>1
<1>3. B \subseteq 1 .. p /\ B \in SUBSET MatchedPlaces(s, Len(s), rule, s[p].ip)
  BY <1>2 DEF Upto, MatchedPlaces
<1>4. s[p].at - s[p].at <= RuleOf[rule].window
  BY <1>1, RuleNumbers
<1>5. p \in B
  BY <1>2, <1>4 DEF Upto, MatchedPlaces
<1>6. IsFiniteSet(B) /\ Cardinality(B) \in Nat
  <2>1. IsFiniteSet(1 .. p)
    BY <1>1, FS_Interval
  <2> HIDE DEF B
  <2> QED
    BY <1>3, <2>1, FS_Subset, FS_CardinalityType
<1>7. ASSUME NEW i \in B
      PROVE  s[i].at \in Int /\ s[i].at <= s[p].at /\ s[p].at - s[i].at <= RuleOf[rule].window
  <2>1. s[p].at - s[i].at <= RuleOf[rule].window
    BY DEF Upto
  <2>2. i \in 1 .. Len(s) /\ (i = p \/ i < p) /\ s[i].ip = s[p].ip
    BY <1>1, <1>3 DEF MatchedPlaces
  <2>3. s[i].at \in Int /\ s[i].at <= s[p].at
    BY <1>1, <2>2, RowOfStream DEF Stream
  <2> QED
    BY <2>1, <2>3
<1> QED
  BY <1>3, <1>5, <1>6, <1>7

\* min() and max() of the burst's instants: the first and the last of them.
LEMMA BurstSpan ==
    ASSUME NEW s, Stream(s), NEW p \in 1 .. Len(s), NEW rule \in Rules, Applies(rule, s[p])
    PROVE  LET times == {s[i].at : i \in Upto(s, p, rule)} IN
           /\ Latest(times) = s[p].at
           /\ Earliest(times) \in Int /\ s[p].at - Earliest(times) <= RuleOf[rule].window
           /\ \A i \in Upto(s, p, rule) : Earliest(times) <= s[i].at
<1> DEFINE B == Upto(s, p, rule)
           times == {s[i].at : i \in B}
           floor == s[p].at - RuleOf[rule].window
<1>1. /\ p \in B /\ s[p].at \in Int /\ floor \in Int
      /\ \A i \in B : s[i].at \in Int /\ s[i].at <= s[p].at /\ floor <= s[i].at
  <2>1. p \in B /\ \A i \in B : /\ s[i].at \in Int /\ s[i].at <= s[p].at
                                /\ s[p].at - s[i].at <= RuleOf[rule].window
    BY BurstParts
  <2> HIDE DEF B
  <2> QED
    BY <2>1, RuleNumbers
<1> HIDE DEF B
<1>2. s[p].at \in times /\ times \in SUBSET Int /\ times # {}
      /\ (\A t \in times : t <= s[p].at /\ floor <= t)
      /\ \A i \in B : s[i].at \in times
  BY <1>1
<1> HIDE DEF floor, times
<1>3. Latest(times) = s[p].at
  <2>1. Latest(times) \in times /\ \A u \in times : u <= Latest(times)
    BY <1>2 DEF Latest
  <2> QED
    BY <1>1, <1>2, <2>1
<1>4. \E m \in times : \A n \in times : m <= n
  BY <1>1, <1>2, LeastInteger
<1>5. Earliest(times) \in times /\ \A u \in times : Earliest(times) <= u
  BY <1>4 DEF Earliest
<1>6. Earliest(times) \in Int /\ s[p].at - Earliest(times) <= RuleOf[rule].window
  <2>1. Earliest(times) \in Int /\ floor <= Earliest(times)
    BY <1>2, <1>5
  <2> QED
    BY <1>1, <2>1, RuleNumbers DEF floor
<1>7. /\ Latest(times) = s[p].at
      /\ Earliest(times) \in Int /\ s[p].at - Earliest(times) <= RuleOf[rule].window
      /\ \A i \in B : Earliest(times) <= s[i].at
  BY <1>2, <1>3, <1>5, <1>6
<1> QED
  BY <1>7 DEF times, B

\* The alert that an event raises tells what is so.
LEMMA NewAlertTells ==
    ASSUME NEW s, Stream(s), NEW n \in Nat, NEW p \in 1 .. Len(s), p = n + 1,
           NEW e, CountersRight(s, n, e), NEW rule \in Rules, Applies(rule, s[p]),
           Fires(s, e.counters[<<rule, s[p].ip>>], p, rule)
    PROVE  LET a == AlertAt(s, e.counters[<<rule, s[p].ip>>], p, rule) IN
           /\ Tells(s, a)
           /\ a.rule = rule /\ a.ip = s[p].ip /\ a.position = p /\ a.ended = s[p].at
<1> DEFINE counter == e.counters[<<rule, s[p].ip>>]
           a == AlertAt(s, counter, p, rule)
           B == Upto(s, p, rule)
           times == {s[i].at : i \in B}
<1>1. Slide(s, counter, p, rule) = B
  BY SlideIsBurst
<1>2. a = [rule |-> rule, ip |-> s[p].ip, position |-> p, started |-> Earliest(times),
           ended |-> Latest(times), count |-> Cardinality(B)]
  BY <1>1 DEF AlertAt
<1>3. Cardinality(B) >= RuleOf[rule].count
  BY <1>1 DEF Fires
<1>4. /\ Latest(times) = s[p].at
      /\ Earliest(times) \in Int /\ s[p].at - Earliest(times) <= RuleOf[rule].window
      /\ \A i \in B : Earliest(times) <= s[i].at
  BY BurstSpan
<1>5. B \in SUBSET MatchedPlaces(s, Len(s), rule, s[p].ip) /\ Cardinality(B) \in Nat
      /\ \A i \in B : s[i].at <= s[p].at
  BY BurstParts
<1>6. s[p].ip \in IPs /\ s[p].at \in Int /\ p \in Nat
  BY RowOfStream
<1> HIDE DEF times, B, counter
<1>7. /\ a.rule = rule /\ a.ip = s[p].ip /\ a.position = p /\ a.ended = s[p].at
      /\ a.started = Earliest(times) /\ a.count = Cardinality(B)
  BY <1>2, <1>4
<1>8. a \in Candidate
  BY <1>2, <1>4, <1>5, <1>6 DEF Candidate
<1> HIDE DEF a
<1>9. \A i \in B : a.started <= s[i].at /\ s[i].at <= a.ended
  BY <1>4, <1>5, <1>7
<1>10. Tells(s, a)
  BY <1>3, <1>4, <1>5, <1>7, <1>8, <1>9 DEF Tells
<1> QED
  BY <1>7, <1>10 DEF a, counter

\* What one event does to a counter.
LEMMA CounterMeets ==
    ASSUME NEW s, NEW p, NEW e, NEW k \in Keys
    PROVE  \/ /\ Applies(k[1], s[p]) /\ k[2] = s[p].ip /\ k = <<k[1], s[p].ip>>
              /\ Met(s, p, e).counters[k].stamps = Slide(s, e.counters[k], p, k[1])
              /\ Met(s, p, e).counters[k].last =
                    IF Fires(s, e.counters[k], p, k[1]) THEN p ELSE e.counters[k].last
           \/ /\ ~(Applies(k[1], s[p]) /\ k[2] = s[p].ip)
              /\ Met(s, p, e).counters[k] = e.counters[k]
<1> DEFINE c == CountersAfter(s, e.counters, p)
<1>1. Met(s, p, e).counters = c
  BY DEF Met
<1>2. c[k] = IF Applies(k[1], s[p]) /\ k[2] = s[p].ip
             THEN Counted(s, e.counters[k], p, k[1]) ELSE e.counters[k]
  BY DEF CountersAfter
<1> HIDE DEF c
<1>3. CASE Applies(k[1], s[p]) /\ k[2] = s[p].ip
  <2>1. k = <<k[1], s[p].ip>>
    BY <1>3 DEF Keys
  <2>2. c[k] = Counted(s, e.counters[k], p, k[1])
    BY <1>2, <1>3
  <2>3. /\ c[k].stamps = Slide(s, e.counters[k], p, k[1])
        /\ c[k].last = IF Fires(s, e.counters[k], p, k[1]) THEN p ELSE e.counters[k].last
    BY <2>2 DEF Counted
  <2> QED
    BY <1>1, <1>3, <2>1, <2>3
<1>4. CASE ~(Applies(k[1], s[p]) /\ k[2] = s[p].ip)
  BY <1>1, <1>2, <1>4
<1> QED
  BY <1>3, <1>4

\* What one event adds to the alerts.
LEMMA AlertsMeet ==
    ASSUME NEW s, Stream(s), NEW n \in Nat, NEW p \in 1 .. Len(s), p = n + 1,
           NEW e, CountersRight(s, n, e), AlertsRight(s, n, e)
    PROVE  /\ e.alerts \subseteq Met(s, p, e).alerts
           /\ AlertsRight(s, p, Met(s, p, e))
           /\ \A rule \in Rules :
                 Applies(rule, s[p]) /\ Fires(s, e.counters[<<rule, s[p].ip>>], p, rule) =>
                    \E a \in Met(s, p, e).alerts :
                       a.rule = rule /\ a.ip = s[p].ip /\ a.position = p /\ a.ended = s[p].at
<1> DEFINE Raised == {rule \in Rules : /\ Applies(rule, s[p])
                                       /\ Fires(s, e.counters[<<rule, s[p].ip>>], p, rule)}
           raise == [rule \in Raised |-> AlertAt(s, e.counters[<<rule, s[p].ip>>], p, rule)]
           new == {raise[rule] : rule \in Raised}
<1>1. Met(s, p, e).alerts = e.alerts \cup new
  BY DEF Met, AlertsAfter
<1>2. ASSUME NEW rule \in Raised
      PROVE  /\ rule \in Rules /\ Tells(s, raise[rule])
             /\ raise[rule].rule = rule /\ raise[rule].ip = s[p].ip
             /\ raise[rule].position = p /\ raise[rule].ended = s[p].at
  BY NewAlertTells
<1>3. IsFiniteSet(Raised) /\ Raised \subseteq DOMAIN raise
  <2>1. Raised \in SUBSET Rules
    OBVIOUS
  <2> HIDE DEF Raised
  <2> QED
    BY <2>1, RunnerAssumption, FS_Subset
<1>4. \A rule \in Rules :
         Applies(rule, s[p]) /\ Fires(s, e.counters[<<rule, s[p].ip>>], p, rule) => rule \in Raised
  OBVIOUS
<1> HIDE DEF raise, Raised
<1>5. IsFiniteSet(new)
  BY <1>3, FiniteReadings
<1>6. IsFiniteSet(e.alerts \cup new)
  <2> HIDE DEF new
  <2> QED
    BY <1>5, FS_Union DEF AlertsRight
<1>7. \A a \in e.alerts \cup new : Tells(s, a)
  BY <1>2 DEF AlertsRight
<1>8. AlertsRight(s, p, Met(s, p, e))
  <2> HIDE DEF new
  <2> QED
    BY <1>1, <1>6, <1>7 DEF AlertsRight
<1>9. \A rule \in Raised : raise[rule] \in Met(s, p, e).alerts
  BY <1>1
<1>10. e.alerts \subseteq Met(s, p, e).alerts
  BY <1>1
<1> QED
  BY <1>2, <1>4, <1>8, <1>9, <1>10

LEMMA CountersMeet ==
    ASSUME NEW s, Stream(s), NEW n \in Nat, NEW p \in 1 .. Len(s), p = n + 1,
           NEW e, CountersRight(s, n, e), AlertsRight(s, n, e)
    PROVE  CountersRight(s, p, Met(s, p, e))
<1> SUFFICES ASSUME NEW k \in Keys
             PROVE  LET after == Met(s, p, e) IN
                    /\ after.counters[k].stamps \subseteq MatchedPlaces(s, p, k[1], k[2])
                    /\ \A i \in MatchedPlaces(s, p, k[1], k[2]) \ after.counters[k].stamps :
                          \E m \in MatchedPlaces(s, p, k[1], k[2]) :
                             s[m].at - s[i].at > RuleOf[k[1]].window
                    /\ after.counters[k].last # 0 =>
                          \E a \in after.alerts : /\ a.rule = k[1] /\ a.ip = k[2]
                                                  /\ a.position = after.counters[k].last
  BY DEF CountersRight
<1> DEFINE after == Met(s, p, e)
<1>1. k[1] \in Rules /\ k[2] \in IPs
  BY DEF Keys
<1>2. e.alerts \subseteq after.alerts
  BY AlertsMeet
<1>3. e.counters[k].last # 0 =>
         \E a \in after.alerts : a.rule = k[1] /\ a.ip = k[2] /\ a.position = e.counters[k].last
  BY <1>2 DEF CountersRight
<1>4. CASE /\ Applies(k[1], s[p]) /\ k[2] = s[p].ip /\ k = <<k[1], s[p].ip>>
           /\ after.counters[k].stamps = Slide(s, e.counters[k], p, k[1])
           /\ after.counters[k].last =
                 IF Fires(s, e.counters[k], p, k[1]) THEN p ELSE e.counters[k].last
  <2>1. after.counters[k].stamps = Upto(s, p, k[1])
    BY <1>1, <1>4, SlideIsBurst
  <2>2. Upto(s, p, k[1]) = {i \in MatchedPlaces(s, p, k[1], k[2]) :
                               s[p].at - s[i].at <= RuleOf[k[1]].window}
    BY <1>4 DEF Upto
  <2>3. p \in MatchedPlaces(s, p, k[1], k[2])
    BY <1>1, <1>4, BurstParts, <2>2
  <2>4. ASSUME NEW i \in MatchedPlaces(s, p, k[1], k[2]), i \notin Upto(s, p, k[1])
        PROVE  s[p].at - s[i].at > RuleOf[k[1]].window
    <3>1. ~(s[p].at - s[i].at <= RuleOf[k[1]].window)
      BY <2>2, <2>4
    <3>2. i \in 1 .. Len(s)
      BY RowOfStream DEF MatchedPlaces
    <3>3. s[p].at \in Int /\ s[i].at \in Int /\ RuleOf[k[1]].window \in Int
      BY <1>1, <3>2, RowOfStream, RuleNumbers
    <3> QED
      BY <3>1, <3>3
  <2>5. Fires(s, e.counters[k], p, k[1]) =>
           \E a \in after.alerts : a.rule = k[1] /\ a.ip = k[2] /\ a.position = p
    BY <1>1, <1>4, AlertsMeet
  <2> HIDE DEF after
  <2> QED
    BY <1>3, <1>4, <2>1, <2>2, <2>3, <2>4, <2>5 DEF after
<1>5. CASE ~(Applies(k[1], s[p]) /\ k[2] = s[p].ip) /\ after.counters[k] = e.counters[k]
  <2>1. MatchedPlaces(s, p, k[1], k[2]) = MatchedPlaces(s, n, k[1], k[2])
    BY <1>5, MatchingGrows
  <2> QED
    BY <1>3, <1>5, <2>1 DEF CountersRight
<1> QED
  BY <1>4, <1>5, CounterMeets

LEMMA BurstsMeet ==
    ASSUME NEW s, Stream(s), NEW n \in Nat, NEW p \in 1 .. Len(s), p = n + 1,
           NEW e, EngineInv(s, n, e)
    PROVE  BurstsMet(s, p, Met(s, p, e))
<1> USE DEF EngineInv
<1> SUFFICES ASSUME NEW rule \in Rules, NEW q \in 1 .. p, Applies(rule, s[q]),
                    Cardinality(Upto(s, q, rule)) >= RuleOf[rule].count
             PROVE  \E a \in Met(s, p, e).alerts :
                       /\ a.rule = rule /\ a.ip = s[q].ip
                       /\ a.ended >= s[q].at - RuleOf[rule].cooldown
  BY DEF BurstsMet
<1>1. e.alerts \subseteq Met(s, p, e).alerts
  BY AlertsMeet
<1>2. CASE q \in 1 .. n
  BY <1>1, <1>2 DEF BurstsMet
<1>3. CASE q = p
  <2> DEFINE k == <<rule, s[p].ip>>
             last == e.counters[k].last
             cooldown == RuleOf[rule].cooldown
  <2>1. s[p].ip \in IPs /\ s[p].at \in Int /\ cooldown \in Nat /\ p \in Nat
    BY RowOfStream, RuleNumbers
  <2>2. k \in Keys /\ k[1] = rule /\ k[2] = s[p].ip
    BY <2>1 DEF Keys
  <2>3. Slide(s, e.counters[k], p, rule) = Upto(s, p, rule)
    BY <1>3, SlideIsBurst
  <2>4. CASE Fires(s, e.counters[k], p, rule)
    <3>1. PICK a \in Met(s, p, e).alerts :
             a.rule = rule /\ a.ip = s[p].ip /\ a.ended = s[p].at
      BY <1>3, <2>4, AlertsMeet
    <3>2. s[p].at >= s[p].at - cooldown
      <4> HIDE DEF cooldown
      <4> QED
        BY <2>1
    <3> QED
      BY <1>3, <3>1, <3>2
  <2>5. CASE ~Fires(s, e.counters[k], p, rule)
    <3>1. last # 0 /\ s[p].at - s[last].at < cooldown
      BY <1>3, <2>3, <2>5 DEF Fires, Cooling
    <3>2. PICK a \in e.alerts : a.rule = rule /\ a.ip = s[p].ip /\ a.position = last
      BY <2>2, <3>1 DEF CountersRight
    <3>3. a.ended = s[last].at /\ a.ended \in Int
      BY <3>2 DEF AlertsRight, Tells, Candidate
    <3>4. a.ended >= s[p].at - cooldown
      <4>1. s[p].at - a.ended < cooldown
        BY <3>1, <3>3
      <4> HIDE DEF cooldown, last
      <4> QED
        BY <2>1, <3>3, <4>1
    <3> QED
      BY <1>1, <1>3, <3>2, <3>4
  <2> QED
    BY <2>4, <2>5
<1>4. q \in 1 .. n \/ q = p
  OBVIOUS
<1> QED
  BY <1>2, <1>3, <1>4

\* What the engine keeps, it keeps through the whole stream.
LEMMA EngineKeeps ==
    ASSUME NEW s, Stream(s)
    PROVE  EngineInv(s, Len(s), EngineAfter(s)[Len(s)])
<1> DEFINE Right(n) == EngineInv(s, n, EngineAfter(s)[n])
           Wrong == {n \in 0 .. Len(s) : ~Right(n)}
<1>1. Len(s) \in Nat
  BY RowOfStream
<1>2. Right(0)
  <2> DEFINE e == EngineAfter(s)[0]
  <2>1. e = Fresh
    BY <1>1, EngineTurns
  <2>2. e.alerts = {} /\ \A k \in Keys : e.counters[k].stamps = {} /\ e.counters[k].last = 0
    BY <2>1 DEF Fresh, NoCounters, NoCounter
  <2> HIDE DEF e
  <2>3. CountersRight(s, 0, e)
    <3>1. \A rule, ip : MatchedPlaces(s, 0, rule, ip) = {}
      BY DEF MatchedPlaces
    <3> QED
      BY <2>2, <3>1 DEF CountersRight
  <2>4. AlertsRight(s, 0, e) /\ BurstsMet(s, 0, e)
    BY <2>2, FS_EmptySet DEF AlertsRight, BurstsMet
  <2> QED
    BY <2>3, <2>4 DEF EngineInv, e
<1>3. ASSUME NEW n \in Nat, n + 1 \in 1 .. Len(s), Right(n)
      PROVE  Right(n + 1)
  <2> DEFINE p == n + 1
             e == EngineAfter(s)[n]
  <2>1. p \in 1 .. Len(s) /\ p - 1 = n
    BY <1>3
  <2>2. EngineAfter(s)[p] = Met(s, p, e)
    BY <1>1, <2>1, EngineTurns
  <2>3. EngineInv(s, n, e)
    BY <1>3
  <2> HIDE DEF e
  <2>4. EngineInv(s, p, Met(s, p, e))
    BY <2>1, <2>3, AlertsMeet, CountersMeet, BurstsMeet DEF EngineInv
  <2> QED
    BY <2>2, <2>4
<1> HIDE DEF Right
<1>4. Wrong = {}
  <2> SUFFICES ASSUME Wrong # {} PROVE FALSE
    OBVIOUS
  <2>1. PICK m \in Wrong : \A n \in Wrong : m <= n
    <3>1. Wrong \in SUBSET Nat
      BY <1>1
    <3> HIDE DEF Wrong
    <3> QED
      BY <3>1, LeastNatural
  <2>2. m \in 0 .. Len(s) /\ m # 0 /\ ~Right(m)
    BY <1>2
  <2>3. m - 1 \in Nat /\ m - 1 \in 0 .. Len(s) /\ (m - 1) + 1 = m /\ ~(m <= m - 1) /\ m \in 1 .. Len(s)
    BY <1>1, <2>2
  <2>4. Right(m - 1)
    BY <2>1, <2>3
  <2> QED
    BY <1>3, <2>2, <2>3, <2>4
<1>5. Len(s) \in 0 .. Len(s)
  BY <1>1
<1>6. Right(Len(s))
  BY <1>4, <1>5
<1> QED
  BY <1>6 DEF Right

\* Whatever the order of the stream: counters name its positions, and there
\* are finitely many alerts, with numbers in their columns.
EngineTyped(s, e) ==
    /\ \A k \in Keys : e.counters[k].stamps \subseteq 1 .. Len(s)
    /\ IsFiniteSet(e.alerts) /\ e.alerts \subseteq Candidate

LEMMA AlertAtType ==
    ASSUME NEW s \in Seq(Event), NEW p \in 1 .. Len(s), NEW rule \in Rules,
           NEW counter, counter.stamps \subseteq 1 .. Len(s)
    PROVE  /\ AlertAt(s, counter, p, rule) \in Candidate
           /\ Slide(s, counter, p, rule) \subseteq 1 .. Len(s)
<1> DEFINE B == Slide(s, counter, p, rule)
           at == [i \in 1 .. Len(s) |-> s[i].at]
           times == {at[i] : i \in B}
<1>1. /\ Len(s) \in Nat /\ p \in Nat /\ s[p].ip \in IPs
      /\ \A i \in 1 .. Len(s) : s[i].at \in Nat /\ at[i] = s[i].at
  <2>1. Len(s) \in Nat /\ \A i \in 1 .. Len(s) : s[i] \in Event
    BY LenProperties, ElementOfSeq
  <2> QED
    BY <2>1 DEF Event
<1>2. B \subseteq 1 .. Len(s) /\ p \in B
  BY DEF Slide
<1>3. IsFiniteSet(B) /\ Cardinality(B) \in Nat
  <2>1. IsFiniteSet(1 .. Len(s))
    BY <1>1, FS_Interval
  <2> HIDE DEF B
  <2> QED
    BY <1>2, <2>1, FS_Subset, FS_CardinalityType
<1>4. B \subseteq DOMAIN at
  BY <1>2
<1>5. {s[i].at : i \in B} = times
  BY <1>1, <1>2
<1> HIDE DEF at, B
<1>6. IsFiniteSet(times)
  BY <1>3, <1>4, FiniteReadings
<1>7. times \in SUBSET Nat /\ times # {}
  BY <1>1, <1>2
<1> HIDE DEF times
<1>8. Earliest(times) \in Int
  <2>1. times \in SUBSET Nat
    BY <1>7
  <2>2. \E t \in times : \A u \in times : t <= u
    BY <1>7, <2>1, LeastNatural
  <2>3. times \in SUBSET Int
    BY <1>7
  <2> QED
    BY <2>2, <2>3 DEF Earliest
<1>9. Latest(times) \in Int
  <2>1. times \in SUBSET Int
    BY <1>7
  <2>2. \E t \in times : \A u \in times : u <= t
    BY <1>6, <1>7, <2>1, GreatestOfFinite
  <2> QED
    BY <2>1, <2>2 DEF Latest
<1>10. AlertAt(s, counter, p, rule) =
          [rule |-> rule, ip |-> s[p].ip, position |-> p, started |-> Earliest(times),
           ended |-> Latest(times), count |-> Cardinality(B)]
  BY <1>5 DEF AlertAt, B
<1> QED
  BY <1>1, <1>2, <1>3, <1>8, <1>9, <1>10 DEF Candidate, B

LEMMA EngineTypedStep ==
    ASSUME NEW s \in Seq(Event), NEW p \in 1 .. Len(s), NEW e, EngineTyped(s, e)
    PROVE  EngineTyped(s, Met(s, p, e))
<1> DEFINE Raised == {rule \in Rules : /\ Applies(rule, s[p])
                                       /\ Fires(s, e.counters[<<rule, s[p].ip>>], p, rule)}
           raise == [rule \in Raised |-> AlertAt(s, e.counters[<<rule, s[p].ip>>], p, rule)]
           new == {raise[rule] : rule \in Raised}
<1>1. Met(s, p, e).alerts = e.alerts \cup new
  BY DEF Met, AlertsAfter
<1>2. s[p].ip \in IPs
  <2>1. s[p] \in Event
    BY ElementOfSeq
  <2> QED
    BY <2>1 DEF Event
<1>3. ASSUME NEW rule \in Raised
      PROVE  raise[rule] \in Candidate
  <2>1. <<rule, s[p].ip>> \in Keys
    BY <1>2 DEF Keys
  <2>2. e.counters[<<rule, s[p].ip>>].stamps \subseteq 1 .. Len(s)
    BY <2>1 DEF EngineTyped
  <2> QED
    BY <2>2, AlertAtType
<1>4. IsFiniteSet(Raised) /\ Raised \subseteq DOMAIN raise
  <2>1. Raised \in SUBSET Rules
    OBVIOUS
  <2> HIDE DEF Raised
  <2> QED
    BY <2>1, RunnerAssumption, FS_Subset
<1> HIDE DEF raise, Raised
<1>5. IsFiniteSet(new) /\ new \subseteq Candidate
  BY <1>3, <1>4, FiniteReadings
<1> HIDE DEF new
<1>6. IsFiniteSet(e.alerts \cup new) /\ e.alerts \cup new \subseteq Candidate
  BY <1>5, FS_Union DEF EngineTyped
<1>7. ASSUME NEW k \in Keys
      PROVE  Met(s, p, e).counters[k].stamps \subseteq 1 .. Len(s)
  <2>1. k[1] \in Rules /\ e.counters[k].stamps \subseteq 1 .. Len(s)
    BY DEF EngineTyped, Keys
  <2>2. Slide(s, e.counters[k], p, k[1]) \subseteq 1 .. Len(s)
    BY <2>1, AlertAtType
  <2> QED
    BY <2>1, <2>2, CounterMeets
<1> QED
  BY <1>1, <1>6, <1>7 DEF EngineTyped

\* The engine returns alerts for any stream of events.
LEMMA EngineReturnsAlerts ==
    ASSUME NEW s \in Seq(Event)
    PROVE  EngineTyped(s, EngineAfter(s)[Len(s)])
<1> DEFINE Right(n) == EngineTyped(s, EngineAfter(s)[n])
           Wrong == {n \in 0 .. Len(s) : ~Right(n)}
<1>1. Len(s) \in Nat
  BY LenProperties
<1>2. Right(0)
  <2> DEFINE e == EngineAfter(s)[0]
  <2>1. e = Fresh
    BY <1>1, EngineTurns
  <2>2. e.alerts = {} /\ \A k \in Keys : e.counters[k].stamps = {}
    BY <2>1 DEF Fresh, NoCounters, NoCounter
  <2> HIDE DEF e
  <2>3. EngineTyped(s, e)
    BY <2>2, FS_EmptySet DEF EngineTyped
  <2> QED
    BY <2>3 DEF e
<1>3. ASSUME NEW n \in 1 .. Len(s), Right(n - 1)
      PROVE  Right(n)
  <2> DEFINE e == EngineAfter(s)[n - 1]
  <2>1. EngineAfter(s)[n] = Met(s, n, e)
    BY <1>1, EngineTurns
  <2>2. EngineTyped(s, e)
    BY <1>3
  <2> HIDE DEF e
  <2>3. EngineTyped(s, Met(s, n, e))
    BY <2>2, EngineTypedStep
  <2> QED
    BY <2>1, <2>3
<1> HIDE DEF Right
<1>4. Wrong = {}
  <2> SUFFICES ASSUME Wrong # {} PROVE FALSE
    OBVIOUS
  <2>1. PICK m \in Wrong : \A n \in Wrong : m <= n
    <3>1. Wrong \in SUBSET Nat
      BY <1>1
    <3> HIDE DEF Wrong
    <3> QED
      BY <3>1, LeastNatural
  <2>2. m \in 1 .. Len(s) /\ ~Right(m)
    BY <1>1, <1>2
  <2>3. m - 1 \in 0 .. Len(s) /\ ~(m <= m - 1)
    BY <1>1, <2>2
  <2>4. Right(m - 1)
    BY <2>1, <2>3
  <2> QED
    BY <1>3, <2>2, <2>4
<1>5. Len(s) \in 0 .. Len(s)
  BY <1>1
<1>6. Right(Len(s))
  BY <1>4, <1>5
<1> QED
  BY <1>6 DEF Right

-----------------------------------------------------------------------------
(* What the engine returns *)

\* The events a run can have read.
Snapshots == {S \in SUBSET Event : IsFiniteSet(S)}

StreamOf(S)  == InOrder(S, ByTime(S))
FoundIn(S)   == EngineAfter(StreamOf(S))[Len(StreamOf(S))].alerts

LEMMA SnapshotListed ==
    ASSUME NEW S \in Snapshots
    PROVE  /\ Lists(StreamOf(S), S, ByTime(S)) /\ StreamOf(S) \in Seq(Event)
           /\ OneZone(S) => Stream(StreamOf(S))
<1> DEFINE s == StreamOf(S)
<1>1. S \in SUBSET Event /\ IsFiniteSet(S)
  BY DEF Snapshots
<1>2. Lists(s, S, ByTime(S))
  BY <1>1, RowsSortable, InOrderLists DEF StreamOf
<1> HIDE DEF s
<1>3. s \in Seq(S) /\ \A i \in 1 .. Len(s) : s[i] \in S
  BY <1>2, ElementOfSeq, LenProperties DEF Lists
<1>4. s \in Seq(Event)
  <2>1. s \in [1 .. Len(s) -> Event] /\ Len(s) \in Nat
    BY <1>1, <1>3, LenProperties
  <2> QED
    BY <2>1, SeqDef
<1>5. ASSUME OneZone(S), NEW i \in 1 .. Len(s), NEW j \in 1 .. Len(s), i < j, s[i].ip = s[j].ip
      PROVE  s[i].at <= s[j].at
  <2>1. <<s[j], s[i]>> \notin ByTime(S)
    BY <1>2, <1>5 DEF Lists
  <2>2. s[i] \in Event /\ s[j] \in Event /\ <<s[j], s[i]>> \in S \X S
    BY <1>1, <1>3
  <2>3. s[i].at \in Int /\ s[j].at \in Int /\ s[i].zone \in Int /\ s[i].zone = s[j].zone
    BY <1>5, <2>2 DEF Event, OneZone
  <2>4. ~(Reading(s[j]) < Reading(s[i]))
    BY <2>1, <2>2 DEF ByTime
  <2> QED
    BY <2>3, <2>4 DEF Reading
<1>6. Lists(s, S, ByTime(S)) /\ s \in Seq(Event) /\ (OneZone(S) => Stream(s))
  BY <1>2, <1>4, <1>5 DEF Stream
<1> QED
  BY <1>6 DEF s

\* The candidates are the alerts the engine found, each once.
LEMMA FoundListed ==
    ASSUME NEW S \in Snapshots
    PROVE  /\ FoundIn(S) \subseteq Candidate
           /\ Lists(Candidates(S), FoundIn(S), ByPosition(FoundIn(S)))
<1> DEFINE s == StreamOf(S)
           e == EngineAfter(s)[Len(s)]
<1>1. Candidates(S) = InOrder(FoundIn(S), ByPosition(FoundIn(S))) /\ FoundIn(S) = e.alerts
  BY DEF Candidates, FoundIn, StreamOf
<1>2. EngineTyped(s, e)
  BY SnapshotListed, EngineReturnsAlerts
<1> HIDE DEF e, s
<1>3. IsFiniteSet(FoundIn(S)) /\ FoundIn(S) \subseteq Candidate
  BY <1>1, <1>2 DEF EngineTyped
<1>4. \A a \in FoundIn(S) : a.position \in Nat
  BY <1>3 DEF Candidate
<1>5. Lists(Candidates(S), FoundIn(S), ByPosition(FoundIn(S)))
  BY <1>1, <1>3, <1>4, AlertsSortable, InOrderLists
<1> QED
  BY <1>3, <1>5

\* They tell what is so if no address mixes UTC offsets.
LEMMA FoundTells ==
    ASSUME NEW S \in Snapshots, OneZone(S)
    PROVE  /\ EngineInv(StreamOf(S), Len(StreamOf(S)), EngineAfter(StreamOf(S))[Len(StreamOf(S))])
           /\ \A a \in FoundIn(S) : Tells(StreamOf(S), a)
<1> DEFINE s == StreamOf(S)
           e == EngineAfter(s)[Len(s)]
<1>1. FoundIn(S) = e.alerts
  BY DEF FoundIn
<1>2. EngineInv(s, Len(s), e)
  BY SnapshotListed, EngineKeeps
<1> HIDE DEF e, s
<1>3. \A a \in FoundIn(S) : Tells(s, a)
  BY <1>1, <1>2 DEF EngineInv, AlertsRight
<1> QED
  BY <1>2, <1>3 DEF e, s

\* The events at some positions; there are as many.
RowsAt(s, B) == {s[i] : i \in B}

LEMMA PlacesCount ==
    ASSUME NEW S \in Snapshots, NEW s, Lists(s, S, ByTime(S)), NEW B \in SUBSET (1 .. Len(s))
    PROVE  IsFiniteSet(RowsAt(s, B)) /\ Cardinality(RowsAt(s, B)) = Cardinality(B)
<1> DEFINE T == {s[i] : i \in B}
           f == [i \in B |-> s[i]]
<1>1. Len(s) \in Nat
  BY LenProperties DEF Lists
<1>2. IsFiniteSet(B)
  <2>1. IsFiniteSet(1 .. Len(s))
    BY <1>1, FS_Interval
  <2> QED
    BY <2>1, FS_Subset
<1>3. ASSUME NEW i \in B, NEW j \in B, i # j
      PROVE  s[i] # s[j]
  <2>1. i \in 1 .. Len(s) /\ j \in 1 .. Len(s) /\ (i < j \/ j < i)
    BY <1>1, <1>3
  <2> QED
    BY <2>1 DEF Lists
<1>4. f \in Bijection(B, T)
  BY <1>3 DEF Bijection, Injection, Surjection, IsInjective
<1> HIDE DEF f, T
<1>5. ExistsBijection(B, T)
  BY <1>4 DEF ExistsBijection
<1>6. IsFiniteSet(T) /\ Cardinality(T) = Cardinality(B)
  BY <1>2, <1>5, FS_Bijection
<1> QED
  BY <1>6 DEF T, RowsAt

\* The engine returns a list of candidates.
LEMMA EngineReturns ==
    ASSUME NEW S \in Snapshots
    PROVE  Returns(S)
<1>1. Candidates(S) \in Seq(FoundIn(S)) /\ FoundIn(S) \subseteq Candidate
  BY FoundListed DEF Lists
<1>2. Candidates(S) \in [1 .. Len(Candidates(S)) -> Candidate] /\ Len(Candidates(S)) \in Nat
  BY <1>1, LenProperties
<1> QED
  BY <1>2, SeqDef DEF Returns

\* A candidate stands for as many events of the snapshot as it says, if no
\* address of the snapshot mixes UTC offsets.
THEOREM EngineJustified ==
    ASSUME NEW S \in Snapshots, OneZone(S)
    PROVE  Justified(S)
<1> SUFFICES ASSUME NEW k \in DOMAIN Candidates(S), NEW c, c = Candidates(S)[k]
             PROVE  /\ c.ended - c.started <= RuleOf[c.rule].window
                    /\ c.count >= RuleOf[c.rule].count
                    /\ Cardinality(BurstOf(S, c.rule, c.ip, c.started, c.ended)) >= c.count
  BY DEF Justified
<1> DEFINE s == StreamOf(S)
<1>1. Lists(s, S, ByTime(S)) /\ Stream(s)
  BY SnapshotListed
<1>2. Tells(s, c)
  <2>1. Candidates(S) \in Seq(FoundIn(S)) /\ \A a \in FoundIn(S) : Tells(s, a)
    BY FoundListed, FoundTells DEF Lists
  <2>2. c \in FoundIn(S)
    BY <2>1, ElementOfSeq
  <2> QED
    BY <2>1, <2>2
<1> HIDE DEF s
<1>3. PICK B \in SUBSET MatchedPlaces(s, Len(s), c.rule, c.ip) :
         /\ c.count = Cardinality(B)
         /\ \A i \in B : c.started <= s[i].at /\ s[i].at <= c.ended
  BY <1>2 DEF Tells
<1> DEFINE T == RowsAt(s, B)
           all == BurstOf(S, c.rule, c.ip, c.started, c.ended)
<1>4. B \in SUBSET (1 .. Len(s))
  BY DEF MatchedPlaces
<1>5. Cardinality(T) = c.count
  BY <1>1, <1>3, <1>4, PlacesCount
<1>6. c.started \in Int /\ c.ended \in Int /\ c.count \in Nat
  BY <1>2 DEF Tells, Candidate
<1>7. T \subseteq all
  <2> SUFFICES ASSUME NEW i \in B PROVE s[i] \in all
    BY DEF RowsAt
  <2>1. s[i] \in S /\ s[i].at \in Int
    <3>1. i \in 1 .. Len(s) /\ s \in Seq(S)
      BY <1>1, <1>4 DEF Lists
    <3>2. s[i] \in S
      BY <3>1, ElementOfSeq, LenProperties
    <3> QED
      BY <1>1, <3>1, <3>2, RowOfStream
  <2>2. c.rule \in s[i].matches /\ s[i].ip = c.ip
    BY <1>3 DEF MatchedPlaces, Applies
  <2>3. s[i].at \in c.started .. c.ended
    BY <1>3, <1>6, <2>1
  <2> QED
    BY <2>1, <2>2, <2>3 DEF BurstOf
<1>8. all \in SUBSET S /\ IsFiniteSet(S)
  BY DEF BurstOf, Snapshots
<1> HIDE DEF T, all
<1>9. IsFiniteSet(all) /\ Cardinality(all) \in Nat /\ Cardinality(T) <= Cardinality(all)
  BY <1>7, <1>8, FS_Subset, FS_CardinalityType
<1>10. Cardinality(all) >= c.count
  BY <1>5, <1>6, <1>9
<1> QED
  BY <1>2, <1>10 DEF Tells, all

\* Under the same condition, a burst of the snapshot has a candidate at most a
\* cooldown older: the last event of its instant saw all of it.
THEOREM EngineComplete ==
    ASSUME NEW S \in Snapshots, OneZone(S)
    PROVE  Complete(S)
<1> SUFFICES ASSUME NEW rule \in Rules, NEW e \in Bursts(S, rule)
             PROVE  \E k \in DOMAIN Candidates(S) :
                       LET c == Candidates(S)[k] IN
                       c.rule = rule /\ c.ip = e.ip /\ c.ended >= e.at - RuleOf[rule].cooldown
  BY DEF Complete
<1> DEFINE s == StreamOf(S)
           window == RuleOf[rule].window
           burst == BurstOf(S, rule, e.ip, e.at - window, e.at)
           places == {i \in 1 .. Len(s) : Applies(rule, s[i]) /\ s[i].ip = e.ip /\ s[i].at = e.at}
<1>1. /\ e \in S /\ Applies(rule, e) /\ Cardinality(burst) >= RuleOf[rule].count
      /\ S \in SUBSET Event /\ IsFiniteSet(S)
  BY DEF Bursts, Snapshots
<1>2. Lists(s, S, ByTime(S)) /\ Stream(s) /\ Len(s) \in Nat
  BY SnapshotListed, RowOfStream
<1>3. e.at \in Int /\ window \in Nat
  BY <1>1, RuleNumbers DEF Event
<1> HIDE DEF s, window
<1>4. PICK p \in places : \A q \in places : q <= p
  <2>1. places # {}
    BY <1>1, <1>2 DEF Lists
  <2> DEFINE bound == Len(s)
  <2>2. bound \in Int /\ places \in SUBSET Int /\ \A q \in places : q <= bound
    BY <1>2
  <2> HIDE DEF places, bound
  <2> QED
    BY <2>1, <2>2, GreatestInteger
<1>5. p \in 1 .. Len(s) /\ Applies(rule, s[p]) /\ s[p].ip = e.ip /\ s[p].at = e.at
  OBVIOUS
<1> DEFINE B == Upto(s, p, rule)
           T == RowsAt(s, B)
<1>6. burst \subseteq T
  <2> SUFFICES ASSUME NEW f \in burst PROVE f \in T
    OBVIOUS
  <2>1. /\ f \in S /\ rule \in f.matches /\ f.ip = e.ip
        /\ f.at \in Int /\ e.at - window <= f.at /\ f.at <= e.at
    BY <1>3 DEF BurstOf
  <2>2. PICK i \in 1 .. Len(s) : s[i] = f
    BY <1>2, <2>1 DEF Lists
  <2>3. Applies(rule, s[i])
    BY <1>1, <2>1, <2>2 DEF Applies
  <2>4. i <= p
    <3> SUFFICES ASSUME p < i PROVE FALSE
      BY <1>2, <1>5
    <3>1. s[p].at <= s[i].at
      BY <1>2, <1>5, <2>1, <2>2 DEF Stream
    <3>2. s[i].at = e.at
      BY <1>3, <1>5, <2>1, <2>2, <3>1
    <3>3. i \in places
      BY <2>1, <2>2, <2>3, <3>2
    <3>4. i <= p
      BY <1>4, <3>3
    <3> QED
      BY <1>2, <1>5, <3>4
  <2>5. i \in MatchedPlaces(s, p, rule, s[p].ip)
    <3>1. i \in 1 .. p
      BY <1>2, <1>5, <2>4
    <3> QED
      BY <1>5, <2>1, <2>2, <2>3, <3>1 DEF MatchedPlaces
  <2>6. s[p].at - s[i].at <= window
    BY <1>3, <1>5, <2>1, <2>2
  <2>7. i \in B
    BY <2>5, <2>6 DEF Upto, window
  <2> HIDE DEF B
  <2> QED
    BY <2>2, <2>7 DEF RowsAt
<1>7. B \in SUBSET (1 .. Len(s)) /\ Cardinality(B) \in Nat
  <2>1. B \subseteq 1 .. p /\ Cardinality(B) \in Nat
    BY <1>2, <1>5, BurstParts
  <2> HIDE DEF B
  <2> QED
    BY <1>2, <1>5, <2>1
<1> HIDE DEF B, burst
<1>8. IsFiniteSet(T) /\ Cardinality(T) = Cardinality(B)
  BY <1>2, <1>7, PlacesCount
<1> HIDE DEF T
<1>9. Cardinality(B) >= RuleOf[rule].count
  <2>1. Cardinality(burst) \in Nat /\ Cardinality(burst) <= Cardinality(T)
    BY <1>6, <1>8, FS_Subset, FS_CardinalityType
  <2> QED
    BY <1>1, <1>7, <1>8, <2>1, RuleNumbers
<1>10. PICK a \in FoundIn(S) :
          a.rule = rule /\ a.ip = s[p].ip /\ a.ended >= s[p].at - RuleOf[rule].cooldown
  <2>1. BurstsMet(s, Len(s), EngineAfter(s)[Len(s)])
    BY FoundTells DEF EngineInv, s
  <2>2. \E a \in EngineAfter(s)[Len(s)].alerts :
           a.rule = rule /\ a.ip = s[p].ip /\ a.ended >= s[p].at - RuleOf[rule].cooldown
    BY <1>5, <1>9, <2>1 DEF BurstsMet, B
  <2> QED
    BY <2>2 DEF FoundIn, s
<1>11. PICK k \in 1 .. Len(Candidates(S)) : Candidates(S)[k] = a
  BY FoundListed DEF Lists
<1>12. k \in DOMAIN Candidates(S)
  BY FoundListed, LenProperties DEF Lists
<1> QED
  BY <1>5, <1>10, <1>11, <1>12

-----------------------------------------------------------------------------
(* The runs *)

\* One runner, as the worker's container is.
OneRunner == \A v, w \in Runners : v = w

Alert == [rule : Rules, ip : IPs, started : Int, ended : Int, count : Nat,
          status : Statuses, reopened : BOOLEAN]

Run == [pc : {"idle", "check", "insert", "notify"}, snapshot : Snapshots,
        queue : Seq(Candidate), row : Nat]

Typed ==
    /\ clock \in Nat
    /\ events \in Snapshots
    /\ alerts \in Seq(Alert)
    /\ runner \in [Runners -> Run]
    /\ crashes \in Nat
    /\ \A w \in Runners :
          /\ runner[w].pc \in {"insert", "notify"} => runner[w].queue # << >>
          /\ runner[w].pc # "notify" => runner[w].row = 0
          /\ runner[w].pc = "notify" =>
                /\ runner[w].row \in DOMAIN alerts
                /\ alerts[runner[w].row].rule = Head(runner[w].queue).rule

-----------------------------------------------------------------------------
(* The pieces of a step *)

LEMMA EmptyRun ==
    /\ {} \in Snapshots /\ NoRun \in Run
    /\ NoRun.pc = "idle" /\ NoRun.row = 0 /\ NoRun.queue = << >> /\ NoRun.snapshot = {}
<1>1. {} \in Snapshots
  BY FS_EmptySet DEF Snapshots
<1>2. << >> \in Seq(Candidate)
  OBVIOUS
<1> QED
  BY <1>1, <1>2 DEF NoRun, Run

\* A step on one runner leaves the others.
LEMMA RunnerStep ==
    ASSUME runner \in [Runners -> Run], NEW w \in Runners, NEW q \in Run,
           runner' = [runner EXCEPT ![w] = q]
    PROVE  /\ runner' \in [Runners -> Run] /\ runner'[w] = q
           /\ \A v \in Runners : v # w => runner'[v] = runner[v]
OBVIOUS

\* What the steps of a run do to it.
LEMMA StartEffect ==
    ASSUME Typed, NEW w \in Runners, StartRun(w)
    PROVE  LET seen == {e \in events : e.at >= clock - Lookback} IN
           /\ UNCHANGED <<clock, events, alerts, inbox, crashes>>
           /\ runner[w].pc = "idle" /\ seen \in Snapshots
           /\ runner' \in [Runners -> Run]
           /\ runner'[w].pc = "check" /\ runner'[w].row = 0
           /\ runner'[w].snapshot = seen /\ runner'[w].queue = Candidates(seen)
           /\ \A v \in Runners : v # w => runner'[v] = runner[v]
<1> DEFINE seen == {e \in events : e.at >= clock - Lookback}
           q == [pc |-> "check", snapshot |-> seen, queue |-> Candidates(seen), row |-> 0]
<1>1. seen \in Snapshots
  BY FS_Subset DEF Typed, Snapshots
<1>2. Candidates(seen) \in Seq(Candidate)
  <2> HIDE DEF seen
  <2> QED
    BY <1>1, EngineReturns DEF Returns
<1>3. q \in Run
  <2> HIDE DEF seen
  <2> QED
    BY <1>1, <1>2 DEF Run
<1>4. /\ UNCHANGED <<clock, events, alerts, inbox, crashes>> /\ runner[w].pc = "idle"
      /\ runner' = [runner EXCEPT ![w] = q]
  BY DEF StartRun
<1>5. q.pc = "check" /\ q.row = 0 /\ q.snapshot = seen /\ q.queue = Candidates(seen)
  OBVIOUS
<1> HIDE DEF q, seen
<1>6. /\ runner' \in [Runners -> Run] /\ runner'[w] = q
      /\ \A v \in Runners : v # w => runner'[v] = runner[v]
  BY <1>3, <1>4, RunnerStep DEF Typed
<1>7. /\ UNCHANGED <<clock, events, alerts, inbox, crashes>>
      /\ runner[w].pc = "idle" /\ seen \in Snapshots
      /\ runner' \in [Runners -> Run]
      /\ runner'[w].pc = "check" /\ runner'[w].row = 0
      /\ runner'[w].snapshot = seen /\ runner'[w].queue = Candidates(seen)
      /\ \A v \in Runners : v # w => runner'[v] = runner[v]
  BY <1>1, <1>4, <1>5, <1>6
<1> QED
  BY <1>7 DEF seen

\* The head of a queue is a candidate, and the tail a queue.
LEMMA QueueParts ==
    ASSUME NEW queue \in Seq(Candidate), queue # << >>
    PROVE  /\ Head(queue) \in Candidate /\ Tail(queue) \in Seq(Candidate)
           /\ 1 \in DOMAIN queue /\ Head(queue) = queue[1]
           /\ \A k \in DOMAIN queue : k = 1 \/ \E l \in DOMAIN Tail(queue) : Tail(queue)[l] = queue[k]
<1>1. Len(queue) \in Nat /\ Len(queue) # 0 /\ DOMAIN queue = 1 .. Len(queue)
  BY EmptySeq, LenProperties
<1>2. Head(queue) \in Candidate /\ Tail(queue) \in Seq(Candidate) /\ Head(queue) = queue[1]
  BY <1>1
<1>3. /\ DOMAIN Tail(queue) = 1 .. Len(queue) - 1
      /\ \A l \in 1 .. Len(queue) - 1 : Tail(queue)[l] = queue[l + 1]
  BY <1>1
<1>4. ASSUME NEW k \in DOMAIN queue, k # 1
      PROVE  \E l \in DOMAIN Tail(queue) : Tail(queue)[l] = queue[k]
  <2>1. k - 1 \in 1 .. Len(queue) - 1 /\ (k - 1) + 1 = k
    BY <1>1, <1>4
  <2> QED
    BY <1>3, <2>1
<1> QED
  BY <1>1, <1>2, <1>4

LEMMA TailParts ==
    ASSUME NEW queue \in Seq(Candidate), queue # << >>
    PROVE  \A l \in DOMAIN Tail(queue) : \E k \in DOMAIN queue : Tail(queue)[l] = queue[k]
<1>1. Len(queue) \in Nat /\ Len(queue) # 0 /\ DOMAIN queue = 1 .. Len(queue)
  BY EmptySeq, LenProperties
<1>2. /\ DOMAIN Tail(queue) = 1 .. Len(queue) - 1
      /\ \A l \in 1 .. Len(queue) - 1 : Tail(queue)[l] = queue[l + 1]
  BY <1>1
<1> QED
  BY <1>1, <1>2

\* A candidate is dropped or mailed, or the loop moves on to its insert: the
\* runner changes, and keeps its snapshot.
LEMMA LoopEffect ==
    ASSUME Typed, NEW w \in Runners, SkipDuplicate(w) \/ PassCheck(w) \/ Notify(w)
    PROVE  /\ UNCHANGED <<clock, events, alerts, crashes>>
           /\ runner[w].queue # << >>
           /\ runner' \in [Runners -> Run]
           /\ runner'[w].snapshot = runner[w].snapshot /\ runner'[w].row = 0
           /\ PassCheck(w) => /\ runner'[w].pc = "insert" /\ inbox' = inbox
                              /\ runner'[w].queue = runner[w].queue
                              /\ Duplicates(Head(runner[w].queue)) = {}
           /\ ~PassCheck(w) => /\ runner'[w].pc = "check"
                               /\ runner'[w].queue = Tail(runner[w].queue)
           /\ SkipDuplicate(w) => /\ runner[w].pc = "check" /\ inbox' = inbox
                                  /\ Duplicates(Head(runner[w].queue)) # {}
           /\ \A v \in Runners : v # w => runner'[v] = runner[v]
<1>1. /\ UNCHANGED <<clock, events, alerts, crashes>>
      /\ runner[w].queue # << >> /\ runner[w] \in Run
  BY DEF SkipDuplicate, PassCheck, Notify, Typed
<1>2. Tail(runner[w].queue) \in Seq(Candidate)
  BY <1>1, QueueParts DEF Run
<1>3. CASE PassCheck(w)
  <2> DEFINE q == [runner[w] EXCEPT !.pc = "insert"]
  <2>1. /\ q \in Run /\ q.pc = "insert" /\ q.queue = runner[w].queue
        /\ q.snapshot = runner[w].snapshot /\ q.row = runner[w].row
    BY <1>1 DEF Run
  <2>2. runner' = [runner EXCEPT ![w] = q] /\ inbox' = inbox
    BY <1>3 DEF PassCheck, Typed
  <2>3. runner[w].row = 0 /\ Duplicates(Head(runner[w].queue)) = {}
    BY <1>3 DEF PassCheck, Typed
  <2> HIDE DEF q
  <2>4. /\ runner' \in [Runners -> Run] /\ runner'[w] = q
        /\ \A v \in Runners : v # w => runner'[v] = runner[v]
    BY <2>1, <2>2, RunnerStep DEF Typed
  <2>5. ~SkipDuplicate(w)
    BY <2>3 DEF SkipDuplicate
  <2> QED
    BY <1>1, <1>3, <2>1, <2>2, <2>3, <2>4, <2>5
<1>4. CASE ~PassCheck(w)
  <2> DEFINE q == [runner[w] EXCEPT !.pc = "check", !.queue = Tail(runner[w].queue), !.row = 0]
  <2>1. /\ q \in Run /\ q.pc = "check" /\ q.queue = Tail(runner[w].queue)
        /\ q.snapshot = runner[w].snapshot /\ q.row = 0
    BY <1>1, <1>2 DEF Run
  <2>2. SkipDuplicate(w) => /\ runner[w].pc = "check" /\ inbox' = inbox
                            /\ Duplicates(Head(runner[w].queue)) # {}
    BY DEF SkipDuplicate
  <2>3. runner' = [runner EXCEPT ![w] = q]
    <3>1. CASE SkipDuplicate(w)
      <4>1. runner[w].pc = "check" /\ runner[w].row = 0
        BY <3>1 DEF SkipDuplicate, Typed
      <4>2. q = [runner[w] EXCEPT !.queue = Tail(runner[w].queue)]
        BY <1>1, <4>1 DEF Run
      <4> QED
        BY <3>1, <4>2 DEF SkipDuplicate, Typed
    <3>2. CASE Notify(w)
      BY <3>2 DEF Notify, Typed
    <3> QED
      BY <1>4, <3>1, <3>2
  <2> HIDE DEF q
  <2>4. /\ runner' \in [Runners -> Run] /\ runner'[w] = q
        /\ \A v \in Runners : v # w => runner'[v] = runner[v]
    BY <2>1, <2>3, RunnerStep DEF Typed
  <2> QED
    BY <1>1, <1>4, <2>1, <2>2, <2>4
<1> QED
  BY <1>3, <1>4

\* An alert is appended for the candidate, and is the one to be mailed.
LEMMA InsertEffect ==
    ASSUME Typed, NEW w \in Runners, InsertAlert(w)
    PROVE  LET c == Head(runner[w].queue) IN
           /\ UNCHANGED <<clock, events, inbox, crashes>>
           /\ runner[w].pc = "insert" /\ c \in Candidate
           /\ alerts' \in Seq(Alert) /\ Len(alerts) \in Nat
           /\ DOMAIN alerts = 1 .. Len(alerts) /\ DOMAIN alerts' = 1 .. Len(alerts) + 1
           /\ \A i \in DOMAIN alerts : alerts'[i] = alerts[i]
           /\ LET a == alerts'[Len(alerts) + 1] IN
              /\ a.rule = c.rule /\ a.ip = c.ip /\ a.started = c.started
              /\ a.ended = c.ended /\ a.count = c.count
              /\ a.status = "open" /\ a.reopened = FALSE
           /\ runner' \in [Runners -> Run]
           /\ runner'[w].pc = "notify" /\ runner'[w].row = Len(alerts) + 1
           /\ runner'[w].queue = runner[w].queue /\ runner'[w].snapshot = runner[w].snapshot
           /\ \A v \in Runners : v # w => runner'[v] = runner[v]
<1> DEFINE c == Head(runner[w].queue)
           a == [rule |-> c.rule, ip |-> c.ip, started |-> c.started, ended |-> c.ended,
                 count |-> c.count, status |-> "open", reopened |-> FALSE]
           n == Len(alerts) + 1
           q == [runner[w] EXCEPT !.pc = "notify", !.row = n]
<1>1. /\ UNCHANGED <<clock, events, inbox, crashes>> /\ runner[w].pc = "insert"
      /\ runner[w].queue # << >> /\ runner[w] \in Run
  BY DEF InsertAlert, Typed
<1>2. c \in Candidate
  BY <1>1, QueueParts DEF Run
<1>3. a \in Alert
  <2> HIDE DEF c
  <2> QED
    BY <1>2 DEF Candidate, Alert, Statuses
<1>4. alerts' = Append(alerts, a) /\ alerts \in Seq(Alert) /\ Len(alerts) \in Nat
  BY LenProperties DEF InsertAlert, Typed
<1>5. /\ q \in Run /\ q.pc = "notify" /\ q.row = n
      /\ q.queue = runner[w].queue /\ q.snapshot = runner[w].snapshot
  <2>1. n \in Nat
    BY <1>4
  <2> HIDE DEF n
  <2> QED
    BY <1>1, <2>1 DEF Run
<1>6. runner' = [runner EXCEPT ![w] = q]
  BY DEF InsertAlert, Typed
<1>9. /\ a.rule = c.rule /\ a.ip = c.ip /\ a.started = c.started
      /\ a.ended = c.ended /\ a.count = c.count
      /\ a.status = "open" /\ a.reopened = FALSE
  OBVIOUS
<1> HIDE DEF a, q, c
<1>7. /\ alerts' \in Seq(Alert) /\ DOMAIN alerts = 1 .. Len(alerts)
      /\ DOMAIN alerts' = 1 .. Len(alerts) + 1
      /\ \A i \in 1 .. Len(alerts) : alerts'[i] = alerts[i]
      /\ alerts'[Len(alerts) + 1] = a
  BY <1>3, <1>4, AppendProperties, LenProperties
<1>8. /\ runner' \in [Runners -> Run] /\ runner'[w] = q
      /\ \A v \in Runners : v # w => runner'[v] = runner[v]
  BY <1>5, <1>6, RunnerStep DEF Typed
<1> QED
  BY <1>1, <1>2, <1>4, <1>5, <1>7, <1>8, <1>9 DEF c

\* The run is over, whole or not.
LEMMA EndEffect ==
    ASSUME Typed, NEW w \in Runners, FinishRun(w) \/ Crash(w)
    PROVE  /\ UNCHANGED <<clock, events, alerts, inbox>>
           /\ FinishRun(w) => crashes' = crashes /\ runner[w].pc = "check" /\ runner[w].row = 0
           /\ ~FinishRun(w) => crashes' = crashes + 1
           /\ runner' \in [Runners -> Run] /\ runner'[w] = NoRun
           /\ \A v \in Runners : v # w => runner'[v] = runner[v]
<1>1. runner' = [runner EXCEPT ![w] = NoRun]
  BY DEF FinishRun, Crash
<1>2. /\ runner' \in [Runners -> Run] /\ runner'[w] = NoRun
      /\ \A v \in Runners : v # w => runner'[v] = runner[v]
  BY <1>1, EmptyRun, RunnerStep DEF Typed
<1>3. UNCHANGED <<clock, events, alerts, inbox>>
  BY DEF FinishRun, Crash
<1>4. FinishRun(w) => crashes' = crashes /\ runner[w].pc = "check" /\ runner[w].row = 0
  BY DEF FinishRun, Typed
<1>5. ~FinishRun(w) => crashes' = crashes + 1
  BY DEF Crash
<1> QED
  BY <1>2, <1>3, <1>4, <1>5

\* An analyst moves an alert; what it says of the burst stays.
LEMMA StatusEffect ==
    ASSUME Typed, NEW i \in DOMAIN alerts, NEW status \in Statuses, SetStatus(i, status)
    PROVE  /\ UNCHANGED <<clock, events, runner, inbox, crashes>>
           /\ alerts' \in Seq(Alert) /\ DOMAIN alerts' = DOMAIN alerts
           /\ \A j \in DOMAIN alerts : j # i => alerts'[j] = alerts[j]
           /\ alerts'[i].rule = alerts[i].rule /\ alerts'[i].ip = alerts[i].ip
           /\ alerts'[i].started = alerts[i].started /\ alerts'[i].ended = alerts[i].ended
           /\ alerts'[i].count = alerts[i].count
           /\ alerts'[i].status = status
           /\ alerts'[i].reopened = (alerts[i].reopened \/ alerts[i].status = "closed")
<1> DEFINE a == [alerts[i] EXCEPT !.status = status,
                                  !.reopened = @ \/ alerts[i].status = "closed"]
<1>1. alerts[i] \in Alert /\ alerts \in Seq(Alert)
  BY ElementOfSeq DEF Typed
<1>2. /\ a \in Alert /\ a.rule = alerts[i].rule /\ a.ip = alerts[i].ip
      /\ a.started = alerts[i].started /\ a.ended = alerts[i].ended /\ a.count = alerts[i].count
      /\ a.status = status
      /\ a.reopened = (alerts[i].reopened \/ alerts[i].status = "closed")
  BY <1>1 DEF Alert
<1>3. alerts' = [alerts EXCEPT ![i] = a] /\ UNCHANGED <<clock, events, runner, inbox, crashes>>
  BY DEF SetStatus
<1> HIDE DEF a
<1>4. alerts' \in Seq(Alert) /\ DOMAIN alerts' = DOMAIN alerts /\ alerts'[i] = a
      /\ \A j \in DOMAIN alerts : j # i => alerts'[j] = alerts[j]
  BY <1>1, <1>2, <1>3, ExceptSeq
<1> QED
  BY <1>2, <1>3, <1>4

LEMMA ZonesAreOffsets ==
    ASSUME NEW ip \in IPs, NEW zone \in ZonesOf[ip]
    PROVE  zone \in Int
BY RunnerAssumption

LEMMA IngestEffect ==
    ASSUME Typed, NEW at \in 0 .. clock + Ahead, NEW zone \in Int, NEW ip \in IPs,
           NEW matches \in SUBSET Rules, Ingest(at, zone, ip, matches)
    PROVE  /\ UNCHANGED <<clock, alerts, runner, inbox, crashes>>
           /\ events' \in Snapshots /\ events \subseteq events'
<1> DEFINE alike == {e \in events : /\ e.at = at /\ e.zone = zone
                                    /\ e.ip = ip /\ e.matches = matches}
           new == [id |-> Cardinality(alike) + 1, at |-> at, zone |-> zone,
                   ip |-> ip, matches |-> matches]
<1>1. /\ UNCHANGED <<clock, alerts, runner, inbox, crashes>> /\ events' = events \cup {new}
  BY DEF Ingest
<1>2. Cardinality(alike) \in Nat
  BY FS_Subset, FS_CardinalityType DEF Typed, Snapshots
<1>3. at \in Nat
  BY RunnerAssumption DEF Typed
<1>4. new \in Event
  <2> HIDE DEF alike
  <2> QED
    BY <1>2, <1>3 DEF Event
<1> HIDE DEF new
<1>5. events' \in SUBSET Event /\ IsFiniteSet(events') /\ events \subseteq events'
  BY <1>1, <1>4, FS_AddElement DEF Typed, Snapshots
<1> QED
  BY <1>1, <1>5 DEF Snapshots

LEMMA AlertTyped ==
    ASSUME Typed, NEW i \in DOMAIN alerts
    PROVE  alerts[i] \in Alert /\ alerts[i].ended \in Int
           /\ alerts[i].status \in {"open", "triaged", "closed"}
<1>1. alerts[i] \in Alert
  BY ElementOfSeq DEF Typed
<1> QED
  BY <1>1 DEF Alert, Statuses

-----------------------------------------------------------------------------
(* Types, and alerts that stay *)

LEMMA TypedStart == Init => Typed
<1> SUFFICES ASSUME Init PROVE Typed
  OBVIOUS
<1>1. \A w \in Runners : runner[w] = NoRun
  BY DEF Init
<1>2. runner \in [Runners -> Run]
  BY EmptyRun DEF Init
<1>3. alerts \in Seq(Alert) /\ events \in Snapshots /\ clock \in Nat /\ crashes \in Nat
  BY EmptyRun DEF Init
<1> QED
  BY <1>1, <1>2, <1>3, EmptyRun DEF Typed

\* An alert, once committed, goes on to say the same of its burst.
Stays == \A i \in DOMAIN alerts :
            /\ i \in DOMAIN alerts'
            /\ alerts'[i].rule = alerts[i].rule /\ alerts'[i].ip = alerts[i].ip
            /\ alerts'[i].started = alerts[i].started /\ alerts'[i].ended = alerts[i].ended
            /\ alerts'[i].count = alerts[i].count

LEMMA TypedStep ==
    ASSUME Typed, [Next]_vars
    PROVE  Typed' /\ Stays /\ events \subseteq events'
<1>1. CASE Tick
  BY <1>1 DEF Tick, Typed, Stays
<1>2. ASSUME NEW at \in 0 .. clock + Ahead, NEW ip \in IPs, NEW zone \in ZonesOf[ip],
             NEW matches \in SUBSET Rules, Ingest(at, zone, ip, matches)
      PROVE  Typed' /\ Stays /\ events \subseteq events'
  <2>1. /\ UNCHANGED <<clock, alerts, runner, inbox, crashes>>
        /\ events' \in Snapshots /\ events \subseteq events'
    BY <1>2, IngestEffect, ZonesAreOffsets
  <2> QED
    BY <2>1 DEF Typed, Stays
<1>3. ASSUME NEW w \in Runners, StartRun(w)
      PROVE  Typed' /\ Stays /\ events \subseteq events'
  <2>1. /\ UNCHANGED <<clock, events, alerts, inbox, crashes>>
        /\ runner' \in [Runners -> Run] /\ runner'[w].pc = "check" /\ runner'[w].row = 0
        /\ \A v \in Runners : v # w => runner'[v] = runner[v]
    BY <1>3, StartEffect
  <2> QED
    BY <2>1 DEF Typed, Stays
<1>4. ASSUME NEW w \in Runners, SkipDuplicate(w) \/ PassCheck(w) \/ Notify(w)
      PROVE  Typed' /\ Stays /\ events \subseteq events'
  <2>1. /\ UNCHANGED <<clock, events, alerts, crashes>> /\ runner[w].queue # << >>
        /\ runner' \in [Runners -> Run] /\ runner'[w].row = 0
        /\ PassCheck(w) => /\ runner'[w].pc = "insert"
                           /\ runner'[w].queue = runner[w].queue
        /\ ~PassCheck(w) => runner'[w].pc = "check"
        /\ \A v \in Runners : v # w => runner'[v] = runner[v]
    BY <1>4, LoopEffect
  <2> QED
    BY <2>1 DEF Typed, Stays
<1>5. ASSUME NEW w \in Runners, InsertAlert(w)
      PROVE  Typed' /\ Stays /\ events \subseteq events'
  <2> DEFINE n == Len(alerts) + 1
             c == Head(runner[w].queue)
  <2>1. /\ UNCHANGED <<clock, events, inbox, crashes>>
        /\ runner[w].pc = "insert" /\ alerts' \in Seq(Alert)
        /\ DOMAIN alerts = 1 .. Len(alerts) /\ DOMAIN alerts' = 1 .. n /\ Len(alerts) \in Nat
        /\ \A i \in DOMAIN alerts : alerts'[i] = alerts[i]
        /\ alerts'[n].rule = c.rule
        /\ runner' \in [Runners -> Run]
        /\ runner'[w].pc = "notify" /\ runner'[w].row = n
        /\ runner'[w].queue = runner[w].queue
        /\ \A v \in Runners : v # w => runner'[v] = runner[v]
    BY <1>5, InsertEffect
  <2>2. n \in DOMAIN alerts' /\ \A i \in DOMAIN alerts : i \in DOMAIN alerts'
    BY <2>1
  <2> HIDE DEF n
  <2>3. Stays
    BY <2>1, <2>2 DEF Stays
  <2>4. ASSUME NEW v \in Runners
        PROVE  /\ runner'[v].pc \in {"insert", "notify"} => runner'[v].queue # << >>
               /\ runner'[v].pc # "notify" => runner'[v].row = 0
               /\ runner'[v].pc = "notify" =>
                     /\ runner'[v].row \in DOMAIN alerts'
                     /\ alerts'[runner'[v].row].rule = Head(runner'[v].queue).rule
    <3>1. CASE v = w
      BY <2>1, <2>2, <3>1 DEF Typed
    <3>2. CASE v # w
      BY <2>1, <2>2, <3>2 DEF Typed
    <3> QED
      BY <3>1, <3>2
  <2>5. Typed'
    BY <2>1, <2>4 DEF Typed
  <2> QED
    BY <2>1, <2>3, <2>5
<1>6. ASSUME NEW w \in Runners, FinishRun(w) \/ Crash(w)
      PROVE  Typed' /\ Stays /\ events \subseteq events'
  <2>1. /\ UNCHANGED <<clock, events, alerts, inbox>> /\ crashes' \in {crashes, crashes + 1}
        /\ runner' \in [Runners -> Run] /\ runner'[w] = NoRun
        /\ \A v \in Runners : v # w => runner'[v] = runner[v]
    BY <1>6, EndEffect
  <2> QED
    BY <2>1, EmptyRun DEF Typed, Stays
<1>7. ASSUME NEW i \in DOMAIN alerts, NEW status \in Statuses, SetStatus(i, status)
      PROVE  Typed' /\ Stays /\ events \subseteq events'
  <2>1. /\ UNCHANGED <<clock, events, runner, inbox, crashes>>
        /\ alerts' \in Seq(Alert) /\ DOMAIN alerts' = DOMAIN alerts
    BY <1>7, StatusEffect
  <2>2. ASSUME NEW j \in DOMAIN alerts
        PROVE  /\ alerts'[j].rule = alerts[j].rule /\ alerts'[j].ip = alerts[j].ip
               /\ alerts'[j].started = alerts[j].started /\ alerts'[j].ended = alerts[j].ended
               /\ alerts'[j].count = alerts[j].count
    BY <1>7, StatusEffect
  <2> QED
    BY <2>1, <2>2 DEF Typed, Stays
<1>8. CASE UNCHANGED vars
  BY <1>8 DEF vars, Typed, Stays
<1> QED
  BY <1>1, <1>2, <1>3, <1>4, <1>5, <1>6, <1>7, <1>8 DEF Next, RunStep

-----------------------------------------------------------------------------
(* Mails *)

Unmailed ==
    {i \in DOMAIN alerts : /\ alerts[i].rule \in Severe /\ i \notin inbox
                           /\ \A w \in Runners : runner[w].row # i}

MailInv ==
    /\ inbox \subseteq {i \in DOMAIN alerts : alerts[i].rule \in Severe}
    /\ ~SmtpFails => Cardinality(Unmailed) <= crashes

LEMMA UnmailedFinite ==
    ASSUME Typed
    PROVE  IsFiniteSet(Unmailed) /\ Cardinality(Unmailed) \in Nat /\ 0 \notin DOMAIN alerts
<1>1. Len(alerts) \in Nat /\ DOMAIN alerts = 1 .. Len(alerts)
  BY LenProperties DEF Typed
<1>2. IsFiniteSet(DOMAIN alerts) /\ 0 \notin DOMAIN alerts
  BY <1>1, FS_Interval
<1> QED
  BY <1>2, FS_Subset, FS_CardinalityType DEF Unmailed

\* A step that leaves no alert behind costs no mail, and one that leaves at
\* most one behind costs one.
LEMMA MailsCounted ==
    ASSUME Typed, Typed', MailInv,
           inbox' \subseteq {i \in DOMAIN alerts' : alerts'[i].rule \in Severe},
           NEW lost,
           ~SmtpFails => \/ Unmailed' \subseteq Unmailed /\ crashes' = crashes
                         \/ Unmailed' \subseteq Unmailed \cup {lost} /\ crashes' = crashes + 1
    PROVE  MailInv'
<1> SUFFICES ASSUME ~SmtpFails PROVE Cardinality(Unmailed') <= crashes'
  BY DEF MailInv
<1>1. /\ IsFiniteSet(Unmailed) /\ Cardinality(Unmailed) \in Nat
      /\ crashes \in Nat /\ Cardinality(Unmailed) <= crashes
  BY UnmailedFinite DEF Typed, MailInv
<1> DEFINE U == Unmailed
           V == Unmailed'
<1>2. CASE V \subseteq U /\ crashes' = crashes
  <2> HIDE DEF U, V
  <2>1. Cardinality(V) <= Cardinality(U) /\ Cardinality(V) \in Nat
    BY <1>1, <1>2, FS_Subset, FS_CardinalityType DEF U
  <2>2. Cardinality(V) <= crashes'
    BY <1>1, <1>2, <2>1 DEF U
  <2> QED
    BY <2>2 DEF V
<1>3. CASE V \subseteq U \cup {lost} /\ crashes' = crashes + 1
  <2> DEFINE W == U \cup {lost}
  <2> HIDE DEF U, V
  <2>1. IsFiniteSet(W) /\ Cardinality(W) \in Nat /\ Cardinality(W) <= Cardinality(U) + 1
    <3>1. IsFiniteSet(U) /\ Cardinality(U) \in Nat
      BY <1>1 DEF U
    <3>2. /\ IsFiniteSet(W)
          /\ Cardinality(W) = Cardinality(U) \/ Cardinality(W) = Cardinality(U) + 1
      BY <3>1, FS_AddElement
    <3> HIDE DEF W
    <3> QED
      BY <3>1, <3>2
  <2>2. Cardinality(V) <= Cardinality(W) /\ Cardinality(V) \in Nat
    BY <1>3, <2>1, FS_Subset, FS_CardinalityType
  <2>3. Cardinality(V) <= crashes'
    <3> HIDE DEF W
    <3> QED
      BY <1>1, <1>3, <2>1, <2>2 DEF U
  <2> QED
    BY <2>3 DEF V
<1> QED
  BY <1>2, <1>3

LEMMA MailStep ==
    ASSUME Typed, MailInv, [Next]_vars
    PROVE  MailInv'
<1>1. Typed' /\ Stays
  BY TypedStep
<1>2. 0 \notin DOMAIN alerts
  BY UnmailedFinite
<1>3. ASSUME \A i \in DOMAIN alerts' : i \in DOMAIN alerts, inbox' = inbox, crashes' = crashes,
             \A w \in Runners : runner'[w].row = runner[w].row
      PROVE  MailInv'
  <2>1. inbox' \subseteq {i \in DOMAIN alerts' : alerts'[i].rule \in Severe}
    BY <1>1, <1>3 DEF MailInv, Stays
  <2>2. Unmailed' \subseteq Unmailed
    BY <1>1, <1>3 DEF Unmailed, Stays
  <2> QED
    BY <1>1, <1>3, <2>1, <2>2, MailsCounted
<1>4. CASE Tick \/ UNCHANGED vars
  BY <1>3, <1>4 DEF Tick, vars
<1>5. ASSUME NEW at \in 0 .. clock + Ahead, NEW ip \in IPs, NEW zone \in ZonesOf[ip],
             NEW matches \in SUBSET Rules, Ingest(at, zone, ip, matches)
      PROVE  MailInv'
  BY <1>3, <1>5 DEF Ingest
<1>6. ASSUME NEW w \in Runners, StartRun(w)
      PROVE  MailInv'
  <2>1. /\ UNCHANGED <<alerts, inbox, crashes>> /\ runner[w].pc = "idle" /\ runner'[w].row = 0
        /\ \A v \in Runners : v # w => runner'[v] = runner[v]
    BY <1>6, StartEffect
  <2> QED
    BY <1>3, <2>1 DEF Typed
<1>7. ASSUME NEW w \in Runners, SkipDuplicate(w) \/ PassCheck(w)
      PROVE  MailInv'
  <2>1. /\ UNCHANGED <<alerts, crashes>> /\ runner'[w].row = 0 /\ inbox' = inbox
        /\ \A v \in Runners : v # w => runner'[v] = runner[v]
    BY <1>7, LoopEffect
  <2>2. runner[w].row = 0
    BY <1>7 DEF SkipDuplicate, PassCheck, Typed
  <2> QED
    BY <1>3, <2>1, <2>2
<1>8. ASSUME NEW w \in Runners, Notify(w)
      PROVE  MailInv'
  <2>1. /\ UNCHANGED <<alerts, crashes>> /\ runner'[w].row = 0
        /\ \A v \in Runners : v # w => runner'[v] = runner[v]
    BY <1>8, LoopEffect
  <2> DEFINE n == runner[w].row
  <2>2. n \in DOMAIN alerts /\ alerts[n].rule = Head(runner[w].queue).rule
    BY <1>8 DEF Notify, Typed
  <2>3. PICK sent \in SendOutcomes(alerts[n].rule) :
           inbox' = IF sent THEN inbox \cup {n} ELSE inbox
    BY <1>8, <2>2 DEF Notify
  <2>4. /\ sent => alerts[n].rule \in Severe
        /\ ~SmtpFails /\ alerts[n].rule \in Severe => sent
    BY DEF SendOutcomes
  <2>5. inbox' \subseteq {i \in DOMAIN alerts' : alerts'[i].rule \in Severe}
    BY <2>1, <2>2, <2>3, <2>4 DEF MailInv
  <2>6. ~SmtpFails => Unmailed' \subseteq Unmailed
    <3> SUFFICES ASSUME ~SmtpFails, NEW i \in Unmailed', NEW v \in Runners
                 PROVE  i \in DOMAIN alerts /\ alerts[i].rule \in Severe /\ i \notin inbox
                        /\ runner[v].row # i
      BY DEF Unmailed
    <3>1. i \in DOMAIN alerts /\ alerts[i].rule \in Severe /\ i \notin inbox' /\ runner'[v].row # i
      BY <2>1 DEF Unmailed
    <3>2. i # n /\ i \notin inbox
      BY <2>3, <2>4, <3>1
    <3> QED
      BY <2>1, <3>1, <3>2
  <2> QED
    BY <1>1, <2>1, <2>5, <2>6, MailsCounted
<1>9. ASSUME NEW w \in Runners, InsertAlert(w)
      PROVE  MailInv'
  <2> DEFINE n == Len(alerts) + 1
  <2>1. /\ UNCHANGED <<inbox, crashes>> /\ runner[w].pc = "insert"
        /\ DOMAIN alerts = 1 .. Len(alerts) /\ DOMAIN alerts' = 1 .. n /\ Len(alerts) \in Nat
        /\ \A i \in DOMAIN alerts : alerts'[i] = alerts[i]
        /\ runner'[w].row = n
        /\ \A v \in Runners : v # w => runner'[v] = runner[v]
    BY <1>9, InsertEffect
  <2>2. \A i \in DOMAIN alerts' : i \in DOMAIN alerts \/ i = n
    BY <2>1
  <2> HIDE DEF n
  <2>3. inbox' \subseteq {i \in DOMAIN alerts' : alerts'[i].rule \in Severe}
    BY <1>1, <2>1 DEF MailInv, Stays
  <2>4. runner[w].row = 0
    BY <2>1 DEF Typed
  <2>5. Unmailed' \subseteq Unmailed
    <3> SUFFICES ASSUME NEW i \in Unmailed', NEW v \in Runners
                 PROVE  i \in DOMAIN alerts /\ alerts[i].rule \in Severe /\ i \notin inbox
                        /\ runner[v].row # i
      BY DEF Unmailed
    <3>1. i \in DOMAIN alerts' /\ alerts'[i].rule \in Severe /\ i \notin inbox
          /\ runner'[v].row # i /\ runner'[w].row # i
      BY <2>1 DEF Unmailed
    <3>2. i \in DOMAIN alerts
      BY <2>1, <2>2, <3>1
    <3> QED
      BY <1>2, <2>1, <2>4, <3>1, <3>2
  <2> QED
    BY <1>1, <2>1, <2>3, <2>5, MailsCounted
<1>10. ASSUME NEW w \in Runners, FinishRun(w)
       PROVE  MailInv'
  <2>1. /\ UNCHANGED <<alerts, inbox>> /\ crashes' = crashes /\ runner[w].row = 0
        /\ runner'[w] = NoRun
        /\ \A v \in Runners : v # w => runner'[v] = runner[v]
    BY <1>10, EndEffect
  <2> QED
    BY <1>3, <2>1, EmptyRun
<1>11. ASSUME NEW w \in Runners, Crash(w)
       PROVE  MailInv'
  <2>1. /\ UNCHANGED <<alerts, inbox>> /\ runner'[w] = NoRun
        /\ \A v \in Runners : v # w => runner'[v] = runner[v]
    BY <1>11, EndEffect
  <2>2. crashes' = crashes + 1
    BY <1>11 DEF Crash
  <2>3. inbox' \subseteq {i \in DOMAIN alerts' : alerts'[i].rule \in Severe}
    BY <2>1 DEF MailInv
  <2>4. Unmailed' \subseteq Unmailed \cup {runner[w].row}
    BY <2>1 DEF Unmailed
  <2> QED
    BY <1>1, <2>2, <2>3, <2>4, MailsCounted
<1>12. ASSUME NEW i \in DOMAIN alerts, NEW status \in Statuses, SetStatus(i, status)
       PROVE  MailInv'
  <2>1. UNCHANGED <<runner, inbox, crashes>> /\ DOMAIN alerts' = DOMAIN alerts
    BY <1>12, StatusEffect
  <2> QED
    BY <1>3, <2>1
<1> QED
  BY <1>4, <1>5, <1>6, <1>7, <1>8, <1>9, <1>10, <1>11, <1>12 DEF Next, RunStep

\* Whatever the engine finds, a severe alert that no run will mail any more
\* is owed to a run that died between its commit and its mail, one alert for
\* one run; and nothing is mailed that is not severe and committed
\* (runner.py:92-93).
THEOREM MailsAreSent == Spec => []MailsLostOnlyByCrashes
<1>1. Init => Typed /\ MailInv
  <2> SUFFICES ASSUME Init PROVE Typed /\ MailInv
    OBVIOUS
  <2>1. Unmailed = {} /\ inbox = {} /\ crashes = 0
    BY DEF Init, Unmailed
  <2> QED
    BY <2>1, TypedStart, FS_EmptySet DEF MailInv
<1>2. Typed /\ MailInv /\ [Next]_vars => (Typed /\ MailInv)'
  BY TypedStep, MailStep
<1>3. MailInv => MailsLostOnlyByCrashes
  BY DEF MailInv, MailsLostOnlyByCrashes, Unmailed
<1> QED
  BY <1>1, <1>2, <1>3, PTL DEF Spec

-----------------------------------------------------------------------------
(* Duplicates *)

InTheWay(a, c) ==
    /\ a.rule = c.rule /\ a.ip = c.ip
    /\ a.status \in {"open", "triaged"}
    /\ a.ended >= c.ended - DedupeGap

\* While a candidate waits for its insert, what has come to stand in its way
\* since the query was re-opened by an analyst.
ClearToInsert ==
    \A w \in Runners, i \in DOMAIN alerts :
        runner[w].pc = "insert" /\ InTheWay(alerts[i], Head(runner[w].queue))
            => alerts[i].reopened

DuplicateInv == NoDuplicateOpen /\ ClearToInsert

LEMMA DuplicateStep ==
    ASSUME OneRunner, Typed, DuplicateInv, [Next]_vars
    PROVE  DuplicateInv'
<1> USE DEF DuplicateInv
<1>1. ASSUME alerts' = alerts,
             \A w \in Runners : runner'[w].pc = "insert"
                => \/ runner'[w] = runner[w]
                   \/ /\ runner'[w].queue = runner[w].queue
                      /\ Duplicates(Head(runner[w].queue)) = {}
      PROVE  DuplicateInv'
  <2>1. NoDuplicateOpen'
    BY <1>1 DEF NoDuplicateOpen, Active, SameKey
  <2>2. ClearToInsert'
    <3> SUFFICES ASSUME NEW w \in Runners, runner'[w].pc = "insert",
                        NEW i \in DOMAIN alerts, InTheWay(alerts[i], Head(runner'[w].queue))
                 PROVE  alerts[i].reopened
      BY <1>1 DEF ClearToInsert
    <3>1. CASE runner'[w] = runner[w]
      BY <3>1 DEF ClearToInsert
    <3>2. CASE /\ runner'[w].queue = runner[w].queue
               /\ Duplicates(Head(runner[w].queue)) = {}
      <4>1. Duplicates(Head(runner'[w].queue)) = {}
        BY <3>2
      <4> QED
        BY <4>1 DEF Duplicates, InTheWay
    <3> QED
      BY <1>1, <3>1, <3>2
  <2> QED
    BY <2>1, <2>2
<1>2. CASE Tick \/ UNCHANGED vars
  BY <1>1, <1>2 DEF Tick, vars
<1>3. ASSUME NEW at \in 0 .. clock + Ahead, NEW ip \in IPs, NEW zone \in ZonesOf[ip],
             NEW matches \in SUBSET Rules, Ingest(at, zone, ip, matches)
      PROVE  DuplicateInv'
  BY <1>1, <1>3 DEF Ingest
<1>4. ASSUME NEW w \in Runners, StartRun(w)
      PROVE  DuplicateInv'
  <2>1. /\ alerts' = alerts /\ runner'[w].pc = "check"
        /\ \A v \in Runners : v # w => runner'[v] = runner[v]
    BY <1>4, StartEffect
  <2> QED
    BY <1>1, <2>1
<1>5. ASSUME NEW w \in Runners, SkipDuplicate(w) \/ PassCheck(w) \/ Notify(w)
      PROVE  DuplicateInv'
  <2>1. /\ alerts' = alerts
        /\ PassCheck(w) => /\ runner'[w].queue = runner[w].queue
                           /\ Duplicates(Head(runner[w].queue)) = {}
        /\ ~PassCheck(w) => runner'[w].pc = "check"
        /\ \A v \in Runners : v # w => runner'[v] = runner[v]
    BY <1>5, LoopEffect
  <2> QED
    BY <1>1, <2>1
<1>6. ASSUME NEW w \in Runners, InsertAlert(w)
      PROVE  DuplicateInv'
  <2> DEFINE n == Len(alerts) + 1
             c == Head(runner[w].queue)
  <2>1. /\ runner[w].pc = "insert" /\ c \in Candidate
        /\ DOMAIN alerts = 1 .. Len(alerts) /\ DOMAIN alerts' = 1 .. n /\ Len(alerts) \in Nat
        /\ \A i \in DOMAIN alerts : alerts'[i] = alerts[i]
        /\ alerts'[n].rule = c.rule /\ alerts'[n].ip = c.ip /\ alerts'[n].ended = c.ended
        /\ runner'[w].pc = "notify"
    BY <1>6, InsertEffect
  <2>2. \A i \in DOMAIN alerts' : /\ i \in DOMAIN alerts \/ i = n
                                  /\ \A j \in DOMAIN alerts' : i < j => i \in DOMAIN alerts
    BY <2>1
  <2>3. ASSUME NEW i \in DOMAIN alerts, alerts[i].rule = c.rule, alerts[i].ip = c.ip,
               Active(i), ~alerts[i].reopened
        PROVE  c.ended > alerts[i].ended + DedupeGap
    <3>1. ~(alerts[i].ended >= c.ended - DedupeGap)
      BY <2>1, <2>3 DEF ClearToInsert, InTheWay, Active
    <3>2. alerts[i].ended \in Int /\ c.ended \in Int /\ DedupeGap \in Int
      BY <2>1, AlertTyped, RunnerAssumption DEF Candidate
    <3> HIDE DEF c
    <3> QED
      BY <3>1, <3>2
  <2> HIDE DEF n, c
  <2>4. NoDuplicateOpen'
    <3> SUFFICES ASSUME NEW i \in DOMAIN alerts', NEW j \in DOMAIN alerts', i < j,
                        Active(i)', ~alerts'[i].reopened, Active(j)', ~alerts'[j].reopened,
                        SameKey(i, j)'
                 PROVE  \/ alerts'[j].ended > alerts'[i].ended + DedupeGap
                        \/ alerts'[i].ended > alerts'[j].ended + DedupeGap
      BY DEF NoDuplicateOpen
    <3>1. i \in DOMAIN alerts /\ alerts'[i] = alerts[i]
      BY <2>1, <2>2
    <3>2. CASE j \in DOMAIN alerts
      BY <2>1, <3>1, <3>2 DEF NoDuplicateOpen, Active, SameKey
    <3>3. CASE j = n
      BY <2>1, <2>3, <3>1, <3>3 DEF Active, SameKey
    <3> QED
      BY <2>2, <3>2, <3>3
  <2>5. ClearToInsert'
    BY <2>1 DEF ClearToInsert, OneRunner
  <2> QED
    BY <2>4, <2>5
<1>7. ASSUME NEW w \in Runners, FinishRun(w) \/ Crash(w)
      PROVE  DuplicateInv'
  <2>1. /\ alerts' = alerts /\ runner'[w] = NoRun
        /\ \A v \in Runners : v # w => runner'[v] = runner[v]
    BY <1>7, EndEffect
  <2> QED
    BY <1>1, <2>1, EmptyRun
<1>8. ASSUME NEW i \in DOMAIN alerts, NEW status \in Statuses, SetStatus(i, status)
      PROVE  DuplicateInv'
  <2>1. /\ runner' = runner /\ DOMAIN alerts' = DOMAIN alerts
        /\ \A j \in DOMAIN alerts : j # i => alerts'[j] = alerts[j]
        /\ alerts'[i].rule = alerts[i].rule /\ alerts'[i].ip = alerts[i].ip
        /\ alerts'[i].ended = alerts[i].ended
        /\ alerts'[i].reopened = (alerts[i].reopened \/ alerts[i].status = "closed")
    BY <1>8, StatusEffect
  <2>2. \A j \in DOMAIN alerts : alerts[j].status \in {"open", "triaged", "closed"}
    BY AlertTyped
  <2>3. ASSUME NEW j \in DOMAIN alerts
        PROVE  /\ alerts'[j].rule = alerts[j].rule /\ alerts'[j].ip = alerts[j].ip
               /\ alerts'[j].ended = alerts[j].ended
               /\ Active(j)' /\ ~alerts'[j].reopened => Active(j) /\ ~alerts[j].reopened
    BY <2>1, <2>2 DEF Active
  <2>4. NoDuplicateOpen'
    BY <2>1, <2>3 DEF NoDuplicateOpen, SameKey
  <2>5. ClearToInsert'
    <3> SUFFICES ASSUME NEW w \in Runners, runner[w].pc = "insert",
                        NEW j \in DOMAIN alerts, InTheWay(alerts'[j], Head(runner[w].queue))
                 PROVE  alerts'[j].reopened
      BY <2>1 DEF ClearToInsert
    <3>1. SUFFICES ASSUME ~alerts'[j].reopened PROVE FALSE
      OBVIOUS
    <3>2. Active(j) /\ ~alerts[j].reopened
      BY <2>3, <3>1 DEF InTheWay, Active
    <3> QED
      BY <2>3, <3>2 DEF ClearToInsert, InTheWay, Active
  <2> QED
    BY <2>4, <2>5
<1> QED
  BY <1>2, <1>3, <1>4, <1>5, <1>6, <1>7, <1>8 DEF Next, RunStep

\* One worker never leaves two open or triaged alerts of one rule and address
\* within ten minutes of each other, however it crashes, events come late and
\* analysts decide between its query and its insert (runner.py:59-93).
THEOREM NoDuplicates ==
    ASSUME OneRunner
    PROVE  Spec => []NoDuplicateOpen
<1>1. Init => Typed /\ DuplicateInv
  <2> SUFFICES ASSUME Init PROVE Typed /\ DuplicateInv
    OBVIOUS
  <2>1. DOMAIN alerts = {}
    BY DEF Init
  <2> QED
    BY <2>1, TypedStart DEF DuplicateInv, NoDuplicateOpen, ClearToInsert
<1>2. Typed /\ DuplicateInv /\ [Next]_vars => (Typed /\ DuplicateInv)'
  BY TypedStep, DuplicateStep
<1>3. DuplicateInv => NoDuplicateOpen
  BY DEF DuplicateInv
<1> QED
  BY <1>1, <1>2, <1>3, PTL DEF Spec

-----------------------------------------------------------------------------
(* Alerts stand for events *)

\* What an alert, or a candidate, says is so in these events.
Backed(rows, a) ==
    /\ a.ended - a.started <= RuleOf[a.rule].window
    /\ a.count >= RuleOf[a.rule].count
    /\ Cardinality(BurstOf(rows, a.rule, a.ip, a.started, a.ended)) >= a.count

\* Whatever is in the table, or in a queue.
AllBacked(rows, list, runs) ==
    /\ \A i \in DOMAIN list : Backed(rows, list[i])
    /\ \A w \in Runners : \A l \in DOMAIN runs[w].queue : Backed(rows, runs[w].queue[l])

BackedInv == OneZone(events) => AllBacked(events, alerts, runner)

\* A part of it mixes no offsets either.
LEMMA OneZonePart ==
    ASSUME NEW rows, NEW more, rows \subseteq more, OneZone(more)
    PROVE  OneZone(rows)
BY DEF OneZone

\* More events do no harm.
LEMMA BackedGrows ==
    ASSUME NEW rows \in Snapshots, NEW more \in Snapshots, rows \subseteq more,
           NEW a, a.count \in Int, Backed(rows, a)
    PROVE  Backed(more, a)
<1> DEFINE few  == BurstOf(rows, a.rule, a.ip, a.started, a.ended)
           many == BurstOf(more, a.rule, a.ip, a.started, a.ended)
<1>1. few \subseteq many /\ many \subseteq more
  BY DEF BurstOf
<1>2. IsFiniteSet(more)
  BY DEF Snapshots
<1>3. Cardinality(few) >= a.count
  BY DEF Backed
<1> HIDE DEF few, many
<1>4. /\ Cardinality(few) \in Nat /\ Cardinality(many) \in Nat
      /\ Cardinality(few) <= Cardinality(many)
  BY <1>1, <1>2, FS_Subset, FS_CardinalityType
<1>5. Cardinality(many) >= a.count
  BY <1>3, <1>4
<1> QED
  BY <1>5 DEF Backed, many

\* It depends on what an alert says of its burst alone.
LEMMA BackedAlike ==
    ASSUME NEW rows, NEW a, NEW b, Backed(rows, a), b.rule = a.rule, b.ip = a.ip,
           b.started = a.started, b.ended = a.ended, b.count = a.count
    PROVE  Backed(rows, b)
BY DEF Backed

\* So it goes on, in any rows that hold the events and are only added to.
LEMMA BackedStep ==
    ASSUME Typed, [Next]_vars, NEW rows \in Snapshots, NEW more \in Snapshots,
           events \subseteq rows, rows \subseteq more, OneZone(rows),
           AllBacked(rows, alerts, runner)
    PROVE  AllBacked(more, alerts', runner')
<1> USE DEF AllBacked
<1>1. Typed' /\ Stays
  BY TypedStep
<1>2. ASSUME NEW i \in DOMAIN alerts
      PROVE  Backed(more, alerts'[i])
  <2>1. alerts[i].count \in Int
    BY AlertTyped DEF Alert
  <2>2. Backed(more, alerts[i])
    BY <1>1, <2>1, BackedGrows
  <2> QED
    BY <1>1, <2>2, BackedAlike DEF Stays
<1>3. ASSUME NEW w \in Runners, NEW l \in DOMAIN runner[w].queue
      PROVE  Backed(more, runner[w].queue[l])
  <2>1. runner[w].queue \in Seq(Candidate)
    BY DEF Typed, Run
  <2>2. runner[w].queue[l] \in Candidate
    BY <2>1, ElementOfSeq
  <2>3. runner[w].queue[l].count \in Int
    BY <2>2 DEF Candidate
  <2> QED
    BY <1>1, <2>3, BackedGrows
<1>4. ASSUME DOMAIN alerts' = DOMAIN alerts,
             \A w \in Runners : \A l \in DOMAIN runner'[w].queue :
                Backed(more, runner'[w].queue[l])
      PROVE  AllBacked(more, alerts', runner')
  BY <1>2, <1>4
<1>5. CASE Tick \/ UNCHANGED vars \/ \E at \in 0 .. clock + Ahead, ip \in IPs,
                                        matches \in (SUBSET Rules) \ {{}} :
                                        \E zone \in ZonesOf[ip] : Ingest(at, zone, ip, matches)
  BY <1>3, <1>4, <1>5 DEF Tick, vars, Ingest
<1>6. ASSUME NEW w \in Runners, StartRun(w)
      PROVE  AllBacked(more, alerts', runner')
  <2>1. PICK seen \in Snapshots : seen \subseteq events /\ runner'[w].queue = Candidates(seen)
    <3>1. {e \in events : e.at >= clock - Lookback} \subseteq events
      OBVIOUS
    <3> QED
      BY <1>6, <3>1, StartEffect
  <2>2. /\ alerts' = alerts
        /\ \A v \in Runners : v # w => runner'[v] = runner[v]
    BY <1>6, StartEffect
  <2>3. ASSUME NEW l \in DOMAIN Candidates(seen)
        PROVE  Backed(more, Candidates(seen)[l])
    <3>1. Candidates(seen) \in Seq(Candidate)
      BY EngineReturns DEF Returns
    <3>2. Candidates(seen)[l] \in Candidate
      BY <3>1, ElementOfSeq
    <3>3. Candidates(seen)[l].count \in Int
      BY <3>2 DEF Candidate
    <3>4. Backed(seen, Candidates(seen)[l])
      <4>1. OneZone(seen)
        BY <2>1, OneZonePart
      <4> QED
        BY <4>1, EngineJustified DEF Justified, Backed
    <3> QED
      BY <1>1, <2>1, <2>2, <3>3, <3>4, BackedGrows
  <2> QED
    BY <1>3, <1>4, <2>1, <2>2, <2>3
<1>7. ASSUME NEW w \in Runners, SkipDuplicate(w) \/ PassCheck(w) \/ Notify(w)
      PROVE  AllBacked(more, alerts', runner')
  <2>1. /\ alerts' = alerts /\ runner[w].queue # << >>
        /\ runner'[w].queue \in {runner[w].queue, Tail(runner[w].queue)}
        /\ \A v \in Runners : v # w => runner'[v] = runner[v]
    BY <1>7, LoopEffect
  <2>2. \A l \in DOMAIN Tail(runner[w].queue) :
           \E k \in DOMAIN runner[w].queue : Tail(runner[w].queue)[l] = runner[w].queue[k]
    <3>1. runner[w].queue \in Seq(Candidate)
      BY DEF Typed, Run
    <3> QED
      BY <2>1, <3>1, TailParts
  <2> QED
    BY <1>3, <1>4, <2>1, <2>2
<1>8. ASSUME NEW w \in Runners, InsertAlert(w)
      PROVE  AllBacked(more, alerts', runner')
  <2> DEFINE n == Len(alerts) + 1
             c == Head(runner[w].queue)
  <2>1. /\ runner[w].pc = "insert" /\ alerts' \in Seq(Alert)
        /\ DOMAIN alerts = 1 .. Len(alerts) /\ DOMAIN alerts' = 1 .. n /\ Len(alerts) \in Nat
        /\ alerts'[n].rule = c.rule /\ alerts'[n].ip = c.ip /\ alerts'[n].started = c.started
        /\ alerts'[n].ended = c.ended /\ alerts'[n].count = c.count
        /\ runner'[w].queue = runner[w].queue
        /\ \A v \in Runners : v # w => runner'[v] = runner[v]
    BY <1>8, InsertEffect
  <2>2. \A i \in DOMAIN alerts' : i \in DOMAIN alerts \/ i = n
    BY <2>1
  <2>3. Backed(more, c)
    <3>1. runner[w].queue \in Seq(Candidate) /\ runner[w].queue # << >>
      BY <2>1 DEF Typed, Run
    <3>2. 1 \in DOMAIN runner[w].queue /\ c = runner[w].queue[1]
      BY <3>1, QueueParts
    <3> QED
      BY <1>3, <3>2
  <2> HIDE DEF n, c
  <2>4. Backed(more, alerts'[n])
    BY <2>1, <2>3, BackedAlike
  <2>5. \A i \in DOMAIN alerts' : Backed(more, alerts'[i])
    BY <1>2, <2>2, <2>4
  <2>6. \A v \in Runners : \A l \in DOMAIN runner'[v].queue : Backed(more, runner'[v].queue[l])
    BY <1>3, <2>1
  <2> QED
    BY <2>5, <2>6
<1>9. ASSUME NEW w \in Runners, FinishRun(w) \/ Crash(w)
      PROVE  AllBacked(more, alerts', runner')
  <2>1. /\ alerts' = alerts /\ runner'[w] = NoRun /\ DOMAIN NoRun.queue = {}
        /\ \A v \in Runners : v # w => runner'[v] = runner[v]
    BY <1>9, EndEffect, EmptyRun
  <2> QED
    BY <1>3, <1>4, <2>1
<1>10. ASSUME NEW i \in DOMAIN alerts, NEW status \in Statuses, SetStatus(i, status)
       PROVE  AllBacked(more, alerts', runner')
  <2>1. runner' = runner /\ DOMAIN alerts' = DOMAIN alerts
    BY <1>10, StatusEffect
  <2> QED
    BY <1>3, <1>4, <2>1
<1> QED
  BY <1>5, <1>6, <1>7, <1>8, <1>9, <1>10 DEF Next, RunStep

\* An alert stands for as many stored events as it says, no further apart
\* than its rule's window, and the rows it counted never go away again
\* (engine.py:73-95, runner.py:27-36).
THEOREM AlertsAreBacked == Spec => []AlertsJustified
<1>1. Init => Typed /\ BackedInv
  <2> SUFFICES ASSUME Init PROVE Typed /\ BackedInv
    OBVIOUS
  <2>1. DOMAIN alerts = {} /\ \A w \in Runners : DOMAIN runner[w].queue = {}
    BY EmptyRun DEF Init
  <2> QED
    BY <2>1, TypedStart DEF BackedInv, AllBacked
<1>2. Typed /\ BackedInv /\ [Next]_vars => (Typed /\ BackedInv)'
  <2> SUFFICES ASSUME Typed, BackedInv, [Next]_vars PROVE Typed' /\ BackedInv'
    OBVIOUS
  <2>1. Typed' /\ events \subseteq events' /\ events \in Snapshots /\ events' \in Snapshots
    BY TypedStep DEF Typed
  <2>2. ASSUME OneZone(events')
        PROVE  AllBacked(events', alerts', runner')
    <3>1. OneZone(events)
      BY <2>1, <2>2, OneZonePart
    <3> QED
      BY <2>1, <3>1, BackedStep DEF BackedInv
  <2> QED
    BY <2>1, <2>2 DEF BackedInv, OneZone
<1>3. BackedInv => AlertsJustified
  BY DEF BackedInv, AllBacked, Backed, AlertsJustified
<1> QED
  BY <1>1, <1>2, <1>3, PTL DEF Spec

-----------------------------------------------------------------------------
(* Runs to their end *)

\* An alert that makes a candidate a duplicate, or would if it were active.
StandsFor(a, c) ==
    /\ a.rule = c.rule /\ a.ip = c.ip
    /\ a.ended >= c.ended - DedupeGap

\* A candidate is still to come, or has its alert.
Looked(queue, rows, c) ==
    \/ \E l \in DOMAIN queue : queue[l] = c
    \/ \E i \in DOMAIN rows : StandsFor(rows[i], c)

CoverInv ==
    \A w \in Runners :
        /\ runner[w].pc # "idle" =>
              \A k \in DOMAIN Candidates(runner[w].snapshot) :
                 Looked(runner[w].queue, alerts, Candidates(runner[w].snapshot)[k])
        /\ runner[w].pc = "notify" =>
              StandsFor(alerts[runner[w].row], Head(runner[w].queue))

\* No step takes a candidate's alert away.
LEMMA StandsStill ==
    ASSUME Stays, NEW c, NEW i \in DOMAIN alerts, StandsFor(alerts[i], c)
    PROVE  i \in DOMAIN alerts' /\ StandsFor(alerts'[i], c)
BY DEF Stays, StandsFor

LEMMA StandsForItself ==
    ASSUME NEW c \in Candidate, NEW a, a.rule = c.rule, a.ip = c.ip, a.ended = c.ended
    PROVE  StandsFor(a, c)
<1>1. c.ended \in Int
  BY DEF Candidate
<1>2. c.ended >= c.ended - DedupeGap
  BY <1>1, RunnerAssumption
<1> QED
  BY <1>2 DEF StandsFor

\* A run that stays as it is, or ends, keeps the invariant.
LEMMA CoverKept ==
    ASSUME Typed, CoverInv, Stays, NEW w \in Runners,
           runner'[w] = runner[w] \/ runner'[w] = NoRun
    PROVE  /\ runner'[w].pc # "idle" =>
                 \A k \in DOMAIN Candidates(runner'[w].snapshot) :
                    Looked(runner'[w].queue, alerts', Candidates(runner'[w].snapshot)[k])
           /\ runner'[w].pc = "notify" =>
                 StandsFor(alerts'[runner'[w].row], Head(runner'[w].queue))
<1>1. CASE runner'[w] = NoRun
  BY <1>1, EmptyRun
<1>2. CASE runner'[w] = runner[w]
  <2>1. ASSUME NEW c, Looked(runner[w].queue, alerts, c)
        PROVE  Looked(runner'[w].queue, alerts', c)
    BY <1>2, <2>1, StandsStill DEF Looked
  <2>2. runner[w].pc = "notify" =>
           StandsFor(alerts'[runner[w].row], Head(runner[w].queue))
    BY StandsStill DEF CoverInv, Typed
  <2>3. runner[w].pc # "idle" =>
           \A k \in DOMAIN Candidates(runner[w].snapshot) :
              Looked(runner'[w].queue, alerts', Candidates(runner[w].snapshot)[k])
    BY <2>1 DEF CoverInv
  <2> QED
    BY <1>2, <2>2, <2>3
<1> QED
  BY <1>1, <1>2

LEMMA CoverStep ==
    ASSUME Typed, CoverInv, [Next]_vars
    PROVE  CoverInv'
<1>1. Stays
  BY TypedStep
<1>2. ASSUME \A w \in Runners : runner'[w] = runner[w] \/ runner'[w] = NoRun
      PROVE  CoverInv'
  BY <1>1, <1>2, CoverKept DEF CoverInv
<1>3. ASSUME NEW w \in Runners,
             \A v \in Runners : v # w => runner'[v] = runner[v],
             runner'[w].snapshot = runner[w].snapshot, runner[w].pc # "idle",
             \A c : Looked(runner[w].queue, alerts, c) => Looked(runner'[w].queue, alerts', c),
             runner'[w].pc = "notify" =>
                StandsFor(alerts'[runner'[w].row], Head(runner'[w].queue))
      PROVE  CoverInv'
  <2>1. \A k \in DOMAIN Candidates(runner'[w].snapshot) :
           Looked(runner'[w].queue, alerts', Candidates(runner'[w].snapshot)[k])
    <3>1. \A k \in DOMAIN Candidates(runner[w].snapshot) :
             Looked(runner'[w].queue, alerts', Candidates(runner[w].snapshot)[k])
      BY <1>3 DEF CoverInv
    <3> QED
      BY <1>3, <3>1
  <2>2. ASSUME NEW v \in Runners
        PROVE  /\ runner'[v].pc # "idle" =>
                     \A k \in DOMAIN Candidates(runner'[v].snapshot) :
                        Looked(runner'[v].queue, alerts', Candidates(runner'[v].snapshot)[k])
               /\ runner'[v].pc = "notify" =>
                     StandsFor(alerts'[runner'[v].row], Head(runner'[v].queue))
    <3>1. CASE v = w
      BY <1>3, <2>1, <3>1
    <3>2. CASE v # w
      <4>1. runner'[v] = runner[v]
        BY <1>3, <3>2
      <4> QED
        BY <1>1, <4>1, CoverKept
    <3> QED
      BY <3>1, <3>2
  <2> QED
    BY <2>2 DEF CoverInv
<1>4. CASE Tick \/ UNCHANGED vars \/ \E at \in 0 .. clock + Ahead, ip \in IPs,
                                        matches \in (SUBSET Rules) \ {{}} :
                                        \E zone \in ZonesOf[ip] : Ingest(at, zone, ip, matches)
  BY <1>2, <1>4 DEF Tick, vars, Ingest
<1>5. ASSUME NEW w \in Runners, StartRun(w)
      PROVE  CoverInv'
  <2>1. PICK seen : /\ runner'[w].snapshot = seen /\ runner'[w].queue = Candidates(seen)
                    /\ runner'[w].pc = "check"
                    /\ \A v \in Runners : v # w => runner'[v] = runner[v]
    BY <1>5, StartEffect
  <2>2. \A k \in DOMAIN Candidates(seen) : Looked(runner'[w].queue, alerts', Candidates(seen)[k])
    BY <2>1 DEF Looked
  <2>3. ASSUME NEW v \in Runners
        PROVE  /\ runner'[v].pc # "idle" =>
                     \A k \in DOMAIN Candidates(runner'[v].snapshot) :
                        Looked(runner'[v].queue, alerts', Candidates(runner'[v].snapshot)[k])
               /\ runner'[v].pc = "notify" =>
                     StandsFor(alerts'[runner'[v].row], Head(runner'[v].queue))
    <3>1. CASE v = w
      BY <2>1, <2>2, <3>1
    <3>2. CASE v # w
      BY <1>1, <2>1, <3>2, CoverKept
    <3> QED
      BY <3>1, <3>2
  <2> QED
    BY <2>3 DEF CoverInv
<1>6. ASSUME NEW w \in Runners, SkipDuplicate(w) \/ PassCheck(w) \/ Notify(w)
      PROVE  CoverInv'
  <2> DEFINE queue == runner[w].queue
             c == Head(queue)
  <2>1. /\ alerts' = alerts /\ runner[w].pc # "idle" /\ queue # << >>
        /\ runner'[w].snapshot = runner[w].snapshot
        /\ PassCheck(w) => runner'[w].pc = "insert" /\ runner'[w].queue = queue
        /\ ~PassCheck(w) => runner'[w].pc = "check" /\ runner'[w].queue = Tail(queue)
        /\ SkipDuplicate(w) => Duplicates(c) # {}
        /\ \A v \in Runners : v # w => runner'[v] = runner[v]
    <3>1. runner[w].pc # "idle"
      BY <1>6 DEF SkipDuplicate, PassCheck, Notify
    <3> QED
      BY <1>6, <3>1, LoopEffect
  <2>2. ~PassCheck(w) => \E i \in DOMAIN alerts : StandsFor(alerts[i], c)
    <3>1. CASE SkipDuplicate(w)
      BY <2>1, <3>1 DEF Duplicates, StandsFor
    <3>2. CASE Notify(w)
      <4>1. runner[w].pc = "notify" /\ runner[w].row \in DOMAIN alerts
        BY <3>2 DEF Notify, Typed
      <4> QED
        BY <4>1 DEF CoverInv
    <3> QED
      BY <1>6, <3>1, <3>2
  <2>3. /\ queue[1] = c
        /\ \A k \in DOMAIN queue : k = 1 \/ \E l \in DOMAIN Tail(queue) : Tail(queue)[l] = queue[k]
    <3>1. queue \in Seq(Candidate)
      BY DEF Typed, Run
    <3> QED
      BY <2>1, <3>1, QueueParts
  <2> HIDE DEF queue, c
  <2>4. ASSUME NEW d, Looked(runner[w].queue, alerts, d)
        PROVE  Looked(runner'[w].queue, alerts', d)
    <3>1. CASE PassCheck(w)
      BY <2>1, <2>4, <3>1 DEF Looked, queue
    <3>2. CASE ~PassCheck(w)
      <4>1. CASE \E i \in DOMAIN alerts : StandsFor(alerts[i], d)
        BY <2>1, <4>1 DEF Looked
      <4>2. CASE \E k \in DOMAIN queue : queue[k] = d
        <5>1. d = c \/ \E l \in DOMAIN Tail(queue) : Tail(queue)[l] = d
          BY <2>3, <4>2
        <5> QED
          BY <2>1, <2>2, <3>2, <5>1 DEF Looked
      <4> QED
        BY <2>4, <4>1, <4>2 DEF Looked, queue
    <3> QED
      BY <3>1, <3>2
  <2>5. runner'[w].pc # "notify"
    BY <2>1
  <2> QED
    BY <1>3, <2>1, <2>4, <2>5
<1>7. ASSUME NEW w \in Runners, InsertAlert(w)
      PROVE  CoverInv'
  <2> DEFINE n == Len(alerts) + 1
             c == Head(runner[w].queue)
  <2>1. /\ runner[w].pc = "insert" /\ c \in Candidate
        /\ alerts'[n].rule = c.rule /\ alerts'[n].ip = c.ip /\ alerts'[n].ended = c.ended
        /\ runner'[w].pc = "notify" /\ runner'[w].row = n
        /\ runner'[w].queue = runner[w].queue /\ runner'[w].snapshot = runner[w].snapshot
        /\ \A v \in Runners : v # w => runner'[v] = runner[v]
    BY <1>7, InsertEffect
  <2> HIDE DEF n, c
  <2>2. StandsFor(alerts'[n], c)
    BY <2>1, StandsForItself
  <2>3. ASSUME NEW d, Looked(runner[w].queue, alerts, d)
        PROVE  Looked(runner'[w].queue, alerts', d)
    BY <1>1, <2>1, <2>3, StandsStill DEF Looked
  <2>4. StandsFor(alerts'[runner'[w].row], Head(runner'[w].queue))
    BY <2>1, <2>2 DEF c
  <2> QED
    BY <1>3, <2>1, <2>3, <2>4
<1>8. ASSUME NEW w \in Runners, FinishRun(w) \/ Crash(w)
      PROVE  CoverInv'
  <2>1. runner'[w] = NoRun /\ \A v \in Runners : v # w => runner'[v] = runner[v]
    BY <1>8, EndEffect
  <2> QED
    BY <1>2, <2>1
<1>9. ASSUME NEW i \in DOMAIN alerts, NEW status \in Statuses, SetStatus(i, status)
      PROVE  CoverInv'
  <2>1. runner' = runner
    BY <1>9, StatusEffect
  <2> QED
    BY <1>2, <2>1
<1> QED
  BY <1>4, <1>5, <1>6, <1>7, <1>8, <1>9 DEF Next, RunStep

\* A candidate of every burst, and an alert for every candidate.
LEMMA CoverMeans ==
    ASSUME Typed, CoverInv
    PROVE  RunCoversSnapshot
<1> SUFFICES ASSUME NEW w \in Runners,
                    runner[w].pc = "check", runner[w].queue = << >>,
                    OneZone(runner[w].snapshot),
                    NEW rule \in Rules, NEW e \in Bursts(runner[w].snapshot, rule)
             PROVE  Covered(rule, e)
  BY DEF RunCoversSnapshot
<1> DEFINE seen == runner[w].snapshot
<1>1. seen \in Snapshots /\ e \in Event
  BY DEF Typed, Run, Snapshots, Bursts
<1>2. PICK k \in DOMAIN Candidates(seen) :
         LET c == Candidates(seen)[k] IN
         c.rule = rule /\ c.ip = e.ip /\ c.ended >= e.at - RuleOf[rule].cooldown
  BY <1>1, EngineComplete DEF Complete
<1> DEFINE c == Candidates(seen)[k]
<1>3. c.rule = rule /\ c.ip = e.ip /\ c.ended >= e.at - RuleOf[rule].cooldown
  BY <1>2
<1>4. c \in Candidate
  <2>1. Candidates(seen) \in Seq(Candidate)
    BY <1>1, EngineReturns DEF Returns
  <2> QED
    BY <2>1, ElementOfSeq
<1>5. Looked(runner[w].queue, alerts, c)
  BY DEF CoverInv
<1> HIDE DEF c, seen
<1>6. PICK i \in DOMAIN alerts : StandsFor(alerts[i], c)
  <2>1. DOMAIN runner[w].queue = {}
    OBVIOUS
  <2> QED
    BY <1>5, <2>1 DEF Looked
<1>7. /\ alerts[i].ended \in Int /\ c.ended \in Int /\ e.at \in Int /\ DedupeGap \in Int
      /\ RuleOf[rule].cooldown \in Int
  <2>1. RuleOf[rule].cooldown \in Nat
    BY RuleOfAssumption DEF RuleParameters, Durations
  <2> QED
    BY <1>1, <1>4, <2>1, AlertTyped, RunnerAssumption DEF Candidate, Event
<1>8. alerts[i].rule = rule /\ alerts[i].ip = e.ip /\ alerts[i].ended >= c.ended - DedupeGap
  BY <1>3, <1>6 DEF StandsFor
<1>9. alerts[i].ended >= e.at - RuleOf[rule].cooldown - DedupeGap
  BY <1>3, <1>7, <1>8
<1> QED
  BY <1>8, <1>9 DEF Covered

\* A run that gets to its end leaves no burst among the events it read
\* without an alert, whoever else detects, triages or crashes meanwhile
\* (runner.py:43-93): a candidate is dropped for an alert that stands for it,
\* and alerts stay.
THEOREM RunsAreThorough == Spec => []RunCoversSnapshot
<1>1. Init => Typed /\ CoverInv
  <2> SUFFICES ASSUME Init PROVE Typed /\ CoverInv
    OBVIOUS
  <2>1. \A w \in Runners : runner[w].pc = "idle"
    BY EmptyRun DEF Init
  <2> QED
    BY <2>1, TypedStart DEF CoverInv
<1>2. Typed /\ CoverInv /\ [Next]_vars => (Typed /\ CoverInv)'
  BY TypedStep, CoverStep
<1>3. Typed /\ CoverInv => RunCoversSnapshot
  BY CoverMeans
<1> QED
  BY <1>1, <1>2, <1>3, PTL DEF Spec
==============================================================================
