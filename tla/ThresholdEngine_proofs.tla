----------------------- MODULE ThresholdEngine_proofs -----------------------
(***************************************************************************)
(* What the sliding window of ThresholdEngine.process guarantees for every *)
(* stream, set of rules and set of addresses: the types it keeps, and, as  *)
(* long as all timestamps are written with one UTC offset, that its        *)
(* alerts count the burst they end, span no more than the window, respect  *)
(* the cooldown and miss no burst.                                         *)
(***************************************************************************)
EXTENDS ThresholdEngine, OrderLemmas, SequenceTheorems

-----------------------------------------------------------------------------
(* One step, seen from the counter it slides *)

\* The key whose counter event p slides for a rule.
KeyAt(rule, p) == <<rule, stream[p].ip>>

\* The timestamps that counter holds once event p is counted.
SlidAt(rule, p) == Slide(stream, counters[KeyAt(rule, p)], p, rule)

FiresAt(rule, p) == Fires(stream, counters[KeyAt(rule, p)], p, rule)

LEMMA StreamShape ==
    ASSUME TypeOK
    PROVE  /\ pos \in Nat /\ Len(stream) \in Nat /\ pos <= Len(stream)
           /\ DOMAIN stream = 1 .. Len(stream)
           /\ \A i \in 1 .. Len(stream) :
                 stream[i] \in Events /\ stream[i].at \in Int /\ stream[i].ip \in IPs
<1>1. stream \in Seq(Events) /\ pos \in 0 .. Len(stream)
  BY DEF TypeOK
<1>2. \A i \in 1 .. Len(stream) : stream[i] \in Events
  BY <1>1, ElementOfSeq
<1>3. \A e \in Events : e.at \in Int /\ e.ip \in IPs
  BY InstantsAssumption DEF Events
<1>4. QED
  BY <1>1, <1>2, <1>3, LenProperties

LEMMA CounterShape ==
    ASSUME TypeOK, NEW k \in Keys
    PROVE  /\ k[1] \in Rules /\ k[2] \in IPs
           /\ counters[k] \in Counters
           /\ counters[k].stamps \subseteq Matched(k[1], k[2])
           /\ counters[k].last \in 0 .. pos
BY DEF TypeOK, Counters, Keys

LEMMA RuleShape ==
    ASSUME NEW rule \in Rules
    PROVE  RuleOf[rule].window \in Nat /\ RuleOf[rule].count \in Nat \ {0}
           /\ RuleOf[rule].cooldown \in Nat
BY RuleOfAssumption DEF RuleParameters, Durations

\* What a step does: event pos + 1 meets every rule.
LEMMA StepShape ==
    ASSUME TypeOK, Step
    PROVE  /\ pos + 1 \in 1 .. Len(stream) /\ pos' = pos + 1 /\ stream' = stream
           /\ \A rule \in Rules : KeyAt(rule, pos + 1) \in Keys
           /\ counters' = CountersAfter(stream, counters, pos + 1)
           /\ \A rule \in Rules, ip \in IPs :
                 Matched(rule, ip)' =
                    IF Applies(rule, stream[pos + 1]) /\ ip = stream[pos + 1].ip
                    THEN Matched(rule, ip) \cup {pos + 1} ELSE Matched(rule, ip)
           /\ \A a : a \in alerts' <=>
                 \/ a \in alerts
                 \/ \E rule \in Rules :
                       /\ Applies(rule, stream[pos + 1]) /\ FiresAt(rule, pos + 1)
                       /\ a = AlertAt(stream, counters[KeyAt(rule, pos + 1)], pos + 1, rule)
<1>1. pos + 1 \in 1 .. Len(stream) /\ pos' = pos + 1 /\ stream' = stream /\ pos \in Nat
  BY StreamShape DEF Step
<1>2. 1 .. pos + 1 = (1 .. pos) \cup {pos + 1}
  BY <1>1
<1>3. stream[pos + 1].ip \in IPs
  BY <1>1, StreamShape
<1>4. \A rule \in Rules : KeyAt(rule, pos + 1) \in Keys
  BY <1>3 DEF KeyAt, Keys
<1>5. ASSUME NEW rule \in Rules, NEW ip \in IPs
      PROVE  Matched(rule, ip)' =
                IF Applies(rule, stream[pos + 1]) /\ ip = stream[pos + 1].ip
                THEN Matched(rule, ip) \cup {pos + 1} ELSE Matched(rule, ip)
  <2>1. Matched(rule, ip)' = {i \in (1 .. pos) \cup {pos + 1} :
                                 Applies(rule, stream[i]) /\ stream[i].ip = ip}
    BY <1>1, <1>2 DEF Matched
  <2>2. QED
    BY <2>1 DEF Matched
<1>6. counters' = CountersAfter(stream, counters, pos + 1)
      /\ alerts' = alerts \cup AlertsAfter(stream, counters, pos + 1)
  BY DEF Step
<1>7. QED
  BY <1>1, <1>4, <1>5, <1>6 DEF AlertsAfter, KeyAt, FiresAt

\* Which counters the step writes.
LEMMA CounterStep ==
    ASSUME TypeOK, Step, NEW k \in Keys
    PROVE  \/ /\ Applies(k[1], stream[pos + 1]) /\ k[2] = stream[pos + 1].ip
              /\ k = KeyAt(k[1], pos + 1)
              /\ counters'[k].stamps = SlidAt(k[1], pos + 1)
              /\ counters'[k].last = IF FiresAt(k[1], pos + 1) THEN pos + 1
                                     ELSE counters[k].last
              /\ counters'[k] = [stamps |-> counters'[k].stamps, last |-> counters'[k].last]
           \/ /\ ~(Applies(k[1], stream[pos + 1]) /\ k[2] = stream[pos + 1].ip)
              /\ counters'[k] = counters[k]
<1>1. counters' = CountersAfter(stream, counters, pos + 1)
  BY StepShape
<1>2. CASE Applies(k[1], stream[pos + 1]) /\ k[2] = stream[pos + 1].ip
  <2>1. k = KeyAt(k[1], pos + 1)
    BY <1>2 DEF KeyAt, Keys
  <2>2. counters'[k] = Counted(stream, counters[k], pos + 1, k[1])
    BY <1>1, <1>2 DEF CountersAfter
  <2>3. QED
    BY <1>2, <2>1, <2>2 DEF Counted, SlidAt, FiresAt
<1>3. CASE ~(Applies(k[1], stream[pos + 1]) /\ k[2] = stream[pos + 1].ip)
  BY <1>1, <1>3 DEF CountersAfter
<1>4. QED
  BY <1>2, <1>3

\* The slid timestamps are finitely many processed events, the current one
\* among them, and none is a window older than it.
LEMMA SlidShape ==
    ASSUME TypeOK, Step, NEW rule \in Rules, Applies(rule, stream[pos + 1])
    PROVE  /\ \A ip \in IPs : ip = stream[pos + 1].ip
                 => SlidAt(rule, pos + 1) \subseteq Matched(rule, ip)'
           /\ SlidAt(rule, pos + 1) \subseteq 1 .. pos + 1
           /\ pos + 1 \in SlidAt(rule, pos + 1)
           /\ \A i \in SlidAt(rule, pos + 1) :
                 stream[pos + 1].at - stream[i].at <= RuleOf[rule].window
           /\ IsFiniteSet(SlidAt(rule, pos + 1))
           /\ Cardinality(SlidAt(rule, pos + 1)) \in Nat
<1> DEFINE p == pos + 1
<1> DEFINE k == KeyAt(rule, p)
<1>1. p \in 1 .. Len(stream) /\ k \in Keys /\ k[1] = rule /\ k[2] = stream[p].ip
  BY StepShape DEF KeyAt
<1>2. pos \in Nat /\ stream[p].at \in Int /\ RuleOf[rule].window \in Nat
  BY <1>1, StreamShape, RuleShape
<1>3. counters[k].stamps \subseteq Matched(rule, stream[p].ip)
  BY <1>1, CounterShape
<1>4. SlidAt(rule, p) = {i \in counters[k].stamps :
                            stream[p].at - stream[i].at <= RuleOf[rule].window} \cup {p}
  BY DEF SlidAt, Slide
<1>5. \A ip \in IPs : ip = stream[p].ip => Matched(rule, ip)' = Matched(rule, ip) \cup {p}
  BY StepShape
<1>6. Matched(rule, stream[p].ip) \subseteq 1 .. pos
  BY DEF Matched
<1>7. SlidAt(rule, p) \subseteq 1 .. p
  BY <1>2, <1>3, <1>4, <1>6
<1>8. IsFiniteSet(SlidAt(rule, p)) /\ Cardinality(SlidAt(rule, p)) \in Nat
  <2>1. IsFiniteSet(1 .. p)
    BY <1>2, FS_Interval
  <2>2. SlidAt(rule, p) \in SUBSET (1 .. p)
    BY <1>7
  <2> HIDE DEF p
  <2>3. QED
    BY <2>1, <2>2, FS_Subset, FS_CardinalityType
<1>9. QED
  BY <1>2, <1>3, <1>4, <1>5, <1>7, <1>8

\* min() and max() of the list find the first and the last of its instants.
LEMMA SpanOfSlid ==
    ASSUME TypeOK, Step, NEW rule \in Rules, Applies(rule, stream[pos + 1])
    PROVE  LET S == SlidAt(rule, pos + 1)
               a == AlertAt(stream, counters[KeyAt(rule, pos + 1)], pos + 1, rule)
           IN  /\ \E i \in S : a.started = stream[i].at
               /\ \E i \in S : a.ended = stream[i].at
               /\ a.started \in Int /\ a.ended \in Int
               /\ a.rule = rule /\ a.ip = stream[pos + 1].ip /\ a.position = pos + 1
               /\ a.count = Cardinality(S)
               /\ a = [rule |-> a.rule, ip |-> a.ip, position |-> a.position,
                       started |-> a.started, ended |-> a.ended, count |-> a.count]
<1> DEFINE S == SlidAt(rule, pos + 1)
<1> DEFINE a == AlertAt(stream, counters[KeyAt(rule, pos + 1)], pos + 1, rule)
<1> DEFINE times == {stream[i].at : i \in S}
<1>1. S \subseteq 1 .. Len(stream) /\ pos + 1 \in S /\ IsFiniteSet(S)
  BY SlidShape, StepShape, StreamShape
<1>2. times \in SUBSET Int /\ times # {}
  BY <1>1, StreamShape
<1>3. IsFiniteSet(times)
  <2> DEFINE at == [i \in DOMAIN stream |-> stream[i].at]
  <2>1. times = {at[i] : i \in S} /\ S \subseteq DOMAIN at
    BY <1>1, StreamShape
  <2> HIDE DEF at, times, S
  <2>2. QED
    BY <1>1, <2>1, FiniteReadings
<1>4. \E t \in times : \A u \in times : u <= t
  <2> HIDE DEF times
  <2>1. QED
    BY <1>2, <1>3, GreatestOfFinite
<1>5. \E t \in times : \A u \in times : t <= u
  <2> DEFINE floor == stream[pos + 1].at - RuleOf[rule].window
  <2>1. floor \in Int
    BY StepShape, StreamShape, RuleShape
  <2>2. \A t \in times : floor <= t
    BY <1>1, SlidShape, StepShape, StreamShape, RuleShape
  <2> HIDE DEF times, floor
  <2>3. QED
    BY <1>2, <2>1, <2>2, LeastInteger
<1>6. Earliest(times) \in times /\ Latest(times) \in times
  <2> HIDE DEF times
  <2>1. QED
    BY <1>4, <1>5 DEF Earliest, Latest
<1>7. a = [rule |-> rule, ip |-> stream[pos + 1].ip, position |-> pos + 1,
           started |-> Earliest(times), ended |-> Latest(times), count |-> Cardinality(S)]
  BY DEF AlertAt, SlidAt
<1>8. (\E i \in S : Earliest(times) = stream[i].at) /\ (\E i \in S : Latest(times) = stream[i].at)
      /\ Earliest(times) \in Int /\ Latest(times) \in Int
  BY <1>2, <1>6
<1> HIDE DEF S, a, times
<1>9. QED
  BY <1>7, <1>8 DEF S, a

-----------------------------------------------------------------------------
(* Types *)

LEMMA TypeInit == Init => TypeOK
<1> SUFFICES ASSUME Init
             PROVE  TypeOK
  OBVIOUS
<1>1. PICK n \in 0 .. MaxEvents : stream \in [1 .. n -> Events]
  BY DEF Init
<1>2. n \in Nat /\ stream \in Seq(Events)
  BY <1>1, MaxEventsAssumption, SeqDef
<1>3. pos = 0 /\ counters = NoCounters /\ alerts = {} /\ Sorted(stream)
  BY DEF Init
<1>4. Len(stream) \in Nat
  BY <1>2, LenProperties
<1>5. counters \in [Keys -> Counters] /\ \A k \in Keys : counters[k].stamps = {}
  BY <1>3 DEF NoCounters, NoCounter, Counters
<1>6. QED
  BY <1>2, <1>3, <1>4, <1>5 DEF TypeOK

LEMMA TypeStep == TypeOK /\ [Next]_vars => TypeOK'
<1> SUFFICES ASSUME TypeOK, [Next]_vars
             PROVE  TypeOK'
  OBVIOUS
<1>1. CASE UNCHANGED vars
  BY <1>1 DEF TypeOK, vars, Counters, AlertRecords, Matched
<1>2. CASE Step
  <2>1. /\ pos + 1 \in 1 .. Len(stream) /\ pos' = pos + 1 /\ stream' = stream /\ pos \in Nat
        /\ counters' = CountersAfter(stream, counters, pos + 1)
        /\ stream[pos + 1].ip \in IPs
    BY <1>2, StepShape, StreamShape
  <2>2. 1 .. pos \subseteq 1 .. pos' /\ 0 .. pos \subseteq 0 .. pos' /\ pos + 1 \in 1 .. pos'
        /\ pos + 1 \in 0 .. pos' /\ 1 .. pos + 1 = 1 .. pos'
    BY <2>1
  <2>3. ASSUME NEW k \in Keys
        PROVE  /\ counters'[k] \in [stamps : SUBSET (1 .. pos'), last : 0 .. pos']
               /\ counters'[k].stamps \subseteq Matched(k[1], k[2])'
    <3>1. /\ k[1] \in Rules /\ k[2] \in IPs /\ counters[k] \in Counters
          /\ counters[k].stamps \subseteq Matched(k[1], k[2]) /\ counters[k].last \in 0 .. pos
      BY CounterShape
    <3>2. Matched(k[1], k[2]) \subseteq Matched(k[1], k[2])'
      BY <1>2, <3>1, StepShape
    <3>3. CASE counters'[k] = counters[k]
      BY <2>2, <3>1, <3>2, <3>3 DEF Counters
    <3>4. CASE /\ Applies(k[1], stream[pos + 1]) /\ k[2] = stream[pos + 1].ip
               /\ counters'[k].stamps = SlidAt(k[1], pos + 1)
               /\ counters'[k].last = IF FiresAt(k[1], pos + 1) THEN pos + 1
                                      ELSE counters[k].last
               /\ counters'[k] = [stamps |-> counters'[k].stamps, last |-> counters'[k].last]
      <4>1. /\ SlidAt(k[1], pos + 1) \subseteq Matched(k[1], k[2])'
            /\ SlidAt(k[1], pos + 1) \subseteq 1 .. pos'
        BY <1>2, <2>2, <3>1, <3>4, SlidShape
      <4>2. counters'[k].last \in 0 .. pos'
        BY <2>2, <3>1, <3>4
      <4>3. QED
        BY <3>4, <4>1, <4>2
    <3>5. QED
      BY <1>2, <3>3, <3>4, CounterStep
  <2>4. counters' \in [Keys -> Counters]'
    BY <2>1, <2>3 DEF CountersAfter, Counters
  <2>5. ASSUME NEW a \in alerts'
        PROVE  a \in [rule : Rules, ip : IPs, position : 1 .. pos',
                      started : Int, ended : Int, count : Nat]
    <3>1. CASE a \in alerts
      <4>1. a \in AlertRecords
        BY <3>1 DEF TypeOK
      <4>2. QED
        BY <2>2, <4>1 DEF AlertRecords
    <3>2. CASE \E rule \in Rules :
                  /\ Applies(rule, stream[pos + 1]) /\ FiresAt(rule, pos + 1)
                  /\ a = AlertAt(stream, counters[KeyAt(rule, pos + 1)], pos + 1, rule)
      <4>1. PICK rule \in Rules :
               /\ Applies(rule, stream[pos + 1])
               /\ a = AlertAt(stream, counters[KeyAt(rule, pos + 1)], pos + 1, rule)
        BY <3>2
      <4>2. /\ a.started \in Int /\ a.ended \in Int /\ a.rule = rule
            /\ a.ip = stream[pos + 1].ip /\ a.position = pos + 1
            /\ a.count = Cardinality(SlidAt(rule, pos + 1))
            /\ a = [rule |-> a.rule, ip |-> a.ip, position |-> a.position,
                    started |-> a.started, ended |-> a.ended, count |-> a.count]
        BY <1>2, <4>1, SpanOfSlid
      <4>3. a.count \in Nat
        BY <1>2, <4>1, <4>2, SlidShape
      <4>4. QED
        BY <2>1, <2>2, <4>2, <4>3
    <3>3. QED
      BY <1>2, <3>1, <3>2, StepShape
  <2>6. stream' \in Seq(Events) /\ Sorted(stream') /\ pos' \in 0 .. Len(stream')
    BY <2>1, StreamShape DEF TypeOK
  <2>7. QED
    BY <2>3, <2>4, <2>5, <2>6 DEF TypeOK, AlertRecords
<1>3. QED
  BY <1>1, <1>2 DEF Next

\* Whatever the offsets of the timestamps, a counter holds processed events of
\* its own rule and address, and every alert is complete.
THEOREM TypeCorrect == Spec => []TypeOK
<1>1. QED
  BY TypeInit, TypeStep, PTL DEF Spec

-----------------------------------------------------------------------------
(* Bursts: what the sliding window counts *)

\* All timestamps are written with the same UTC offset; then sorting their
\* texts sorts the instants.
OneOffset == \A o, q \in Offsets : o = q

Ordered == \A i, j \in DOMAIN stream : i < j => stream[i].at <= stream[j].at

\* An event that a counter has dropped is a window older than one it has met.
PrunedForGood ==
    \A k \in Keys : \A i \in Matched(k[1], k[2]) \ counters[k].stamps :
        \E n \in Matched(k[1], k[2]) : stream[n].at - stream[i].at > RuleOf[k[1]].window

\* An alert names the rule that its event matched, and the event's address.
AlertsNamed ==
    \A a \in alerts : a.ip = stream[a.position].ip /\ Applies(a.rule, stream[a.position])

BurstInv ==
    /\ TypeOK
    /\ Ordered
    /\ PrunedForGood
    /\ AlertsNamed
    /\ AlertsCountBurst
    /\ AlertsSpanWindow

LEMMA OneOffsetOrders == ASSUME OneOffset, TypeOK PROVE Ordered
<1> SUFFICES ASSUME NEW i \in DOMAIN stream, NEW j \in DOMAIN stream, i < j
             PROVE  stream[i].at <= stream[j].at
  BY DEF Ordered
<1>1. stream[i] \in Events /\ stream[j] \in Events /\ stream[i].wall <= stream[j].wall
  BY StreamShape DEF TypeOK, Sorted
<1>2. PICK o \in Offsets : stream[i].wall = stream[i].at + o /\ stream[j].wall = stream[j].at + o
  BY <1>1 DEF Events, OneOffset
<1>3. stream[i].at \in Int /\ stream[j].at \in Int /\ o \in Int
  BY StreamShape, OffsetsAssumption
<1>4. QED
  BY <1>1, <1>2, <1>3

\* A burst that ended is not changed by later events.
LEMMA BurstsStay ==
    ASSUME TypeOK, Step, NEW rule \in Rules, NEW p \in 1 .. pos
    PROVE  Burst(rule, p)' = Burst(rule, p)
<1>1. /\ pos + 1 \in 1 .. Len(stream) /\ pos' = pos + 1 /\ stream' = stream /\ pos \in Nat
      /\ p \in Nat /\ p < pos + 1 /\ stream[p].ip \in IPs
  BY StepShape, StreamShape
<1>2. PICK ip \in IPs : ip = stream[p].ip
  BY <1>1
<1>3. Matched(rule, ip) \subseteq Matched(rule, ip)'
      /\ Matched(rule, ip)' \subseteq Matched(rule, ip) \cup {pos + 1}
  BY StepShape
<1>4. \A i \in Matched(rule, ip)' : i <= p => i \in Matched(rule, ip)
  BY <1>1, <1>3
<1>5. Burst(rule, p)' = {i \in Matched(rule, ip)' :
                            i <= p /\ stream[p].at - stream[i].at <= RuleOf[rule].window}
  BY <1>1, <1>2 DEF Burst
<1>6. QED
  BY <1>2, <1>3, <1>4, <1>5 DEF Burst

\* The slid timestamps are the burst that ends at the current event.
LEMMA SlidIsBurst ==
    ASSUME BurstInv, Step, NEW rule \in Rules, Applies(rule, stream[pos + 1]),
           NEW p, p = pos + 1
    PROVE  Burst(rule, p)' = SlidAt(rule, p)
<1>1. /\ p \in 1 .. Len(stream) /\ pos' = p /\ stream' = stream /\ pos \in Nat /\ p \in Nat
      /\ stream[p].ip \in IPs /\ stream[p].at \in Int /\ TypeOK
  BY StepShape, StreamShape DEF BurstInv
<1>2. PICK ip \in IPs : ip = stream[p].ip
  BY <1>1
<1> DEFINE k == KeyAt(rule, p)
<1>3. k \in Keys /\ k[1] = rule /\ k[2] = ip
  BY <1>2 DEF KeyAt, Keys
<1>4. Matched(rule, ip)' = Matched(rule, ip) \cup {p}
  BY <1>1, <1>2, StepShape
<1>5. Burst(rule, p)' = {i \in Matched(rule, ip) \cup {p} :
                            i <= p /\ stream[p].at - stream[i].at <= RuleOf[rule].window}
  BY <1>1, <1>2, <1>4 DEF Burst
<1>6. SlidAt(rule, p) = {i \in counters[k].stamps :
                            stream[p].at - stream[i].at <= RuleOf[rule].window} \cup {p}
  BY DEF SlidAt, Slide
<1>7. counters[k].stamps \subseteq Matched(rule, ip)
  BY <1>1, <1>3, CounterShape
<1>8. RuleOf[rule].window \in Nat
  BY RuleShape
<1>9. \A i \in Matched(rule, ip) : /\ i \in 1 .. pos /\ i <= p /\ i \in DOMAIN stream
                                   /\ stream[i].at \in Int /\ stream[i].at <= stream[p].at
  BY <1>1, StreamShape DEF Matched, BurstInv, Ordered
<1>10. ASSUME NEW i \in Matched(rule, ip), i \notin counters[k].stamps
       PROVE  stream[p].at - stream[i].at > RuleOf[rule].window
  <2>1. PICK n \in Matched(rule, ip) : stream[n].at - stream[i].at > RuleOf[rule].window
    BY <1>3, <1>10 DEF BurstInv, PrunedForGood
  <2>2. QED
    BY <1>1, <1>8, <1>9, <2>1
<1>11. ASSUME NEW i \in Matched(rule, ip), stream[p].at - stream[i].at <= RuleOf[rule].window
       PROVE  i \in counters[k].stamps
  <2>1. stream[p].at - stream[i].at \in Int
    BY <1>1, <1>9
  <2>2. QED
    BY <1>8, <1>10, <1>11, <2>1
<1>12. stream[p].at - stream[p].at <= RuleOf[rule].window /\ p <= p
  BY <1>1, <1>8
<1> HIDE DEF k
<1>13. QED
  BY <1>5, <1>6, <1>7, <1>9, <1>11, <1>12

LEMMA BurstStep == ASSUME OneOffset, BurstInv, [Next]_vars PROVE BurstInv'
<1>1. TypeOK /\ TypeOK' /\ Ordered'
  <2>1. TypeOK /\ TypeOK'
    BY TypeStep DEF BurstInv
  <2>2. stream' = stream
    BY DEF Next, Step, vars
  <2>3. QED
    BY <2>1, <2>2 DEF BurstInv, Ordered
<1>2. CASE UNCHANGED vars
  BY <1>1, <1>2 DEF BurstInv, vars, PrunedForGood, AlertsNamed, AlertsCountBurst,
                    AlertsSpanWindow, Matched, Burst
<1>3. CASE Step
  <2>1. PICK p : p = pos + 1
    OBVIOUS
  <2>2. /\ p \in 1 .. Len(stream) /\ pos' = p /\ stream' = stream /\ pos \in Nat /\ p \in Nat
        /\ stream[p].ip \in IPs /\ stream[p].at \in Int
    BY <1>1, <1>3, <2>1, StepShape, StreamShape
  <2>3. \A a \in alerts' : \/ a \in alerts
                           \/ \E rule \in Rules :
                                /\ Applies(rule, stream[p]) /\ FiresAt(rule, p)
                                /\ a = AlertAt(stream, counters[KeyAt(rule, p)], p, rule)
    BY <1>1, <1>3, <2>1, StepShape
  <2>4. \A a \in alerts : a.rule \in Rules /\ a.position \in 1 .. pos
    BY <1>1 DEF TypeOK, AlertRecords
  <2>5. PrunedForGood'
    <3> SUFFICES ASSUME NEW k \in Keys, NEW i \in Matched(k[1], k[2])',
                        i \notin counters'[k].stamps
                 PROVE  \E n \in Matched(k[1], k[2])' :
                           stream[n].at - stream[i].at > RuleOf[k[1]].window
      BY <2>2 DEF PrunedForGood
    <3>1. k[1] \in Rules /\ k[2] \in IPs
      BY <1>1, CounterShape
    <3>2. CASE Applies(k[1], stream[p]) /\ k[2] = stream[p].ip
      <4>1. counters'[k].stamps = SlidAt(k[1], p)
        BY <1>1, <1>3, <2>1, <3>2, CounterStep
      <4>2. Burst(k[1], p)' = SlidAt(k[1], p)
        BY <1>3, <2>1, <3>1, <3>2, SlidIsBurst
      <4>3. Burst(k[1], p)' = {j \in Matched(k[1], k[2])' :
                                  j <= p /\ stream[p].at - stream[j].at <= RuleOf[k[1]].window}
        BY <2>2, <3>2 DEF Burst
      <4>4. i \in 1 .. p /\ i <= p /\ stream[i].at \in Int
        BY <1>1, <2>2, StreamShape DEF Matched
      <4>5. ~(stream[p].at - stream[i].at <= RuleOf[k[1]].window)
        BY <4>1, <4>2, <4>3, <4>4
      <4>6. p \in Matched(k[1], k[2])'
        BY <1>1, <1>3, <2>1, <3>1, <3>2, StepShape
      <4>7. QED
        BY <2>2, <3>1, <4>4, <4>5, <4>6, RuleShape
    <3>3. CASE ~(Applies(k[1], stream[p]) /\ k[2] = stream[p].ip)
      <4>1. counters'[k] = counters[k] /\ Matched(k[1], k[2])' = Matched(k[1], k[2])
        BY <1>1, <1>3, <2>1, <3>1, <3>3, CounterStep, StepShape
      <4>2. QED
        BY <4>1 DEF BurstInv, PrunedForGood
    <3>4. QED
      BY <3>2, <3>3
  <2>6. ASSUME NEW a \in alerts'
        PROVE  /\ a.ip = stream[a.position].ip /\ Applies(a.rule, stream[a.position])
               /\ a.count = Cardinality(Burst(a.rule, a.position)')
               /\ a.ended - a.started <= RuleOf[a.rule].window
               /\ a.count >= RuleOf[a.rule].count
    <3>1. CASE a \in alerts
      <4>1. Burst(a.rule, a.position)' = Burst(a.rule, a.position)
        BY <1>1, <1>3, <2>4, <3>1, BurstsStay
      <4>2. QED
        BY <3>1, <4>1 DEF BurstInv, AlertsNamed, AlertsCountBurst, AlertsSpanWindow
    <3>2. CASE \E rule \in Rules :
                  /\ Applies(rule, stream[p]) /\ FiresAt(rule, p)
                  /\ a = AlertAt(stream, counters[KeyAt(rule, p)], p, rule)
      <4>1. PICK rule \in Rules :
               /\ Applies(rule, stream[p]) /\ FiresAt(rule, p)
               /\ a = AlertAt(stream, counters[KeyAt(rule, p)], p, rule)
        BY <3>2
      <4>2. /\ \E i \in SlidAt(rule, p) : a.started = stream[i].at
            /\ \E i \in SlidAt(rule, p) : a.ended = stream[i].at
            /\ a.rule = rule /\ a.ip = stream[p].ip /\ a.position = p
            /\ a.count = Cardinality(SlidAt(rule, p))
        BY <1>1, <1>3, <2>1, <4>1, SpanOfSlid
      <4>3. Burst(rule, p)' = SlidAt(rule, p)
        BY <1>3, <2>1, <4>1, SlidIsBurst
      <4>4. a.count >= RuleOf[rule].count
        BY <4>1, <4>2 DEF FiresAt, Fires, SlidAt
      <4>5. \A i \in SlidAt(rule, p) : /\ stream[i].at \in Int /\ stream[i].at <= stream[p].at
                                       /\ stream[p].at - stream[i].at <= RuleOf[rule].window
        <5>1. ASSUME NEW i \in SlidAt(rule, p)
              PROVE  /\ i \in 1 .. p
                     /\ stream[p].at - stream[i].at <= RuleOf[rule].window
          BY <1>1, <1>3, <2>1, <4>1, SlidShape
        <5>2. ASSUME NEW i \in 1 .. p
              PROVE  stream[i].at \in Int /\ stream[i].at <= stream[p].at
          <6>1. i \in DOMAIN stream /\ p \in DOMAIN stream /\ (i < p \/ i = p)
            BY <1>1, <2>2, StreamShape
          <6>2. QED
            BY <1>1, <2>2, <6>1, StreamShape DEF BurstInv, Ordered
        <5>3. QED
          BY <5>1, <5>2
      <4>6. a.ended - a.started <= RuleOf[rule].window
        BY <2>2, <4>2, <4>5, RuleShape
      <4>7. QED
        BY <4>1, <4>2, <4>3, <4>4, <4>6
    <3>3. QED
      BY <2>3, <3>1, <3>2
  <2>7. AlertsNamed' /\ AlertsSpanWindow'
    BY <2>2, <2>6 DEF AlertsNamed, AlertsSpanWindow
  <2>8. AlertsCountBurst'
    BY <2>6 DEF AlertsCountBurst
  <2>9. QED
    BY <1>1, <2>5, <2>7, <2>8 DEF BurstInv
<1>4. QED
  BY <1>2, <1>3 DEF Next

LEMMA BurstInvHolds == ASSUME OneOffset PROVE Spec => []BurstInv
<1>1. Init => BurstInv
  <2> SUFFICES ASSUME Init
               PROVE  BurstInv
    OBVIOUS
  <2>1. TypeOK /\ Ordered
    BY TypeInit, OneOffsetOrders
  <2>2. pos = 0 /\ alerts = {}
    BY DEF Init
  <2>3. \A rule \in Rules, ip \in IPs : Matched(rule, ip) = {}
    BY <2>2 DEF Matched
  <2>4. PrunedForGood
    BY <2>1, <2>3, CounterShape DEF PrunedForGood
  <2>5. QED
    BY <2>1, <2>2, <2>4 DEF BurstInv, AlertsNamed, AlertsCountBurst, AlertsSpanWindow
<1>2. BurstInv /\ [Next]_vars => BurstInv'
  BY BurstStep
<1>3. QED
  BY <1>1, <1>2, PTL DEF Spec

\* With one offset, the list of timestamps that process() prunes on the way
\* holds exactly the burst: an alert counts all of it and nothing else.
THEOREM AlertsAreBursts == ASSUME OneOffset PROVE Spec => []AlertsCountBurst
<1>1. BurstInv => AlertsCountBurst
  BY DEF BurstInv
<1>2. QED
  BY <1>1, BurstInvHolds, PTL

\* With one offset, what an alert reports fits into the rule's window.
THEOREM AlertsFitWindow == ASSUME OneOffset PROVE Spec => []AlertsSpanWindow
<1>1. BurstInv => AlertsSpanWindow
  BY DEF BurstInv
<1>2. QED
  BY <1>1, BurstInvHolds, PTL

-----------------------------------------------------------------------------
(* The cooldown *)

\* last_alert_at is the newest alert of the counter's rule and address.
LastIsNewest ==
    \A k \in Keys :
        /\ counters[k].last # 0 =>
              \E a \in alerts : a.rule = k[1] /\ a.ip = k[2] /\ a.position = counters[k].last
        /\ \A a \in alerts :
              a.rule = k[1] /\ a.ip = k[2] => a.position <= counters[k].last

CooldownInv == BurstInv /\ LastIsNewest /\ CooldownKept /\ NoBurstMissed

\* The alerts a step adds are at its own position, one per rule that fires.
LEMMA NewAlerts ==
    ASSUME TypeOK, Step, NEW p, p = pos + 1
    PROVE  /\ \A a \in alerts' : \/ a \in alerts
                                 \/ /\ a.rule \in Rules /\ a.position = p /\ a.ip = stream[p].ip
                                    /\ Applies(a.rule, stream[p]) /\ FiresAt(a.rule, p)
           /\ \A rule \in Rules :
                 Applies(rule, stream[p]) /\ FiresAt(rule, p) =>
                    \E a \in alerts' : a.rule = rule /\ a.ip = stream[p].ip /\ a.position = p
           /\ alerts \subseteq alerts'
<1>1. \A a : a \in alerts' <=>
         \/ a \in alerts
         \/ \E rule \in Rules :
               /\ Applies(rule, stream[p]) /\ FiresAt(rule, p)
               /\ a = AlertAt(stream, counters[KeyAt(rule, p)], p, rule)
  BY StepShape
<1>2. \A rule \in Rules : \A a :
         Applies(rule, stream[p]) /\ a = AlertAt(stream, counters[KeyAt(rule, p)], p, rule)
            => a.rule = rule /\ a.ip = stream[p].ip /\ a.position = p
  BY SpanOfSlid
<1>3. QED
  BY <1>1, <1>2

LEMMA CooldownStep == ASSUME OneOffset, CooldownInv, [Next]_vars PROVE CooldownInv'
<1>1. BurstInv /\ BurstInv' /\ TypeOK /\ TypeOK'
  BY BurstStep DEF CooldownInv, BurstInv
<1>2. CASE UNCHANGED vars
  BY <1>1, <1>2 DEF CooldownInv, vars, LastIsNewest, CooldownKept, NoBurstMissed, Burst, Matched
<1>3. CASE Step
  <2>1. PICK p : p = pos + 1
    OBVIOUS
  <2>2. /\ p \in 1 .. Len(stream) /\ pos' = p /\ stream' = stream /\ pos \in Nat /\ p \in Nat
        /\ stream[p].ip \in IPs /\ stream[p].at \in Int
    BY <1>1, <1>3, <2>1, StepShape, StreamShape
  <2>3. \A a \in alerts : /\ a.rule \in Rules /\ a.ip \in IPs /\ a.position \in 1 .. pos
                          /\ a.position < p /\ a.position \in Int
    BY <1>1, <2>1, <2>2 DEF TypeOK, AlertRecords
  <2>4. \A a \in alerts' : \/ a \in alerts
                           \/ /\ a.rule \in Rules /\ a.position = p /\ a.ip = stream[p].ip
                              /\ Applies(a.rule, stream[p]) /\ FiresAt(a.rule, p)
    BY <1>1, <1>3, <2>1, NewAlerts
  <2>5. ASSUME NEW k \in Keys
        PROVE  /\ k[1] \in Rules /\ k[2] \in IPs /\ counters[k].last \in 0 .. pos
               /\ \/ /\ Applies(k[1], stream[p]) /\ k = KeyAt(k[1], p) /\ FiresAt(k[1], p)
                     /\ k[2] = stream[p].ip /\ counters'[k].last = p
                  \/ /\ counters'[k].last = counters[k].last
                     /\ ~(Applies(k[1], stream[p]) /\ k[2] = stream[p].ip /\ FiresAt(k[1], p))
    BY <1>1, <1>3, <2>1, CounterShape, CounterStep
  <2>6. LastIsNewest'
    <3> SUFFICES ASSUME NEW k \in Keys
                 PROVE  /\ counters'[k].last # 0 =>
                              \E a \in alerts' : /\ a.rule = k[1] /\ a.ip = k[2]
                                                 /\ a.position = counters'[k].last
                        /\ \A a \in alerts' :
                              a.rule = k[1] /\ a.ip = k[2] => a.position <= counters'[k].last
      BY DEF LastIsNewest
    <3>1. CASE /\ Applies(k[1], stream[p]) /\ k = KeyAt(k[1], p) /\ FiresAt(k[1], p)
               /\ k[2] = stream[p].ip /\ counters'[k].last = p
      <4>1. \E a \in alerts' : a.rule = k[1] /\ a.ip = k[2] /\ a.position = counters'[k].last
        BY <1>1, <1>3, <2>1, <2>5, <3>1, NewAlerts
      <4>2. \A a \in alerts' : a.position <= p
        BY <2>2, <2>3, <2>4
      <4>3. QED
        BY <3>1, <4>1, <4>2
    <3>2. CASE /\ counters'[k].last = counters[k].last
               /\ ~(Applies(k[1], stream[p]) /\ k[2] = stream[p].ip /\ FiresAt(k[1], p))
      <4>1. \A a \in alerts' : a.rule = k[1] /\ a.ip = k[2] => a \in alerts
        BY <2>4, <3>2
      <4>2. alerts \subseteq alerts'
        BY <1>1, <1>3, <2>1, NewAlerts
      <4>3. QED
        BY <3>2, <4>1, <4>2 DEF CooldownInv, LastIsNewest
    <3>3. QED
      BY <2>5, <3>1, <3>2
  \* Time went on between the newest alert of a counter and the current event.
  <2>7. ASSUME NEW q \in 1 .. pos
        PROVE  stream[q].at \in Int /\ stream[q].at <= stream[p].at
    <3>1. q \in DOMAIN stream /\ p \in DOMAIN stream /\ q < p
      BY <1>1, <2>1, <2>2, StreamShape
    <3>2. QED
      BY <1>1, <3>1, StreamShape DEF BurstInv, Ordered
  <2>8. CooldownKept'
    <3> SUFFICES ASSUME NEW a \in alerts', NEW b \in alerts', a.rule = b.rule, a.ip = b.ip,
                        a.position < b.position
                 PROVE  stream[b.position].at - stream[a.position].at >= RuleOf[a.rule].cooldown
      BY <2>2 DEF CooldownKept
    <3>1. CASE b \in alerts
      <4>1. a \in alerts
        BY <2>2, <2>3, <2>4, <3>1
      <4>2. QED
        BY <3>1, <4>1 DEF CooldownInv, CooldownKept
    <3>2. CASE b \notin alerts
      <4>1. /\ b.rule \in Rules /\ b.position = p /\ b.ip = stream[p].ip
            /\ Applies(b.rule, stream[p]) /\ FiresAt(b.rule, p)
        BY <2>4, <3>2
      <4>2. a \in alerts /\ a.position \in 1 .. pos
        BY <2>2, <2>3, <2>4, <4>1
      <4> DEFINE k == KeyAt(b.rule, p)
      <4>3. k \in Keys /\ k[1] = b.rule /\ k[2] = b.ip
        BY <2>2, <4>1 DEF KeyAt, Keys
      <4> DEFINE last == counters[k].last
      <4>4. a.position <= last /\ last \in 0 .. pos
        BY <2>5, <4>2, <4>3 DEF CooldownInv, LastIsNewest
      <4>5. last \in 1 .. pos /\ (a.position < last \/ a.position = last)
        BY <2>2, <4>2, <4>4
      <4>6. ~(stream[p].at - stream[last].at < RuleOf[b.rule].cooldown)
        BY <2>2, <4>1, <4>5 DEF FiresAt, Fires, Cooling
      <4>7. stream[a.position].at <= stream[last].at
        <5>1. a.position \in DOMAIN stream /\ last \in DOMAIN stream
          BY <1>1, <2>2, <4>2, <4>5, StreamShape
        <5>2. QED
          BY <2>7, <4>2, <4>5, <5>1, <1>1 DEF BurstInv, Ordered
      <4>8. RuleOf[b.rule].cooldown \in Nat
        BY <4>1, RuleShape
      <4>9. stream[a.position].at \in Int /\ stream[last].at \in Int
        BY <2>7, <4>2, <4>5
      <4> HIDE DEF last, k
      <4>10. QED
        BY <2>2, <4>1, <4>6, <4>7, <4>8, <4>9
    <3>3. QED
      BY <3>1, <3>2
  <2>9. NoBurstMissed'
    <3> SUFFICES ASSUME NEW rule \in Rules, NEW q \in 1 .. p, Applies(rule, stream[q]),
                        Cardinality(Burst(rule, q)') >= RuleOf[rule].count
                 PROVE  \E a \in alerts' :
                           /\ a.rule = rule /\ a.ip = stream[q].ip /\ a.position <= q
                           /\ \/ a.position = q
                              \/ stream[q].at - stream[a.position].at < RuleOf[rule].cooldown
      BY <2>2 DEF NoBurstMissed
    <3>1. alerts \subseteq alerts'
      BY <1>1, <1>3, <2>1, NewAlerts
    <3>2. CASE q \in 1 .. pos
      <4>1. Burst(rule, q)' = Burst(rule, q)
        BY <1>1, <1>3, <3>2, BurstsStay
      <4>2. QED
        BY <3>1, <3>2, <4>1 DEF CooldownInv, NoBurstMissed
    <3>3. CASE q = p
      <4>1. Burst(rule, q)' = SlidAt(rule, p)
        BY <1>1, <1>3, <2>1, <3>3, SlidIsBurst
      <4>2. CASE FiresAt(rule, p)
        <5>1. PICK a \in alerts' : a.rule = rule /\ a.ip = stream[p].ip /\ a.position = p
          BY <1>1, <1>3, <2>1, <3>3, <4>2, NewAlerts
        <5>2. QED
          BY <2>2, <3>3, <5>1
      <4>3. CASE ~FiresAt(rule, p)
        <5> DEFINE k == KeyAt(rule, p)
        <5> DEFINE last == counters[k].last
        <5>1. k \in Keys /\ k[1] = rule /\ k[2] = stream[p].ip
          BY <2>2 DEF KeyAt, Keys
        <5>2. Cooling(stream, counters[k], p, rule)
          BY <3>3, <4>1, <4>3 DEF FiresAt, Fires, SlidAt
        <5>3. last # 0 /\ stream[p].at - stream[last].at < RuleOf[rule].cooldown
          BY <5>2 DEF Cooling
        <5>4. PICK a \in alerts : a.rule = rule /\ a.ip = stream[p].ip /\ a.position = last
          BY <5>1, <5>3 DEF CooldownInv, LastIsNewest
        <5>5. a.position <= p
          BY <2>2, <2>3, <5>4
        <5>6. QED
          BY <3>1, <3>3, <5>3, <5>4, <5>5
      <4>4. QED
        BY <4>2, <4>3
    <3>4. QED
      BY <2>1, <2>2, <3>2, <3>3
  <2>10. QED
    BY <1>1, <2>6, <2>8, <2>9 DEF CooldownInv
<1>4. QED
  BY <1>2, <1>3 DEF Next

LEMMA CooldownInvHolds == ASSUME OneOffset PROVE Spec => []CooldownInv
<1>1. Init /\ BurstInv => CooldownInv
  <2> SUFFICES ASSUME Init, BurstInv
               PROVE  CooldownInv
    OBVIOUS
  <2>1. pos = 0 /\ alerts = {} /\ \A k \in Keys : counters[k].last = 0
    BY DEF Init, NoCounters, NoCounter
  <2>2. QED
    BY <2>1 DEF CooldownInv, LastIsNewest, CooldownKept, NoBurstMissed
<1>2. CooldownInv /\ [Next]_vars => CooldownInv'
  BY CooldownStep
<1>3. QED
  BY <1>1, <1>2, BurstInvHolds, PTL DEF Spec

\* With one offset, two alerts of one rule for one address are a cooldown
\* apart, however many events come in between.
THEOREM AlertsCoolDown == ASSUME OneOffset PROVE Spec => []CooldownKept
<1>1. CooldownInv => CooldownKept
  BY DEF CooldownInv
<1>2. QED
  BY <1>1, CooldownInvHolds, PTL

\* With one offset, no burst goes by unnoticed: it raises an alert, or one
\* less than a cooldown older stands for it.
THEOREM BurstsAreAlerted == ASSUME OneOffset PROVE Spec => []NoBurstMissed
<1>1. CooldownInv => NoBurstMissed
  BY DEF CooldownInv
<1>2. QED
  BY <1>1, CooldownInvHolds, PTL
==============================================================================
