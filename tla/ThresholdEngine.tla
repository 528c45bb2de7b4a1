--------------------------- MODULE ThresholdEngine ---------------------------
(***************************************************************************)
(* The loop of ThresholdEngine.process (services/detection/engine.py): the *)
(* events of one run, sorted by the text of their timestamps, meet the     *)
(* rules one after the other.                                              *)
(***************************************************************************)
EXTENDS SlidingWindow

CONSTANTS
    Instants,    \* when an event can happen
    Offsets,     \* the UTC offsets that timestamps are written with
    MaxEvents    \* bound on the length of a stream

ASSUME InstantsAssumption == Instants \subseteq Int
ASSUME OffsetsAssumption  == Offsets \subseteq Int
ASSUME MaxEventsAssumption == MaxEvents \in Nat

VARIABLES
    stream,      \* the sorted events
    pos,         \* how many of them have been processed
    counters,    \* self.state
    alerts       \* the alerts raised so far

vars == <<stream, pos, counters, alerts>>

\* isoformat() writes the local time first: the text of a timestamp sorts
\* by the instant shifted by the offset.
Walls  == {t + o : t \in Instants, o \in Offsets}
Events == {e \in [at : Instants, wall : Walls, ip : IPs, matches : SUBSET Rules] :
               \E o \in Offsets : e.wall = e.at + o}

\* sorted(events, key=lambda e: e.get("@timestamp", "")).
Sorted(s) == \A i, j \in DOMAIN s : i < j => s[i].wall <= s[j].wall

Init ==
    /\ \E n \in 0 .. MaxEvents : stream \in [1 .. n -> Events]
    /\ Sorted(stream)
    /\ pos = 0
    /\ counters = NoCounters
    /\ alerts = {}

\* One turn of `for ev in events_sorted`.
Step ==
    /\ pos < Len(stream)
    /\ pos' = pos + 1
    /\ counters' = CountersAfter(stream, counters, pos + 1)
    /\ alerts' = alerts \cup AlertsAfter(stream, counters, pos + 1)
    /\ UNCHANGED stream

Next == Step

Spec == Init /\ [][Next]_vars

-----------------------------------------------------------------------------
(* Properties *)

\* The processed events a rule counts for an address.
Matched(rule, ip) == {i \in 1 .. pos : Applies(rule, stream[i]) /\ stream[i].ip = ip}

Counters == [stamps : SUBSET (1 .. pos), last : 0 .. pos]

AlertRecords == [rule : Rules, ip : IPs, position : 1 .. pos,
                 started : Int, ended : Int, count : Nat]

\* Every variable keeps its type, and the counter of a rule and an address
\* holds processed events of that rule and address only.
TypeOK ==
    /\ stream \in Seq(Events) /\ Sorted(stream)
    /\ pos \in 0 .. Len(stream)
    /\ counters \in [Keys -> Counters]
    /\ \A k \in Keys : counters[k].stamps \subseteq Matched(k[1], k[2])
    /\ alerts \subseteq AlertRecords

\* Those that happened no earlier than a window before event p: the burst
\* that a reader of the rule sees at p.
Burst(rule, p) ==
    {i \in Matched(rule, stream[p].ip) :
        i <= p /\ stream[p].at - stream[i].at <= RuleOf[rule].window}

\* An alert reports a burst of the rule's window: its events span no more
\* than the window, and there are at least `count` of them.
AlertsSpanWindow ==
    \A a \in alerts : /\ a.ended - a.started <= RuleOf[a.rule].window
                      /\ a.count >= RuleOf[a.rule].count

\* The pruned list loses nothing and keeps nothing it should not: an alert
\* counts exactly the burst that ends at the event which raised it.
AlertsCountBurst ==
    \A a \in alerts : a.count = Cardinality(Burst(a.rule, a.position))

\* Two alerts of one rule for one address are a cooldown apart.
CooldownKept ==
    \A a, b \in alerts :
        a.rule = b.rule /\ a.ip = b.ip /\ a.position < b.position
            => stream[b.position].at - stream[a.position].at >= RuleOf[a.rule].cooldown

\* A burst that reaches the threshold is alerted, or an alert less than a
\* cooldown older stands for it.
NoBurstMissed ==
    \A rule \in Rules, p \in 1 .. pos :
        Applies(rule, stream[p]) /\ Cardinality(Burst(rule, p)) >= RuleOf[rule].count
            => \E a \in alerts :
                  /\ a.rule = rule /\ a.ip = stream[p].ip /\ a.position <= p
                  /\ \/ a.position = p
                     \/ stream[p].at - stream[a.position].at < RuleOf[rule].cooldown
=============================================================================
