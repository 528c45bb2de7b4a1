---------------------------- MODULE SlidingWindow ----------------------------
(***************************************************************************)
(* What one step of the threshold engine computes                          *)
(* (services/detection/engine.py, match.py): the counter of one rule and   *)
(* one source address meets one event.                                     *)
(*                                                                         *)
(* A stream is the sorted list of events a call of process() walks.  An    *)
(* event carries the instant `at` it happened, the local reading `wall` of *)
(* its timestamp, its source address and the rules whose `match` holds of  *)
(* it.  A counter names events by their position in the stream, so that    *)
(* equal timestamps stay distinct, as they do in the code's list.          *)
(***************************************************************************)
EXTENDS Integers, Sequences, FiniteSets

CONSTANTS
    Rules,     \* the enabled rules
    IPs,       \* the values a rule groups by
    RuleOf     \* their parameters

Durations == Nat

\* What a rule file must give, as far as the engine looks at it.
RuleParameters == [window : Durations, count : Nat \ {0},
                   cooldown : Durations, fields : Nat \ {0}]

ASSUME RuleOfAssumption == RuleOf \in [Rules -> RuleParameters]

Keys == Rules \X IPs

\* CounterState: no timestamps, last_alert_at = None.
NoCounter  == [stamps |-> {}, last |-> 0]
NoCounters == [k \in Keys |-> NoCounter]

\* rule_matches, and _group_key: only rules with one group_by field count.
Applies(rule, event) == rule \in event.matches /\ RuleOf[rule].fields = 1

\* Mutant: an event as old as the window is dropped.
SlideExclusive(stream, counter, p, rule) ==
    {i \in counter.stamps : stream[p].at - stream[i].at < RuleOf[rule].window} \cup {p}

\* Mutant: the timestamps are never cleaned up.
SlideNever(stream, counter, p, rule) == counter.stamps \cup {p}

\* The timestamps kept once event p is counted.
Slide(stream, counter, p, rule) ==
    {i \in counter.stamps : stream[p].at - stream[i].at <= RuleOf[rule].window} \cup {p}

\* Mutant: the cooldown is never looked at.
CoolingNever(stream, counter, p, rule) == FALSE

\* Mutant: an alert silences its counter for good.
CoolingForever(stream, counter, p, rule) == counter.last # 0

\* The last alert is too recent for another one.
Cooling(stream, counter, p, rule) ==
    /\ counter.last # 0
    /\ stream[p].at - stream[counter.last].at < RuleOf[rule].cooldown

\* The event raises an alert.
Fires(stream, counter, p, rule) ==
    /\ ~Cooling(stream, counter, p, rule)
    /\ Cardinality(Slide(stream, counter, p, rule)) >= RuleOf[rule].count

\* An event that comes during the cooldown is counted all the same.
Counted(stream, counter, p, rule) ==
    [stamps |-> Slide(stream, counter, p, rule),
     last   |-> IF Fires(stream, counter, p, rule) THEN p ELSE counter.last]

Earliest(times) == CHOOSE t \in times : \A u \in times : t <= u
Latest(times)   == CHOOSE t \in times : \A u \in times : u <= t

AlertAt(stream, counter, p, rule) ==
    LET times == {stream[i].at : i \in Slide(stream, counter, p, rule)} IN
    [rule |-> rule, ip |-> stream[p].ip, position |-> p,
     started |-> Earliest(times), ended |-> Latest(times),
     count |-> Cardinality(Slide(stream, counter, p, rule))]

\* Mutant: one counter per rule, whatever the address.
CountersAfterAnyIP(stream, counters, p) ==
    [k \in Keys |-> IF Applies(k[1], stream[p])
                    THEN Counted(stream, counters[k], p, k[1])
                    ELSE counters[k]]

\* The engine's state and the alerts appended once event p has met every rule.
CountersAfter(stream, counters, p) ==
    [k \in Keys |-> IF Applies(k[1], stream[p]) /\ k[2] = stream[p].ip
                    THEN Counted(stream, counters[k], p, k[1])
                    ELSE counters[k]]

AlertsAfter(stream, counters, p) ==
    {AlertAt(stream, counters[<<rule, stream[p].ip>>], p, rule) :
        rule \in {r \in Rules : /\ Applies(r, stream[p])
                                /\ Fires(stream, counters[<<r, stream[p].ip>>], p, r)}}
==============================================================================
