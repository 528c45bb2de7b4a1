--------------------------- MODULE DetectionRunner ---------------------------
(***************************************************************************)
(* Detection runs over a growing events table (services/detection/runner.py *)
(* and the worker's loop, apps/worker/worker.py).  A run reads the events  *)
(* of the lookback once, lets a fresh engine turn them into candidate      *)
(* alerts, and then treats the candidates one by one: a query for an alert *)
(* like it, an insert with its commit, a notification.  Several runs can   *)
(* be under way (the worker's, and `cli detect`), events arrive late, and  *)
(* analysts change the status of alerts between any two steps.             *)
(***************************************************************************)
EXTENDS SlidingWindow

CONSTANTS
    Runners,        \* the processes that run detection
    Lookback,       \* lookback_minutes
    DedupeGap,      \* the 10 minutes of the duplicate query
    Ahead,          \* how far timestamps run ahead of the clock
    ZonesOf,        \* the UTC offsets that the events of an address are written with
    Severe,         \* the rules whose severity is mailed
    MaxClock, MaxEvents, MaxCrashes, MaxAlerts,    \* bounds
    SmtpFails       \* TRUE when sending a mail may fail

ASSUME RunnerAssumption ==
    /\ {Lookback, DedupeGap, Ahead, MaxClock, MaxEvents, MaxCrashes, MaxAlerts} \subseteq Nat
    /\ ZonesOf \in [IPs -> SUBSET Int]
    /\ IsFiniteSet(Rules) /\ Severe \subseteq Rules
    /\ SmtpFails \in BOOLEAN

VARIABLES
    clock,      \* UTC now, shared by the backend, the worker and the database
    events,     \* the rows of events; `zone` is the offset that @timestamp has
    alerts,     \* the rows of alerts, in insertion order; `reopened` is no
                \* column, it remembers that an analyst took one out of "closed"
    runner,     \* the runs under way
    inbox,      \* which alerts have been mailed
    crashes     \* how many runs have died, for the bound

vars == <<clock, events, alerts, runner, inbox, crashes>>

Statuses == {"open", "triaged", "closed"}
NoRun    == [pc |-> "idle", snapshot |-> {}, queue |-> << >>, row |-> 0]

-----------------------------------------------------------------------------
(* One run of the engine *)

\* The text of @timestamp begins with the local time: that is what it sorts by.
Reading(e) == e.at + e.zone

\* What a sort by its key has to put before what.
ByTime(rows) ==
    {p \in rows \X rows :
        Reading(p[1]) < Reading(p[2]) \/ (Reading(p[1]) = Reading(p[2]) /\ p[1].id < p[2].id)}
ByPosition(found) == {p \in found \X found : p[1].position < p[2].position}

\* The elements of a set in an order that `before` allows (ties either way).
InOrder(S, before) ==
    LET sorted[T \in SUBSET S] ==
            IF T = {} THEN << >>
            ELSE LET first == CHOOSE e \in T : \A f \in T : <<f, e>> \notin before
                 IN  <<first>> \o sorted[T \ {first}]
    IN  sorted[S]

\* The engine's state and its alerts after so many events of the stream.
EngineAfter(stream) ==
    LET engine[n \in 0 .. Len(stream)] ==
            IF n = 0 THEN [counters |-> NoCounters, alerts |-> {}]
            ELSE LET before == engine[n - 1] IN
                 [counters |-> CountersAfter(stream, before.counters, n),
                  alerts   |-> before.alerts \cup AlertsAfter(stream, before.counters, n)]
    IN  engine

\* ThresholdEngine(rules).process(events), the state starting empty.
Candidates(snapshot) ==
    LET stream == InOrder(snapshot, ByTime(snapshot))
        found  == EngineAfter(stream)[Len(stream)].alerts
    IN  InOrder(found, ByPosition(found))

\* Mutant: the duplicate query does not compare source_ip.
DuplicatesAnyIP(c) ==
    {i \in DOMAIN alerts :
        /\ alerts[i].rule = c.rule
        /\ alerts[i].status \in {"open", "triaged"}
        /\ alerts[i].ended >= c.ended - DedupeGap}

\* Mutant: only alerts that end later than the candidate are compared.
DuplicatesLater(c) ==
    {i \in DOMAIN alerts :
        /\ alerts[i].rule = c.rule /\ alerts[i].ip = c.ip
        /\ alerts[i].status \in {"open", "triaged"}
        /\ alerts[i].ended > c.ended}

\* Mutant: any earlier alert of the key will do, however old.
DuplicatesEver(c) ==
    {i \in DOMAIN alerts :
        /\ alerts[i].rule = c.rule /\ alerts[i].ip = c.ip
        /\ alerts[i].status \in {"open", "triaged"}}

\* The alerts that make candidate c a duplicate.
Duplicates(c) ==
    {i \in DOMAIN alerts :
        /\ alerts[i].rule = c.rule /\ alerts[i].ip = c.ip
        /\ alerts[i].status \in {"open", "triaged"}
        /\ alerts[i].ended >= c.ended - DedupeGap}

\* A log event of the given time reaches the table, possibly late, or dated
\* ahead like those of the simulator (attack_shapes.py:79).  Next leaves out
\* the events that match no rule: no run takes notice of them.
Ingest(at, zone, ip, matches) ==
    /\ Cardinality(events) < MaxEvents
    /\ LET alike == {e \in events : /\ e.at = at /\ e.zone = zone
                                    /\ e.ip = ip /\ e.matches = matches} IN
       events' = events \cup {[id |-> Cardinality(alike) + 1, at |-> at, zone |-> zone,
                                ip |-> ip, matches |-> matches]}
    /\ UNCHANGED <<clock, alerts, runner, inbox, crashes>>

\* load_rules, the query of the lookback, and the engine.
StartRun(w) ==
    /\ runner[w].pc = "idle"
    /\ LET seen == {e \in events : e.at >= clock - Lookback} IN
       runner' = [runner EXCEPT ![w] = [pc |-> "check", snapshot |-> seen,
                                        queue |-> Candidates(seen), row |-> 0]]
    /\ UNCHANGED <<clock, events, alerts, inbox, crashes>>

\* The duplicate query finds a row: continue.
SkipDuplicate(w) ==
    /\ runner[w].pc = "check" /\ runner[w].queue # << >>
    /\ Duplicates(Head(runner[w].queue)) # {}
    /\ runner' = [runner EXCEPT ![w].queue = Tail(@)]
    /\ UNCHANGED <<clock, events, alerts, inbox, crashes>>

\* The duplicate query finds none.
PassCheck(w) ==
    /\ runner[w].pc = "check" /\ runner[w].queue # << >>
    /\ Duplicates(Head(runner[w].queue)) = {}
    /\ runner' = [runner EXCEPT ![w].pc = "insert"]
    /\ UNCHANGED <<clock, events, alerts, inbox, crashes>>

\* Mutant: the alert is committed and its mail is left to the next run.
InsertAlertUnmailed(w) ==
    /\ runner[w].pc = "insert"
    /\ LET c == Head(runner[w].queue) IN
       alerts' = Append(alerts, [rule |-> c.rule, ip |-> c.ip, started |-> c.started,
                                 ended |-> c.ended, count |-> c.count,
                                 status |-> "open", reopened |-> FALSE])
    /\ runner' = [runner EXCEPT ![w].pc = "check", ![w].queue = Tail(@)]
    /\ UNCHANGED <<clock, events, inbox, crashes>>

\* db.add(row); db.commit().
InsertAlert(w) ==
    /\ runner[w].pc = "insert"
    /\ LET c == Head(runner[w].queue) IN
       alerts' = Append(alerts, [rule |-> c.rule, ip |-> c.ip, started |-> c.started,
                                 ended |-> c.ended, count |-> c.count,
                                 status |-> "open", reopened |-> FALSE])
    /\ runner' = [runner EXCEPT ![w].pc = "notify", ![w].row = Len(alerts) + 1]
    /\ UNCHANGED <<clock, events, inbox, crashes>>

\* send_alert_notification's result: a severe alert is mailed, and a failure
\* is logged and swallowed.  Severe is empty when SMTP is disabled.
SendOutcomes(rule) ==
    IF rule \notin Severe THEN {FALSE} ELSE IF SmtpFails THEN BOOLEAN ELSE {TRUE}

\* The runner calls it for the row it has just committed.
Notify(w) ==
    /\ runner[w].pc = "notify"
    /\ \E sent \in SendOutcomes(Head(runner[w].queue).rule) :
          inbox' = IF sent THEN inbox \cup {runner[w].row} ELSE inbox
    /\ runner' = [runner EXCEPT ![w].pc = "check", ![w].queue = Tail(@),
                                   ![w].row = 0]
    /\ UNCHANGED <<clock, events, alerts, crashes>>

\* The for loop is over; the worker logs the count and sleeps.
FinishRun(w) ==
    /\ runner[w].pc = "check" /\ runner[w].queue = << >>
    /\ runner' = [runner EXCEPT ![w] = NoRun]
    /\ UNCHANGED <<clock, events, alerts, inbox, crashes>>

\* The process dies or a statement raises (the worker logs and goes on):
\* the rest of the run is lost, what it committed stays.
Crash(w) ==
    /\ runner[w].pc # "idle" /\ crashes < MaxCrashes
    /\ runner' = [runner EXCEPT ![w] = NoRun]
    /\ crashes' = crashes + 1
    /\ UNCHANGED <<clock, events, alerts, inbox>>

\* PATCH /alerts/{id} with a status: any of the three, at any time.  A burst
\* whose alert is closed is alerted again by the next run that still sees it:
\* closing is bounded by MaxAlerts.
SetStatus(i, status) ==
    /\ status # alerts[i].status
    /\ status = "closed" => Len(alerts) < MaxAlerts
    /\ alerts' = [alerts EXCEPT ![i].status = status,
                                ![i].reopened = @ \/ alerts[i].status = "closed"]
    /\ UNCHANGED <<clock, events, runner, inbox, crashes>>

Tick ==
    /\ clock < MaxClock
    /\ clock' = clock + 1
    /\ UNCHANGED <<events, alerts, runner, inbox, crashes>>

RunStep(w) ==
    \/ StartRun(w)
    \/ SkipDuplicate(w)
    \/ PassCheck(w)
    \/ InsertAlert(w)
    \/ Notify(w)
    \/ FinishRun(w)

Init ==
    /\ clock = 0
    /\ events = {}
    /\ alerts = << >>
    /\ runner = [w \in Runners |-> NoRun]
    /\ inbox = {}
    /\ crashes = 0

Next ==
    \/ Tick
    \/ \E at \in 0 .. clock + Ahead, ip \in IPs, matches \in (SUBSET Rules) \ {{}} :
          \E zone \in ZonesOf[ip] : Ingest(at, zone, ip, matches)
    \/ \E w \in Runners : RunStep(w) \/ Crash(w)
    \/ \E i \in DOMAIN alerts, status \in Statuses : SetStatus(i, status)

Spec == Init /\ [][Next]_vars

-----------------------------------------------------------------------------
(* Properties *)

SameKey(i, j) == alerts[i].rule = alerts[j].rule /\ alerts[i].ip = alerts[j].ip

Active(i) == alerts[i].status \in {"open", "triaged"}

\* One runner never leaves two open or triaged alerts of one rule and address
\* that ended within ten minutes of each other, whatever crashed, came late
\* or was triaged in the meantime (runner.py:59), unless an analyst has
\* re-opened one of them.
NoDuplicateOpen ==
    \A i, j \in {k \in DOMAIN alerts : Active(k) /\ ~alerts[k].reopened} :
        i < j /\ SameKey(i, j)
            => \/ alerts[j].ended > alerts[i].ended + DedupeGap
               \/ alerts[i].ended > alerts[j].ended + DedupeGap

BurstOf(rows, rule, ip, from, to) ==
    {e \in rows : rule \in e.matches /\ e.ip = ip /\ e.at \in from .. to}

\* The events of an address are written with one UTC offset; other addresses
\* may have others.  Without this the engine does not see a key's events in
\* their order (README, "Findings").
OneZone(rows) == \A e, f \in rows : e.ip = f.ip => e.zone = f.zone

\* Every alert stands for stored events: as many as it says, in an interval
\* no longer than its rule's window.
AlertsJustified == OneZone(events) =>
    \A i \in DOMAIN alerts :
        LET a == alerts[i] IN
        /\ a.ended - a.started <= RuleOf[a.rule].window
        /\ a.count >= RuleOf[a.rule].count
        /\ Cardinality(BurstOf(events, a.rule, a.ip, a.started, a.ended)) >= a.count

\* The events of `rows` that complete a burst of the rule.
Bursts(rows, rule) ==
    {e \in rows : /\ Applies(rule, e)
                  /\ Cardinality(BurstOf(rows, rule, e.ip, e.at - RuleOf[rule].window, e.at))
                        >= RuleOf[rule].count}

\* An alert for the rule and address that ended at most a cooldown and the
\* ten minutes of the duplicate query before event e, or later.
Covered(rule, e) ==
    \E i \in DOMAIN alerts :
        /\ alerts[i].rule = rule /\ alerts[i].ip = e.ip
        /\ alerts[i].ended >= e.at - RuleOf[rule].cooldown - DedupeGap

\* A run that gets to its end leaves no burst among the events it read
\* without an alert.
RunCoversSnapshot ==
    \A w \in Runners :
        runner[w].pc = "check" /\ runner[w].queue = << >> /\ OneZone(runner[w].snapshot)
            => \A rule \in Rules : \A e \in Bursts(runner[w].snapshot, rule) : Covered(rule, e)

Overlooked(rule, ip) ==
    /\ OneZone(events)
    /\ \E e \in Bursts({f \in events : f.at >= clock - Lookback}, rule) :
          e.ip = ip /\ ~Covered(rule, e)

\* A step of the worker's `while True` that is no crash.
Advances(w) == runner'[w] # runner[w] /\ crashes' = crashes

\* As long as some runner goes on, no burst within the lookback stays without
\* an alert for ever: some run raises one, unless the burst leaves the
\* lookback first.  That a runner goes on is a hypothesis and no fairness of
\* the code: smtplib.SMTP is opened without a timeout (email.py:156), so a
\* mail server that says nothing keeps the worker in Notify for ever.
BurstsAreAlerted ==
    (\E w \in Runners : []<><<Advances(w)>>_vars)
        => \A rule \in Rules, ip \in IPs : []<>~Overlooked(rule, ip)

\* A run mails what it commits: a severe alert that no run is about to mail
\* and that was not mailed belongs to a run that died right after its commit,
\* and a crash loses one such mail at most.  No later run makes up for it.
\* Nothing is mailed that is not severe and committed.
MailsLostOnlyByCrashes ==
    LET unmailed == {i \in DOMAIN alerts :
                        /\ alerts[i].rule \in Severe /\ i \notin inbox
                        /\ \A w \in Runners : runner[w].row # i}
    IN  /\ inbox \subseteq {i \in DOMAIN alerts : alerts[i].rule \in Severe}
        /\ ~SmtpFails => Cardinality(unmailed) <= crashes

-----------------------------------------------------------------------------
(* What the repository says and the code does not do (README, "Findings") *)

\* "don't create duplicate open alerts for same rule+ip within same ended_at
\* minute" (runner.py:60): a candidate is only dropped for an alert that
\* ended within ten minutes of it.
OnlyNearDuplicatesDropped ==
    [][\A w \in Runners :
          LET queue == runner[w].queue IN
          runner[w].pc = "check" /\ queue # << >> /\ runner'[w].queue = Tail(queue)
              => \E i \in Duplicates(Head(queue)) :
                    alerts[i].ended <= Head(queue).ended + DedupeGap]_vars
==============================================================================
