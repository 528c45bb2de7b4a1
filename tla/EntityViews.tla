----------------------------- MODULE EntityViews -----------------------------
(***************************************************************************)
(* What the API shows of an address and of the alerts: the summary and the *)
(* evidence bundle of routers/entities.py, the pages of GET /alerts        *)
(* (routers/alerts.py).  Each is put together from several queries, and    *)
(* every query sees what has been committed when it runs (READ COMMITTED): *)
(* between two of them detection inserts alerts, events come in, analysts  *)
(* change a status, and `cli retention` deletes events.                    *)
(***************************************************************************)
EXTENDS DetectionRunner, RiskScorer

CONSTANTS
    SeverityOf,    \* output.severity of each rule
    Retention,     \* --days of the retention command
    PageSize,      \* limit
    TopItems,      \* how many paths and statuses a summary lists: 10
    ValueOf(_, _)  \* the "path" or the "status" that normalized has of an
                   \* event, or "none" when it is null

ASSUME ViewsAssumption ==
    /\ SeverityOf \in [Rules -> Severities]
    /\ Retention \in Nat /\ PageSize \in Nat \ {0}
    /\ TopItems \in Nat \ {0}

VARIABLES
    born,       \* created_at of each row of alerts
    deleted,    \* no variable of the code: the events that retention deleted
    summary,    \* one request for the summary of an address
    bundle,     \* one request for its evidence bundle
    pager       \* somebody who walks through the list of alerts

viewVars == <<born, deleted, summary, bundle, pager>>

\* Where the summary gives a count, this has the rows that were counted.
\* `first` and `last` are {} when there is no row, min() and max() being null.
NoSummary == [pc |-> "idle", ip |-> "none", total |-> {}, first |-> {}, last |-> {},
              top_paths |-> {}, status_codes |-> {}]

NoBundle == [pc |-> "idle", ip |-> "none", start |-> 0, end |-> 0, listed |-> {}, found |-> {}, risk |-> 0]

NoPager == [pc |-> "idle", filter |-> {}, offset |-> 0, seen |-> {}, due |-> {}, left |-> 0]

-----------------------------------------------------------------------------
(* Queries *)

EventsOf(ip) == {e \in events : e.ip = ip}
AlertsOf(ip) == {i \in DOMAIN alerts : alerts[i].ip = ip}

FirstTime(rows) == {t \in {e.at : e \in rows} : \A e \in rows : t <= e.at}
LastTime(rows) == {t \in {e.at : e \in rows} : \A e \in rows : t >= e.at}

\* The columns that the scorer gets.
RiskRows(ip) ==
    [i \in AlertsOf(ip) |-> [severity |-> SeverityOf[alerts[i].rule],
                             status |-> alerts[i].status, created |-> born[i]]]

\* GET /entities/ip/{ip}/risk: one query, at once.
RiskOf(ip) == Risk(RiskRows(ip), clock)
ScoreOf(ip) == Score(RiskRows(ip), clock)

-----------------------------------------------------------------------------
(* GET /entities/ip/{ip} *)

\* select count(*).
CountEvents(ip) ==
    /\ summary.pc = "idle"
    /\ summary' = [NoSummary EXCEPT !.pc = "min", !.ip = ip, !.total = EventsOf(ip)]

\* select min(event_timestamp).
FindFirst ==
    /\ summary.pc = "min"
    /\ summary' = [summary EXCEPT !.pc = "max", !.first = FirstTime(EventsOf(summary.ip))]

\* Mutant: the oldest event once more.
FindLastMin ==
    /\ summary.pc = "max"
    /\ summary' = [summary EXCEPT !.pc = "paths", !.last = FirstTime(EventsOf(summary.ip))]

\* select max(event_timestamp).
FindLast ==
    /\ summary.pc = "max"
    /\ summary' = [summary EXCEPT !.pc = "paths", !.last = LastTime(EventsOf(summary.ip))]

\* The rows that have the same there as event e.
GroupOf(column, rows, e) == {f \in rows : ValueOf(column, f) = ValueOf(column, e)}

\* where(column is not None).group_by(column): an item for every value.
Grouped(column, rows) ==
    {[key |-> ValueOf(column, e), rows |-> GroupOf(column, rows, e)] :
        e \in {f \in rows : ValueOf(column, f) # "none"}}

\* Mutant: the items come in any order before the limit cuts them.
TopAny(items) ==
    {top \in SUBSET items :
        /\ Cardinality(top) <= TopItems
        /\ top # items => Cardinality(top) = TopItems}

\* order_by(count desc).limit(10): what it may return, ties being in any order.
Top(items) ==
    {top \in SUBSET items :
        /\ Cardinality(top) <= TopItems
        /\ top # items => Cardinality(top) = TopItems
        /\ \A item \in top, other \in items \ top :
              Cardinality(item.rows) >= Cardinality(other.rows)}

\* The paths that most events have.
GroupPaths ==
    /\ summary.pc = "paths"
    /\ \E top \in Top(Grouped("path", EventsOf(summary.ip))) :
          summary' = [summary EXCEPT !.pc = "statuses", !.top_paths = top]

\* The status codes that most events have, from one more query.
GroupStatuses ==
    /\ summary.pc = "statuses"
    /\ \E top \in Top(Grouped("status", EventsOf(summary.ip))) :
          summary' = [summary EXCEPT !.pc = "done", !.status_codes = top]

-----------------------------------------------------------------------------
(* GET /entities/ip/{ip}/evidence *)

\* The alerts of the address that were created in the range asked for.
ListAlerts(ip, start, end) ==
    /\ bundle.pc = "idle"
    /\ bundle' = [NoBundle EXCEPT !.pc = "events", !.ip = ip, !.start = start, !.end = end,
                     !.listed = {[alert |-> i, status |-> alerts[i].status] :
                                    i \in {j \in AlertsOf(ip) : born[j] \in start .. end}}]

\* Mutant: the range does not include its start.
FindEventsAfter ==
    /\ bundle.pc = "events"
    /\ bundle' = [bundle EXCEPT !.pc = "risk",
                     !.found = {e \in EventsOf(bundle.ip) : e.at \in bundle.start + 1 .. bundle.end}]

\* Its events that happened in the range, which is not when they were created.
FindEvents ==
    /\ bundle.pc = "events"
    /\ bundle' = [bundle EXCEPT !.pc = "risk",
                     !.found = {e \in EventsOf(bundle.ip) : e.at \in bundle.start .. bundle.end}]

\* The risk, from a third query that knows of no range; then the files are
\* written from what the three queries gave.
AssessRisk ==
    /\ bundle.pc = "risk"
    /\ bundle' = [bundle EXCEPT !.pc = "done", !.risk = RiskOf(bundle.ip).contributing]

-----------------------------------------------------------------------------
(* GET /alerts?status=...&limit=...&offset=... *)

\* The alerts whose status is asked for; any, without a filter.
Matching(filter) == {i \in DOMAIN alerts : filter = {} \/ alerts[i].status \in filter}

\* order_by(desc(created_at)), which is the order of the commits: how many rows
\* of the list are as new as row i.
Position(filter, i) == Cardinality({j \in Matching(filter) : j >= i})

\* Mutant: the next page starts one row too far.
NextOffsetBeyond(offset) == offset + PageSize + 1

\* offset + limit, the "Next" link of the list.
NextOffset(offset) == offset + PageSize

\* .limit(limit).offset(offset); a page that is not full is the last one.
ReadPage(filter) ==
    LET from == IF pager.pc = "idle" THEN 0 ELSE pager.offset
        page == {i \in Matching(filter) : Position(filter, i) \in from + 1 .. from + PageSize}
    IN  /\ pager.pc = "idle" \/ (pager.pc = "reading" /\ filter = pager.filter)
        /\ pager' = [pc     |-> IF Cardinality(page) = PageSize THEN "reading" ELSE "done",
                     filter |-> filter,
                     offset |-> NextOffset(from),
                     seen   |-> (IF pager.pc = "idle" THEN {} ELSE pager.seen) \cup page,
                     due    |-> IF pager.pc = "idle" THEN Matching(filter) ELSE pager.due,
                     left   |-> pager.left]

-----------------------------------------------------------------------------
(* Properties *)

Gone(ip) == {e \in deleted : e.ip = ip}

\* Each of these rows is in an item of the list, unless it has no value, or
\* the list is full and every item of it has at least as many as are like it.
Listed(column, items, rows) ==
    \A e \in rows : ValueOf(column, e) # "none" =>
        \/ \E item \in items : item.key = ValueOf(column, e) /\ e \in item.rows
        \/ /\ Cardinality(items) = TopItems
           /\ \A item \in items :
                 Cardinality(GroupOf(column, rows, e)) <= Cardinality(item.rows)

\* The five queries of a summary agree on the events that were counted first,
\* up to what retention deletes between them, whatever else comes in: these
\* lie between the first and the last, and have their path and their status
\* among the listed ones or, in a list of ten, below them (entities.py:32).
SummaryAddsUp ==
    summary.pc = "done" =>
        LET kept == summary.total \ deleted IN
        /\ \A e \in kept : /\ \E first \in summary.first : first <= e.at
                           /\ \E last \in summary.last : e.at <= last
        /\ Listed("path", summary.top_paths, kept)
        /\ Listed("status", summary.status_codes, kept)

\* Every alert in a bundle has its events in it, as many as it says, but for
\* those that happened outside the range and those that retention deleted: the
\* alerts are read first, and their events were stored before them
\* (entities.py:133).
EvidenceBacksAlerts ==
    bundle.pc = "done" /\ OneZone(events \cup deleted) =>
        \A l \in bundle.listed :
            LET a    == alerts[l.alert]
                rows == bundle.found \cup Gone(a.ip) \cup {e \in events : e.at \notin bundle.start .. bundle.end}
            IN  Cardinality(BurstOf(rows, a.rule, a.ip, a.started, a.ended)) >= a.count

\* The risk of a bundle counts every alert of its list that is still active,
\* and nothing but alerts that were listed as active, came later, were
\* re-opened or lie outside the range (entities.py:151).
RiskAgreesWithList ==
    LET reopened == {i \in AlertsOf(bundle.ip) : alerts[i].reopened}
        listed   == {l.alert : l \in bundle.listed}
        active   == {l.alert : l \in {k \in bundle.listed : Contributes(k.status)}}
    IN  bundle.pc = "done" =>
            /\ bundle.risk >= Cardinality({i \in listed \ reopened : Active(i)})
            /\ bundle.risk <= Cardinality(active \cup reopened \cup (AlertsOf(bundle.ip) \ listed))

\* The score of an address rises only by an alert that is new or re-opened,
\* and falls only when an alert is closed or time passes: triage, events,
\* retention and the other addresses leave it alone (scorer.py:41).
RiskFollowsAlerts ==
    [][\A ip \in IPs :
          LET before  == ScoreOf(ip)
              after   == ScoreOf(ip)'
              now(i)  == i \in DOMAIN alerts /\ Active(i)
              then(i) == i \in DOMAIN alerts' /\ alerts'[i].status \in {"open", "triaged"}
          IN  \/ UNCHANGED <<alerts, clock>>
              \/ /\ after > before => \E i \in DOMAIN alerts' : then(i) /\ ~now(i) /\ alerts'[i].ip = ip
                 /\ after < before => \/ clock' > clock
                                     \/ \E i \in DOMAIN alerts : now(i) /\ ~then(i) /\ alerts[i].ip = ip
      ]_vars

\* Who pages through the list to its end has seen every alert that matched
\* the filter all along, but one at most for each alert that left the filter
\* in the meantime; without a filter, new alerts hide no old one
\* (alerts.py:45, list.html:219).
PagesMissOnlyWhatMoved ==
    pager.pc = "done" => Cardinality(pager.due \ pager.seen) <= pager.left
==============================================================================
