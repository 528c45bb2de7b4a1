------------------------------- MODULE Clients -------------------------------
(***************************************************************************)
(* The platform seen by the clients that only look at it: detection runs   *)
(* (the worker and `cli detect` at once), events, triage and retention go  *)
(* on while an address is summarised, its evidence exported, the list of   *)
(* alerts paged through, or a simulation attacks and checks.               *)
(***************************************************************************)
EXTENDS EntityViews, Simulation

CONSTANTS
    ClientKinds,     \* which of the four clients there may be, or "nobody"
    RunnersBeside,   \* the runners that are about beside each of them
    Ranges,          \* <<start, end>> of the bundles asked for; "all time" spans them all
    EventsBeside,    \* a bound: how many events come in
    MatchesBeside,   \* a bound: which rules these match
    MaxLeft          \* a bound: how many alerts leave the list while it is read

ASSUME ClientsAssumption ==
    /\ ClientKinds \subseteq {"summary", "bundle", "pager", "simulation", "nobody"}
    /\ RunnersBeside \in [ClientKinds -> SUBSET Runners]
    /\ EventsBeside \in [ClientKinds -> 0 .. MaxEvents]
    /\ MatchesBeside \in [ClientKinds -> SUBSET (SUBSET Rules)]
    /\ Ranges \subseteq Nat \X Nat
    /\ MaxLeft \in Nat

VARIABLES
    client,    \* the client of this behaviour; clients do not touch each other
    looked,    \* no variable of the code: how many alerts there were when each
               \* runner last looked for a duplicate
    origin     \* nor this: `looked` as it was when each alert was raised

clientVars == <<vars, viewVars, simVars, client, looked, origin>>

\* What the ghosts and created_at record of a step of runner w.
Recorded(w) ==
    LET raised   == Len(alerts') > Len(alerts)
        finished == runner[w].pc # "idle" /\ runner'[w].pc = "idle" /\ crashes' = crashes
    IN  /\ born'   = IF raised THEN Append(born, clock) ELSE born
        /\ origin' = IF raised THEN Append(origin, looked[w]) ELSE origin
        /\ looked' = IF runner[w].pc = "check" /\ runner'[w].pc = "insert"
                     THEN [looked EXCEPT ![w] = Len(alerts)] ELSE looked
        /\ read'   = IF finished /\ sim.pc = "waiting" THEN read \cup ReadBy(w) ELSE read

\* One step of the worker's run, or of `cli detect`.
Detect(w) ==
    /\ w \in RunnersBeside[client]
    /\ RunStep(w) \/ Crash(w)
    /\ Recorded(w)
    /\ UNCHANGED <<deleted, summary, bundle, pager, sim, mine, client>>

\* An analyst's PATCH; the pager remembers the alerts it takes out of its list.
Triage(i, status) ==
    /\ client # "summary"
    /\ SetStatus(i, status)
    /\ LET out == /\ pager.pc = "reading" /\ pager.filter # {}
                  /\ i \in Matching(pager.filter) /\ status \notin pager.filter IN
       /\ out => pager.left < MaxLeft
       /\ pager' = IF out THEN [pager EXCEPT !.due = @ \ {i}, !.left = @ + 1] ELSE pager
    /\ UNCHANGED <<born, deleted, summary, bundle, simVars, client, looked, origin>>

\* Agents deliver events, late ones too, and time passes.
Outside ==
    /\ \/ Tick
       \/ /\ Cardinality(events) < EventsBeside[client]
          /\ \E at \in 0 .. clock + Ahead, ip \in IPs, 
                matches \in ((SUBSET Rules) \ {{}}) \cap MatchesBeside[client] :
                \E zone \in ZonesOf[ip] : Ingest(at, zone, ip, matches)
    /\ UNCHANGED <<viewVars, simVars, client, looked, origin>>

\* `cli retention`: delete_old_events.
DeleteOldEvents ==
    /\ client \in {"summary", "bundle"}    \* the others do not show events
    /\ LET old == {e \in events : e.at < clock - Retention} IN
       /\ old # {}
       /\ events' = events \ old
       /\ deleted' = deleted \cup old
    /\ UNCHANGED <<clock, alerts, runner, inbox, crashes, born, summary, bundle, pager,
                   simVars, client, looked, origin>>

\* One query of a request for a summary.
Summarise ==
    /\ client = "summary"
    /\ \/ \E ip \in IPs : CountEvents(ip)
       \/ FindFirst \/ FindLast
       \/ GroupPaths \/ GroupStatuses
    /\ UNCHANGED <<vars, born, deleted, bundle, pager, simVars, client, looked, origin>>

\* One query of a request for a bundle.
Export ==
    /\ client = "bundle"
    /\ (\E ip \in IPs, range \in Ranges : ListAlerts(ip, range[1], range[2])) \/ FindEvents \/ AssessRisk
    /\ UNCHANGED <<vars, born, deleted, summary, pager, simVars, client, looked, origin>>

\* One page; filters are a status or none.
TurnPage ==
    /\ client = "pager"
    /\ \E filter \in {{}} \cup {{status} : status \in Statuses} : ReadPage(filter)
    /\ UNCHANGED <<vars, born, deleted, summary, bundle, simVars, client, looked, origin>>

\* One step of a simulation, or of the backend for it.
Simulate ==
    /\ client = "simulation"
    /\ SimStep
    /\ UNCHANGED <<viewVars, client, looked, origin>>

ClientsInit ==
    /\ Init
    /\ born = << >> /\ deleted = {}
    /\ summary = NoSummary /\ bundle = NoBundle /\ pager = NoPager
    /\ SimInit
    /\ client \in ClientKinds
    /\ looked = [w \in Runners |-> 0] /\ origin = << >>

\* A bound: a behaviour is of no more interest when its client is done.
Finished == "done" \in {summary.pc, bundle.pc, pager.pc, sim.pc} \/ sim.pc = "aborted"

ClientsNext ==
    /\ ~Finished
    /\ \/ \E w \in Runners : Detect(w)
       \/ \E i \in DOMAIN alerts, status \in Statuses : Triage(i, status)
       \/ Outside \/ DeleteOldEvents
       \/ Summarise \/ Export \/ TurnPage \/ Simulate

ClientsSpec == ClientsInit /\ [][ClientsNext]_clientVars

-----------------------------------------------------------------------------
(* Properties *)

\* Two runs at once may both raise an alert for one burst, but only while
\* they race: of two active alerts of one key that ended within ten minutes of
\* each other, the later was raised by a run that had looked for a duplicate
\* before the earlier was there (runner.py:61 to 91).
DuplicatesNeedARace ==
    \A i, j \in {k \in DOMAIN alerts : Active(k) /\ ~alerts[k].reopened} :
        i < j /\ SameKey(i, j)
            => \/ alerts[j].ended > alerts[i].ended + DedupeGap
               \/ alerts[i].ended > alerts[j].ended + DedupeGap
               \/ origin[j] < i
==============================================================================
