---------------------------- MODULE Clients_proofs ----------------------------
(***************************************************************************)
(* What those who look at the platform can rely on, for any number of      *)
(* addresses, rules, events, runners and pages: the summary and the        *)
(* evidence of an address, the risk beside a list of alerts, the pages of  *)
(* that list, and the report of a simulation.                              *)
(*                                                                         *)
(* The steps of the runs are steps of DetectionRunner, so that what is     *)
(* proved of them there holds here.  Retention is the one step that is     *)
(* none of its steps: it leaves the runs and the alerts alone.             *)
(***************************************************************************)
EXTENDS Clients, DetectionRunner_proofs

-----------------------------------------------------------------------------
(* Types *)

BundleType == [pc : {"idle", "events", "risk", "done"}, ip : IPs \cup {"none"}, start : Nat, end : Nat,
               listed : SUBSET [alert : Nat, status : Statuses], found : Snapshots, risk : Nat]

AttackType == [rule : Rules \cup {"none"}, at : Nat, left : Nat]

SimType == [pc : {"idle", "sending", "waiting", "done", "aborted"}, todo : SUBSET Rules,
            attack : AttackType, attempted : SUBSET Rules, fired : SUBSET Rules]

\* The types of what the steps of the platform go by, and that an attack is
\* under way for a rule, from a time that has come.
Base ==
    /\ Typed
    /\ deleted \in Snapshots
    /\ sim \in SimType
    /\ sim.attack # NoAttack => sim.attack.rule \in Rules /\ sim.attack.at <= clock

\* The events there are and the ones there were.
Ever == events \cup deleted

-----------------------------------------------------------------------------
(* The steps *)

LEMMA NoAttackType ==
    /\ NoAttack \in AttackType /\ NoAttack.rule = "none" /\ NoAttack.left = 0
    /\ "none" \notin Rules
BY SimulationAssumption DEF NoAttack, AttackType

\* A step of a simulation: another event, or none.
LEMMA AttackStep ==
    ASSUME Base, StoreAttack
    PROVE  /\ \E at \in 0 .. clock + Ahead, ip \in IPs, matches \in (SUBSET Rules) \ {{}} :
                 \E zone \in ZonesOf[ip] : Ingest(at, zone, ip, matches)
           /\ sim.pc = "sending" /\ sim.attack.left \in Nat \ {0} /\ sim.attack # NoAttack
           /\ sim.attack.rule \in Rules
           /\ sim' = [sim EXCEPT !.attack.left = @ - 1]
<1>1. /\ sim.pc = "sending" /\ sim.attack.left > 0 /\ sim.attack \in AttackType
      /\ sim' = [sim EXCEPT !.attack.left = @ - 1]
  BY DEF StoreAttack, Base, SimType
<1>2. sim.attack.left \in Nat \ {0} /\ sim.attack.at \in Nat
  BY <1>1 DEF AttackType
<1>3. sim.attack # NoAttack
  BY <1>2, NoAttackType
<1>4. sim.attack.rule \in Rules /\ sim.attack.at <= clock
  BY <1>3 DEF Base
<1>5. /\ AttackIP[sim.attack.rule] \in IPs
      /\ Shape[sim.attack.rule] \in (SUBSET Rules) \ {{}}
      /\ 0 \in ZonesOf[AttackIP[sim.attack.rule]]
  BY <1>4, SimulationAssumption
<1>6. PICK at \in sim.attack.at .. sim.attack.at + Ahead :
         Ingest(at, 0, AttackIP[sim.attack.rule], Shape[sim.attack.rule])
  BY DEF StoreAttack
<1>7. at \in 0 .. clock + Ahead
  <2>1. clock \in Nat /\ Ahead \in Nat
    BY RunnerAssumption DEF Base, Typed
  <2> QED
    BY <1>2, <1>4, <2>1
<1> QED
  BY <1>1, <1>2, <1>3, <1>4, <1>5, <1>6, <1>7

\* The ways the platform itself moves in a step.
LEMMA PlatformStep ==
    ASSUME Base, [ClientsNext]_clientVars
    PROVE  \/ [Next]_vars /\ deleted' = deleted
           \/ DeleteOldEvents
<1>1. ASSUME NEW w \in Runners, Detect(w)
      PROVE  Next /\ deleted' = deleted
  BY <1>1 DEF Detect, Next
<1>2. ASSUME NEW i \in DOMAIN alerts, NEW status \in Statuses, Triage(i, status)
      PROVE  Next /\ deleted' = deleted
  BY <1>2 DEF Triage, Next
<1>3. CASE Outside
  <2>1. ASSUME NEW at \in 0 .. clock + Ahead, NEW ip \in IPs, NEW matches \in (SUBSET Rules) \ {{}},
               NEW zone \in ZonesOf[ip], Ingest(at, zone, ip, matches)
        PROVE  Next
    BY <2>1 DEF Next
  <2>2. Tick => Next
    BY DEF Next
  <2> QED
    BY <1>3, <2>1, <2>2 DEF Outside, viewVars
<1>4. CASE Summarise \/ Export \/ TurnPage \/ UNCHANGED clientVars
  BY <1>4 DEF Summarise, Export, TurnPage, clientVars, viewVars
<1>5. CASE Simulate
  <2>1. deleted' = deleted
    BY <1>5 DEF Simulate, viewVars
  <2>2. CASE StoreAttack
    BY <2>1, <2>2, AttackStep DEF Next
  <2>3. CASE ~StoreAttack
    BY <1>5, <2>1, <2>3 DEF Simulate, SimStep, BeginSimulation, PostAttack, AttackSent,
                             AbortSimulation, Report
  <2> QED
    BY <2>2, <2>3
<1> QED
  BY <1>1, <1>2, <1>3, <1>4, <1>5 DEF ClientsNext

\* Retention moves events from the one table of the model to the other.
LEMMA RetentionStep ==
    ASSUME Base, DeleteOldEvents
    PROVE  /\ Typed' /\ deleted' \in Snapshots /\ UNCHANGED <<clock, alerts, runner, sim>>
           /\ events' \subseteq events /\ deleted \subseteq deleted' /\ Ever' = Ever
           /\ events' = {e \in events : ~(e.at < clock - Retention)}
<1> DEFINE old == {e \in events : e.at < clock - Retention}
<1>1. /\ events' = events \ old /\ deleted' = deleted \cup old
      /\ UNCHANGED <<clock, alerts, runner, inbox, crashes, sim>>
  BY DEF DeleteOldEvents, simVars
<1>2. /\ events \in SUBSET Event /\ deleted \in SUBSET Event
      /\ IsFiniteSet(events) /\ IsFiniteSet(deleted)
  BY DEF Base, Typed, Snapshots
<1>3. old \subseteq events /\ events' = {e \in events : ~(e.at < clock - Retention)}
  BY <1>1
<1> HIDE DEF old
<1>4. IsFiniteSet(old) /\ IsFiniteSet(events')
  BY <1>1, <1>2, <1>3, FS_Subset
<1>5. IsFiniteSet(deleted')
  BY <1>1, <1>2, <1>4, FS_Union
<1>6. events' \in Snapshots /\ deleted' \in Snapshots
  BY <1>1, <1>2, <1>3, <1>4, <1>5 DEF Snapshots
<1>7. Typed'
  BY <1>1, <1>6 DEF Base, Typed
<1> QED
  BY <1>1, <1>3, <1>6, <1>7 DEF Ever

\* How a simulation moves.
LEMMA SimMoves ==
    ASSUME Base, [ClientsNext]_clientVars
    PROVE  \/ sim' = sim
           \/ client = "simulation" /\ SimStep
BY DEF ClientsNext, Detect, Triage, Outside, DeleteOldEvents, Summarise, Export, TurnPage,
       Simulate, simVars, clientVars

\* What each step of a simulation makes of it.
LEMMA SimEffect ==
    ASSUME Base, SimStep
    PROVE  /\ sim' \in SimType
           /\ sim'.attack # NoAttack =>
                 \/ sim'.attack.rule = sim.attack.rule /\ sim'.attack.at = sim.attack.at /\ sim.attack # NoAttack
                 \/ sim'.attack.rule \in Rules /\ sim'.attack.at = clock
<1>1. sim \in SimType /\ clock \in Nat
  BY DEF Base, Typed
<1>2. ASSUME NEW chosen \in SUBSET Rules, BeginSimulation(chosen)
      PROVE  sim' \in SimType /\ sim'.attack = sim.attack
  BY <1>1, <1>2 DEF BeginSimulation, SimType
<1>3. ASSUME NEW rule \in Rules, PostAttack(rule)
      PROVE  sim' \in SimType /\ sim'.attack.rule = rule /\ sim'.attack.at = clock
  <2>1. RuleOf[rule].count \in Nat
    BY RuleOfAssumption DEF RuleParameters
  <2> QED
    BY <1>1, <1>3, <2>1 DEF PostAttack, SimType, AttackType
<1>4. CASE StoreAttack
  <2>1. /\ sim' = [sim EXCEPT !.attack.left = @ - 1] /\ sim.attack.left - 1 \in Nat
        /\ sim.attack # NoAttack
    BY <1>4, AttackStep
  <2> QED
    BY <1>1, <2>1 DEF SimType, AttackType
<1>5. CASE AttackSent
  <2>1. sim'.attack = NoAttack
    BY <1>1, <1>5 DEF AttackSent, SimType
  <2>2. sim.attack.rule \in Rules /\ sim.attempted \cup {sim.attack.rule} \in SUBSET Rules
    BY <1>1, <1>5 DEF AttackSent, Base, SimType
  <2>3. sim' \in SimType
    BY <1>1, <1>5, <2>2, NoAttackType DEF AttackSent, SimType
  <2> QED
    BY <2>1, <2>3
<1>6. CASE AbortSimulation
  BY <1>6, NoAttackType DEF AbortSimulation, NoSimulation, SimType
<1>7. CASE Report
  <2>1. sim.attempted \cap Fired \in SUBSET Rules
    BY <1>1 DEF SimType
  <2> QED
    BY <1>1, <1>7, <2>1 DEF Report, SimType
<1> QED
  <2>1. sim'.attack = sim.attack => sim'.attack = NoAttack \/ sim.attack # NoAttack
    OBVIOUS
  <2> QED
    BY <1>2, <1>3, <1>4, <1>5, <1>6, <1>7, <2>1 DEF SimStep

\* The platform as the clients see it: alerts stay, time does not go back, and
\* no event is lost out of the two tables.
LEMMA BaseStep ==
    ASSUME Base, [ClientsNext]_clientVars
    PROVE  /\ Base' /\ Stays
           /\ Ever \subseteq Ever' /\ deleted \subseteq deleted'
           /\ clock <= clock'
<1>1. /\ Typed' /\ deleted' \in Snapshots /\ Stays
      /\ Ever \subseteq Ever' /\ deleted \subseteq deleted' /\ clock <= clock'
  <2>1. CASE [Next]_vars /\ deleted' = deleted
    <3>1. Typed' /\ Stays /\ events \subseteq events'
      BY <2>1, TypedStep DEF Base
    <3>2. clock' \in {clock, clock + 1} /\ clock \in Nat
      BY <2>1 DEF Next, vars, Tick, Ingest, RunStep, StartRun, SkipDuplicate, PassCheck,
                  InsertAlert, Notify, FinishRun, Crash, SetStatus, Base, Typed
    <3> QED
      BY <2>1, <3>1, <3>2 DEF Base, Ever
  <2>2. CASE DeleteOldEvents
    <3>1. Typed' /\ deleted' \in Snapshots /\ UNCHANGED <<clock, alerts>>
          /\ deleted \subseteq deleted' /\ Ever' = Ever /\ clock \in Nat
      BY <2>2, RetentionStep DEF Typed, Base
    <3> QED
      BY <3>1 DEF Stays
  <2> QED
    BY <2>1, <2>2, PlatformStep
<1>2. clock \in Nat /\ clock' \in Nat
  BY <1>1 DEF Typed, Base
<1>3. CASE sim' = sim
  <2>1. sim.attack # NoAttack => sim.attack.at \in Nat
    BY DEF Base, SimType, AttackType
  <2> QED
    BY <1>1, <1>2, <1>3, <2>1 DEF Base
<1>4. CASE SimStep
  <2>1. sim'.attack # NoAttack => sim'.attack.rule \in Rules
    BY <1>4, SimEffect DEF Base
  <2>2. sim'.attack # NoAttack => sim'.attack.at <= clock
    BY <1>2, <1>4, SimEffect DEF Base
  <2>3. sim' \in SimType
    BY <1>4, SimEffect
  <2>4. sim'.attack.at \in Nat
    BY <2>3 DEF SimType, AttackType
  <2>5. sim'.attack # NoAttack => sim'.attack.at <= clock'
    BY <1>1, <1>2, <2>2, <2>4
  <2> QED
    BY <1>1, <2>1, <2>3, <2>5 DEF Base
<1> QED
  BY <1>1, <1>3, <1>4, SimMoves

LEMMA BaseStart == ClientsInit => Base
<1> SUFFICES ASSUME ClientsInit PROVE Base
  OBVIOUS
<1>1. Typed /\ deleted = {} /\ sim = NoSimulation
  BY TypedStart DEF ClientsInit, SimInit
<1> QED
  BY <1>1, EmptyRun, NoAttackType DEF Base, NoSimulation, SimType

-----------------------------------------------------------------------------
(* The summary of an address *)

LEMMA PartFinite ==
    ASSUME NEW S \in Snapshots, NEW T \in Snapshots, NEW part, part \subseteq S \cup T
    PROVE  part \in Snapshots /\ IsFiniteSet(part) /\ Cardinality(part) \in Nat
<1>1. IsFiniteSet(S \cup T) /\ S \cup T \subseteq Event
  BY FS_Union DEF Snapshots
<1>2. IsFiniteSet(part) /\ part \subseteq Event
  BY <1>1, FS_Subset
<1> QED
  BY <1>2, FS_CardinalityType DEF Snapshots

\* The events that were counted and have not been deleted since.
Kept == summary.total \ deleted

\* A list of items for rows that are there.
ListOf(column, items, rows) ==
    /\ \A item \in items : IsFiniteSet(item.rows)
    /\ Listed(column, items, rows)

\* While the queries run, the counted events that are not deleted are still
\* there, and each query finds them.
SummaryInv ==
    /\ DOMAIN summary = {"pc", "ip", "total", "first", "last", "top_paths", "status_codes"}
    /\ summary.pc # "idle" => Kept \subseteq EventsOf(summary.ip)
    /\ summary.pc \notin {"idle", "min"} =>
          \A e \in Kept : \E first \in summary.first : first <= e.at
    /\ summary.pc \notin {"idle", "min", "max"} =>
          \A e \in Kept : \E last \in summary.last : e.at <= last
    /\ summary.pc \in {"statuses", "done"} => ListOf("path", summary.top_paths, Kept)
    /\ summary.pc = "done" => ListOf("status", summary.status_codes, Kept)

\* The oldest and the newest time of a finite set of events.
LEMMA TimesOf ==
    ASSUME NEW rows \in Snapshots, rows # {}
    PROVE  /\ \E t \in FirstTime(rows) : \A e \in rows : t <= e.at
           /\ \E t \in LastTime(rows) : \A e \in rows : e.at <= t
           /\ FirstTime(rows) \subseteq Nat /\ LastTime(rows) \subseteq Nat
<1> DEFINE times == {e.at : e \in rows}
<1>1. times \in SUBSET Nat /\ times # {} /\ times \in SUBSET Int
  BY DEF Snapshots, Event
<1>2. IsFiniteSet(times)
  <2> DEFINE f == [e \in rows |-> e.at]
  <2>1. times = {f[e] : e \in rows} /\ rows \subseteq DOMAIN f /\ IsFiniteSet(rows)
    BY DEF Snapshots
  <2> HIDE DEF f, times
  <2> QED
    BY <2>1, FiniteReadings
<1>3. /\ \A t : t \in FirstTime(rows) <=> t \in times /\ \A e \in rows : t <= e.at
      /\ \A t : t \in LastTime(rows) <=> t \in times /\ \A e \in rows : t >= e.at
      /\ \A e \in rows : e.at \in times
  BY DEF FirstTime, LastTime
<1> HIDE DEF times
<1>4. PICK t \in times : \A n \in times : t <= n
  BY <1>1, LeastNatural
<1>5. PICK u \in times : \A n \in times : n <= u
  BY <1>1, <1>2, GreatestOfFinite
<1>6. \A e \in rows : e.at \in Nat /\ u \in Nat /\ (e.at <= u => u >= e.at)
                      /\ (\A v \in Nat : v >= e.at => e.at <= v)
  BY <1>1, <1>3
<1>7. t \in FirstTime(rows) /\ \A e \in rows : t <= e.at
  BY <1>3, <1>4
<1>8. u \in LastTime(rows) /\ \A e \in rows : e.at <= u
  BY <1>3, <1>5, <1>6
<1> QED
  BY <1>1, <1>3, <1>7, <1>8

\* A list of the top of all groups is one of these rows.
LEMMA TopLists ==
    ASSUME NEW column, NEW rows, IsFiniteSet(rows), NEW top \in Top(Grouped(column, rows))
    PROVE  ListOf(column, top, rows)
<1>1. \A e : IsFiniteSet(GroupOf(column, rows, e)) /\ Cardinality(GroupOf(column, rows, e)) \in Nat
  <2>1. \A e : GroupOf(column, rows, e) \subseteq rows
    BY DEF GroupOf
  <2> QED
    BY <2>1, FS_Subset, FS_CardinalityType
<1>2. \A item \in Grouped(column, rows) :
         IsFiniteSet(item.rows) /\ Cardinality(item.rows) \in Nat
  BY <1>1 DEF Grouped
<1>3. top \subseteq Grouped(column, rows)
  BY DEF Top
<1>4. ASSUME NEW e \in rows, ValueOf(column, e) # "none"
      PROVE  \/ \E item \in top : item.key = ValueOf(column, e) /\ e \in item.rows
             \/ /\ Cardinality(top) = TopItems
                /\ \A item \in top : Cardinality(GroupOf(column, rows, e)) <= Cardinality(item.rows)
  <2> DEFINE g == [key |-> ValueOf(column, e), rows |-> GroupOf(column, rows, e)]
  <2>1. /\ g \in Grouped(column, rows) /\ g.key = ValueOf(column, e)
        /\ g.rows = GroupOf(column, rows, e) /\ e \in g.rows
    BY <1>4 DEF Grouped, GroupOf
  <2> HIDE DEF g
  <2>2. CASE g \in top
    BY <2>1, <2>2
  <2>3. CASE g \notin top
    <3>1. /\ Cardinality(top) = TopItems
          /\ \A item \in top : Cardinality(item.rows) >= Cardinality(g.rows)
      BY <2>1, <2>3 DEF Top
    <3>2. ASSUME NEW item \in top
          PROVE  Cardinality(g.rows) <= Cardinality(item.rows)
      <4>1. Cardinality(item.rows) \in Nat /\ Cardinality(g.rows) \in Nat
        BY <1>2, <1>3, <2>1
      <4> QED
        BY <3>1, <4>1
    <3> QED
      BY <2>1, <3>1, <3>2
  <2> QED
    BY <2>2, <2>3
<1> QED
  BY <1>2, <1>3, <1>4 DEF ListOf, Listed

\* It is one of fewer rows, too.
LEMMA FewerListed ==
    ASSUME NEW column, NEW items, NEW rows, IsFiniteSet(rows), ListOf(column, items, rows),
           NEW fewer, fewer \subseteq rows
    PROVE  ListOf(column, items, fewer)
<1>1. ASSUME NEW e \in fewer, ValueOf(column, e) # "none"
      PROVE  \/ \E item \in items : item.key = ValueOf(column, e) /\ e \in item.rows
             \/ /\ Cardinality(items) = TopItems
                /\ \A item \in items : Cardinality(GroupOf(column, fewer, e)) <= Cardinality(item.rows)
  <2> DEFINE few  == GroupOf(column, fewer, e)
             many == GroupOf(column, rows, e)
  <2>1. few \subseteq many /\ many \subseteq rows
    BY DEF GroupOf
  <2>2. \/ \E item \in items : item.key = ValueOf(column, e) /\ e \in item.rows
        \/ /\ Cardinality(items) = TopItems
           /\ \A item \in items : Cardinality(many) <= Cardinality(item.rows)
    BY <1>1 DEF ListOf, Listed
  <2> HIDE DEF few, many
  <2>3. /\ Cardinality(few) \in Nat /\ Cardinality(many) \in Nat
        /\ Cardinality(few) <= Cardinality(many)
    BY <2>1, FS_Subset, FS_CardinalityType
  <2>4. ASSUME NEW item \in items, Cardinality(many) <= Cardinality(item.rows)
        PROVE  Cardinality(few) <= Cardinality(item.rows)
    <3>1. Cardinality(item.rows) \in Nat
      BY FS_CardinalityType DEF ListOf
    <3> QED
      BY <2>3, <2>4, <3>1
  <2> QED
    BY <2>2, <2>4 DEF few
<1> QED
  BY <1>1 DEF ListOf, Listed

LEMMA SummaryStep ==
    ASSUME Base, SummaryInv, [ClientsNext]_clientVars
    PROVE  SummaryInv'
<1> DEFINE ip == summary.ip
<1>1. Base' /\ Ever \subseteq Ever' /\ deleted \subseteq deleted'
  BY BaseStep
<1>2. EventsOf(ip) \in Snapshots /\ IsFiniteSet(EventsOf(ip))
  <2>1. EventsOf(ip) \subseteq events /\ events \subseteq Event /\ IsFiniteSet(events)
    BY DEF EventsOf, Base, Typed, Snapshots
  <2> QED
    BY <2>1, FS_Subset DEF Snapshots
<1>3. summary.pc # "idle" => IsFiniteSet(Kept)
  BY <1>2, FS_Subset DEF SummaryInv
<1>4. CASE summary' = summary
  <2>1. Kept' \subseteq Kept
    BY <1>1, <1>4 DEF Kept
  <2>2. ASSUME summary.pc # "idle", NEW e \in Kept'
        PROVE  e \in EventsOf(ip)'
    <3>1. e \in events /\ e.ip = ip /\ e \notin deleted'
      BY <1>4, <2>1, <2>2 DEF SummaryInv, EventsOf, Kept
    <3>2. e \in events'
      BY <1>1, <3>1 DEF Ever
    <3> QED
      BY <1>4, <3>1, <3>2 DEF EventsOf
  <2>3. summary.pc \in {"statuses", "done"} => ListOf("path", summary.top_paths, Kept')
    BY <1>3, <2>1, FewerListed DEF SummaryInv
  <2>4. summary.pc = "done" => ListOf("status", summary.status_codes, Kept')
    BY <1>3, <2>1, FewerListed DEF SummaryInv
  <2>5. Kept' = summary.total \ deleted'
    BY <1>4 DEF Kept
  <2>6. /\ summary.pc \in {"statuses", "done"} => ListOf("path", summary.top_paths, Kept)'
        /\ summary.pc = "done" => ListOf("status", summary.status_codes, Kept)'
    BY <1>4, <2>3, <2>4, <2>5 DEF ListOf, Listed, GroupOf
  <2> QED
    BY <1>4, <2>1, <2>2, <2>6 DEF SummaryInv
<1>5. CASE Summarise
  <2>1. events' = events /\ deleted' = deleted
    BY <1>5 DEF Summarise, vars
  <2>2. ASSUME NEW of \in IPs, CountEvents(of)
        PROVE  SummaryInv'
    <3>1. /\ summary'.pc = "min" /\ summary'.ip = of /\ summary'.total = EventsOf(of)
          /\ DOMAIN summary' = {"pc", "ip", "total", "first", "last", "top_paths", "status_codes"}
      BY <2>2 DEF CountEvents, NoSummary
    <3>2. Kept' \subseteq EventsOf(summary.ip)'
      BY <2>1, <3>1 DEF Kept, EventsOf
    <3> QED
      BY <3>1, <3>2 DEF SummaryInv
  <2>3. ASSUME NEW same, summary' = same,
               \A field \in {"ip", "total"} : same[field] = summary[field],
               summary.pc # "idle", DOMAIN same = DOMAIN summary
        PROVE  /\ Kept' = Kept /\ Kept' \subseteq EventsOf(summary.ip)'
               /\ Kept \subseteq EventsOf(ip)
    BY <2>1, <2>3 DEF SummaryInv, Kept, EventsOf
  <2>4. CASE FindFirst
    <3>1. /\ summary.pc = "min" /\ summary'.pc = "max" /\ summary'.first = FirstTime(EventsOf(ip))
          /\ summary'.ip = ip /\ summary'.total = summary.total
          /\ DOMAIN summary' = DOMAIN summary
      BY <2>4 DEF FindFirst, SummaryInv
    <3>2. Kept' = Kept /\ Kept' \subseteq EventsOf(summary.ip)' /\ Kept \subseteq EventsOf(ip)
      BY <2>3, <3>1
    <3>3. \A e \in Kept : \E first \in FirstTime(EventsOf(ip)) : first <= e.at
      BY <1>2, <3>2, TimesOf
    <3> QED
      BY <3>1, <3>2, <3>3 DEF SummaryInv
  <2>5. CASE FindLast
    <3>1. /\ summary.pc = "max" /\ summary'.pc = "paths" /\ summary'.last = LastTime(EventsOf(ip))
          /\ summary'.ip = ip /\ summary'.total = summary.total /\ summary'.first = summary.first
          /\ DOMAIN summary' = DOMAIN summary
      BY <2>5 DEF FindLast, SummaryInv
    <3>2. Kept' = Kept /\ Kept' \subseteq EventsOf(summary.ip)' /\ Kept \subseteq EventsOf(ip)
      BY <2>3, <3>1
    <3>3. \A e \in Kept : \E last \in LastTime(EventsOf(ip)) : e.at <= last
      BY <1>2, <3>2, TimesOf
    <3> QED
      BY <3>1, <3>2, <3>3 DEF SummaryInv
  <2>6. CASE GroupPaths
    <3>1. PICK top \in Top(Grouped("path", EventsOf(ip))) :
             summary' = [summary EXCEPT !.pc = "statuses", !.top_paths = top]
      BY <2>6 DEF GroupPaths
    <3>2. /\ summary.pc = "paths" /\ summary'.pc = "statuses" /\ summary'.top_paths = top
          /\ summary'.ip = ip /\ summary'.total = summary.total /\ summary'.first = summary.first
          /\ summary'.last = summary.last /\ DOMAIN summary' = DOMAIN summary
      BY <2>6, <3>1 DEF GroupPaths, SummaryInv
    <3>3. Kept' = Kept /\ Kept' \subseteq EventsOf(summary.ip)' /\ Kept \subseteq EventsOf(ip)
      BY <2>3, <3>2
    <3>4. ListOf("path", top, Kept)
      BY <1>2, <3>3, TopLists, FewerListed
    <3>5. ListOf("path", summary.top_paths, Kept)'
      BY <3>2, <3>3, <3>4 DEF ListOf, Listed, GroupOf
    <3> QED
      BY <3>2, <3>3, <3>5 DEF SummaryInv
  <2>7. CASE GroupStatuses
    <3>1. PICK top \in Top(Grouped("status", EventsOf(ip))) :
             summary' = [summary EXCEPT !.pc = "done", !.status_codes = top]
      BY <2>7 DEF GroupStatuses
    <3>2. /\ summary.pc = "statuses" /\ summary'.pc = "done" /\ summary'.status_codes = top
          /\ summary'.ip = ip /\ summary'.total = summary.total /\ summary'.first = summary.first
          /\ summary'.last = summary.last /\ summary'.top_paths = summary.top_paths
          /\ DOMAIN summary' = DOMAIN summary
      BY <2>7, <3>1 DEF GroupStatuses, SummaryInv
    <3>3. Kept' = Kept /\ Kept' \subseteq EventsOf(summary.ip)' /\ Kept \subseteq EventsOf(ip)
      BY <2>3, <3>2
    <3>4. ListOf("status", top, Kept)
      BY <1>2, <3>3, TopLists, FewerListed
    <3>5. ListOf("status", summary.status_codes, Kept)'
      BY <3>2, <3>3, <3>4 DEF ListOf, Listed, GroupOf
    <3>6. ListOf("path", summary.top_paths, Kept)'
      BY <3>2, <3>3 DEF SummaryInv, ListOf, Listed, GroupOf
    <3> QED
      BY <3>2, <3>3, <3>5, <3>6 DEF SummaryInv
  <2> QED
    BY <1>5, <2>2, <2>4, <2>5, <2>6, <2>7 DEF Summarise
<1>6. summary' = summary \/ Summarise
  BY DEF ClientsNext, clientVars, viewVars, Detect, Triage, Outside, DeleteOldEvents, Export, TurnPage, Simulate
<1> QED
  BY <1>4, <1>5, <1>6

\* The five queries of a summary run while events come in, late ones too, and
\* retention deletes: what was counted and not deleted lies between the first
\* and the last, and is in the lists or below what a full list shows
\* (entities.py:32).
THEOREM SummariesAddUp == ClientsSpec => []SummaryAddsUp
<1>1. ClientsInit => Base /\ SummaryInv
  <2> SUFFICES ASSUME ClientsInit PROVE Base /\ SummaryInv
    OBVIOUS
  <2>1. summary = NoSummary
    BY DEF ClientsInit
  <2> QED
    BY <2>1, BaseStart DEF SummaryInv, NoSummary
<1>2. Base /\ SummaryInv /\ [ClientsNext]_clientVars => (Base /\ SummaryInv)'
  BY BaseStep, SummaryStep
<1>3. SummaryInv => SummaryAddsUp
  BY DEF SummaryInv, SummaryAddsUp, ListOf, Kept
<1> QED
  BY <1>1, <1>2, <1>3, PTL DEF ClientsSpec

-----------------------------------------------------------------------------
(* The evidence bundle *)

\* An alert and a candidate have their events among those there ever were.
HistoryInv == OneZone(Ever) => AllBacked(Ever, alerts, runner)

LEMMA HistoryStep ==
    ASSUME Base, HistoryInv, [ClientsNext]_clientVars
    PROVE  HistoryInv'
<1>1. Typed /\ Ever \in Snapshots /\ events \subseteq Ever
  BY PartFinite DEF Base, Typed, Ever
<1>2. Base' /\ Ever \subseteq Ever'
  BY BaseStep
<1>3. Ever' \in Snapshots
  BY <1>2, PartFinite DEF Base, Typed, Ever
<1>4. CASE [Next]_vars
  <2>1. ASSUME OneZone(Ever')
        PROVE  AllBacked(Ever', alerts', runner')
    <3>1. OneZone(Ever)
      BY <1>2, <2>1, OneZonePart
    <3> QED
      BY <1>1, <1>2, <1>3, <1>4, <3>1, BackedStep DEF HistoryInv
  <2> QED
    BY <2>1 DEF HistoryInv, OneZone
<1>5. CASE DeleteOldEvents
  BY <1>5, RetentionStep DEF HistoryInv, AllBacked, OneZone
<1> QED
  BY <1>4, <1>5, PlatformStep

\* The rows that the property looks for the events of an alert in.
RowsFor(ip) ==
    bundle.found \cup Gone(ip) \cup {e \in events : e.at \notin bundle.start .. bundle.end}

BundleInv ==
    /\ bundle \in BundleType
    /\ \A l \in bundle.listed :
          /\ l.alert \in DOMAIN alerts /\ alerts[l.alert].ip = bundle.ip
          /\ l.status = "closed" => ~Active(l.alert) \/ alerts[l.alert].reopened
    /\ bundle.pc \in {"risk", "done"} /\ OneZone(Ever) =>
          \A l \in bundle.listed :
             LET a == alerts[l.alert] IN
             Cardinality(BurstOf(RowsFor(a.ip), a.rule, a.ip, a.started, a.ended)) >= a.count

\* The alerts of an address that count for its risk.
ActiveOf(ip) == {i \in AlertsOf(ip) : Active(i)}

\* How the bundle moves, and that the alerts are then left alone.
LEMMA BundleMoves ==
    ASSUME [ClientsNext]_clientVars
    PROVE  \/ bundle' = bundle
           \/ /\ bundle.pc # "done" /\ UNCHANGED <<events, deleted, alerts>>
              /\ \/ \E ip \in IPs, range \in Ranges : ListAlerts(ip, range[1], range[2])
                 \/ FindEvents
                 \/ AssessRisk
BY DEF ClientsNext, clientVars, viewVars, Detect, Triage, Outside, DeleteOldEvents, Summarise,
       Export, TurnPage, Simulate, ListAlerts, FindEvents, AssessRisk, vars

\* An analyst takes an alert out of "closed" by re-opening it.
LEMMA ClosedStays ==
    ASSUME Base, [ClientsNext]_clientVars, NEW i \in DOMAIN alerts,
           ~Active(i) \/ alerts[i].reopened
    PROVE  ~Active(i)' \/ alerts'[i].reopened
<1>1. Typed /\ alerts[i].status \in {"open", "triaged", "closed"}
  BY AlertTyped DEF Base
<1>2. CASE alerts'[i] = alerts[i]
  BY <1>2 DEF Active
<1>3. ASSUME NEW w \in Runners, RunStep(w) \/ Crash(w)
      PROVE  alerts'[i] = alerts[i]
  <2>1. CASE InsertAlert(w)
    BY <1>1, <2>1, InsertEffect
  <2>2. CASE ~InsertAlert(w)
    BY <1>3, <2>2 DEF RunStep, StartRun, SkipDuplicate, PassCheck, Notify, FinishRun, Crash
  <2> QED
    BY <2>1, <2>2
<1>4. ASSUME NEW j \in DOMAIN alerts, NEW status \in Statuses, SetStatus(j, status)
      PROVE  ~Active(i)' \/ alerts'[i].reopened
  <2>1. CASE j = i
    BY <1>1, <1>4, <2>1, StatusEffect DEF Active
  <2>2. CASE j # i
    <3>1. alerts'[i] = alerts[i]
      BY <1>1, <1>4, <2>2, StatusEffect
    <3> QED
      BY <1>2, <3>1
  <2> QED
    BY <2>1, <2>2
<1>5. CASE Next
  <2>1. CASE Tick \/ \E at \in 0 .. clock + Ahead, ip \in IPs,
                        matches \in (SUBSET Rules) \ {{}} :
                        \E zone \in ZonesOf[ip] : Ingest(at, zone, ip, matches)
    BY <1>2, <2>1 DEF Tick, Ingest
  <2> QED
    BY <1>2, <1>3, <1>4, <1>5, <2>1 DEF Next
<1>6. CASE UNCHANGED vars
  BY <1>2, <1>6 DEF vars
<1>7. CASE DeleteOldEvents
  BY <1>2, <1>7 DEF DeleteOldEvents
<1> QED
  BY <1>5, <1>6, <1>7, PlatformStep

\* What is shown for an alert holds what there was of it when it was found.
LEMMA EvidenceFound ==
    ASSUME Base, HistoryInv, BundleInv, FindEvents, UNCHANGED <<events, deleted, alerts>>,
           OneZone(Ever'), NEW l \in bundle.listed
    PROVE  LET a == alerts[l.alert] IN
           (Cardinality(BurstOf(RowsFor(a.ip), a.rule, a.ip, a.started, a.ended)) >= a.count)'
<1> DEFINE a == alerts[l.alert]
           whole == BurstOf(Ever, a.rule, a.ip, a.started, a.ended)
           shown == BurstOf(RowsFor(a.ip), a.rule, a.ip, a.started, a.ended)'
<1>1. l.alert \in DOMAIN alerts /\ a.ip = bundle.ip
  BY DEF BundleInv
<1>2. Cardinality(whole) >= a.count
  <2>1. Ever' = Ever
    BY DEF Ever
  <2> QED
    BY <1>1, <2>1 DEF HistoryInv, AllBacked, Backed
<1>3. /\ bundle'.found = {e \in EventsOf(bundle.ip) : e.at \in bundle.start .. bundle.end}
      /\ bundle'.start = bundle.start /\ bundle'.end = bundle.end
  BY DEF FindEvents, BundleInv, BundleType
<1>4. \A e \in Ever : e.ip = a.ip => e \in RowsFor(a.ip)'
  BY <1>1, <1>3 DEF Ever, RowsFor, EventsOf, Gone
<1>5. \A e \in RowsFor(a.ip)' : e \in Ever
  BY <1>3 DEF Ever, RowsFor, EventsOf, Gone
<1>6. shown = whole
  BY <1>4, <1>5 DEF BurstOf
<1> QED
  BY <1>2, <1>6

\* Later, retention may take some of it, and then it is in the rows deleted.
LEMMA EvidenceKept ==
    ASSUME Base, BundleInv, [ClientsNext]_clientVars, bundle'.found = bundle.found,
           bundle'.start = bundle.start, bundle'.end = bundle.end, bundle.pc \in {"risk", "done"},
           OneZone(Ever'), NEW l \in bundle.listed
    PROVE  LET a == alerts[l.alert] IN
           (Cardinality(BurstOf(RowsFor(a.ip), a.rule, a.ip, a.started, a.ended)) >= a.count)'
<1> DEFINE a == alerts[l.alert]
           b == alerts'[l.alert]
           before == BurstOf(RowsFor(a.ip), a.rule, a.ip, a.started, a.ended)
           after  == BurstOf(RowsFor(a.ip), a.rule, a.ip, a.started, a.ended)'
<1>1. Base' /\ Stays /\ Ever \subseteq Ever' /\ deleted \subseteq deleted'
  BY BaseStep
<1>2. l.alert \in DOMAIN alerts /\ Cardinality(before) >= a.count
  <2>1. OneZone(Ever)
    BY <1>1, OneZonePart
  <2> QED
    BY <2>1 DEF BundleInv
<1>3. /\ b.rule = a.rule /\ b.ip = a.ip /\ b.started = a.started /\ b.ended = a.ended
      /\ b.count = a.count /\ a.count \in Nat
  BY <1>1, <1>2, AlertTyped DEF Stays, Base, Alert
<1>4. ASSUME NEW e \in RowsFor(a.ip), e.ip = a.ip
      PROVE  e \in RowsFor(a.ip)'
  <2>1. CASE e \in bundle.found
    BY <2>1 DEF RowsFor
  <2>2. CASE e \in deleted
    BY <1>1, <1>3, <1>4, <2>2 DEF RowsFor, Gone
  <2>3. CASE e \in events /\ e.at \notin bundle.start .. bundle.end
    <3>1. e \in events' \/ e \in deleted'
      BY <1>1, <2>3 DEF Ever
    <3> QED
      BY <1>3, <1>4, <2>3, <3>1 DEF RowsFor, Gone
  <2> QED
    BY <1>4, <2>1, <2>2, <2>3 DEF RowsFor, Gone
<1>5. before \subseteq after
  BY <1>3, <1>4 DEF BurstOf
<1>6. IsFiniteSet(after) /\ Cardinality(after) \in Nat
  <2>1. bundle'.found \in Snapshots /\ Ever' \in Snapshots
    BY <1>1, PartFinite DEF BundleInv, BundleType, Base, Typed, Ever
  <2>2. after \subseteq bundle'.found \cup Ever'
    BY DEF BurstOf, RowsFor, Gone, Ever
  <2> QED
    BY <2>1, <2>2, PartFinite
<1>7. Cardinality(before) \in Nat /\ Cardinality(before) <= Cardinality(after)
  BY <1>5, <1>6, FS_Subset, FS_CardinalityType
<1>8. Cardinality(after) >= b.count
  <2> HIDE DEF before, after, a, b
  <2> QED
    BY <1>2, <1>3, <1>6, <1>7
<1>9. (Cardinality(BurstOf(RowsFor(a.ip), a.rule, a.ip, a.started, a.ended)) >= a.count)'
  BY <1>8
<1> QED
  BY <1>9

LEMMA PlacesFinite ==
    ASSUME NEW n \in Nat, NEW S, S \subseteq 1 .. n
    PROVE  IsFiniteSet(S) /\ Cardinality(S) \in Nat
<1>1. IsFiniteSet(1 .. n)
  BY FS_Interval
<1>2. IsFiniteSet(S)
  BY <1>1, FS_Subset
<1> QED
  BY <1>2, FS_CardinalityType

LEMMA BundleStep ==
    ASSUME Base, HistoryInv, BundleInv, [ClientsNext]_clientVars
    PROVE  BundleInv'
<1>1. Base' /\ Stays
  BY BaseStep
<1>2. ASSUME NEW l \in bundle.listed
      PROVE  /\ l.alert \in DOMAIN alerts' /\ alerts'[l.alert].ip = bundle.ip
             /\ l.status = "closed" => ~Active(l.alert)' \/ alerts'[l.alert].reopened
  <2>1. l.alert \in DOMAIN alerts /\ alerts[l.alert].ip = bundle.ip
        /\ (l.status = "closed" => ~Active(l.alert) \/ alerts[l.alert].reopened)
    BY DEF BundleInv
  <2> QED
    BY <1>1, <2>1, ClosedStays DEF Stays
<1>3. CASE bundle' = bundle
  <2>1. ASSUME bundle.pc \in {"risk", "done"}, OneZone(Ever'), NEW l \in bundle.listed
        PROVE  LET a == alerts[l.alert] IN
               (Cardinality(BurstOf(RowsFor(a.ip), a.rule, a.ip, a.started, a.ended)) >= a.count)'
    BY <1>3, <2>1, EvidenceKept
  <2> QED
    BY <1>2, <1>3, <2>1 DEF BundleInv, Ever, OneZone
<1>4. ASSUME NEW ip \in IPs, NEW range \in Ranges, ListAlerts(ip, range[1], range[2]),
             UNCHANGED alerts
      PROVE  BundleInv'
  <2> DEFINE rows == {j \in AlertsOf(ip) : born[j] \in range[1] .. range[2]}
             listed == {[alert |-> i, status |-> alerts[i].status] : i \in rows}
  <2>1. \A i \in rows : i \in Nat /\ i \in DOMAIN alerts /\ alerts[i].ip = ip
                        /\ alerts[i].status \in Statuses
    <3>1. DOMAIN alerts \subseteq Nat
      BY LenProperties DEF Base, Typed
    <3>2. \A i \in DOMAIN alerts : alerts[i].status \in Statuses
      BY AlertTyped DEF Base, Statuses
    <3> QED
      BY <3>1, <3>2 DEF AlertsOf
  <2>2. listed \in SUBSET [alert : Nat, status : Statuses]
    <3> HIDE DEF rows
    <3> QED
      BY <2>1
  <2>3. range[1] \in Nat /\ range[2] \in Nat
    BY ClientsAssumption
  <2>4. bundle' = [NoBundle EXCEPT !.pc = "events", !.ip = ip, !.start = range[1], !.end = range[2],
                                   !.listed = listed]
    BY <1>4 DEF ListAlerts
  <2>5. \A l \in listed : /\ l.alert \in DOMAIN alerts /\ alerts[l.alert].ip = ip
                          /\ l.status = alerts[l.alert].status
    BY <2>1
  <2> HIDE DEF rows, listed
  <2>6. bundle' \in BundleType /\ bundle'.pc = "events" /\ bundle'.ip = ip /\ bundle'.listed = listed
    BY <2>2, <2>3, <2>4, EmptyRun DEF NoBundle, BundleType
  <2> QED
    BY <1>4, <2>5, <2>6 DEF BundleInv, Active
<1>5. ASSUME FindEvents, UNCHANGED <<events, deleted, alerts>>
      PROVE  BundleInv'
  <2>1. bundle' \in BundleType /\ bundle'.listed = bundle.listed /\ bundle'.ip = bundle.ip
    <3>1. {e \in EventsOf(bundle.ip) : e.at \in bundle.start .. bundle.end} \subseteq events
      BY DEF EventsOf
    <3>2. {e \in EventsOf(bundle.ip) : e.at \in bundle.start .. bundle.end} \in Snapshots
      BY <3>1, PartFinite DEF Base, Typed
    <3> QED
      BY <1>5, <3>2 DEF FindEvents, BundleInv, BundleType
  <2>2. ASSUME OneZone(Ever'), NEW l \in bundle.listed
        PROVE  LET a == alerts[l.alert] IN
               (Cardinality(BurstOf(RowsFor(a.ip), a.rule, a.ip, a.started, a.ended)) >= a.count)'
    BY <1>5, <2>2, EvidenceFound
  <2> QED
    BY <1>2, <2>1, <2>2 DEF BundleInv, Ever, OneZone
<1>6. ASSUME AssessRisk, UNCHANGED <<events, deleted, alerts>>
      PROVE  BundleInv'
  <2>1. RiskOf(bundle.ip).contributing \in Nat
    <3>1. RiskOf(bundle.ip).contributing = Cardinality(ActiveRows(RiskRows(bundle.ip)))
      BY DEF RiskOf, Risk
    <3>2. ActiveRows(RiskRows(bundle.ip)) \subseteq 1 .. Len(alerts)
      BY LenProperties DEF ActiveRows, RiskRows, AlertsOf, Base, Typed
    <3>3. Len(alerts) \in Nat
      BY LenProperties DEF Base, Typed
    <3> QED
      BY <3>1, <3>2, <3>3, PlacesFinite
  <2>2. /\ bundle.pc = "risk" /\ bundle' \in BundleType /\ bundle'.listed = bundle.listed
        /\ bundle'.ip = bundle.ip /\ bundle'.found = bundle.found
        /\ bundle'.start = bundle.start /\ bundle'.end = bundle.end
    BY <1>6, <2>1 DEF AssessRisk, BundleInv, BundleType
  <2>3. ASSUME OneZone(Ever'), NEW l \in bundle.listed
        PROVE  LET a == alerts[l.alert] IN
               (Cardinality(BurstOf(RowsFor(a.ip), a.rule, a.ip, a.started, a.ended)) >= a.count)'
    BY <2>2, <2>3, EvidenceKept
  <2> QED
    BY <1>2, <2>2, <2>3 DEF BundleInv, Ever, OneZone
<1> QED
  BY <1>3, <1>4, <1>5, <1>6, BundleMoves

LEMMA BundleStart == ClientsInit => Base /\ HistoryInv /\ BundleInv
<1> SUFFICES ASSUME ClientsInit PROVE Base /\ HistoryInv /\ BundleInv
  OBVIOUS
<1>1. bundle = NoBundle
  BY DEF ClientsInit
<1>2. BundleInv
  BY <1>1, EmptyRun DEF BundleInv, NoBundle, BundleType
<1>3. DOMAIN alerts = {} /\ \A w \in Runners : DOMAIN runner[w].queue = {}
  BY EmptyRun DEF ClientsInit, Init
<1>4. HistoryInv
  BY <1>3 DEF HistoryInv, AllBacked
<1> QED
  BY <1>2, <1>4, BaseStart

\* Every alert in a bundle has its events beside it, but for those outside
\* the range and those deleted: it is read before they are, and no order of
\* arrivals and of retention comes between (entities.py:133).
THEOREM BundlesHoldTheirEvents == ClientsSpec => []EvidenceBacksAlerts
<1>1. ClientsInit => Base /\ HistoryInv /\ BundleInv
  BY BundleStart
<1>2. Base /\ HistoryInv /\ BundleInv /\ [ClientsNext]_clientVars => (Base /\ HistoryInv /\ BundleInv)'
  BY BaseStep, HistoryStep, BundleStep
<1>3. BundleInv => EvidenceBacksAlerts
  BY DEF BundleInv, EvidenceBacksAlerts, RowsFor, Ever
<1> QED
  BY <1>1, <1>2, <1>3, PTL DEF ClientsSpec

\* The third query counts the alerts of the address that are active.
LEMMA RiskCounts ==
    ASSUME NEW ip
    PROVE  RiskOf(ip).contributing = Cardinality(ActiveOf(ip))
<1>1. DOMAIN RiskRows(ip) = AlertsOf(ip)
      /\ \A i \in AlertsOf(ip) : RiskRows(ip)[i].status = alerts[i].status
  BY DEF RiskRows
<1>2. ActiveRows(RiskRows(ip)) = ActiveOf(ip)
  BY <1>1 DEF ActiveRows, Contributes, ActiveOf, Active
<1> QED
  BY <1>2 DEF RiskOf, Risk

\* What it counts lies between the two bounds of the property.
LEMMA RiskBetween ==
    ASSUME Base, BundleInv
    PROVE  LET reopened == {i \in AlertsOf(bundle.ip) : alerts[i].reopened}
               listed   == {l.alert : l \in bundle.listed}
               active   == {l.alert : l \in {k \in bundle.listed : Contributes(k.status)}}
               risk     == RiskOf(bundle.ip).contributing
           IN  /\ risk >= Cardinality({i \in listed \ reopened : Active(i)})
               /\ risk <= Cardinality(active \cup reopened \cup (AlertsOf(bundle.ip) \ listed))
<1> DEFINE reopened == {i \in AlertsOf(bundle.ip) : alerts[i].reopened}
           listed   == {l.alert : l \in bundle.listed}
           active   == {l.alert : l \in {k \in bundle.listed : Contributes(k.status)}}
           low      == {i \in listed \ reopened : Active(i)}
           high     == active \cup reopened \cup (AlertsOf(bundle.ip) \ listed)
           now      == ActiveOf(bundle.ip)
<1>1. listed \subseteq AlertsOf(bundle.ip) /\ active \subseteq listed
      /\ AlertsOf(bundle.ip) \subseteq 1 .. Len(alerts) /\ Len(alerts) \in Nat
  BY LenProperties DEF BundleInv, AlertsOf, Base, Typed
<1>2. low \subseteq now
  BY <1>1 DEF ActiveOf
<1>3. ASSUME NEW i \in now, i \in listed, i \notin reopened
      PROVE  i \in active
  <2>1. PICK l \in bundle.listed : l.alert = i
    BY <1>3
  <2>2. l.status # "closed"
    BY <1>3, <2>1 DEF BundleInv, ActiveOf
  <2>3. l.status \in Statuses
    BY DEF BundleInv, BundleType
  <2> QED
    BY <2>1, <2>2, <2>3 DEF Statuses, Contributes
<1>4. now \subseteq high
  BY <1>3 DEF ActiveOf
<1>5. high \subseteq 1 .. Len(alerts) /\ now \subseteq 1 .. Len(alerts)
  BY <1>1 DEF ActiveOf
<1> HIDE DEF low, high, now
<1>6. IsFiniteSet(high) /\ IsFiniteSet(now)
  BY <1>1, <1>5, PlacesFinite
<1>7. /\ Cardinality(low) <= Cardinality(now) /\ Cardinality(now) <= Cardinality(high)
      /\ Cardinality(low) \in Nat /\ Cardinality(now) \in Nat
  BY <1>2, <1>4, <1>6, FS_Subset, FS_CardinalityType
<1>8. RiskOf(bundle.ip).contributing = Cardinality(now)
  BY RiskCounts DEF now
<1>9. /\ RiskOf(bundle.ip).contributing >= Cardinality(low)
      /\ RiskOf(bundle.ip).contributing <= Cardinality(high)
  BY <1>7, <1>8
<1> QED
  BY <1>9 DEF low, high

LEMMA RiskStep ==
    ASSUME Base, BundleInv, RiskAgreesWithList, [ClientsNext]_clientVars
    PROVE  RiskAgreesWithList'
<1>1. CASE UNCHANGED clientVars
  <2>1. UNCHANGED <<alerts, bundle>>
    BY <1>1 DEF clientVars, vars, viewVars
  <2> QED
    BY <2>1 DEF RiskAgreesWithList, AlertsOf, Active
<1>2. CASE bundle'.pc # "done"
  BY <1>2 DEF RiskAgreesWithList
<1>3. CASE ClientsNext /\ bundle'.pc = "done"
  <2>1. bundle.pc # "done"
    BY <1>3 DEF ClientsNext, Finished
  <2>2. AssessRisk /\ UNCHANGED alerts
    <3>1. ~FindEvents
      BY <1>3 DEF FindEvents, BundleInv, BundleType
    <3>2. ASSUME NEW ip \in IPs, NEW range \in Ranges
          PROVE  ~ListAlerts(ip, range[1], range[2])
      BY <1>3 DEF ListAlerts, NoBundle
    <3> QED
      BY <1>3, <2>1, <3>1, <3>2, BundleMoves
  <2>3. /\ bundle'.listed = bundle.listed /\ bundle'.ip = bundle.ip
        /\ bundle'.risk = RiskOf(bundle.ip).contributing
    BY <2>2 DEF AssessRisk, BundleInv, BundleType
  <2> QED
    BY <2>2, <2>3, RiskBetween DEF RiskAgreesWithList, AlertsOf, Active
<1> QED
  BY <1>1, <1>2, <1>3

\* The risk in a bundle and its list are of two moments, and agree but for
\* what analysts re-opened and detection added in between, and for the range
\* (entities.py:151).
THEOREM RiskFitsTheList == ClientsSpec => []RiskAgreesWithList
<1>1. ClientsInit => Base /\ HistoryInv /\ BundleInv /\ RiskAgreesWithList
  <2>1. ClientsInit => bundle.pc = "idle"
    BY DEF ClientsInit, NoBundle
  <2> QED
    BY <2>1, BundleStart DEF RiskAgreesWithList
<1>2. Base /\ HistoryInv /\ BundleInv /\ RiskAgreesWithList /\ [ClientsNext]_clientVars
         => (Base /\ HistoryInv /\ BundleInv /\ RiskAgreesWithList)'
  BY BaseStep, HistoryStep, BundleStep, RiskStep
<1> QED
  BY <1>1, <1>2, PTL DEF ClientsSpec

-----------------------------------------------------------------------------
(* Runs at once *)

\* While a candidate waits for its insert, what has come to stand in its way
\* was re-opened, or was raised after this runner's query.
ClearButForRaces ==
    \A w \in Runners, i \in DOMAIN alerts :
        runner[w].pc = "insert" /\ InTheWay(alerts[i], Head(runner[w].queue))
            => alerts[i].reopened \/ looked[w] < i

RaceInv ==
    /\ looked \in [Runners -> Nat] /\ \A w \in Runners : looked[w] <= Len(alerts)
    /\ origin \in Seq(Nat) /\ Len(origin) = Len(alerts)
    /\ ClearButForRaces
    /\ DuplicatesNeedARace

LEMMA RaceMoves ==
    ASSUME [ClientsNext]_clientVars
    PROVE  \/ \E w \in Runners : Detect(w)
           \/ /\ UNCHANGED <<looked, origin>>
              /\ \E i \in DOMAIN alerts, status \in Statuses : SetStatus(i, status)
           \/ UNCHANGED <<alerts, runner, looked, origin>>
<1>1. ASSUME NEW i \in DOMAIN alerts, NEW status \in Statuses, Triage(i, status)
      PROVE  SetStatus(i, status) /\ UNCHANGED <<looked, origin>>
  BY <1>1 DEF Triage
<1>2. CASE Outside
  BY <1>2 DEF Outside, Tick, Ingest
<1>3. CASE Simulate
  BY <1>3 DEF Simulate, SimStep, BeginSimulation, PostAttack, StoreAttack, Ingest, AttackSent,
              AbortSimulation, Report, vars
<1>4. CASE DeleteOldEvents \/ Summarise \/ Export \/ TurnPage \/ UNCHANGED clientVars
  BY <1>4 DEF DeleteOldEvents, Summarise, Export, TurnPage, clientVars, vars
<1> QED
  BY <1>1, <1>2, <1>3, <1>4 DEF ClientsNext

\* Steps that raise no alert, and at which no runner's query finds its way
\* clear or another runner has it clear already.
LEMMA RaceKept ==
    ASSUME Typed, RaceInv, alerts' = alerts, origin' = origin,
           looked' \in [Runners -> Nat], \A w \in Runners : looked'[w] <= Len(alerts),
           \A w \in Runners : runner'[w].pc = "insert"
              => \/ runner'[w] = runner[w] /\ looked'[w] = looked[w]
                 \/ /\ runner'[w].queue = runner[w].queue
                    /\ Duplicates(Head(runner[w].queue)) = {}
    PROVE  RaceInv'
<1>1. DuplicatesNeedARace'
  BY DEF RaceInv, DuplicatesNeedARace, Active, SameKey
<1>2. ASSUME NEW w \in Runners, runner'[w].pc = "insert",
             NEW i \in DOMAIN alerts, InTheWay(alerts[i], Head(runner'[w].queue))
      PROVE  alerts[i].reopened \/ looked'[w] < i
  <2>1. CASE runner'[w] = runner[w] /\ looked'[w] = looked[w]
    BY <1>2, <2>1 DEF RaceInv, ClearButForRaces
  <2>2. CASE /\ runner'[w].queue = runner[w].queue
             /\ Duplicates(Head(runner[w].queue)) = {}
    <3>1. Duplicates(Head(runner'[w].queue)) = {}
      BY <2>2
    <3> QED
      BY <1>2, <3>1 DEF Duplicates, InTheWay
  <2> QED
    BY <1>2, <2>1, <2>2
<1>3. ClearButForRaces'
  BY <1>2 DEF ClearButForRaces
<1> QED
  BY <1>1, <1>3 DEF RaceInv

LEMMA RaceInsert ==
    ASSUME Typed, RaceInv, NEW w \in Runners, InsertAlert(w),
           looked' = looked, origin' = Append(origin, looked[w])
    PROVE  RaceInv'
<1> DEFINE n == Len(alerts) + 1
           c == Head(runner[w].queue)
<1>1. /\ runner[w].pc = "insert" /\ c \in Candidate /\ alerts' \in Seq(Alert)
      /\ DOMAIN alerts = 1 .. Len(alerts) /\ DOMAIN alerts' = 1 .. n /\ Len(alerts) \in Nat
      /\ \A i \in DOMAIN alerts : alerts'[i] = alerts[i]
      /\ alerts'[n].rule = c.rule /\ alerts'[n].ip = c.ip /\ alerts'[n].ended = c.ended
      /\ runner'[w].pc = "notify"
      /\ \A v \in Runners : v # w => runner'[v] = runner[v]
  BY InsertEffect
<1>2. /\ looked \in [Runners -> Nat] /\ \A v \in Runners : looked[v] <= Len(alerts)
      /\ origin \in Seq(Nat) /\ Len(origin) = Len(alerts)
  BY DEF RaceInv
<1>3. /\ origin' \in Seq(Nat) /\ Len(origin') = n /\ origin'[n] = looked[w]
      /\ \A i \in DOMAIN alerts : origin'[i] = origin[i]
  BY <1>1, <1>2, AppendProperties
<1>4. Len(alerts') = n
  BY <1>1, LenProperties
<1>5. /\ \A i \in DOMAIN alerts' : i \in DOMAIN alerts \/ i = n
      /\ \A i, j \in DOMAIN alerts' : i < j => i \in DOMAIN alerts
      /\ \A v \in Runners : looked[v] < n /\ looked[v] <= n /\ looked[v] \in Nat
  BY <1>1, <1>2
<1>6. ASSUME NEW i \in DOMAIN alerts, alerts[i].rule = c.rule, alerts[i].ip = c.ip,
             Active(i), ~alerts[i].reopened
      PROVE  c.ended > alerts[i].ended + DedupeGap \/ looked[w] < i
  <2>1. ~(alerts[i].ended >= c.ended - DedupeGap) \/ looked[w] < i
    BY <1>1, <1>6 DEF RaceInv, ClearButForRaces, InTheWay, Active
  <2>2. alerts[i].ended \in Int /\ c.ended \in Int /\ DedupeGap \in Int
    BY <1>1, AlertTyped, RunnerAssumption DEF Candidate
  <2> HIDE DEF c
  <2> QED
    BY <2>1, <2>2
<1> HIDE DEF n, c
<1>7. DuplicatesNeedARace'
  <2> SUFFICES ASSUME NEW i \in DOMAIN alerts', NEW j \in DOMAIN alerts', i < j,
                      Active(i)', ~alerts'[i].reopened, Active(j)', ~alerts'[j].reopened,
                      SameKey(i, j)'
               PROVE  \/ alerts'[j].ended > alerts'[i].ended + DedupeGap
                      \/ alerts'[i].ended > alerts'[j].ended + DedupeGap
                      \/ origin'[j] < i
    BY DEF DuplicatesNeedARace
  <2>1. i \in DOMAIN alerts /\ alerts'[i] = alerts[i]
    BY <1>1, <1>5
  <2>2. CASE j \in DOMAIN alerts
    BY <1>1, <1>3, <2>1, <2>2 DEF RaceInv, DuplicatesNeedARace, Active, SameKey
  <2>3. CASE j = n
    BY <1>1, <1>3, <1>6, <2>1, <2>3 DEF Active, SameKey
  <2> QED
    BY <1>5, <2>2, <2>3
<1>8. ClearButForRaces'
  <2> SUFFICES ASSUME NEW v \in Runners, runner'[v].pc = "insert",
                      NEW i \in DOMAIN alerts', InTheWay(alerts'[i], Head(runner'[v].queue))
               PROVE  alerts'[i].reopened \/ looked[v] < i
    BY DEF ClearButForRaces
  <2>1. v # w /\ runner'[v] = runner[v]
    BY <1>1
  <2>2. CASE i \in DOMAIN alerts
    BY <1>1, <2>1, <2>2 DEF RaceInv, ClearButForRaces
  <2>3. CASE i = n
    BY <1>5, <2>3
  <2> QED
    BY <1>5, <2>2, <2>3
<1> QED
  BY <1>2, <1>3, <1>4, <1>5, <1>7, <1>8 DEF RaceInv

LEMMA RaceTriage ==
    ASSUME Typed, RaceInv, NEW i \in DOMAIN alerts, NEW status \in Statuses, SetStatus(i, status),
           UNCHANGED <<looked, origin>>
    PROVE  RaceInv'
<1>1. /\ runner' = runner /\ DOMAIN alerts' = DOMAIN alerts /\ alerts' \in Seq(Alert)
      /\ \A j \in DOMAIN alerts : j # i => alerts'[j] = alerts[j]
      /\ alerts'[i].rule = alerts[i].rule /\ alerts'[i].ip = alerts[i].ip
      /\ alerts'[i].ended = alerts[i].ended
      /\ alerts'[i].reopened = (alerts[i].reopened \/ alerts[i].status = "closed")
  BY StatusEffect
<1>2. \A j \in DOMAIN alerts : alerts[j].status \in {"open", "triaged", "closed"}
  BY AlertTyped
<1>3. ASSUME NEW j \in DOMAIN alerts
      PROVE  /\ alerts'[j].rule = alerts[j].rule /\ alerts'[j].ip = alerts[j].ip
             /\ alerts'[j].ended = alerts[j].ended
             /\ Active(j)' /\ ~alerts'[j].reopened => Active(j) /\ ~alerts[j].reopened
  BY <1>1, <1>2 DEF Active
<1>4. DuplicatesNeedARace'
  BY <1>1, <1>3 DEF RaceInv, DuplicatesNeedARace, SameKey
<1>5. ClearButForRaces'
  <2> SUFFICES ASSUME NEW w \in Runners, runner[w].pc = "insert",
                      NEW j \in DOMAIN alerts, InTheWay(alerts'[j], Head(runner[w].queue)),
                      ~alerts'[j].reopened
               PROVE  looked[w] < j
    BY <1>1 DEF ClearButForRaces
  <2>1. Active(j) /\ ~alerts[j].reopened
    BY <1>3 DEF InTheWay, Active
  <2> QED
    BY <1>3, <2>1 DEF RaceInv, ClearButForRaces, InTheWay, Active
<1>6. Len(alerts') = Len(alerts)
  BY <1>1, LenProperties DEF Typed
<1> QED
  BY <1>4, <1>5, <1>6 DEF RaceInv

LEMMA RaceStep ==
    ASSUME Base, RaceInv, [ClientsNext]_clientVars
    PROVE  RaceInv'
<1>1. Typed /\ looked \in [Runners -> Nat] /\ \A w \in Runners : looked[w] <= Len(alerts)
  BY DEF Base, RaceInv
<1>2. Len(alerts) \in Nat
  BY <1>1, LenProperties DEF Typed
<1>3. CASE UNCHANGED <<alerts, runner, looked, origin>>
  BY <1>1, <1>3, RaceKept
<1>4. CASE /\ UNCHANGED <<looked, origin>>
           /\ \E i \in DOMAIN alerts, status \in Statuses : SetStatus(i, status)
  BY <1>1, <1>4, RaceTriage
<1>5. ASSUME NEW w \in Runners, Detect(w)
      PROVE  RaceInv'
  <2>1. CASE InsertAlert(w)
    <3>1. Len(alerts') = Len(alerts) + 1 /\ runner[w].pc = "insert"
      <4>1. alerts' \in Seq(Alert) /\ DOMAIN alerts' = 1 .. Len(alerts) + 1 /\ runner[w].pc = "insert"
        BY <1>1, <2>1, InsertEffect
      <4> QED
        BY <1>2, <4>1, LenProperties
    <3>2. Len(alerts') > Len(alerts)
      BY <1>2, <3>1
    <3>3. origin' = Append(origin, looked[w]) /\ looked' = looked
      BY <1>5, <3>1, <3>2 DEF Detect, Recorded
    <3> QED
      BY <1>1, <2>1, <3>3, RaceInsert
  <2>2. CASE ~InsertAlert(w)
    <3>1. alerts' = alerts
      BY <1>5, <2>2 DEF Detect, RunStep, StartRun, SkipDuplicate, PassCheck, Notify, FinishRun, Crash
    <3>2. ~(Len(alerts') > Len(alerts)) /\ Len(alerts) <= Len(alerts)
      BY <1>2, <3>1
    <3>3. /\ origin' = origin
          /\ looked' = IF runner[w].pc = "check" /\ runner'[w].pc = "insert"
                       THEN [looked EXCEPT ![w] = Len(alerts)] ELSE looked
      BY <1>5, <3>2 DEF Detect, Recorded
    <3>4. looked' \in [Runners -> Nat] /\ \A v \in Runners : looked'[v] <= Len(alerts)
          /\ \A u \in Runners : u # w => looked'[u] = looked[u]
      BY <1>1, <1>2, <3>2, <3>3
    <3>5. /\ \A v \in Runners : v # w => runner'[v] = runner[v]
          /\ runner'[w].pc = "insert" => /\ runner'[w].queue = runner[w].queue
                                         /\ Duplicates(Head(runner[w].queue)) = {}
      <4>1. CASE StartRun(w)
        <5>1. runner'[w].pc = "check" /\ \A v \in Runners : v # w => runner'[v] = runner[v]
          BY <1>1, <4>1, StartEffect
        <5> QED
          BY <5>1
      <4>2. CASE SkipDuplicate(w) \/ PassCheck(w) \/ Notify(w)
        <5>1. /\ PassCheck(w) => /\ runner'[w].queue = runner[w].queue
                                 /\ Duplicates(Head(runner[w].queue)) = {}
              /\ ~PassCheck(w) => runner'[w].pc = "check"
              /\ \A v \in Runners : v # w => runner'[v] = runner[v]
          BY <1>1, <4>2, LoopEffect
        <5> QED
          BY <5>1
      <4>3. CASE FinishRun(w) \/ Crash(w)
        <5>1. runner'[w] = NoRun /\ \A v \in Runners : v # w => runner'[v] = runner[v]
          BY <1>1, <4>3, EndEffect
        <5> QED
          BY <5>1, EmptyRun
      <4> QED
        BY <1>5, <2>2, <4>1, <4>2, <4>3 DEF Detect, RunStep
    <3> QED
      BY <1>1, <3>1, <3>3, <3>4, <3>5, RaceKept
  <2> QED
    BY <2>1, <2>2
<1> QED
  BY <1>3, <1>4, <1>5, RaceMoves

\* Any number of runners, with no lock between them: two active alerts of one
\* key within ten minutes of each other are there only when the second was
\* decided on before the first was committed (runner.py:61 to 91).
THEOREM DuplicatesComeFromRaces == ClientsSpec => []DuplicatesNeedARace
<1>1. ClientsInit => Base /\ RaceInv
  <2> SUFFICES ASSUME ClientsInit PROVE Base /\ RaceInv
    OBVIOUS
  <2>1. /\ alerts = << >> /\ origin = << >> /\ looked = [w \in Runners |-> 0]
        /\ DOMAIN alerts = {} /\ Len(alerts) = 0
    BY DEF ClientsInit, Init
  <2>2. DuplicatesNeedARace /\ ClearButForRaces
    BY <2>1 DEF DuplicatesNeedARace, ClearButForRaces
  <2>3. origin \in Seq(Nat) /\ Len(origin) = 0
    BY <2>1
  <2> QED
    BY <2>1, <2>2, <2>3, BaseStart DEF RaceInv
<1>2. Base /\ RaceInv /\ [ClientsNext]_clientVars => (Base /\ RaceInv)'
  BY BaseStep, RaceStep
<1>3. RaceInv => DuplicatesNeedARace
  BY DEF RaceInv
<1> QED
  BY <1>1, <1>2, <1>3, PTL DEF ClientsSpec

-----------------------------------------------------------------------------
(* The simulation *)

\* The rules that a simulation can tell anything of: they group by one field,
\* and the timestamps of an attack, which are seconds apart, lie within the
\* window, as in each of rules/*.yml (attack_shapes.py:79).
AttacksFit == \A rule \in Rules : Ahead <= RuleOf[rule].window /\ RuleOf[rule].fields = 1

\* Rows that are alike are numbered without a gap: retention deletes all of
\* them at once, so that a new one is none of the old.
Alike(e) == {f \in events : /\ f.at = e.at /\ f.zone = e.zone
                            /\ f.ip = e.ip /\ f.matches = e.matches}

IdsDense == \A e \in events : e.id \in 1 .. Cardinality(Alike(e))

\* The events sent for a rule.
Sent(rule) == {m.event : m \in {k \in mine : k.rule = rule}}

Attacked(rule, at, n) ==
    /\ Cardinality(Sent(rule)) = n
    /\ \A e \in Sent(rule) : e.ip = AttackIP[rule] /\ e.matches = Shape[rule] /\ e.at \in at .. at + Ahead

\* What has been sent, for which rule, and that what was read has its alert.
SimInv ==
    /\ mine \subseteq [rule : Rules, event : events]
    /\ client # "simulation" => sim.pc = "idle"
    /\ sim.pc = "idle" => sim = NoSimulation /\ mine = {} /\ read = {}
    /\ sim.pc \in {"waiting", "done"} => sim.attack = NoAttack
    /\ sim.pc \in {"sending", "waiting", "done"} =>
          /\ \A m \in mine : m.rule \in sim.attempted \/ (sim.attack # NoAttack /\ m.rule = sim.attack.rule)
          /\ sim.todo \cap sim.attempted = {}
          /\ \A rule \in sim.attempted : \E at \in Nat : Attacked(rule, at, RuleOf[rule].count)
          /\ sim.attack # NoAttack =>
                /\ sim.attack.rule \notin sim.todo \cup sim.attempted
                /\ Attacked(sim.attack.rule, sim.attack.at, RuleOf[sim.attack.rule].count - sim.attack.left)
          /\ read \subseteq sim.attempted
          /\ \A rule \in read : \E i \in DOMAIN alerts : alerts[i].rule = rule

\* An event that comes in is a new one.
LEMMA IngestFresh ==
    ASSUME Typed, IdsDense, NEW at \in Nat, NEW zone \in Int, NEW ip \in IPs,
           NEW matches \in SUBSET Rules, Ingest(at, zone, ip, matches)
    PROVE  \E new \in Event : /\ new \notin events /\ events' = events \cup {new}
                              /\ new.at = at /\ new.ip = ip /\ new.matches = matches
                              /\ IdsDense'
<1> DEFINE alike == {e \in events : /\ e.at = at /\ e.zone = zone
                                    /\ e.ip = ip /\ e.matches = matches}
           n == Cardinality(alike)
           new == [id |-> n + 1, at |-> at, zone |-> zone, ip |-> ip, matches |-> matches]
<1>1. IsFiniteSet(events) /\ events \subseteq Event
  BY DEF Typed, Snapshots
<1>2. IsFiniteSet(alike) /\ n \in Nat
  BY <1>1, FS_Subset, FS_CardinalityType
<1>3. events' = events \cup {new}
  BY DEF Ingest
<1>4. /\ new \in Event /\ new.id = n + 1 /\ new.at = at /\ new.zone = zone
      /\ new.ip = ip /\ new.matches = matches
  <2> HIDE DEF n
  <2> QED
    BY <1>2 DEF Event
<1> HIDE DEF new
<1>5. \A e \in alike : Alike(e) = alike
  BY DEF Alike
<1>6. new \notin events
  <2> SUFFICES ASSUME new \in events PROVE FALSE
    OBVIOUS
  <2>1. new \in alike /\ new.id \in 1 .. Cardinality(Alike(new))
    BY <1>4 DEF IdsDense
  <2>2. n + 1 \in 1 .. n
    BY <1>4, <1>5, <2>1
  <2> HIDE DEF n
  <2> QED
    BY <1>2, <2>2
<1>7. ASSUME NEW e \in events'
      PROVE  e.id \in 1 .. Cardinality(Alike(e)')
  <2>1. CASE e = new \/ e \in alike
    <3>1. Alike(e)' = alike \cup {new}
      BY <1>3, <1>4, <2>1 DEF Alike
    <3>2. Cardinality(Alike(e)') = n + 1
      BY <1>2, <1>6, <3>1, FS_AddElement
    <3>3. e.id \in 1 .. n + 1
      <4>1. e \in alike => e.id \in 1 .. n
        BY <1>5 DEF IdsDense
      <4> HIDE DEF n
      <4> QED
        BY <1>2, <1>4, <2>1, <4>1
    <3> QED
      BY <3>2, <3>3
  <2>2. CASE e # new /\ e \notin alike
    <3>1. e \in events
      BY <1>3, <2>2
    <3>2. Alike(e)' = Alike(e)
      BY <1>3, <1>4, <2>2, <3>1 DEF Alike
    <3> QED
      BY <3>1, <3>2 DEF IdsDense
  <2> QED
    BY <2>1, <2>2
<1>8. IdsDense'
  BY <1>7 DEF IdsDense
<1> QED
  BY <1>3, <1>4, <1>6, <1>8

\* What a step does to the events: nothing, one more, or retention.
LEMMA EventMoves ==
    ASSUME Base, [ClientsNext]_clientVars
    PROVE  \/ events' = events
           \/ \E at \in Nat, zone \in Int, ip \in IPs, matches \in SUBSET Rules :
                 Ingest(at, zone, ip, matches)
           \/ DeleteOldEvents
<1>1. CASE [Next]_vars
  <2>1. ASSUME NEW at \in 0 .. clock + Ahead, NEW ip \in IPs, NEW matches \in (SUBSET Rules) \ {{}},
               NEW zone \in ZonesOf[ip], Ingest(at, zone, ip, matches)
        PROVE  \E t \in Nat, z \in Int, a \in IPs, M \in SUBSET Rules : Ingest(t, z, a, M)
    <3>1. at \in Nat /\ zone \in Int
      BY RunnerAssumption, ZonesAreOffsets DEF Base, Typed
    <3> QED
      BY <2>1, <3>1
  <2>2. events' = events \/ \E at \in 0 .. clock + Ahead, ip \in IPs, matches \in (SUBSET Rules) \ {{}} :
                               \E zone \in ZonesOf[ip] : Ingest(at, zone, ip, matches)
    BY <1>1 DEF Next, vars, Tick, RunStep, StartRun, SkipDuplicate, PassCheck,
                InsertAlert, Notify, FinishRun, Crash, SetStatus
  <2> QED
    BY <2>1, <2>2
<1> QED
  BY <1>1, PlatformStep

LEMMA DenseStep ==
    ASSUME Base, IdsDense, [ClientsNext]_clientVars
    PROVE  IdsDense'
<1>1. CASE events' = events
  BY <1>1 DEF IdsDense, Alike
<1>2. ASSUME NEW at \in Nat, NEW zone \in Int, NEW ip \in IPs, NEW matches \in SUBSET Rules,
             Ingest(at, zone, ip, matches)
      PROVE  IdsDense'
  BY <1>2, IngestFresh DEF Base
<1>3. CASE DeleteOldEvents
  <2>1. events' = {e \in events : ~(e.at < clock - Retention)}
    BY <1>3, RetentionStep
  <2>2. \A e \in events' : e \in events /\ Alike(e)' = Alike(e)
    BY <2>1 DEF Alike
  <2> QED
    BY <2>2 DEF IdsDense
<1> QED
  BY <1>1, <1>2, <1>3, EventMoves

\* Runs are as thorough as ever.
LEMMA CoverGoesOn ==
    ASSUME Base, CoverInv, [ClientsNext]_clientVars
    PROVE  CoverInv'
<1>1. CASE [Next]_vars
  BY <1>1, CoverStep DEF Base
<1>2. CASE DeleteOldEvents
  <2>1. UNCHANGED <<runner, alerts>>
    BY <1>2, RetentionStep
  <2> QED
    BY <2>1 DEF CoverInv, Looked
<1> QED
  BY <1>1, <1>2, PlatformStep

\* A whole attack is a burst of its rule in any rows that hold it.
LEMMA AttackIsBurst ==
    ASSUME AttacksFit, NEW rule \in Rules, NEW at \in Nat, Attacked(rule, at, RuleOf[rule].count),
           NEW rows \in Snapshots, Sent(rule) \subseteq rows
    PROVE  Bursts(rows, rule) # {}
<1> DEFINE sent == Sent(rule)
           r == RuleOf[rule]
<1>1. r.count \in Nat \ {0} /\ r.window \in Nat /\ r.fields = 1 /\ Ahead <= r.window /\ Ahead \in Nat
  BY RuleOfAssumption, RunnerAssumption DEF RuleParameters, Durations, AttacksFit
<1>2. Cardinality(sent) = r.count /\ \A e \in sent : e.ip = AttackIP[rule] /\ e.matches = Shape[rule]
                                                     /\ e.at \in at .. at + Ahead
  BY DEF Attacked
<1> HIDE DEF sent
<1>3. sent \in Snapshots /\ IsFiniteSet(rows)
  <2>1. sent \subseteq rows \cup rows
    BY DEF sent
  <2> QED
    BY <2>1, PartFinite DEF Snapshots
<1>4. sent # {}
  BY <1>1, <1>2, FS_EmptySet
<1>5. PICK e \in sent : \A f \in sent : f.at <= e.at
  <2>1. PICK t \in LastTime(sent) : \A f \in sent : f.at <= t
    BY <1>3, <1>4, TimesOf
  <2> QED
    BY <2>1 DEF LastTime
<1>6. ASSUME NEW f \in sent
      PROVE  f \in BurstOf(rows, rule, e.ip, e.at - r.window, e.at)
  <2>1. f.at \in at .. at + Ahead /\ e.at \in at .. at + Ahead /\ f.at <= e.at
    BY <1>2, <1>5
  <2>2. f.at \in e.at - r.window .. e.at
    <3> HIDE DEF r
    <3> QED
      BY <1>1, <2>1
  <2>3. rule \in f.matches /\ f.ip = e.ip /\ f \in rows
    BY <1>2, SimulationAssumption DEF sent
  <2> QED
    BY <2>2, <2>3 DEF BurstOf
<1>7. Cardinality(BurstOf(rows, rule, e.ip, e.at - r.window, e.at)) >= r.count
  <2> DEFINE burst == BurstOf(rows, rule, e.ip, e.at - r.window, e.at)
  <2>1. burst \subseteq rows
    BY DEF BurstOf
  <2> HIDE DEF burst
  <2>2. IsFiniteSet(burst) /\ sent \subseteq burst
    BY <1>3, <1>6, <2>1, FS_Subset DEF burst
  <2>3. Cardinality(sent) <= Cardinality(burst) /\ Cardinality(burst) \in Nat
    BY <2>2, FS_Subset, FS_CardinalityType
  <2>4. Cardinality(burst) >= r.count
    <3> HIDE DEF r
    <3> QED
      BY <1>1, <1>2, <2>3
  <2> QED
    BY <2>4 DEF burst
<1>8. Applies(rule, e) /\ e \in rows
  BY <1>1, <1>2, SimulationAssumption DEF Applies, sent
<1> QED
  BY <1>7, <1>8 DEF Bursts

\* Steps that neither send nor report.
LEMMA SimRests ==
    ASSUME Base, SimInv, Stays, UNCHANGED <<sim, mine, client>>,
           mine = {} \/ events \subseteq events',
           \/ read' = read
           \/ /\ sim.pc = "waiting"
              /\ \A rule \in read' : rule \in read \/ /\ rule \in sim.attempted
                                                      /\ \E i \in DOMAIN alerts : alerts[i].rule = rule
    PROVE  SimInv'
<1>1. mine' \subseteq [rule : Rules, event : events']
  BY DEF SimInv
<1>2. \A rule : Sent(rule)' = Sent(rule)
  BY DEF Sent
<1>3. \A rule, at, n : Attacked(rule, at, n)' <=> Attacked(rule, at, n)
  BY <1>2 DEF Attacked
<1>4. ASSUME sim.pc \in {"sending", "waiting", "done"}
      PROVE  /\ read' \subseteq sim.attempted
             /\ \A rule \in read' : \E i \in DOMAIN alerts : alerts[i].rule = rule
  BY <1>4 DEF SimInv
<1>5. ASSUME NEW rule, \E i \in DOMAIN alerts : alerts[i].rule = rule
      PROVE  \E i \in DOMAIN alerts' : alerts'[i].rule = rule
  BY <1>5 DEF Stays
<1>6. sim.pc = "idle" => read' = {}
  BY DEF SimInv
<1> QED
  BY <1>1, <1>3, <1>4, <1>5, <1>6 DEF SimInv

\* The attack of a rule grows by one event.
LEMMA SimStores ==
    ASSUME Base, SimInv, IdsDense, StoreAttack, client = "simulation", client' = client
    PROVE  SimInv'
<1>1. /\ sim.pc = "sending" /\ sim.attack.left \in Nat \ {0} /\ sim.attack # NoAttack
      /\ sim.attack.rule \in Rules /\ sim' = [sim EXCEPT !.attack.left = @ - 1]
  BY AttackStep
<1>2. sim \in SimType /\ sim.attack \in AttackType
  BY DEF Base, SimType
<1>3. PICK r \in Rules, start \in Nat, left \in Nat \ {0} :
         r = sim.attack.rule /\ start = sim.attack.at /\ left = sim.attack.left
  BY <1>1, <1>2 DEF AttackType
<1>4. /\ sim'.pc = "sending" /\ sim'.todo = sim.todo /\ sim'.attempted = sim.attempted
      /\ sim'.attack.rule = r /\ sim'.attack.at = start /\ sim'.attack.left = left - 1
      /\ sim'.attack # NoAttack
  <2>1. sim'.attack.rule = r
    BY <1>1, <1>2, <1>3 DEF SimType, AttackType
  <2> QED
    BY <1>1, <1>2, <1>3, <2>1, NoAttackType DEF SimType, AttackType
<1>5. PICK at \in start .. start + Ahead : Ingest(at, 0, AttackIP[r], Shape[r])
  BY <1>3 DEF StoreAttack
<1>6. at \in Nat /\ AttackIP[r] \in IPs /\ Shape[r] \in SUBSET Rules
  BY <1>3, RunnerAssumption, SimulationAssumption
<1>7. PICK new \in Event : /\ new \notin events /\ events' = events \cup {new}
                           /\ new.at = at /\ new.ip = AttackIP[r] /\ new.matches = Shape[r]
  BY <1>5, <1>6, IngestFresh DEF Base
<1>8. /\ mine' = mine \cup {[rule |-> r, event |-> new]} /\ read' = read /\ alerts' = alerts
  <2>1. mine' = mine \cup {[rule |-> r, event |-> e] : e \in events' \ events}
    BY <1>3 DEF StoreAttack
  <2>2. events' \ events = {new}
    BY <1>7
  <2>3. {[rule |-> r, event |-> e] : e \in {new}} = {[rule |-> r, event |-> new]}
    OBVIOUS
  <2>4. mine' = mine \cup {[rule |-> r, event |-> new]}
    BY <2>1, <2>2, <2>3
  <2> QED
    BY <1>5, <2>4 DEF StoreAttack, Ingest
<1>9. mine' \subseteq [rule : Rules, event : events']
  BY <1>7, <1>8 DEF SimInv
<1>10. Sent(r)' = Sent(r) \cup {new} /\ \A q : q # r => Sent(q)' = Sent(q)
  <2> DEFINE sent == [rule |-> r, event |-> new]
  <2>1. sent.rule = r /\ sent.event = new /\ mine' = mine \cup {sent}
    BY <1>8
  <2> HIDE DEF sent
  <2>2. \A q : {k \in mine' : k.rule = q} =
                 IF q = r THEN {k \in mine : k.rule = q} \cup {sent} ELSE {k \in mine : k.rule = q}
    BY <2>1
  <2>3. \A q : Sent(q)' = {m.event : m \in {k \in mine' : k.rule = q}}
    BY DEF Sent
  <2>4. Sent(r)' = Sent(r) \cup {new}
    BY <2>1, <2>2, <2>3 DEF Sent
  <2>5. \A q : q # r => Sent(q)' = Sent(q)
    BY <2>2, <2>3 DEF Sent
  <2> QED
    BY <2>4, <2>5
<1>11. Sent(r) \subseteq events /\ IsFiniteSet(Sent(r)) /\ new \notin Sent(r)
  <2>1. Sent(r) \subseteq events
    BY DEF Sent, SimInv
  <2> QED
    BY <1>7, <2>1, FS_Subset DEF Base, Typed, Snapshots
<1>12. Cardinality(Sent(r)') = Cardinality(Sent(r)) + 1
  BY <1>10, <1>11, FS_AddElement
<1>13. Attacked(r, start, RuleOf[r].count - left) /\ r \notin sim.todo \cup sim.attempted
  BY <1>1, <1>3 DEF SimInv
<1>14. Attacked(r, start, RuleOf[r].count - (left - 1))'
  <2>1. RuleOf[r].count \in Nat
    BY RuleOfAssumption DEF RuleParameters
  <2>2. Cardinality(Sent(r)') = RuleOf[r].count - (left - 1)
    BY <1>12, <1>13, <2>1 DEF Attacked
  <2>3. \A e \in Sent(r)' : e.ip = AttackIP[r] /\ e.matches = Shape[r] /\ e.at \in start .. start + Ahead
    BY <1>5, <1>7, <1>10, <1>13 DEF Attacked
  <2> QED
    BY <2>2, <2>3 DEF Attacked
<1>15. \A q \in sim.attempted : \E t \in Nat : Attacked(q, t, RuleOf[q].count)'
  <2>1. \A q \in sim.attempted : q # r /\ \E t \in Nat : Attacked(q, t, RuleOf[q].count)
    BY <1>1, <1>13 DEF SimInv
  <2> QED
    BY <1>10, <2>1 DEF Attacked
<1>16. \A m \in mine' : m.rule \in sim.attempted \/ m.rule = r
  BY <1>1, <1>3, <1>8 DEF SimInv
<1>17. /\ sim.todo \cap sim.attempted = {} /\ read \subseteq sim.attempted
       /\ \A rule \in read : \E i \in DOMAIN alerts : alerts[i].rule = rule
  BY <1>1 DEF SimInv
<1> QED
  BY <1>4, <1>8, <1>9, <1>13, <1>14, <1>15, <1>16, <1>17 DEF SimInv

\* The other steps of a simulation.
LEMMA SimGoesOn ==
    ASSUME Base, SimInv, SimStep, ~StoreAttack, client = "simulation", client' = client
    PROVE  SimInv'
<1>1. UNCHANGED <<vars, mine, read>>
  BY DEF SimStep, BeginSimulation, PostAttack, AttackSent, AbortSimulation, Report
<1>2. sim \in SimType /\ mine' \subseteq [rule : Rules, event : events']
  BY <1>1 DEF Base, SimInv, vars
<1>3. alerts' = alerts /\ \A rule, at, n : Attacked(rule, at, n)' <=> Attacked(rule, at, n)
  BY <1>1 DEF Attacked, Sent, vars
<1>4. ASSUME NEW chosen \in SUBSET Rules, BeginSimulation(chosen)
      PROVE  SimInv'
  <2>1. sim = NoSimulation /\ mine = {} /\ read = {}
    BY <1>4 DEF BeginSimulation, SimInv
  <2>2. sim'.pc = "sending" /\ sim'.attempted = {} /\ sim'.attack = NoAttack
    BY <1>4, <2>1 DEF BeginSimulation, NoSimulation
  <2> QED
    BY <1>1, <1>2, <2>1, <2>2 DEF SimInv
<1>5. ASSUME NEW rule \in Rules, PostAttack(rule)
      PROVE  SimInv'
  <2>1. /\ sim.pc = "sending" /\ sim.attack = NoAttack /\ rule \in sim.todo
        /\ sim' = [sim EXCEPT !.attack = [rule |-> rule, at |-> clock, left |-> RuleOf[rule].count],
                              !.todo = @ \ {rule}]
    BY <1>5 DEF PostAttack
  <2>2. /\ sim'.pc = "sending" /\ sim'.attempted = sim.attempted /\ sim'.todo = sim.todo \ {rule}
        /\ sim'.attack.rule = rule /\ sim'.attack.at = clock /\ sim'.attack.left = RuleOf[rule].count
    BY <1>2, <2>1 DEF SimType
  <2>3. rule \notin sim.attempted /\ \A m \in mine : m.rule \in sim.attempted
    BY <2>1 DEF SimInv
  <2>4. Sent(rule) = {}
    BY <2>3 DEF Sent
  <2>5. RuleOf[rule].count - RuleOf[rule].count = 0
    <3>1. RuleOf[rule].count \in Nat
      BY RuleOfAssumption DEF RuleParameters
    <3> QED
      BY <3>1
  <2>6. Attacked(rule, clock, RuleOf[rule].count - RuleOf[rule].count)
    BY <2>4, <2>5, FS_EmptySet DEF Attacked
  <2>7. (Attacked(sim.attack.rule, sim.attack.at, RuleOf[sim.attack.rule].count - sim.attack.left))'
    <3>1. Sent(rule)' = {}
      BY <1>1, <2>4 DEF Sent
    <3> QED
      BY <2>2, <2>5, <3>1, FS_EmptySet DEF Attacked
  <2> QED
    BY <1>1, <1>2, <1>3, <2>1, <2>2, <2>3, <2>7 DEF SimInv
<1>6. CASE AttackSent
  <2>1. PICK r \in Rules : r = sim.attack.rule
    BY <1>6 DEF AttackSent, Base
  <2>2. /\ sim.pc = "sending" /\ sim.attack # NoAttack /\ sim.attack.left = 0
        /\ sim' = [sim EXCEPT !.attempted = @ \cup {r}, !.attack = NoAttack,
                              !.pc = IF sim.todo = {} THEN "waiting" ELSE "sending"]
    BY <1>6, <2>1 DEF AttackSent
  <2>3. /\ sim'.pc \in {"sending", "waiting"} /\ sim'.attempted = sim.attempted \cup {r}
        /\ sim'.todo = sim.todo /\ sim'.attack = NoAttack
    BY <1>2, <2>2 DEF SimType
  <2>4. sim.attack.at \in Nat /\ RuleOf[r].count - 0 = RuleOf[r].count
    <3>1. RuleOf[r].count \in Nat
      BY RuleOfAssumption DEF RuleParameters
    <3> QED
      BY <1>2, <3>1 DEF SimType, AttackType
  <2>5. r \notin sim.todo /\ \E at \in Nat : Attacked(r, at, RuleOf[r].count)
    BY <2>1, <2>2, <2>4 DEF SimInv
  <2>6. \A rule \in sim'.attempted : \E at \in Nat : Attacked(rule, at, RuleOf[rule].count)'
    BY <1>3, <2>2, <2>3, <2>5 DEF SimInv
  <2>7. /\ \A m \in mine' : m.rule \in sim'.attempted
        /\ sim'.todo \cap sim'.attempted = {} /\ read' \subseteq sim'.attempted
        /\ \A rule \in read' : \E i \in DOMAIN alerts' : alerts'[i].rule = rule
    BY <1>1, <1>3, <2>1, <2>2, <2>3, <2>5 DEF SimInv
  <2> QED
    BY <1>2, <1>3, <2>3, <2>6, <2>7 DEF SimInv
<1>7. CASE AbortSimulation
  <2>1. sim'.pc = "aborted"
    BY <1>7 DEF AbortSimulation, NoSimulation
  <2> QED
    BY <1>2, <2>1 DEF SimInv
<1>8. CASE Report
  <2>1. /\ sim.pc = "waiting" /\ sim'.pc = "done" /\ sim'.attempted = sim.attempted
        /\ sim'.todo = sim.todo /\ sim'.attack = sim.attack
    BY <1>2, <1>8 DEF Report, SimType
  <2> QED
    BY <1>1, <1>2, <1>3, <2>1 DEF SimInv
<1> QED
  BY <1>4, <1>5, <1>6, <1>7, <1>8 DEF SimStep

\* A run that ends while the simulation waits has an alert for every attack
\* that it read whole.
LEMMA ReadSeen ==
    ASSUME AttacksFit, Base, SimInv, CoverInv, sim.pc = "waiting",
           NEW w \in Runners, FinishRun(w), NEW rule \in ReadBy(w)
    PROVE  rule \in sim.attempted /\ \E i \in DOMAIN alerts : alerts[i].rule = rule
<1>1. sim.attack = NoAttack /\ \A m \in mine : m.rule \in sim.attempted
  BY DEF SimInv
<1>2. /\ rule \in {m.rule : m \in mine} /\ Sent(rule) \subseteq runner[w].snapshot
      /\ OneZone(runner[w].snapshot)
  BY DEF ReadBy, Stored, Sent
<1>3. rule \in sim.attempted /\ rule \in Rules
  BY <1>1, <1>2 DEF Base, SimType
<1>4. PICK at \in Nat : Attacked(rule, at, RuleOf[rule].count)
  BY <1>3 DEF SimInv
<1>5. runner[w].pc = "check" /\ runner[w].queue = << >> /\ runner[w].snapshot \in Snapshots
  BY DEF FinishRun, Base, Typed, Run
<1>6. PICK e \in Bursts(runner[w].snapshot, rule) : TRUE
  BY <1>2, <1>3, <1>4, <1>5, AttackIsBurst
<1>7. Covered(rule, e)
  BY <1>2, <1>3, <1>5, CoverMeans DEF Base, RunCoversSnapshot
<1> QED
  BY <1>3, <1>7 DEF Covered

LEMMA SimInvStep ==
    ASSUME AttacksFit, Base, IdsDense, CoverInv, SimInv, [ClientsNext]_clientVars
    PROVE  SimInv'
<1>1. Stays
  BY BaseStep
<1>2. ASSUME NEW w \in Runners, Detect(w)
      PROVE  SimInv'
  <2>1. UNCHANGED <<sim, mine, client>> /\ events' = events
    BY <1>2 DEF Detect, RunStep, StartRun, SkipDuplicate, PassCheck, InsertAlert, Notify,
                FinishRun, Crash
  <2>2. CASE read' = read
    BY <1>1, <2>1, <2>2, SimRests
  <2>3. CASE read' # read
    <3>1. /\ runner'[w].pc = "idle" /\ runner[w].pc # "idle" /\ crashes' = crashes
          /\ sim.pc = "waiting" /\ read' = read \cup ReadBy(w)
      BY <1>2, <2>3 DEF Detect, Recorded
    <3>2. FinishRun(w)
      <4>1. ~Crash(w)
        <5>1. Crash(w) => crashes' = crashes + 1 /\ crashes \in Nat
          BY DEF Crash, Base, Typed
        <5> QED
          BY <3>1, <5>1
      <4>2. ~StartRun(w)
        BY <3>1 DEF StartRun
      <4>3. ~SkipDuplicate(w) /\ ~PassCheck(w) /\ ~InsertAlert(w) /\ ~Notify(w)
        BY <3>1 DEF SkipDuplicate, PassCheck, InsertAlert, Notify, Base, Typed, Run
      <4> QED
        BY <1>2, <4>1, <4>2, <4>3 DEF Detect, RunStep
    <3>3. \A rule \in ReadBy(w) : rule \in sim.attempted /\ \E i \in DOMAIN alerts : alerts[i].rule = rule
      BY <3>1, <3>2, ReadSeen
    <3> QED
      BY <1>1, <2>1, <3>1, <3>3, SimRests
  <2> QED
    BY <2>2, <2>3
<1>3. ASSUME NEW i \in DOMAIN alerts, NEW status \in Statuses, Triage(i, status)
      PROVE  SimInv'
  <2>1. UNCHANGED <<sim, mine, read, client>> /\ events' = events
    BY <1>3 DEF Triage, SetStatus, simVars
  <2> QED
    BY <1>1, <2>1, SimRests
<1>4. CASE Outside \/ Summarise \/ Export \/ TurnPage \/ UNCHANGED clientVars
  <2>1. UNCHANGED <<sim, mine, read, client>>
    BY <1>4 DEF Outside, Summarise, Export, TurnPage, clientVars, simVars
  <2>2. events \subseteq events'
    BY <1>4 DEF Outside, Tick, Ingest, Summarise, Export, TurnPage, clientVars, vars
  <2> QED
    BY <1>1, <2>1, <2>2, SimRests
<1>5. CASE DeleteOldEvents
  <2>1. UNCHANGED <<sim, mine, read, client>> /\ client # "simulation"
    BY <1>5 DEF DeleteOldEvents, simVars
  <2>2. mine = {}
    BY <2>1 DEF SimInv
  <2> QED
    BY <1>1, <2>1, <2>2, SimRests
<1>6. CASE Simulate
  BY <1>6, SimStores, SimGoesOn DEF Simulate
<1> QED
  BY <1>2, <1>3, <1>4, <1>5, <1>6 DEF ClientsNext

\* The report names every rule it has to.
LEMMA ReportStep ==
    ASSUME Base, SimInv, DetectedAttacksReported, [ClientsNext]_clientVars
    PROVE  DetectedAttacksReported'
<1> SUFFICES ASSUME sim'.pc = "done", NEW rule \in read' \ sim'.fired
             PROVE  \E i \in DOMAIN alerts' : alerts'[i].rule = rule /\ i + Limit <= Len(alerts')
  BY DEF DetectedAttacksReported
<1>1. CASE sim.pc = "done"
  <2>1. UNCHANGED clientVars
    BY <1>1 DEF ClientsNext, Finished
  <2> QED
    BY <1>1, <2>1 DEF clientVars, vars, simVars, DetectedAttacksReported
<1>2. CASE sim.pc # "done"
  <2>1. SimStep
    BY <1>2, SimMoves
  <2>2. Report
    <3>1. sim \in SimType
      BY DEF Base
    <3> QED
      BY <1>2, <2>1, <3>1 DEF SimStep, BeginSimulation, PostAttack, StoreAttack, AttackSent,
                              AbortSimulation, NoSimulation, SimType
  <2>3. /\ sim.pc = "waiting" /\ sim'.fired = sim.attempted \cap Fired
        /\ UNCHANGED <<alerts, read>>
    BY <2>2 DEF Report, Base, SimType, vars
  <2>4. PICK i \in DOMAIN alerts : alerts[i].rule = rule /\ rule \notin Fired
    BY <2>3 DEF SimInv
  <2>5. i + Limit <= Len(alerts)
    <3>1. Limit \in Nat /\ Len(alerts) \in Nat /\ DOMAIN alerts = 1 .. Len(alerts)
      BY SimulationAssumption, LenProperties DEF Base, Typed
    <3>2. ~(i > Len(alerts) - Limit)
      BY <2>4 DEF Fired
    <3> QED
      BY <3>1, <3>2
  <2> QED
    BY <2>3, <2>4, <2>5
<1> QED
  BY <1>1, <1>2

\* The report of a simulation leaves out a rule whose attack a run had read
\* whole before the check only where the newest alerts that the check asks for
\* are all newer than an alert of that rule: every such run left one
\* (simulation/runner.py:55).
THEOREM AttacksAreReported ==
    ASSUME AttacksFit
    PROVE  ClientsSpec => []DetectedAttacksReported
<1>1. ClientsInit => Base /\ IdsDense /\ CoverInv /\ SimInv /\ DetectedAttacksReported
  <2> SUFFICES ASSUME ClientsInit
               PROVE  Base /\ IdsDense /\ CoverInv /\ SimInv /\ DetectedAttacksReported
    OBVIOUS
  <2>1. /\ events = {} /\ sim = NoSimulation /\ mine = {} /\ read = {} /\ sim.pc = "idle"
        /\ \A w \in Runners : runner[w].pc = "idle"
    BY EmptyRun DEF ClientsInit, Init, SimInit, NoSimulation
  <2>2. IdsDense /\ CoverInv /\ SimInv /\ DetectedAttacksReported
    BY <2>1 DEF IdsDense, CoverInv, SimInv, DetectedAttacksReported
  <2> QED
    BY <2>2, BaseStart
<1>2. Base /\ IdsDense /\ CoverInv /\ SimInv /\ DetectedAttacksReported /\ [ClientsNext]_clientVars
         => (Base /\ IdsDense /\ CoverInv /\ SimInv /\ DetectedAttacksReported)'
  BY BaseStep, DenseStep, CoverGoesOn, SimInvStep, ReportStep
<1> QED
  BY <1>1, <1>2, PTL DEF ClientsSpec

-----------------------------------------------------------------------------
(* The pages of the list of alerts *)

\* The position of i in a list of the rows S, the newest first.
PlaceIn(S, i) == Cardinality({j \in S : j >= i})

PageOf(S, from) == {i \in S : PlaceIn(S, i) \in from + 1 .. from + PageSize}

\* The rows of a list have the positions from 1 on, without a gap.
LEMMA Places ==
    ASSUME NEW S \in SUBSET Nat, IsFiniteSet(S)
    PROVE  /\ \A i \in S : PlaceIn(S, i) \in 1 .. Cardinality(S)
           /\ \A i, k \in S : PlaceIn(S, i) = PlaceIn(S, k) => i = k
           /\ \A n \in 1 .. Cardinality(S) : \E i \in S : PlaceIn(S, i) = n
<1> DEFINE upto(i) == {j \in S : j >= i}
<1>1. Cardinality(S) \in Nat /\ \A j \in S : j \in Nat
  BY FS_CardinalityType
<1>2. ASSUME NEW i \in S
      PROVE  IsFiniteSet(upto(i)) /\ PlaceIn(S, i) \in 1 .. Cardinality(S)
  <2>1. upto(i) \subseteq S /\ i \in upto(i)
    BY <1>1
  <2> HIDE DEF upto
  <2>2. IsFiniteSet(upto(i)) /\ Cardinality(upto(i)) <= Cardinality(S)
        /\ Cardinality(upto(i)) \in Nat /\ Cardinality(upto(i)) # 0
    BY <2>1, FS_Subset, FS_CardinalityType, FS_EmptySet
  <2>3. PlaceIn(S, i) = Cardinality(upto(i))
    BY DEF PlaceIn, upto
  <2> QED
    BY <1>1, <2>2, <2>3
<1>3. ASSUME NEW i \in S, NEW k \in S, i < k
      PROVE  PlaceIn(S, k) < PlaceIn(S, i)
  <2>1. upto(k) \subseteq upto(i) /\ i \in upto(i) /\ i \notin upto(k)
    <3>1. i >= i /\ ~(i >= k) /\ \A j \in S : j >= k => j >= i
      BY <1>1, <1>3
    <3> QED
      BY <3>1
  <2>2. PlaceIn(S, i) = Cardinality(upto(i)) /\ PlaceIn(S, k) = Cardinality(upto(k))
    BY DEF PlaceIn
  <2>3. IsFiniteSet(upto(i)) /\ upto(k) # upto(i)
    BY <1>2, <2>1
  <2> HIDE DEF upto
  <2>4. Cardinality(upto(k)) <= Cardinality(upto(i)) /\ Cardinality(upto(k)) # Cardinality(upto(i))
        /\ Cardinality(upto(k)) \in Nat /\ Cardinality(upto(i)) \in Nat
    BY <2>1, <2>3, FS_Subset, FS_CardinalityType
  <2> QED
    BY <2>2, <2>4
<1>4. ASSUME NEW i \in S, NEW k \in S, PlaceIn(S, i) = PlaceIn(S, k)
      PROVE  i = k
  <2>1. PlaceIn(S, i) \in Nat /\ i \in Nat /\ k \in Nat
    <3>1. PlaceIn(S, i) \in 1 .. Cardinality(S)
      BY <1>2
    <3> QED
      BY <1>1, <3>1
  <2>2. ~(i < k) /\ ~(k < i)
    BY <1>3, <1>4, <2>1
  <2> QED
    BY <2>1, <2>2
<1>5. \A n \in 1 .. Cardinality(S) : \E i \in S : PlaceIn(S, i) = n
  <2> DEFINE f == [i \in S |-> PlaceIn(S, i)]
             T == 1 .. Cardinality(S)
  <2>1. f \in Injection(S, T)
    BY <1>2, <1>4 DEF Injection, IsInjective
  <2>2. IsFiniteSet(T) /\ Cardinality(T) = Cardinality(S)
    BY <1>1, FS_Interval
  <2> HIDE DEF T
  <2>3. f \in Surjection(S, T)
    BY <2>1, <2>2, FS_Injection
  <2> QED
    BY <2>3 DEF Surjection, T
<1> QED
  BY <1>2, <1>4, <1>5

\* A row that goes takes one of the positions, others that come take none.
LEMMA PlacesMove ==
    ASSUME NEW S \in SUBSET Nat, IsFiniteSet(S), NEW i \in Nat
    PROVE  /\ \A T \in SUBSET Nat : S \subseteq T /\ IsFiniteSet(T) => PlaceIn(S, i) <= PlaceIn(T, i)
           /\ \A x \in S : PlaceIn(S, i) <= PlaceIn(S \ {x}, i) + 1
<1>1. ASSUME NEW T \in SUBSET Nat, S \subseteq T, IsFiniteSet(T)
      PROVE  PlaceIn(S, i) <= PlaceIn(T, i)
  <2> DEFINE less == {j \in S : j >= i}
             more == {j \in T : j >= i}
  <2>1. less \subseteq more /\ more \subseteq T
    BY <1>1
  <2>2. PlaceIn(S, i) = Cardinality(less) /\ PlaceIn(T, i) = Cardinality(more)
    BY DEF PlaceIn
  <2> HIDE DEF less, more
  <2> QED
    BY <1>1, <2>1, <2>2, FS_Subset
<1>2. ASSUME NEW x \in S
      PROVE  PlaceIn(S, i) <= PlaceIn(S \ {x}, i) + 1
  <2> DEFINE more == {j \in S : j >= i}
             less == {j \in S \ {x} : j >= i}
  <2>1. less = more \ {x} /\ more \subseteq S
    OBVIOUS
  <2>2. PlaceIn(S, i) = Cardinality(more) /\ PlaceIn(S \ {x}, i) = Cardinality(less)
    BY DEF PlaceIn
  <2> HIDE DEF less, more
  <2>3. IsFiniteSet(more) /\ Cardinality(more) \in Nat
    BY <2>1, FS_Subset, FS_CardinalityType
  <2>4. Cardinality(less) = IF x \in more THEN Cardinality(more) - 1 ELSE Cardinality(more)
    BY <2>1, <2>3, FS_RemoveElement
  <2> QED
    BY <2>2, <2>3, <2>4
<1> QED
  BY <1>1, <1>2

\* A page that is not full is the last one.
LEMMA LastPage ==
    ASSUME NEW S \in SUBSET Nat, IsFiniteSet(S), NEW from \in Nat,
           Cardinality(PageOf(S, from)) # PageSize
    PROVE  \A i \in S : PlaceIn(S, i) <= from + PageSize
<1> SUFFICES ASSUME NEW i \in S, ~(PlaceIn(S, i) <= from + PageSize)
             PROVE  FALSE
  OBVIOUS
<1> DEFINE page == PageOf(S, from)
           T == from + 1 .. from + PageSize
           f == [k \in page |-> PlaceIn(S, k)]
<1>1. PageSize \in Nat \ {0} /\ Cardinality(S) \in Nat
  BY ViewsAssumption, FS_CardinalityType
<1>2. PlaceIn(S, i) \in 1 .. Cardinality(S)
  BY Places
<1>3. T \subseteq 1 .. Cardinality(S)
  BY <1>1, <1>2
<1>4. IsFiniteSet(T) /\ Cardinality(T) = PageSize
  BY <1>1, FS_Interval
<1>5. page \subseteq S /\ \A k \in page : PlaceIn(S, k) \in T
  BY DEF PageOf
<1>6. \A k \in S : PlaceIn(S, k) \in T => k \in page
  BY DEF PageOf
<1>7. \A n \in T : \E k \in page : PlaceIn(S, k) = n
  BY <1>3, <1>6, Places
<1> HIDE DEF T, page
<1>8. f \in Injection(page, T)
  BY <1>5, Places DEF Injection, IsInjective
<1>9. f \in Surjection(page, T)
  BY <1>5, <1>7 DEF Surjection
<1>10. Cardinality(page) = PageSize
  BY <1>4, <1>8, <1>9, FS_Injection
<1> QED
  BY <1>10 DEF page

PagerType == [pc : {"idle", "reading", "done"}, filter : SUBSET Statuses, offset : Nat,
              seen : SUBSET Nat, due : SUBSET Nat, left : Nat]

\* The rows that have slipped under the offset unseen.
Slipped == {i \in pager.due \ pager.seen : Position(pager.filter, i) <= pager.offset}

PagerInv ==
    /\ pager \in PagerType
    /\ pager.pc = "idle" => pager = NoPager
    /\ pager.due \subseteq Matching(pager.filter)
    /\ Cardinality(Slipped) <= pager.left
    /\ pager.pc = "done" => \A i \in pager.due : Position(pager.filter, i) <= pager.offset

LEMMA ListFinite ==
    ASSUME NEW rows \in Seq(Alert), NEW filter
    PROVE  LET list == {i \in DOMAIN rows : filter = {} \/ rows[i].status \in filter}
           IN  list \in SUBSET Nat /\ IsFiniteSet(list)
<1> DEFINE list == {i \in DOMAIN rows : filter = {} \/ rows[i].status \in filter}
<1>1. Len(rows) \in Nat /\ DOMAIN rows = 1 .. Len(rows)
  BY LenProperties
<1>2. list \subseteq 1 .. Len(rows) /\ 1 .. Len(rows) \subseteq Nat
  BY <1>1
<1> HIDE DEF list
<1>3. list \in SUBSET Nat /\ IsFiniteSet(list)
  BY <1>1, <1>2, PlacesFinite
<1> QED
  BY <1>3 DEF list

\* Nothing slips out of the pages but through a row that leaves the list.
LEMMA PagerRests ==
    ASSUME Typed, Typed', PagerInv, pager' = pager, pager.pc # "done",
           \A i \in Matching(pager.filter) :
              i \in DOMAIN alerts' /\ (pager.filter = {} \/ alerts'[i].status \in pager.filter)
    PROVE  PagerInv'
<1>1. PICK filter, offset, due, seen :
         /\ filter = pager.filter /\ offset = pager.offset /\ due = pager.due /\ seen = pager.seen
  OBVIOUS
<1>2. PICK S, T : S = Matching(filter) /\ T = Matching(filter)'
  OBVIOUS
<1>3. /\ S \in SUBSET Nat /\ IsFiniteSet(S) /\ T \in SUBSET Nat /\ IsFiniteSet(T) /\ S \subseteq T
      /\ \A i : Position(filter, i) = PlaceIn(S, i)
      /\ \A i : Position(filter, i)' = PlaceIn(T, i)
  <2>1. /\ S = {i \in DOMAIN alerts : filter = {} \/ alerts[i].status \in filter}
        /\ T = {i \in DOMAIN alerts' : filter = {} \/ alerts'[i].status \in filter}
    BY <1>2 DEF Matching
  <2>2. alerts \in Seq(Alert) /\ alerts' \in Seq(Alert)
    BY DEF Typed
  <2>3. S \in SUBSET Nat /\ IsFiniteSet(S) /\ T \in SUBSET Nat /\ IsFiniteSet(T)
    BY <2>1, <2>2, ListFinite
  <2>4. S \subseteq T
    BY <1>1, <2>1 DEF Matching
  <2>5. \A i : Position(filter, i) = PlaceIn(S, i) /\ Position(filter, i)' = PlaceIn(T, i)
    BY <1>2 DEF Position, PlaceIn
  <2> QED
    BY <2>3, <2>4, <2>5
<1>4. /\ due \subseteq S /\ offset \in Nat
      /\ Slipped = {i \in due \ seen : PlaceIn(S, i) <= offset}
      /\ Slipped' = {i \in due \ seen : PlaceIn(T, i) <= offset}
      /\ Cardinality(Slipped) <= pager.left /\ pager.left \in Nat
  BY <1>1, <1>2, <1>3 DEF PagerInv, Slipped, PagerType
<1>5. ASSUME NEW i \in due
      PROVE  PlaceIn(S, i) <= PlaceIn(T, i) /\ PlaceIn(S, i) \in Nat /\ PlaceIn(T, i) \in Nat
  <2>1. PlaceIn(S, i) <= PlaceIn(T, i)
    BY <1>3, <1>4, PlacesMove
  <2>2. Cardinality(S) \in Nat /\ Cardinality(T) \in Nat
    BY <1>3, FS_CardinalityType
  <2>3. PlaceIn(S, i) \in 1 .. Cardinality(S) /\ PlaceIn(T, i) \in 1 .. Cardinality(T)
    BY <1>3, <1>4, Places
  <2> QED
    BY <2>1, <2>2, <2>3
<1>6. Slipped' \subseteq Slipped
  BY <1>4, <1>5
<1>7. IsFiniteSet(Slipped) /\ Cardinality(Slipped) \in Nat
  <2>1. Slipped \subseteq S
    BY <1>4
  <2> QED
    BY <1>3, <2>1, FS_Subset, FS_CardinalityType
<1>8. Cardinality(Slipped') <= pager.left
  <2>1. Cardinality(Slipped') <= Cardinality(Slipped) /\ Cardinality(Slipped') \in Nat
    BY <1>6, <1>7, FS_Subset, FS_CardinalityType
  <2> QED
    BY <1>4, <1>7, <2>1
<1>9. (pager.due \subseteq Matching(pager.filter))'
  BY <1>1, <1>2, <1>3, <1>4 DEF Matching
<1> QED
  BY <1>8, <1>9 DEF PagerInv

\* One row leaves the list: the one behind it may slip under the offset.
LEMMA PagerLoses ==
    ASSUME Typed, PagerInv, NEW x \in DOMAIN alerts, NEW status \in Statuses, SetStatus(x, status),
           pager.pc = "reading", pager.filter # {},
           x \in Matching(pager.filter), status \notin pager.filter,
           pager' = [pager EXCEPT !.due = @ \ {x}, !.left = @ + 1]
    PROVE  PagerInv'
<1>1. PICK filter, offset, due, seen, left :
         /\ filter = pager.filter /\ offset = pager.offset /\ due = pager.due
         /\ seen = pager.seen /\ left = pager.left
  OBVIOUS
<1>2. pager \in PagerType /\ offset \in Nat /\ left \in Nat /\ due \in SUBSET Nat
  BY <1>1 DEF PagerInv, PagerType
<1>3. /\ pager'.filter = filter /\ pager'.offset = offset /\ pager'.seen = seen
      /\ pager'.due = due \ {x} /\ pager'.left = left + 1 /\ pager'.pc = "reading"
      /\ pager' \in PagerType
  <2>1. due \ {x} \in SUBSET Nat /\ left + 1 \in Nat
    BY <1>2
  <2>2. pager' = [pager EXCEPT !.due = due \ {x}, !.left = left + 1]
    BY <1>1, <1>2 DEF PagerType
  <2> QED
    BY <1>1, <1>2, <2>1, <2>2 DEF PagerType
<1>4. PICK S : S = Matching(filter)
  OBVIOUS
<1>5. S \in SUBSET Nat /\ IsFiniteSet(S) /\ x \in S /\ due \subseteq S
  BY <1>1, <1>4, ListFinite DEF Typed, Matching, PagerInv
<1>6. Matching(filter)' = S \ {x}
  <2>1. /\ DOMAIN alerts' = DOMAIN alerts /\ alerts'[x].status = status
        /\ \A j \in DOMAIN alerts : j # x => alerts'[j] = alerts[j]
    BY StatusEffect
  <2> QED
    BY <1>1, <1>4, <2>1 DEF Matching
<1>7. /\ Slipped = {i \in due \ seen : PlaceIn(S, i) <= offset}
      /\ Slipped' = {i \in (due \ {x}) \ seen : PlaceIn(S \ {x}, i) <= offset}
      /\ Cardinality(Slipped) <= left
  <2>1. \A i : Position(filter, i) = PlaceIn(S, i) /\ Position(filter, i)' = PlaceIn(S \ {x}, i)
    BY <1>4, <1>6 DEF Position, PlaceIn
  <2> QED
    BY <1>1, <1>3, <2>1 DEF Slipped, PagerInv
<1>8. ASSUME NEW i \in Slipped'
      PROVE  i \in S /\ (i \in Slipped \/ PlaceIn(S, i) = offset + 1)
  <2>1. i \in due \ seen /\ i \in S /\ i # x /\ PlaceIn(S \ {x}, i) <= offset
    BY <1>5, <1>7
  <2>2. PlaceIn(S, i) <= PlaceIn(S \ {x}, i) + 1
    BY <1>5, <2>1, PlacesMove
  <2>3. PlaceIn(S, i) \in Nat /\ PlaceIn(S \ {x}, i) \in Nat
    <3>1. IsFiniteSet(S \ {x}) /\ S \ {x} \in SUBSET Nat /\ i \in S \ {x}
      BY <1>5, <2>1, FS_Subset
    <3>2. Cardinality(S) \in Nat /\ Cardinality(S \ {x}) \in Nat
      BY <1>5, <3>1, FS_CardinalityType
    <3>3. PlaceIn(S, i) \in 1 .. Cardinality(S) /\ PlaceIn(S \ {x}, i) \in 1 .. Cardinality(S \ {x})
      BY <1>5, <2>1, <3>1, Places
    <3> QED
      BY <3>2, <3>3
  <2>4. PlaceIn(S, i) <= offset \/ PlaceIn(S, i) = offset + 1
    BY <1>2, <2>1, <2>2, <2>3
  <2> QED
    BY <1>7, <2>1, <2>4
<1>9. IsFiniteSet(Slipped) /\ Cardinality(Slipped) \in Nat
  <2>1. Slipped \subseteq S
    BY <1>5, <1>7
  <2> QED
    BY <1>5, <2>1, FS_Subset, FS_CardinalityType
<1>10. \E k : Slipped' \subseteq Slipped \cup {k}
  <2>1. CASE \E k \in S : PlaceIn(S, k) = offset + 1
    <3>1. PICK k \in S : PlaceIn(S, k) = offset + 1
      BY <2>1
    <3>2. \A i \in S : PlaceIn(S, i) = offset + 1 => i = k
      BY <1>5, <3>1, Places
    <3> QED
      BY <1>8, <3>2
  <2>2. CASE ~\E k \in S : PlaceIn(S, k) = offset + 1
    BY <1>8, <2>2
  <2> QED
    BY <2>1, <2>2
<1>11. Cardinality(Slipped') <= left + 1
  <2>1. PICK k : Slipped' \subseteq Slipped \cup {k}
    BY <1>10
  <2>2. IsFiniteSet(Slipped \cup {k}) /\ Cardinality(Slipped \cup {k}) \in Nat
        /\ Cardinality(Slipped \cup {k}) <= Cardinality(Slipped) + 1
    <3>1. /\ IsFiniteSet(Slipped \cup {k})
          /\ Cardinality(Slipped \cup {k}) \in {Cardinality(Slipped), Cardinality(Slipped) + 1}
      BY <1>9, FS_AddElement
    <3> QED
      BY <1>9, <3>1
  <2>3. Cardinality(Slipped') <= Cardinality(Slipped \cup {k}) /\ Cardinality(Slipped') \in Nat
    BY <2>1, <2>2, FS_Subset, FS_CardinalityType
  <2> QED
    BY <1>2, <1>7, <1>9, <2>2, <2>3
<1>12. (pager.due \subseteq Matching(pager.filter))'
  BY <1>3, <1>5, <1>6 DEF Matching
<1> QED
  BY <1>3, <1>11, <1>12 DEF PagerInv

\* The rows of a page are the ones behind the offset.
LEMMA PagerReads ==
    ASSUME Typed, PagerInv, NEW filter \in SUBSET Statuses, ReadPage(filter), alerts' = alerts
    PROVE  PagerInv'
<1>1. PICK from : from = IF pager.pc = "idle" THEN 0 ELSE pager.offset
  OBVIOUS
<1>2. PICK S : S = Matching(filter)
  OBVIOUS
<1>3. PICK page : page = PageOf(S, from)
  OBVIOUS
<1>4. \A i : Position(filter, i) = PlaceIn(S, i) /\ Position(filter, i)' = PlaceIn(S, i)
  BY <1>2 DEF Position, PlaceIn, Matching
<1>5. pager \in PagerType /\ from \in Nat /\ PageSize \in Nat
  BY <1>1, ViewsAssumption DEF PagerInv, PagerType
<1>6. page = {i \in Matching(filter) : Position(filter, i) \in from + 1 .. from + PageSize}
  BY <1>2, <1>3, <1>4 DEF PageOf
<1>7. /\ pager.pc = "idle" \/ (pager.pc = "reading" /\ filter = pager.filter)
      /\ pager' = [pc     |-> IF Cardinality(page) = PageSize THEN "reading" ELSE "done",
                   filter |-> filter, offset |-> from + PageSize,
                   seen   |-> (IF pager.pc = "idle" THEN {} ELSE pager.seen) \cup page,
                   due    |-> IF pager.pc = "idle" THEN S ELSE pager.due,
                   left   |-> pager.left]
  BY <1>1, <1>2, <1>6 DEF ReadPage, NextOffset
<1>8. S \in SUBSET Nat /\ IsFiniteSet(S) /\ page \subseteq S /\ Cardinality(S) \in Nat
  BY <1>2, <1>3, ListFinite, FS_CardinalityType DEF Typed, Matching, PageOf
<1>9. PICK due : due = IF pager.pc = "idle" THEN S ELSE pager.due
  OBVIOUS
<1>10. due \subseteq S
  BY <1>2, <1>7, <1>9 DEF PagerInv
<1>11. /\ pager' \in PagerType /\ pager'.pc # "idle" /\ pager'.filter = filter /\ pager'.due = due
       /\ pager'.offset = from + PageSize /\ pager'.left = pager.left
       /\ pager'.seen = (IF pager.pc = "idle" THEN {} ELSE pager.seen) \cup page
       /\ pager'.pc = "done" => Cardinality(page) # PageSize
  <2>1. PICK seen : seen = (IF pager.pc = "idle" THEN {} ELSE pager.seen) \cup page
    OBVIOUS
  <2>2. PICK pc \in {"reading", "done"} : pc = IF Cardinality(page) = PageSize THEN "reading" ELSE "done"
    OBVIOUS
  <2>3. /\ seen \in SUBSET Nat /\ due \in SUBSET Nat /\ from + PageSize \in Nat /\ pager.left \in Nat
    <3>1. pager.seen \in SUBSET Nat /\ pager.left \in Nat /\ from + PageSize \in Nat
      BY <1>5 DEF PagerType
    <3>2. page \in SUBSET Nat /\ due \in SUBSET Nat
      BY <1>8, <1>10
    <3> QED
      BY <2>1, <3>1, <3>2
  <2>4. pager' = [pc |-> pc, filter |-> filter, offset |-> from + PageSize, seen |-> seen,
                  due |-> due, left |-> pager.left]
    BY <1>7, <1>9, <2>1, <2>2
  <2>5. pager' \in PagerType
    BY <2>3, <2>4 DEF PagerType
  <2> QED
    BY <2>1, <2>2, <2>4, <2>5
<1>12. ASSUME NEW i \in due, i \notin page, PlaceIn(S, i) <= from + PageSize
       PROVE  PlaceIn(S, i) <= from /\ PlaceIn(S, i) # 0
  <2>1. PlaceIn(S, i) \in 1 .. Cardinality(S) /\ PlaceIn(S, i) \notin from + 1 .. from + PageSize
    BY <1>3, <1>8, <1>10, <1>12, Places DEF PageOf
  <2> QED
    BY <1>5, <1>8, <1>12, <2>1
<1>13. Slipped' = {i \in due \ pager'.seen : PlaceIn(S, i) <= from + PageSize}
  BY <1>4, <1>11 DEF Slipped
<1>14. Cardinality(Slipped') <= pager.left
  <2>1. CASE pager.pc = "idle"
    <3>1. Slipped' = {}
      <4>1. \A i \in due \ page : PlaceIn(S, i) \in Nat
        BY <1>8, <1>10, Places
      <4> QED
        BY <1>1, <1>11, <1>12, <1>13, <2>1, <4>1
    <3> QED
      BY <1>5, <3>1, FS_EmptySet DEF PagerType
  <2>2. CASE pager.pc # "idle"
    <3>1. /\ Slipped = {i \in due \ pager.seen : PlaceIn(S, i) <= from}
          /\ pager'.seen = pager.seen \cup page
      BY <1>1, <1>4, <1>7, <1>9, <1>11, <2>2 DEF Slipped
    <3>2. Slipped' \subseteq Slipped
      BY <1>12, <1>13, <3>1
    <3>3. IsFiniteSet(Slipped)
      <4>1. Slipped \subseteq S
        BY <1>10, <3>1
      <4> QED
        BY <1>8, <4>1, FS_Subset
    <3>4. /\ Cardinality(Slipped') <= Cardinality(Slipped) /\ Cardinality(Slipped) <= pager.left
          /\ Cardinality(Slipped') \in Nat /\ Cardinality(Slipped) \in Nat /\ pager.left \in Nat
      BY <1>5, <3>2, <3>3, FS_Subset, FS_CardinalityType DEF PagerInv, PagerType
    <3> QED
      BY <3>4
  <2> QED
    BY <2>1, <2>2
<1>15. ASSUME pager'.pc = "done"
       PROVE  \A i \in due : PlaceIn(S, i) <= from + PageSize
  BY <1>3, <1>5, <1>8, <1>10, <1>11, <1>15, LastPage
<1>16. (pager.due \subseteq Matching(pager.filter))'
  BY <1>2, <1>10, <1>11 DEF Matching
<1> QED
  BY <1>4, <1>11, <1>14, <1>15, <1>16 DEF PagerInv

LEMMA PagerStep ==
    ASSUME Base, PagerInv, [ClientsNext]_clientVars
    PROVE  PagerInv'
<1>1. Typed /\ Typed'
  BY BaseStep DEF Base
<1>2. CASE pager.pc = "done"
  <2>1. UNCHANGED <<pager, alerts>>
    BY <1>2 DEF ClientsNext, Finished, clientVars, vars, viewVars
  <2> QED
    BY <2>1 DEF PagerInv, Slipped, Position, Matching
<1>3. ASSUME pager.pc # "done", pager' = pager, alerts' = alerts
      PROVE  PagerInv'
  BY <1>1, <1>3, PagerRests DEF Matching
<1>4. ASSUME NEW w \in Runners, Detect(w), pager.pc # "done"
      PROVE  PagerInv'
  <2>1. pager' = pager
    BY <1>4 DEF Detect
  <2>2. \A i \in DOMAIN alerts : i \in DOMAIN alerts' /\ alerts'[i] = alerts[i]
    <3>1. CASE InsertAlert(w)
      <4>1. /\ Len(alerts) \in Nat /\ DOMAIN alerts = 1 .. Len(alerts)
            /\ DOMAIN alerts' = 1 .. Len(alerts) + 1
            /\ \A i \in DOMAIN alerts : alerts'[i] = alerts[i]
        BY <1>1, <3>1, InsertEffect
      <4> QED
        BY <4>1
    <3>2. CASE ~InsertAlert(w)
      BY <1>4, <3>2 DEF Detect, RunStep, StartRun, SkipDuplicate, PassCheck, Notify, FinishRun, Crash
    <3> QED
      BY <3>1, <3>2
  <2> QED
    BY <1>1, <1>4, <2>1, <2>2, PagerRests DEF Matching
<1>5. ASSUME NEW x \in DOMAIN alerts, NEW status \in Statuses, Triage(x, status), pager.pc # "done"
      PROVE  PagerInv'
  <2> DEFINE out == /\ pager.pc = "reading" /\ pager.filter # {}
                    /\ x \in Matching(pager.filter) /\ status \notin pager.filter
  <2>1. /\ SetStatus(x, status)
        /\ pager' = IF out THEN [pager EXCEPT !.due = @ \ {x}, !.left = @ + 1] ELSE pager
    BY <1>5 DEF Triage
  <2>2. CASE out
    BY <1>1, <2>1, <2>2, PagerLoses
  <2>3. CASE ~out /\ pager.pc = "idle"
    <3>1. pager' = NoPager
      BY <2>1, <2>3 DEF PagerInv
    <3>2. Slipped' = {}
      BY <3>1 DEF Slipped, NoPager
    <3>3. Cardinality(Slipped') = 0 /\ pager'.left = 0 /\ pager'.due = {} /\ pager'.pc = "idle"
      BY <3>1, <3>2, FS_EmptySet DEF NoPager
    <3> QED
      BY <2>1, <2>3, <3>1, <3>3 DEF PagerInv
  <2>4. CASE ~out /\ pager.pc = "reading"
    <3>1. /\ DOMAIN alerts' = DOMAIN alerts /\ alerts'[x].status = status
          /\ \A j \in DOMAIN alerts : j # x => alerts'[j] = alerts[j]
      BY <1>1, <2>1, StatusEffect
    <3>2. \A i \in Matching(pager.filter) :
             i \in DOMAIN alerts' /\ (pager.filter = {} \/ alerts'[i].status \in pager.filter)
      BY <2>4, <3>1 DEF Matching
    <3> QED
      BY <1>1, <1>5, <2>1, <2>4, <3>2, PagerRests
  <2>5. pager.pc \in {"idle", "reading"}
    BY <1>5 DEF PagerInv, PagerType
  <2> QED
    BY <2>2, <2>3, <2>4, <2>5
<1>6. CASE TurnPage
  <2>1. PICK filter \in {{}} \cup {{status} : status \in Statuses} : ReadPage(filter)
    BY <1>6 DEF TurnPage
  <2>2. filter \in SUBSET Statuses /\ alerts' = alerts
    BY <1>6 DEF TurnPage, vars
  <2> QED
    BY <1>1, <2>1, <2>2, PagerReads
<1>7. CASE Outside \/ DeleteOldEvents \/ Summarise \/ Export \/ Simulate \/ UNCHANGED clientVars
  <2>1. pager' = pager
    BY <1>7 DEF Outside, DeleteOldEvents, Summarise, Export, Simulate, clientVars, viewVars
  <2>2. alerts' = alerts
    BY <1>7 DEF Outside, Tick, Ingest, DeleteOldEvents, Summarise, Export, Simulate, SimStep, BeginSimulation,
                PostAttack, StoreAttack, AttackSent, AbortSimulation, Report, clientVars, vars
  <2> QED
    BY <1>2, <1>3, <2>1, <2>2
<1> QED
  BY <1>2, <1>4, <1>5, <1>6, <1>7 DEF ClientsNext

\* Whatever comes in and is triaged while somebody turns the pages: each alert
\* that leaves the list costs at most one of the alerts that stay on it, and
\* the rest have been seen at the last page (alerts.py:45, list.html:216).
THEOREM PagesMissFew == ClientsSpec => []PagesMissOnlyWhatMoved
<1>1. ClientsInit => Base /\ PagerInv
  <2> SUFFICES ASSUME ClientsInit PROVE Base /\ PagerInv
    OBVIOUS
  <2>1. pager = NoPager
    BY DEF ClientsInit
  <2>2. Slipped = {} /\ Cardinality(Slipped) = 0
    BY <2>1, FS_EmptySet DEF Slipped, NoPager
  <2> QED
    BY <2>1, <2>2, BaseStart DEF PagerInv, PagerType, NoPager
<1>2. Base /\ PagerInv /\ [ClientsNext]_clientVars => (Base /\ PagerInv)'
  BY BaseStep, PagerStep
<1>3. PagerInv => PagesMissOnlyWhatMoved
  <2> SUFFICES ASSUME PagerInv, pager.pc = "done"
               PROVE  Cardinality(pager.due \ pager.seen) <= pager.left
    BY DEF PagesMissOnlyWhatMoved
  <2>1. pager.due \ pager.seen = Slipped
    BY DEF PagerInv, Slipped
  <2> QED
    BY <2>1 DEF PagerInv
<1> QED
  BY <1>1, <1>2, <1>3, PTL DEF ClientsSpec

-----------------------------------------------------------------------------
(* The label of a risk score                                               *)
(*                                                                         *)
(* The total is taken to be a natural number, which a sum of weights times *)
(* factors is; that sum is defined by recursion and not reasoned about.    *)

\* Python's round moves a total by half a point at most; on the halves the
\* even neighbour wins.
LEMMA RoundedNear ==
    ASSUME NEW t \in Nat
    PROVE  /\ Rounded(t) \in Nat
           /\ 2 * (Whole * Rounded(t) - t) \in -Whole .. Whole
           /\ 2 * (Whole * Rounded(t) - t) \in {-Whole, Whole} => Rounded(t) % 2 = 0
<1> DEFINE q == t \div Whole
           r == t % Whole
<1>1. q \in Nat /\ r \in 0 .. 999 /\ t = 1000 * q + r
  BY DEF Whole
<1>2. Rounded(t) = IF 2 * r > 1000 \/ (2 * r = 1000 /\ q % 2 = 1) THEN q + 1 ELSE q
  BY DEF Rounded, Whole
<1> HIDE DEF q, r
<1>3. CASE Rounded(t) = q + 1
  <2>1. 2 * r > 1000 \/ (2 * r = 1000 /\ q % 2 = 1)
    BY <1>1, <1>2, <1>3
  <2>2. q % 2 = 1 => (q + 1) % 2 = 0
    BY <1>1
  <2> QED
    BY <1>1, <1>3, <2>1, <2>2 DEF Whole
<1>4. CASE Rounded(t) = q
  <2>1. 2 * r < 1000 \/ (2 * r = 1000 /\ q % 2 = 0)
    BY <1>1, <1>2, <1>4
  <2> QED
    BY <1>1, <1>4, <2>1 DEF Whole
<1> QED
  BY <1>2, <1>3, <1>4

\* The cap.
LEMMA Capped ==
    ASSUME NEW x \in Nat
    PROVE  Min({100, x}) = IF x < 100 THEN x ELSE 100
<1>1. CASE x < 100
  <2>1. \A y \in {100, x} : x <= y
    BY <1>1
  <2>2. \A z \in {100, x} : (\A y \in {100, x} : z <= y) => z = x
    BY <1>1
  <2> QED
    BY <1>1, <2>1, <2>2 DEF Min
<1>2. CASE x >= 100
  <2>1. \A y \in {100, x} : 100 <= y
    BY <1>2
  <2>2. \A z \in {100, x} : (\A y \in {100, x} : z <= y) => z = 100
    BY <1>2
  <2> QED
    BY <1>2, <2>1, <2>2 DEF Min
<1> QED
  BY <1>1, <1>2

\* A score lies in 0..100, and its label changes exactly at 79.5, 49.5, 19.5
\* and just above 0.5: a sum of one half rounds to the even 0, so that active
\* alerts that are old enough leave an address without any risk
\* (scorer.py:67, scorer.py:77).
THEOREM RiskThresholds ==
    ASSUME NEW rows, NEW now, Total(rows, ActiveRows(rows), now) \in Nat
    PROVE  LET total == Total(rows, ActiveRows(rows), now)
               risk  == Risk(rows, now)
           IN  /\ risk.score \in 0 .. 100
               /\ risk.label = "critical" <=> total >= 79500
               /\ risk.label = "high"     <=> 49500 <= total /\ total < 79500
               /\ risk.label = "medium"   <=> 19500 <= total /\ total < 49500
               /\ risk.label = "low"      <=> 500 < total /\ total < 19500
               /\ risk.label = "none"     <=> total <= 500
<1> DEFINE total == Total(rows, ActiveRows(rows), now)
           x     == Rounded(total)
           score == Score(rows, now)
           label == Risk(rows, now).label
<1>1. total \in Nat
  OBVIOUS
<1>2. score = Min({100, x})
  BY DEF Score
<1>3. Risk(rows, now).score = score /\ label = Label(score)
  BY DEF Risk
<1> HIDE DEF total, score, label
<1>4. /\ x \in Nat
      /\ 2 * (1000 * x - total) \in -1000 .. 1000
      /\ 2 * (1000 * x - total) \in {-1000, 1000} => x % 2 = 0
  BY <1>1, RoundedNear DEF Whole
<1> HIDE DEF x
<1>5. score = IF x < 100 THEN x ELSE 100
  BY <1>2, <1>4, Capped
<1>6. x >= 80 <=> total >= 79500
  BY <1>1, <1>4
<1>7. x >= 50 <=> total >= 49500
  BY <1>1, <1>4
<1>8. x >= 20 <=> total >= 19500
  BY <1>1, <1>4
<1>9. x >= 1 <=> total >= 501
  BY <1>1, <1>4
<1>10. label = IF x >= 80 THEN "critical" ELSE IF x >= 50 THEN "high"
               ELSE IF x >= 20 THEN "medium" ELSE IF x >= 1 THEN "low" ELSE "none"
  BY <1>3, <1>4, <1>5 DEF Label
<1>11. score \in 0 .. 100
  BY <1>4, <1>5
<1>12. /\ label = "critical" <=> x >= 80
       /\ label = "high"     <=> x >= 50 /\ ~(x >= 80)
       /\ label = "medium"   <=> x >= 20 /\ ~(x >= 50)
       /\ label = "low"      <=> x >= 1 /\ ~(x >= 20)
       /\ label = "none"     <=> ~(x >= 1)
  BY <1>4, <1>10
<1>13. /\ ~(total >= 79500) <=> total < 79500
       /\ ~(total >= 49500) <=> total < 49500
       /\ ~(total >= 19500) <=> total < 19500
       /\ ~(total >= 501) <=> total <= 500
       /\ total >= 501 <=> 500 < total
       /\ total >= 49500 <=> 49500 <= total
       /\ total >= 19500 <=> 19500 <= total
  BY <1>1
<1>14. label = "critical" <=> total >= 79500
  BY <1>6, <1>12
<1>15. label = "high" <=> 49500 <= total /\ total < 79500
  BY <1>6, <1>7, <1>12, <1>13
<1>16. label = "medium" <=> 19500 <= total /\ total < 49500
  BY <1>7, <1>8, <1>12, <1>13
<1>17. label = "low" <=> 500 < total /\ total < 19500
  BY <1>8, <1>9, <1>12, <1>13
<1>18. label = "none" <=> total <= 500
  BY <1>9, <1>12, <1>13
<1>19. Risk(rows, now).score \in 0 .. 100
  BY <1>3, <1>11
<1> QED
  BY <1>14, <1>15, <1>16, <1>17, <1>18, <1>19 DEF total, label
==============================================================================
