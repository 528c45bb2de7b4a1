------------------------------ MODULE Simulation ------------------------------
(***************************************************************************)
(* `cli simulate`: a client of the API that attacks itself, waits for the  *)
(* worker and reports which rules fired (services/simulation/runner.py,    *)
(* attack_shapes.py, report.py).                                           *)
(*                                                                         *)
(* Its payload for a rule reaches the backend in one POST, but the backend *)
(* commits event by event, so a run of the worker may read a part of it.   *)
(***************************************************************************)
EXTENDS DetectionRunner

CONSTANTS
    Shape,       \* the rules that the synthetic events for a rule match
    AttackIP,    \* synthetic_ip_for_rule
    Limit        \* how many alerts check_fired asks for

ASSUME SimulationAssumption ==
    /\ Shape \in [Rules -> SUBSET Rules]
    /\ \A r \in Rules : r \in Shape[r]
    /\ AttackIP \in [Rules -> IPs] /\ \A r \in Rules : 0 \in ZonesOf[AttackIP[r]]
    /\ "none" \notin Rules    \* it stands for no rule
    /\ Limit \in Nat \ {0}

VARIABLES
    sim,     \* the simulation
    mine,    \* no variable of the code: the events it sent, for which rule
    read     \* nor this: the rules whose attack a finished run had read whole,
             \* among rows in which no address mixes UTC offsets

simVars == <<sim, mine, read>>

NoAttack == [rule |-> "none", at |-> 0, left |-> 0]

NoSimulation == [pc |-> "idle", todo |-> {}, attack |-> NoAttack, attempted |-> {}, fired |-> {}]

\* send_attacks: the rules asked for, of those that load_rules gives.
BeginSimulation(chosen) ==
    /\ sim.pc = "idle" /\ chosen # {}
    /\ sim' = [sim EXCEPT !.pc = "sending", !.todo = chosen]
    /\ UNCHANGED <<vars, mine, read>>

\* build_events_for_rule: as many events as the rule counts, dated from now on.
PostAttack(rule) ==
    /\ sim.pc = "sending" /\ sim.attack = NoAttack /\ rule \in sim.todo
    /\ sim' = [sim EXCEPT !.attack = [rule |-> rule, at |-> clock, left |-> RuleOf[rule].count],
                          !.todo = @ \ {rule}]
    /\ UNCHANGED <<vars, mine, read>>

\* The backend stores the next event of the payload; their timestamps are in
\* UTC, seconds apart and may cross into the next unit of the clock.
StoreAttack ==
    /\ sim.pc = "sending" /\ sim.attack.left > 0
    /\ \E at \in sim.attack.at .. sim.attack.at + Ahead :
          Ingest(at, 0, AttackIP[sim.attack.rule], Shape[sim.attack.rule])
    /\ mine' = mine \cup {[rule |-> sim.attack.rule, event |-> e] : e \in events' \ events}
    /\ sim' = [sim EXCEPT !.attack.left = @ - 1]
    /\ UNCHANGED read

\* The answer to the POST; then the next rule, or wait_for_detection.
AttackSent ==
    /\ sim.pc = "sending" /\ sim.attack # NoAttack /\ sim.attack.left = 0
    /\ sim' = [sim EXCEPT !.attempted = @ \cup {sim.attack.rule}, !.attack = NoAttack,
                          !.pc = IF sim.todo = {} THEN "waiting" ELSE "sending"]
    /\ UNCHANGED <<vars, mine, read>>

\* raise_for_status, or a timeout: no report, and what was stored stays.
AbortSimulation ==
    /\ sim.pc \in {"sending", "waiting"}
    /\ sim' = [NoSimulation EXCEPT !.pc = "aborted"]
    /\ UNCHANGED <<vars, mine, read>>

\* Mutant: the list comes oldest first.
FiredOldest == {alerts[i].rule : i \in {j \in DOMAIN alerts : j <= Limit}}

\* check_fired: the rules of the newest alerts, whatever raised them and when.
Fired == {alerts[i].rule : i \in {j \in DOMAIN alerts : j > Len(alerts) - Limit}}

\* build_report: CoverageReport.build over the rules that were attempted.
Report ==
    /\ sim.pc = "waiting"
    /\ sim' = [sim EXCEPT !.pc = "done", !.fired = sim.attempted \cap Fired]
    /\ UNCHANGED <<vars, mine, read>>

SimStep ==
    \/ \E chosen \in SUBSET Rules : BeginSimulation(chosen)
    \/ \E rule \in Rules : PostAttack(rule)
    \/ StoreAttack
    \/ AttackSent
    \/ AbortSimulation
    \/ Report

SimInit == sim = NoSimulation /\ mine = {} /\ read = {}

\* The attacks that are stored whole, and of these the ones that w's run has read.
Stored == {m.rule : m \in mine} \ (IF sim.attack.left > 0 THEN {sim.attack.rule} ELSE {})

ReadBy(w) ==
    {rule \in Stored : /\ OneZone(runner[w].snapshot)
                       /\ \A m \in mine : m.rule = rule => m.event \in runner[w].snapshot}

-----------------------------------------------------------------------------
(* Properties *)

\* An attack that a finished run has read before the check is reported, be
\* its alert new, or an older one that the new burst repeats, or triaged by
\* then; unless the rule has an alert, and as many newer ones as the check
\* asks for hide it (simulation/runner.py:55).
DetectedAttacksReported ==
    sim.pc = "done" =>
        \A rule \in read \ sim.fired :
            \E i \in DOMAIN alerts : alerts[i].rule = rule /\ i + Limit <= Len(alerts)
==============================================================================
