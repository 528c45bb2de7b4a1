------------------------------ MODULE RiskScorer ------------------------------
(***************************************************************************)
(* The risk score of an address, computed from its alerts whenever somebody *)
(* asks (services/risk/scorer.py).                                         *)
(*                                                                         *)
(* The code sums floats, weight times exp(-0.02 h) for an age of h hours.  *)
(* Here a sum is counted in thousandths, and Decay gives the factor for    *)
(* each age in the units of the clock.                                     *)
(***************************************************************************)
EXTENDS Integers, FiniteSetsExt

CONSTANTS
    MaxAge,    \* the highest age that Decay knows
    Decay      \* thousandths of the weight that are left at each age

Whole == 1000

ASSUME DecayAssumption ==
    /\ MaxAge \in Nat
    /\ Decay \in [0 .. MaxAge -> 0 .. Whole]
    /\ Decay[0] = Whole
    /\ \A a, b \in 0 .. MaxAge : a <= b => Decay[b] <= Decay[a]

Severities == {"critical", "high", "medium", "low"}

\* SEVERITY_WEIGHTS.
Weight == [s \in Severities |->
              CASE s = "critical" -> 40 [] s = "high" -> 20 [] s = "medium" -> 8 [] s = "low" -> 3]

\* Mutant: triaged alerts are left out.
ContributesOpen(status) == status = "open"

\* active_alerts: closed alerts are excluded.
Contributes(status) == status \in {"open", "triaged"}

\* _decay: an alert from the future has age 0.
Age(created, now) == IF created > now THEN 0 ELSE now - created

\* What the rows of S contribute; a row has a severity, a status and created_at.
Total(rows, S, now) ==
    MapThenSumSet(LAMBDA i : Weight[rows[i].severity] * Decay[Age(rows[i].created, now)], S)

\* Python's round: to the nearest integer, halves to the even one.
Rounded(thousandths) ==
    LET whole == thousandths \div Whole
        rest  == thousandths % Whole
    IN  IF 2 * rest > Whole \/ (2 * rest = Whole /\ whole % 2 = 1) THEN whole + 1 ELSE whole

\* _score_label.
Label(score) ==
    CASE score >= 80 -> "critical"
      [] score \in 50 .. 79 -> "high"
      [] score \in 20 .. 49 -> "medium"
      [] score \in 1 .. 19 -> "low"
      [] OTHER -> "none"

ActiveRows(rows) == {i \in DOMAIN rows : Contributes(rows[i].status)}

\* The sum over the active rows, rounded and capped.
Score(rows, now) == Min({100, Rounded(Total(rows, ActiveRows(rows), now))})

\* compute_ip_risk_score, over a family of rows.
Risk(rows, now) ==
    [score        |-> Score(rows, now),
     label        |-> Label(Score(rows, now)),
     contributing |-> Cardinality(ActiveRows(rows)),
     breakdown    |-> [s \in Severities |-> Cardinality({i \in ActiveRows(rows) : rows[i].severity = s})]]
==============================================================================
