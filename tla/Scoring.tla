------------------------------ MODULE Scoring ------------------------------
(***************************************************************************)
(* internal/correlation/scorer.go: risk scores of alerts and incidents.    *)
(*                                                                         *)
(* The code computes with float64 and rounds at the end.  Here the same    *)
(* value is an exact fraction rounded once.  A confidence is a percentage. *)
(***************************************************************************)
EXTENDS Integers, Sequences

Severity == {"low", "medium", "high", "critical"}

(* Severity.Weight. *)
Weight == [low |-> 10, medium |-> 25, high |-> 50, critical |-> 90]

(* The nearest integer to p / q, halves away from zero (math.Round). *)
Rounded(p, q) == (2 * p + q) \div (2 * q)

(* math.Round after math.Min(100, _) of the non-negative fraction p / q. *)
Clamped(p, q) == IF p >= 100 * q THEN 100 ELSE Rounded(p, q)

(* CalculateRiskScore. *)
RiskScore(severity, confidence) == Clamped(Weight[severity] * confidence, 100)

(* The alert at position i (from 0) counts 1 / (1 + 0.3 i), which is       *)
(* 10 / (10 + 3 i).  The product of these denominators for n alerts:       *)
Denominator[n \in Nat] ==
    IF n <= 1 THEN 1 ELSE Denominator[n - 1] * (10 + 3 * (n - 1))

(* The diminished scores of the first n alerts, times Denominator[n].      *)
Totals(scores) ==
    LET total[n \in 0 .. Len(scores)] ==
            CASE n = 0 -> 0
              [] n = 1 -> scores[1]
              [] OTHER -> total[n - 1] * (10 + 3 * (n - 1))
                              + scores[n] * 10 * Denominator[n - 1]
    IN  total

(* Mutant of Diminished: the divisor is taken from the number of alerts    *)
(* instead of the position of each.                                        *)
DiminishedByCount(scores) ==
    LET n == Len(scores)
        sum[i \in 0 .. n] == IF i = 0 THEN 0 ELSE sum[i - 1] + scores[i]
    IN  IF n = 1 THEN scores[1] ELSE sum[n] * 10 * Denominator[n - 1]

(* The sum of the diminished scores, times Denominator. *)
Diminished(scores) == Totals(scores)[Len(scores)]

(* Ten times the campaign multiplier 1 + min(1, 0.2 (n - 1)). *)
Campaign(n) == IF 2 * (n - 1) > 10 THEN 20 ELSE 10 + 2 * (n - 1)

(* CalculateIncidentScore. *)
IncidentScore(scores) ==
    IF scores = << >>
    THEN 0
    ELSE Clamped(Diminished(scores) * Campaign(Len(scores)),
                 10 * Denominator[Len(scores)])

=============================================================================
