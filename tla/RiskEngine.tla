------------------------------- MODULE RiskEngine -------------------------------
(***************************************************************************)
(* core/services/risk/*.engine.ts: the pure function assessInvoiceRisk and *)
(* its three layers.  A command c carries the signals                      *)
(*   invoiced, ordered, delivered   the amounts of the three documents     *)
(*   hasOrder, hasReceipt           po_number, delivery_receipt_id not ""  *)
(*                                  (the schema trims after min(1))        *)
(*   amount, average                amount_cents, avg_invoice_amount_cents *)
(*   daysUntilDue, defaults                                                *)
(* Percentages are compared without dividing: a ratio of integers is on    *)
(* the same side of 2, 150 or 300 in the code's floating point.            *)
(***************************************************************************)
EXTENDS Integers

Commands == [invoiced: Nat \ {0}, ordered: Nat \ {0}, delivered: Nat \ {0},
             hasOrder: BOOLEAN, hasReceipt: BOOLEAN,
             amount: Nat \ {0}, average: Nat, daysUntilDue: Nat, defaults: Nat]

Distance(m, n) == IF m > n THEN m - n ELSE n - m

-----------------------------------------------------------------------------
(* Layer 1, runThreeWayMatch *)

MaxVariancePct == 2

ThreeWayMatch(c) ==
  /\ c.hasOrder /\ c.ordered > 0
  /\ c.hasReceipt
  /\ 100 * Distance(c.invoiced, c.ordered) <= MaxVariancePct * c.ordered
  /\ c.delivered >= c.invoiced

-----------------------------------------------------------------------------
(* Layer 2, runAnomalyDetection: each signal raises at most one flag, and a   *)
(* flag adds its weight to the score.                                         *)

NoFlag == [severity |-> "NONE", weight |-> 0]
Flag(severity, weight) == [severity |-> severity, weight |-> weight]

\* deviationPct times the average.
Deviation(c) == 100 * Distance(c.amount, c.average)

\* Mutant of AmountFlag: the two branches leave a gap between them.
AmountFlagGap(c) ==
  IF c.average > 0 /\ Deviation(c) > 300 * c.average THEN Flag("HIGH", 40)
  ELSE IF c.average > 0 /\ Deviation(c) > 150 * c.average /\ Deviation(c) < 300 * c.average
       THEN Flag("MEDIUM", 20)
  ELSE NoFlag

\* A supplier without an average has nothing to deviate from.
AmountFlag(c) ==
  IF c.average > 0 /\ Deviation(c) > 300 * c.average THEN Flag("HIGH", 40)
  ELSE IF c.average > 0 /\ Deviation(c) > 150 * c.average THEN Flag("MEDIUM", 20)
  ELSE NoFlag

LargeAmount == 100000

\* Mutant of TermFlag: a short term on a large invoice weighs less than a review.
TermFlagLight(c) ==
  IF c.daysUntilDue < 7 /\ c.amount > LargeAmount THEN Flag("HIGH", 25)
  ELSE IF c.daysUntilDue < 14 THEN Flag("LOW", 10)
  ELSE NoFlag

TermFlag(c) ==
  IF c.daysUntilDue < 7 /\ c.amount > LargeAmount THEN Flag("HIGH", 35)
  ELSE IF c.daysUntilDue < 14 THEN Flag("LOW", 10)
  ELSE NoFlag

DefaultsFlag(c) ==
  IF c.defaults >= 3 THEN Flag("HIGH", 40)
  ELSE IF c.defaults >= 1 THEN Flag("MEDIUM", 20)
  ELSE NoFlag

Flags(c) == [amount |-> AmountFlag(c), term |-> TermFlag(c), defaults |-> DefaultsFlag(c)]

AnomalyScore(c) == Flags(c).amount.weight + Flags(c).term.weight + Flags(c).defaults.weight
AnomalyPassed(c) == AnomalyScore(c) <= 50

\* The signals that raised a flag, and those whose flag is critical.
Raised(c) == {signal \in DOMAIN Flags(c) : Flags(c)[signal] # NoFlag}
Critical(c) == {signal \in DOMAIN Flags(c) : Flags(c)[signal].severity = "HIGH"}

-----------------------------------------------------------------------------
(* Layer 3, scoreBuyerRisk, with the input assessInvoiceRisk derives for it:  *)
(* days_until_due stands in for the days since the last payment, and nothing  *)
(* is outstanding, so utilisation adds nothing.                               *)

DefaultPoints(c) == IF 15 * c.defaults < 40 THEN 15 * c.defaults ELSE 40

RecencyPoints(c) ==
  IF c.daysUntilDue > 180 THEN 30
  ELSE IF c.daysUntilDue > 90 THEN 20
  ELSE IF c.daysUntilDue > 30 THEN 10
  ELSE 0

\* Mutant of BuyerRiskScore: the clamp to 100 is the only one.
BuyerRiskScoreUnclamped(c) == 15 * c.defaults + RecencyPoints(c)

BuyerRiskScore(c) == DefaultPoints(c) + RecencyPoints(c)

-----------------------------------------------------------------------------
(* The decision: four gates, the first that holds decides. *)

BuyerAutoReject == 75
BuyerManualReview == 50
AnomalyManualReview == 30

Result(decision, confidence, reason) ==
  [decision |-> decision, confidence |-> confidence, reason |-> reason]

\* Mutant of AssessInvoiceRisk: a HIGH flag alone rejects.
AssessOnAnyHighFlag(c) ==
  IF ~ ThreeWayMatch(c) THEN Result("REJECT", 95, "THREE_WAY_MATCH_FAILED")
  ELSE IF BuyerRiskScore(c) >= BuyerAutoReject THEN Result("REJECT", 85, "BUYER_RISK_TOO_HIGH")
  ELSE IF Critical(c) # {} THEN Result("REJECT", 80, "CRITICAL_ANOMALY_DETECTED")
  ELSE IF BuyerRiskScore(c) >= BuyerManualReview \/ AnomalyScore(c) >= AnomalyManualReview
       THEN Result("MANUAL_REVIEW", 60, "ELEVATED_RISK_SIGNALS")
  ELSE Result("APPROVE", 100 - BuyerRiskScore(c) - AnomalyScore(c), "ALL_CHECKS_PASSED")

AssessInvoiceRisk(c) ==
  LET buyer == BuyerRiskScore(c)
      anomaly == AnomalyScore(c)
      left == 100 - buyer - anomaly
  IN
  IF ~ ThreeWayMatch(c) THEN Result("REJECT", 95, "THREE_WAY_MATCH_FAILED")
  ELSE IF buyer >= BuyerAutoReject THEN Result("REJECT", 85, "BUYER_RISK_TOO_HIGH")
  ELSE IF Critical(c) # {} /\ anomaly > 60
       THEN Result("REJECT", 80, "CRITICAL_ANOMALY_DETECTED")
  ELSE IF buyer >= BuyerManualReview \/ anomaly >= AnomalyManualReview
       THEN Result("MANUAL_REVIEW", 60, "ELEVATED_RISK_SIGNALS")
  ELSE Result("APPROVE", IF left > 0 THEN left ELSE 0, "ALL_CHECKS_PASSED")

=============================================================================
