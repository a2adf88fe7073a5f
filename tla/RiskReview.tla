------------------------------- MODULE RiskReview -------------------------------
(***************************************************************************)
(* The risk engine as its callers meet it: POST /risk/assess with one      *)
(* command after another, each of which restates one signal of the last.   *)
(* The properties are about the decision, and about how it moves when a    *)
(* signal does.                                                            *)
(***************************************************************************)
EXTENDS RiskEngine

CONSTANT Values     \* bound: the values of each signal that are tried

ASSUME ValuesAssumption ==
  /\ Values.invoiced \subseteq Nat \ {0}
  /\ Values.ordered \subseteq Nat \ {0}
  /\ Values.delivered \subseteq Nat \ {0}
  /\ Values.hasOrder \subseteq BOOLEAN
  /\ Values.hasReceipt \subseteq BOOLEAN
  /\ Values.amount \subseteq Nat \ {0}
  /\ Values.average \subseteq Nat
  /\ Values.daysUntilDue \subseteq Nat
  /\ Values.defaults \subseteq Nat

VARIABLES command,   \* the last command
          result     \* and its RiskAssessmentResult

vars == <<command, result>>

Signals == {"invoiced", "ordered", "delivered", "hasOrder", "hasReceipt",
            "amount", "average", "daysUntilDue", "defaults"}

Init ==
  /\ command \in [invoiced: Values.invoiced, ordered: Values.ordered,
                  delivered: Values.delivered, hasOrder: Values.hasOrder,
                  hasReceipt: Values.hasReceipt, amount: Values.amount,
                  average: Values.average, daysUntilDue: Values.daysUntilDue,
                  defaults: Values.defaults]
  /\ result = AssessInvoiceRisk(command)

\* POST /risk/assess with another value of one signal.
Assess(signal) ==
  /\ \E value \in Values[signal] : command' = [command EXCEPT ![signal] = value]
  /\ result' = AssessInvoiceRisk(command')

Next == \E signal \in Signals : Assess(signal)

Spec == Init /\ [][Next]_vars

-----------------------------------------------------------------------------
\* The type invariant, with the scores inside their documented ranges: a buyer
\* scores at most 70, so the gate at 75 (risk.engine.ts:47) never decides.
TypeOK ==
  /\ command \in Commands
  /\ result \in [decision: {"APPROVE", "MANUAL_REVIEW", "REJECT"}, confidence: 0 .. 100,
                 reason: {"THREE_WAY_MATCH_FAILED", "CRITICAL_ANOMALY_DETECTED",
                          "ELEVATED_RISK_SIGNALS", "ALL_CHECKS_PASSED"}]
  /\ BuyerRiskScore(command) \in 0 .. 70
  /\ AnomalyScore(command) \in 0 .. 115

\* An invoice whose documents agree is rejected only on two or more signals, one
\* of them critical (ADR-0004-three-way-match.md:51, "A single medium signal does
\* not reject").
RejectTakesTwoSignals ==
  result.decision = "REJECT" /\ ThreeWayMatch(command) =>
    \E s \in Critical(command), t \in Raised(command) : s # t

\* No approval passes over a critical flag, or over a score the anomaly layer
\* itself calls failed; the goods were delivered to within the variance of the
\* order; and the confidence never gets near the floor that Math.max sets.
ApprovalIsSound ==
  result.decision = "APPROVE" =>
    /\ Critical(command) = {} /\ AnomalyPassed(command)
    /\ 100 * command.delivered >= (100 - MaxVariancePct) * command.ordered
    /\ result.confidence >= 35

\* d is c with a larger amount, a smaller average or more defaults.
Riskier(c, d) ==
  /\ d = [c EXCEPT !.amount = d.amount, !.average = d.average, !.defaults = d.defaults]
  /\ d.amount >= c.amount /\ d.defaults >= c.defaults
  /\ d.average = c.average \/ (0 < d.average /\ d.average < c.average)

Rank == [APPROVE |-> 0, MANUAL_REVIEW |-> 1, REJECT |-> 2]

\* The branches of the layers overlap and their weights differ, and still a
\* riskier invoice never gets the better decision.
MoreRiskIsNoSafer ==
  [][Riskier(command, command') => Rank[result.decision] <= Rank[result'.decision]]_vars

=============================================================================
