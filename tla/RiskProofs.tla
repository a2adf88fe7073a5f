------------------------------- MODULE RiskProofs -------------------------------
(***************************************************************************)
(* What the risk engine decides, for every value of every signal.  The     *)
(* lemmas bound what each layer can contribute; the theorems combine them. *)
(***************************************************************************)
EXTENDS RiskReview, TLAPS

-----------------------------------------------------------------------------
(* The layers *)

\* The flags of the anomaly layer, and so its score, are among a few constants.
LEMMA FlagRange ==
  ASSUME NEW c \in Commands
  PROVE  /\ AmountFlag(c) \in {Flag("HIGH", 40), Flag("MEDIUM", 20), NoFlag}
         /\ TermFlag(c) \in {Flag("HIGH", 35), Flag("LOW", 10), NoFlag}
         /\ DefaultsFlag(c) \in {Flag("HIGH", 40), Flag("MEDIUM", 20), NoFlag}
  BY DEF AmountFlag, TermFlag, DefaultsFlag

LEMMA FlagFields ==
  ASSUME NEW severity, NEW weight
  PROVE  /\ Flag(severity, weight).severity = severity
         /\ Flag(severity, weight).weight = weight
         /\ NoFlag.severity = "NONE" /\ NoFlag.weight = 0
  BY DEF Flag, NoFlag

LEMMA FlagWeights ==
  ASSUME NEW c \in Commands
  PROVE  LET a == AmountFlag(c)  t == TermFlag(c)  d == DefaultsFlag(c) IN
         /\ a.weight \in {0, 20, 40} /\ t.weight \in {0, 10, 35} /\ d.weight \in {0, 20, 40}
         /\ a.severity = "HIGH" <=> a.weight = 40
         /\ t.severity = "HIGH" <=> t.weight = 35
         /\ d.severity = "HIGH" <=> d.weight = 40
         /\ a = NoFlag <=> a.weight = 0
         /\ t = NoFlag <=> t.weight = 0
         /\ d = NoFlag <=> d.weight = 0
         /\ AnomalyScore(c) = a.weight + t.weight + d.weight
  <1>1. /\ AmountFlag(c) \in {Flag("HIGH", 40), Flag("MEDIUM", 20), NoFlag}
        /\ TermFlag(c) \in {Flag("HIGH", 35), Flag("LOW", 10), NoFlag}
        /\ DefaultsFlag(c) \in {Flag("HIGH", 40), Flag("MEDIUM", 20), NoFlag}
    BY FlagRange
  <1>2. AnomalyScore(c) = AmountFlag(c).weight + TermFlag(c).weight + DefaultsFlag(c).weight
    BY DEF AnomalyScore, Flags
  <1> QED BY <1>1, <1>2, FlagFields

LEMMA CriticalIsHigh ==
  ASSUME NEW c
  PROVE  /\ "amount" \in Critical(c) <=> AmountFlag(c).severity = "HIGH"
         /\ "term" \in Critical(c) <=> TermFlag(c).severity = "HIGH"
         /\ "defaults" \in Critical(c) <=> DefaultsFlag(c).severity = "HIGH"
         /\ Critical(c) \subseteq {"amount", "term", "defaults"}
         /\ "amount" \in Raised(c) <=> AmountFlag(c) # NoFlag
         /\ "term" \in Raised(c) <=> TermFlag(c) # NoFlag
         /\ "defaults" \in Raised(c) <=> DefaultsFlag(c) # NoFlag
  BY DEF Critical, Raised, Flags

LEMMA BuyerRange ==
  ASSUME NEW c \in Commands
  PROVE  BuyerRiskScore(c) \in 0 .. 70
  <1>1. c.defaults \in Nat /\ c.daysUntilDue \in Nat
    BY DEF Commands
  <1>2. DefaultPoints(c) \in 0 .. 40 /\ RecencyPoints(c) \in {0, 10, 20, 30}
    BY <1>1 DEF DefaultPoints, RecencyPoints
  <1> QED BY <1>2 DEF BuyerRiskScore

\* The decision, with the gate of the buyer's score gone.
LEMMA Decision ==
  ASSUME NEW c \in Commands
  PROVE  LET a == AnomalyScore(c)  b == BuyerRiskScore(c) IN
    AssessInvoiceRisk(c) =
      IF ~ ThreeWayMatch(c) THEN Result("REJECT", 95, "THREE_WAY_MATCH_FAILED")
      ELSE IF Critical(c) # {} /\ a > 60 THEN Result("REJECT", 80, "CRITICAL_ANOMALY_DETECTED")
      ELSE IF b >= 50 \/ a >= 30 THEN Result("MANUAL_REVIEW", 60, "ELEVATED_RISK_SIGNALS")
      ELSE Result("APPROVE", 100 - b - a, "ALL_CHECKS_PASSED")
  <1>1. BuyerRiskScore(c) \in 0 .. 70
    BY BuyerRange
  <1>2. AnomalyScore(c) \in Nat
    BY FlagWeights
  <1>3. ~ (BuyerRiskScore(c) >= BuyerAutoReject)
    BY <1>1 DEF BuyerAutoReject
  <1>4. ~ (BuyerRiskScore(c) >= 50 \/ AnomalyScore(c) >= 30) =>
          100 - BuyerRiskScore(c) - AnomalyScore(c) > 0
    BY <1>1, <1>2
  <1> QED BY <1>3, <1>4 DEF AssessInvoiceRisk, BuyerManualReview, AnomalyManualReview

-----------------------------------------------------------------------------
(* The decision *)

LEMMA ResultFields ==
  ASSUME NEW decision, NEW confidence, NEW reason
  PROVE  /\ Result(decision, confidence, reason).decision = decision
         /\ Result(decision, confidence, reason).confidence = confidence
         /\ Result(decision, confidence, reason).reason = reason
  BY DEF Result

LEMMA ResultTyped ==
  ASSUME NEW c \in Commands
  PROVE  AssessInvoiceRisk(c) \in
           [decision: {"APPROVE", "MANUAL_REVIEW", "REJECT"}, confidence: 0 .. 100,
            reason: {"THREE_WAY_MATCH_FAILED", "CRITICAL_ANOMALY_DETECTED",
                     "ELEVATED_RISK_SIGNALS", "ALL_CHECKS_PASSED"}]
  <1>1. BuyerRiskScore(c) \in 0 .. 70 /\ AnomalyScore(c) \in 0 .. 115
    BY BuyerRange, FlagWeights
  <1>2. CASE ~ ThreeWayMatch(c)
    BY <1>2, Decision DEF Result
  <1>3. CASE /\ ThreeWayMatch(c)
             /\ Critical(c) # {} /\ AnomalyScore(c) > 60
    BY <1>3, Decision DEF Result
  <1>4. CASE /\ ThreeWayMatch(c)
             /\ ~ (Critical(c) # {} /\ AnomalyScore(c) > 60)
             /\ BuyerRiskScore(c) >= 50 \/ AnomalyScore(c) >= 30
    BY <1>4, Decision DEF Result
  <1>5. CASE /\ ThreeWayMatch(c)
             /\ ~ (Critical(c) # {} /\ AnomalyScore(c) > 60)
             /\ ~ (BuyerRiskScore(c) >= 50 \/ AnomalyScore(c) >= 30)
    <2>1. AssessInvoiceRisk(c) =
            Result("APPROVE", 100 - BuyerRiskScore(c) - AnomalyScore(c), "ALL_CHECKS_PASSED")
      BY <1>5, Decision
    <2>2. 100 - BuyerRiskScore(c) - AnomalyScore(c) \in 0 .. 100
      BY <1>1, <1>5
    <2> QED BY <2>1, <2>2 DEF Result
  <1> QED BY <1>2, <1>3, <1>4, <1>5

LEMMA TwoSignals ==
  ASSUME NEW c \in Commands, AssessInvoiceRisk(c).decision = "REJECT", ThreeWayMatch(c)
  PROVE  \E s \in Critical(c), t \in Raised(c) : s # t
  <1>1. Critical(c) # {} /\ AnomalyScore(c) > 60
    BY Decision, ResultFields
  <1> DEFINE a == AmountFlag(c)
             t == TermFlag(c)
             d == DefaultsFlag(c)
  <1>2. /\ a.weight \in {0, 20, 40} /\ t.weight \in {0, 10, 35} /\ d.weight \in {0, 20, 40}
        /\ a.weight + t.weight + d.weight > 60
        /\ a.weight = 40 \/ t.weight = 35 \/ d.weight = 40
    BY <1>1, FlagWeights, CriticalIsHigh
  <1>3. \/ a.weight = 40 /\ t.weight # 0
        \/ a.weight = 40 /\ d.weight # 0
        \/ t.weight = 35 /\ a.weight # 0
        \/ d.weight = 40 /\ t.weight # 0
        \/ d.weight = 40 /\ a.weight # 0
    BY <1>2
  <1>4. /\ a.weight = 40 => "amount" \in Critical(c)
        /\ t.weight = 35 => "term" \in Critical(c)
        /\ d.weight = 40 => "defaults" \in Critical(c)
        /\ a.weight # 0 => "amount" \in Raised(c)
        /\ t.weight # 0 => "term" \in Raised(c)
        /\ d.weight # 0 => "defaults" \in Raised(c)
    BY FlagWeights, CriticalIsHigh
  <1> HIDE DEF a, t, d
  <1> QED BY <1>3, <1>4

LEMMA Approved ==
  ASSUME NEW c \in Commands, AssessInvoiceRisk(c).decision = "APPROVE"
  PROVE  /\ Critical(c) = {} /\ AnomalyPassed(c)
         /\ 100 * c.delivered >= (100 - MaxVariancePct) * c.ordered
         /\ AssessInvoiceRisk(c).confidence >= 35
  <1> DEFINE a == AnomalyScore(c)
             b == BuyerRiskScore(c)
  <1>1. /\ ThreeWayMatch(c) /\ b < 50 /\ a < 30
        /\ AssessInvoiceRisk(c).confidence = 100 - b - a
    <2>1. b \in 0 .. 70 /\ a \in Nat
      BY BuyerRange, FlagWeights
    <2>2. ThreeWayMatch(c) /\ ~ (b >= 50 \/ a >= 30)
      BY Decision, ResultFields
    <2>3. AssessInvoiceRisk(c) = Result("APPROVE", 100 - b - a, "ALL_CHECKS_PASSED")
      BY <2>1, <2>2, Decision, ResultFields
    <2> QED BY <2>1, <2>2, <2>3, ResultFields
  <1>2. Critical(c) = {} /\ AnomalyPassed(c)
    <2>1. a < 30
      BY <1>1
    <2>2. AmountFlag(c).severity # "HIGH" /\ TermFlag(c).severity # "HIGH"
            /\ DefaultsFlag(c).severity # "HIGH"
      BY <2>1, FlagWeights
    <2>3. a \in Nat
      BY FlagWeights
    <2> QED BY <2>1, <2>2, <2>3, CriticalIsHigh DEF AnomalyPassed
  <1>3. 100 * c.delivered >= (100 - MaxVariancePct) * c.ordered
    <2>1. /\ c.invoiced \in Nat /\ c.ordered \in Nat /\ c.delivered \in Nat
          /\ 100 * Distance(c.invoiced, c.ordered) <= 2 * c.ordered
          /\ c.delivered >= c.invoiced
      BY <1>1 DEF Commands, ThreeWayMatch, MaxVariancePct
    <2> QED BY <2>1 DEF Distance, MaxVariancePct
  <1>4. 100 - b - a >= 35
    <2>1. DefaultPoints(c) \in 0 .. 40 /\ RecencyPoints(c) \in {0, 10, 20, 30}
      BY DEF Commands, DefaultPoints, RecencyPoints
    <2>2. b = DefaultPoints(c) + RecencyPoints(c)
      BY DEF BuyerRiskScore
    <2>3. a = AmountFlag(c).weight + TermFlag(c).weight + DefaultsFlag(c).weight
          /\ AmountFlag(c).weight \in {0, 20, 40} /\ TermFlag(c).weight \in {0, 10, 35}
          /\ DefaultsFlag(c).weight \in {0, 20, 40}
      BY FlagWeights
    <2>4. c.defaults \in Nat
      BY DEF Commands
    <2>5. DefaultPoints(c) \in {0, 15, 30, 40}
      BY <2>4 DEF DefaultPoints
    <2>6. b < 50 /\ a < 30
      BY <1>1
    <2>7. b <= 45 /\ a <= 20
      BY <2>1, <2>2, <2>3, <2>5, <2>6
    <2> QED BY <2>7, <2>1, <2>2, <2>3
  <1> QED BY <1>1, <1>2, <1>3, <1>4

-----------------------------------------------------------------------------
(* More risk *)

\* No layer is milder to the riskier of two commands.
LEMMA LayersMonotone ==
  ASSUME NEW c \in Commands, NEW d \in Commands, Riskier(c, d)
  PROVE  /\ ThreeWayMatch(d) <=> ThreeWayMatch(c)
         /\ AmountFlag(c).weight <= AmountFlag(d).weight
         /\ TermFlag(c).weight <= TermFlag(d).weight
         /\ DefaultsFlag(c).weight <= DefaultsFlag(d).weight
         /\ BuyerRiskScore(c) <= BuyerRiskScore(d)
  <1>1. /\ d.invoiced = c.invoiced /\ d.ordered = c.ordered /\ d.delivered = c.delivered
        /\ d.hasOrder = c.hasOrder /\ d.hasReceipt = c.hasReceipt
        /\ d.daysUntilDue = c.daysUntilDue
        /\ d.amount >= c.amount /\ d.defaults >= c.defaults
        /\ d.average = c.average \/ (0 < d.average /\ d.average < c.average)
    BY DEF Riskier, Commands
  <1>2. /\ c.amount \in Nat /\ c.average \in Nat /\ c.daysUntilDue \in Nat /\ c.defaults \in Nat
        /\ d.amount \in Nat /\ d.average \in Nat /\ d.daysUntilDue \in Nat /\ d.defaults \in Nat
    BY DEF Commands
  <1>3. ThreeWayMatch(d) <=> ThreeWayMatch(c)
    BY <1>1 DEF ThreeWayMatch
  <1>4. AmountFlag(c).weight <= AmountFlag(d).weight
    BY <1>1, <1>2 DEF AmountFlag, Deviation, Distance, Flag, NoFlag
  <1>5. TermFlag(c).weight <= TermFlag(d).weight
    BY <1>1, <1>2 DEF TermFlag, LargeAmount, Flag, NoFlag
  <1>6. DefaultsFlag(c).weight <= DefaultsFlag(d).weight
    BY <1>1, <1>2 DEF DefaultsFlag, Flag, NoFlag
  <1>7. BuyerRiskScore(c) <= BuyerRiskScore(d)
    <2>1. RecencyPoints(c) = RecencyPoints(d) /\ RecencyPoints(c) \in {0, 10, 20, 30}
      BY <1>1 DEF RecencyPoints
    <2>2. /\ DefaultPoints(c) \in Nat /\ DefaultPoints(d) \in Nat
          /\ DefaultPoints(c) <= DefaultPoints(d)
      BY <1>1, <1>2 DEF DefaultPoints
    <2> QED BY <2>1, <2>2 DEF BuyerRiskScore
  <1> QED BY <1>3, <1>4, <1>5, <1>6, <1>7

LEMMA DecisionMonotone ==
  ASSUME NEW c \in Commands, NEW d \in Commands, Riskier(c, d)
  PROVE  Rank[AssessInvoiceRisk(c).decision] <= Rank[AssessInvoiceRisk(d).decision]
  <1>1. AnomalyScore(c) <= AnomalyScore(d) /\ AnomalyScore(c) \in Nat /\ AnomalyScore(d) \in Nat
    <2>1. \A x \in {c, d} :
            /\ AmountFlag(x).weight \in Nat /\ TermFlag(x).weight \in Nat
            /\ DefaultsFlag(x).weight \in Nat
            /\ AnomalyScore(x) = AmountFlag(x).weight + TermFlag(x).weight
                                    + DefaultsFlag(x).weight
      BY FlagWeights
    <2>2. /\ AmountFlag(c).weight <= AmountFlag(d).weight
          /\ TermFlag(c).weight <= TermFlag(d).weight
          /\ DefaultsFlag(c).weight <= DefaultsFlag(d).weight
      BY LayersMonotone
    <2> QED BY <2>1, <2>2
  <1>2. Critical(c) # {} => Critical(d) # {}
    <2>1. Critical(c) # {} =>
            AmountFlag(c).weight = 40 \/ TermFlag(c).weight = 35 \/ DefaultsFlag(c).weight = 40
      BY FlagWeights, CriticalIsHigh
    <2>2. /\ AmountFlag(c).weight = 40 => AmountFlag(d).weight = 40
          /\ TermFlag(c).weight = 35 => TermFlag(d).weight = 35
          /\ DefaultsFlag(c).weight = 40 => DefaultsFlag(d).weight = 40
      BY LayersMonotone, FlagWeights
    <2>3. AmountFlag(d).weight = 40 \/ TermFlag(d).weight = 35 \/ DefaultsFlag(d).weight = 40
            => Critical(d) # {}
      BY FlagWeights, CriticalIsHigh
    <2> QED BY <2>1, <2>2, <2>3
  <1>3. /\ ThreeWayMatch(d) <=> ThreeWayMatch(c)
        /\ BuyerRiskScore(c) <= BuyerRiskScore(d)
        /\ BuyerRiskScore(c) \in 0 .. 70 /\ BuyerRiskScore(d) \in 0 .. 70
    BY LayersMonotone, BuyerRange
  <1>4. \A x \in {c, d} :
          AssessInvoiceRisk(x).decision =
            IF ~ ThreeWayMatch(x) \/ (Critical(x) # {} /\ AnomalyScore(x) > 60) THEN "REJECT"
            ELSE IF BuyerRiskScore(x) >= 50 \/ AnomalyScore(x) >= 30 THEN "MANUAL_REVIEW"
            ELSE "APPROVE"
    BY Decision, ResultFields
  <1>5. Rank["APPROVE"] = 0 /\ Rank["MANUAL_REVIEW"] = 1 /\ Rank["REJECT"] = 2
    BY DEF Rank
  <1> QED BY <1>1, <1>2, <1>3, <1>4, <1>5

-----------------------------------------------------------------------------
(* The theorems *)

\* What every state of RiskReview satisfies: a command and its assessment.
Assessed == command \in Commands /\ result = AssessInvoiceRisk(command)

LEMMA AlwaysAssessed == Spec => []Assessed
  <1>1. Init => Assessed
    <2> SUFFICES ASSUME Init PROVE command \in Commands
      BY DEF Assessed, Init
    <2>1. PICK i \in Values.invoiced, o \in Values.ordered, v \in Values.delivered,
               p \in Values.hasOrder, q \in Values.hasReceipt, a \in Values.amount,
               g \in Values.average, u \in Values.daysUntilDue, f \in Values.defaults :
            command = [invoiced |-> i, ordered |-> o, delivered |-> v, hasOrder |-> p,
                       hasReceipt |-> q, amount |-> a, average |-> g, daysUntilDue |-> u,
                       defaults |-> f]
      BY DEF Init
    <2> QED BY <2>1, ValuesAssumption DEF Commands
  <1>2. Assessed /\ [Next]_vars => Assessed'
    <2> SUFFICES ASSUME Assessed, [Next]_vars PROVE Assessed'
      OBVIOUS
    <2>1. CASE UNCHANGED vars
      BY <2>1 DEF Assessed, vars
    <2>2. ASSUME NEW signal \in Signals, Assess(signal) PROVE Assessed'
      <3>1. PICK value \in Values[signal] : command' = [command EXCEPT ![signal] = value]
        BY <2>2 DEF Assess
      <3>2. command' \in Commands
        BY <3>1, ValuesAssumption DEF Assessed, Commands, Signals
      <3> QED BY <2>2, <3>2 DEF Assess, Assessed
    <2> QED BY <2>1, <2>2 DEF Next
  <1> QED BY <1>1, <1>2, PTL DEF Spec

\* For any values of the signals: the result is well formed, no buyer scores more
\* than 70, and the gate at 75 (risk.engine.ts:47) never decides.
THEOREM RiskTypeCorrect == Spec => []TypeOK
  <1>1. Assessed => TypeOK
    BY ResultTyped, BuyerRange, FlagWeights DEF Assessed, TypeOK
  <1> QED BY <1>1, AlwaysAssessed, PTL

\* For any values of the signals: an invoice whose documents agree is rejected only
\* on two signals, one of them critical.
THEOREM RejectNeedsTwo == Spec => []RejectTakesTwoSignals
  <1>1. Assessed => RejectTakesTwoSignals
    BY TwoSignals DEF Assessed, RejectTakesTwoSignals
  <1> QED BY <1>1, AlwaysAssessed, PTL

\* For any values of the signals: no approval passes over a critical flag, a failed
\* anomaly score or goods that were not delivered.
THEOREM ApprovalsSound == Spec => []ApprovalIsSound
  <1>1. Assessed => ApprovalIsSound
    BY Approved DEF Assessed, ApprovalIsSound
  <1> QED BY <1>1, AlwaysAssessed, PTL

\* For any two commands: the riskier one never gets the better decision.
THEOREM NoReliefInRisk == Spec => MoreRiskIsNoSafer
  <1>1. Assessed /\ Assessed' =>
          [Riskier(command, command') => Rank[result.decision] <= Rank[result'.decision]]_vars
    BY DecisionMonotone DEF Assessed
  <1> QED BY <1>1, AlwaysAssessed, PTL DEF MoreRiskIsNoSafer

=============================================================================
