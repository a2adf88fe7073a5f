------------------------------ MODULE RiskService ------------------------------
(***************************************************************************)
(* core/services/risk/risk.service.ts: assessAndRecord.  The engine is     *)
(* pure and reads no table, so a request carries the decision it comes to. *)
(***************************************************************************)
EXTENDS ApiServer, RiskEngine

CONSTANT Assessments   \* the commands callers send to POST /risk/assess

ASSUME AssessmentsAssumption == Assessments \subseteq Commands

\* Mutant of RiskEvent: the decision is not lower-cased.
RiskEventUpperCase == [APPROVE       |-> "risk.assessment.APPROVE",
                       REJECT        |-> "risk.assessment.REJECT",
                       MANUAL_REVIEW |-> "risk.assessment.MANUAL_REVIEW"]

RiskEvent == [APPROVE       |-> "risk.assessment.approve",
              REJECT        |-> "risk.assessment.reject",
              MANUAL_REVIEW |-> "risk.assessment.manual_review"]

AssessCmds == [op: {"assess"}, invoice: Invoices,
               decision: {AssessInvoiceRisk(c).decision : c \in Assessments}]

AssessFind(r) ==
  LET i == cmd[r].invoice IN
  /\ pc[r] = "assess.find"
  /\ Reads(r, IF i \in DOMAIN invoices /\ invoices[i].status = "FINANCING_REQUESTED"
              THEN "assess.begin" ELSE "error")

AssessBegin(r) == Opens(r, "assess.begin", "assess.record")

\* Mutant of AssessRecord: a rejection leaves the status alone.
AssessRecordOnly(r) ==
  /\ pc[r] = "assess.record"
  /\ Write(r, WithEvent(tx[r], cmd[r].invoice, RiskEvent[cmd[r].decision]))
  /\ Moves(r, "assess.commit")

\* The assessment event; a rejection also cancels the invoice, whatever its
\* status has become since it was read.
AssessRecord(r) ==
  LET i == cmd[r].invoice
      t == WithEvent(tx[r], i, RiskEvent[cmd[r].decision])
  IN
  /\ pc[r] = "assess.record"
  /\ \/ /\ cmd[r].decision = "REJECT"
        /\ InvoiceUnlocked(r, i)
        /\ Write(r, WithStatus(t, InvoiceRow(r, i), i, "CANCELLED"))
     \/ /\ cmd[r].decision # "REJECT"
        /\ Write(r, t)
  /\ Moves(r, "assess.commit")

AssessCommit(r) == Commits(r, "assess.commit", "ok")

RiskArrive(r) == \E c \in AssessCmds : Arrive(r, c, "assess.find")

RiskStep(r) == AssessFind(r) \/ AssessBegin(r) \/ AssessRecord(r) \/ AssessCommit(r)

=============================================================================
