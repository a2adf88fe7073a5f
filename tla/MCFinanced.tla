------------------------------ MODULE MCFinanced ------------------------------
(* Small instances that start with an invoice one client has submitted, its   *)
(* buyer approved and its supplier asked to finance, one after the other.     *)
EXTENDS DocumentedClaims, TLC

CONSTANTS i1, r1, r2, r3, k1, k2

MCPayments == {[key |-> k1, invoice |-> i1, amount |-> 1],
               [key |-> k2, invoice |-> i1, amount |-> 1]}

\* A sound invoice, the same with a buyer who has defaulted twice, and one whose
\* goods were not delivered in full.
MCAssessments ==
  LET sound == [invoiced |-> 100, ordered |-> 100, delivered |-> 100,
                hasOrder |-> TRUE, hasReceipt |-> TRUE,
                amount |-> 100, average |-> 100, daysUntilDue |-> 60, defaults |-> 0]
  IN {sound, [sound EXCEPT !.defaults = 2, !.daysUntilDue = 10], [sound EXCEPT !.delivered = 99]}

FinancedLog == <<[type |-> "invoice.submitted", at |-> 1],
                 [type |-> "invoice.buyer_approved", at |-> 2],
                 [type |-> "invoice.financing_requested", at |-> 3]>>

FinancedInit ==
  /\ invoices = [i \in Invoices |-> [status |-> "FINANCING_REQUESTED", signed |-> TRUE]]
  /\ events = [i \in Invoices |-> FinancedLog]
  /\ vans = NoRows /\ ledger = {}
  /\ tx = [r \in Requests |-> NoTx] /\ clock = 3
  /\ pc = [r \in Requests |-> "idle"]
  /\ cmd = [r \in Requests |-> NoCmd]
  /\ seen = [r \in Requests |-> NotRead]
  /\ jobs = {ApprovedJob(i) : i \in WithEmail}
  /\ issued = 0

FinancedSpec == FinancedInit /\ [][Next]_vars

\* Only the operations on accounts.
PaymentNext ==
  \/ \E r \in Requests : VanArrive(r) \/ VanStep(r) \/ Fail(r) \/ Respond(r)
  \/ Crash
PaymentSpec == FinancedInit /\ [][PaymentNext]_vars

FinancedFairSpec == FinancedSpec /\ Fairness

Symmetry == Permutations(Requests)

=============================================================================
