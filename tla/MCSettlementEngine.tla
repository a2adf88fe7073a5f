-------------------------- MODULE MCSettlementEngine --------------------------
(* Small instances of SettlementEngine for TLC. *)
EXTENDS SettlementEngine, TLC

CONSTANTS i1, r1, r2, k1, k2

\* Two transfers to one account.
MCPayments == {[key |-> k1, invoice |-> i1, amount |-> 1],
               [key |-> k2, invoice |-> i1, amount |-> 1]}

\* A sound invoice, the same with a buyer who has defaulted twice, and one whose
\* goods were not delivered in full.
MCAssessments ==
  LET sound == [invoiced |-> 100, ordered |-> 100, delivered |-> 100,
                hasOrder |-> TRUE, hasReceipt |-> TRUE,
                amount |-> 100, average |-> 100, daysUntilDue |-> 60, defaults |-> 0]
  IN {sound, [sound EXCEPT !.defaults = 2, !.daysUntilDue = 10], [sound EXCEPT !.delivered = 99]}

Symmetry == Permutations(Requests)

=============================================================================
