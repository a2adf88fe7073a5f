------------------------------ MODULE MCRiskReview ------------------------------
(* The values on both sides of every threshold of the risk engine, for TLC.   *)
EXTENDS RiskReview

MCValues == [invoiced     |-> {97, 98, 102, 103}, ordered |-> {100},
             delivered    |-> {97, 98, 102}, hasOrder |-> BOOLEAN, hasReceipt |-> BOOLEAN,
             amount       |-> {100000, 100001, 300000, 400000, 400001},
             average      |-> {0, 40000, 100000},
             daysUntilDue |-> {6, 7, 14, 31, 91, 181},
             defaults     |-> {0, 1, 2, 3}]

=============================================================================
