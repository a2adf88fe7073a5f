------------------------- MODULE InvoiceStateMachine -------------------------
(***************************************************************************)
(* The life cycle of an invoice, from core/services/invoice/               *)
(* state-machine.ts.  Pure definitions: the services read a status,        *)
(* consult this table and write a status; nothing in the database enforces *)
(* the table, so every guarantee rests on how the services use it.         *)
(***************************************************************************)

Statuses == {"DRAFT", "SUBMITTED", "BUYER_APPROVED", "FINANCING_REQUESTED",
             "FUNDED", "REPAID", "DEFAULTED", "CANCELLED"}

\* VALID_TRANSITIONS: the statuses an invoice may move to from each status.
ValidTransitions ==
  [s \in Statuses |->
     CASE s = "DRAFT"               -> {"SUBMITTED", "CANCELLED"}
       [] s = "SUBMITTED"           -> {"BUYER_APPROVED", "CANCELLED"}
       [] s = "BUYER_APPROVED"      -> {"FINANCING_REQUESTED", "CANCELLED"}
       [] s = "FINANCING_REQUESTED" -> {"FUNDED", "CANCELLED"}
       [] s = "FUNDED"              -> {"REPAID", "DEFAULTED"}
       [] OTHER                     -> {}]

\* assertValidTransition throws exactly when this is false.
CanTransition(from, to) == to \in ValidTransitions[from]

TerminalStatuses == {s \in Statuses : ValidTransitions[s] = {}}

=============================================================================
