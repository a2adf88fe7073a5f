--------------------------- MODULE DocumentedClaims ---------------------------
(***************************************************************************)
(* What the comments and documents of the repository say of the services   *)
(* and the code does not do.  Each property states one such sentence; the  *)
(* run that checks it ends in a behaviour of the code that contradicts it. *)
(***************************************************************************)
EXTENDS SettlementEngine

\* invoice.service.ts:95-97, "Both the INSERT and the status UPDATE must succeed
\* or both must roll back": once no submitInvoice is at work on it, no invoice is
\* left in DRAFT.
SubmitIsAtomic ==
  \A i \in DOMAIN invoices : invoices[i].status = "DRAFT" =>
    \E r \in Requests : cmd[r].op = "submit" /\ cmd[r].invoice = i /\ Running(r)

\* state-machine.ts:8-9, "once an invoice reaches these states it cannot be
\* moved": a terminal status is final.
TerminalIsFinal ==
  [][\A i \in DOMAIN invoices :
       invoices[i].status \in TerminalStatuses =>
         invoices'[i].status = invoices[i].status]_vars

\* van.service.ts:210, "Only reject new money on a settled account": a settled
\* account receives nothing more.
SettledTakesNoMoney ==
  [][\A i \in DOMAIN vans :
       vans[i].status = "settled" => vans'[i].received = vans[i].received]_vars

=============================================================================
