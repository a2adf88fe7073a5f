---------------------------- MODULE InvoiceService ----------------------------
(***************************************************************************)
(* core/services/invoice.service.ts: submitInvoice, approveInvoice and     *)
(* requestFinancing, one action per awaited step that another request can  *)
(* observe or block.  Statements a transaction runs under locks it already *)
(* holds are one action: nobody sees the states between them, and failing  *)
(* between them is failing after them.                                     *)
(*                                                                         *)
(* "valid" stands for every check of a request that reads nothing mutable: *)
(* for submit a positive amount and a future due date, for approve the     *)
(* caller being the invoice's buyer and a signature of ten characters, for *)
(* requestFinancing the caller being its supplier.                         *)
(***************************************************************************)
EXTENDS ApiServer

CONSTANT WithEmail    \* invoices whose supplier has a credential row (an e-mail)

ASSUME WithEmailAssumption == WithEmail \subseteq Invoices

InvoiceCmds ==
  [op: {"submit", "approve", "finance"}, invoice: Invoices, valid: BOOLEAN]

ApprovedJob(i) == <<"invoice-approved", i>>

-----------------------------------------------------------------------------
(* submitInvoice *)

\* The validations, then findByInvoiceNumber.
SubmitFind(r) ==
  /\ pc[r] = "submit.find"
  /\ Reads(r, IF cmd[r].valid /\ cmd[r].invoice \notin DOMAIN invoices
                       THEN "submit.begin" ELSE "error")

SubmitBegin(r) == Opens(r, "submit.begin", "submit.save")

\* invoiceRepo.save takes no client: the INSERT commits by itself, on another
\* connection of the pool.  invoice_number is UNIQUE.
SubmitSave(r) ==
  LET i == cmd[r].invoice IN
  /\ pc[r] = "submit.save"
  /\ \/ /\ i \in DOMAIN invoices
        /\ Rollback(r)
        /\ Moves(r, "error")
     \/ /\ i \notin DOMAIN invoices
        /\ invoices' = Over(Row(i, [status |-> "DRAFT", signed |-> FALSE]), invoices)
        /\ UNCHANGED <<events, vans, ledger, tx, clock>>
        /\ Moves(r, "submit.update")

SubmitUpdate(r) ==
  LET i == cmd[r].invoice IN
  /\ pc[r] = "submit.update"
  /\ InvoiceUnlocked(r, i)
  /\ Write(r, WithEvent(WithStatus(tx[r], InvoiceRow(r, i), i, "SUBMITTED"),
                        i, "invoice.submitted"))
  /\ Moves(r, "submit.commit")

SubmitCommit(r) == Commits(r, "submit.commit", "ok")

-----------------------------------------------------------------------------
(* approveInvoice *)

\* findById, the buyer and signature checks, assertValidTransition: all on a
\* row read outside the transaction, without a lock.
ApproveFind(r) ==
  LET i == cmd[r].invoice IN
  /\ pc[r] = "approve.find"
  /\ Reads(r, IF /\ i \in DOMAIN invoices
                          /\ cmd[r].valid
                          /\ CanTransition(invoices[i].status, "BUYER_APPROVED")
                       THEN "approve.begin" ELSE "error")

ApproveBegin(r) == Opens(r, "approve.begin", "approve.update")

\* Mutant of ApproveUpdate: the notification is enqueued inside the transaction.
ApproveUpdateAndNotify(r) ==
  LET i == cmd[r].invoice
      signed == [InvoiceRow(r, i) EXCEPT !.signed = TRUE]
  IN
  /\ pc[r] = "approve.update"
  /\ InvoiceUnlocked(r, i)
  /\ Write(r, WithEvent(WithStatus(tx[r], signed, i, "BUYER_APPROVED"),
                        i, "invoice.buyer_approved"))
  /\ jobs' = jobs \cup {ApprovedJob(i)}
  /\ Goto(r, "approve.commit")
  /\ UNCHANGED <<cmd, seen, issued>>

\* SET buyer_signature, then updateStatus and the event.
ApproveUpdate(r) ==
  LET i == cmd[r].invoice
      signed == [InvoiceRow(r, i) EXCEPT !.signed = TRUE]
  IN
  /\ pc[r] = "approve.update"
  /\ InvoiceUnlocked(r, i)
  /\ Write(r, WithEvent(WithStatus(tx[r], signed, i, "BUYER_APPROVED"),
                        i, "invoice.buyer_approved"))
  /\ Moves(r, "approve.commit")

ApproveCommit(r) == Commits(r, "approve.commit", "approve.notify")

\* After the commit: the supplier and its e-mail, then notificationQueue.add.
ApproveNotify(r) ==
  LET i == cmd[r].invoice IN
  /\ pc[r] = "approve.notify"
  /\ jobs' = IF i \in WithEmail THEN jobs \cup {ApprovedJob(i)} ELSE jobs
  /\ Goto(r, "ok")
  /\ UNCHANGED <<db, cmd, seen, issued>>

-----------------------------------------------------------------------------
(* requestFinancing *)

\* Mutant of FinanceFind: no assertValidTransition.
FinanceFindAnyStatus(r) ==
  /\ pc[r] = "finance.find"
  /\ Reads(r, IF cmd[r].invoice \in DOMAIN invoices /\ cmd[r].valid
              THEN "finance.begin" ELSE "error")

FinanceFind(r) ==
  LET i == cmd[r].invoice IN
  /\ pc[r] = "finance.find"
  /\ Reads(r, IF /\ i \in DOMAIN invoices
                          /\ cmd[r].valid
                          /\ CanTransition(invoices[i].status, "FINANCING_REQUESTED")
                       THEN "finance.begin" ELSE "error")

FinanceBegin(r) == Opens(r, "finance.begin", "finance.update")

FinanceUpdate(r) ==
  LET i == cmd[r].invoice IN
  /\ pc[r] = "finance.update"
  /\ InvoiceUnlocked(r, i)
  /\ Write(r, WithEvent(WithStatus(tx[r], InvoiceRow(r, i), i, "FINANCING_REQUESTED"),
                        i, "invoice.financing_requested"))
  /\ Moves(r, "finance.commit")

FinanceCommit(r) == Commits(r, "finance.commit", "ok")

-----------------------------------------------------------------------------
InvoiceFirstStep ==
  [submit |-> "submit.find", approve |-> "approve.find", finance |-> "finance.find"]

InvoiceArrive(r) == \E c \in InvoiceCmds : Arrive(r, c, InvoiceFirstStep[c.op])

InvoiceStep(r) ==
  \/ SubmitFind(r) \/ SubmitBegin(r) \/ SubmitSave(r) \/ SubmitUpdate(r) \/ SubmitCommit(r)
  \/ ApproveFind(r) \/ ApproveBegin(r) \/ ApproveUpdate(r) \/ ApproveCommit(r) \/ ApproveNotify(r)
  \/ FinanceFind(r) \/ FinanceBegin(r) \/ FinanceUpdate(r) \/ FinanceCommit(r)

=============================================================================
