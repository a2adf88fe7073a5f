------------------------------- MODULE VanService -------------------------------
(***************************************************************************)
(* core/services/van.service.ts: createVan opens the virtual account of an *)
(* invoice and books the advance; recordPayment, called by the bank's      *)
(* webhook, books a payment and settles the account.                       *)
(*                                                                         *)
(* recordPayment is idempotent in two layers: a look at the account's      *)
(* entries before the transaction, and the UNIQUE key of the ledger inside *)
(* it.  Everything it decides before BEGIN rests on unlocked reads.        *)
(***************************************************************************)
EXTENDS ApiServer

CONSTANTS Payments,   \* the transfers buyers make: [key, invoice, amount]
          Expected    \* the values of expected_amount_cents callers send

ASSUME VanAssumption ==
  /\ Expected \subseteq Nat \ {0}
  /\ \A p \in Payments : p.invoice \in Invoices /\ p.amount \in Nat \ {0}

\* `advance-${invoice_id}`; the bank's keys are never of this form.
AdvanceKey(i) == <<"advance", i>>

\* A key is a bank reference: it names one transfer, however often the bank
\* delivers the notice.
ASSUME BankKeysAssumption ==
  /\ \A p, q \in Payments : p.key = q.key => p = q
  /\ \A p \in Payments : \A i \in Invoices : p.key # AdvanceKey(i)

CreateVanCmds == [op: {"createVan"}, invoice: Invoices, expected: Expected]
PayCmds == {[op |-> "pay", invoice |-> p.invoice, amount |-> p.amount, key |-> p.key] :
              p \in Payments}

ReceiptJob(i) == <<"receipt", i>>

\* The entries of the two operations, with the created_at of transaction t.
Debit(t, i, amount) == [van |-> i, type |-> "debit", amount |-> amount,
                        key |-> AdvanceKey(i), at |-> t.begun]
Credit(t, c) == [van |-> c.invoice, type |-> "credit", amount |-> c.amount,
                 key |-> c.key, at |-> t.begun]

-----------------------------------------------------------------------------
(* createVan *)

\* findById: the invoice must be FINANCING_REQUESTED.
VanFind(r) ==
  LET i == cmd[r].invoice IN
  /\ pc[r] = "van.find"
  /\ Reads(r, IF i \in DOMAIN invoices /\ invoices[i].status = "FINANCING_REQUESTED"
              THEN "van.existing" ELSE "error")

\* findByInvoiceId: one account per invoice.
VanExisting(r) ==
  /\ pc[r] = "van.existing"
  /\ Reads(r, IF cmd[r].invoice \in DOMAIN vans THEN "error" ELSE "van.begin")

\* Mutant of VanBegin: the invoice is read again, FOR UPDATE, to be sure of its status.
VanBeginForUpdate(r) ==
  LET i == cmd[r].invoice IN
  /\ pc[r] = "van.begin"
  /\ InvoiceUnlocked(r, i)
  /\ clock' = clock + 1
  /\ tx' = [tx EXCEPT ![r] = [NoTx EXCEPT !.begun = clock + 1,
                                          !.invoices = Row(i, invoices[i])]]
  /\ UNCHANGED tables
  /\ Moves(r, "van.insert")

VanBegin(r) == Opens(r, "van.begin", "van.insert")

\* Mutant of VanInsert: neither UNIQUE constraint exists.
VanInsertNotUnique(r) ==
  LET i == cmd[r].invoice
      account == [expected |-> cmd[r].expected, received |-> 0, status |-> "active"]
      advance == Debit(tx[r], i, cmd[r].expected)
  IN
  /\ pc[r] = "van.insert"
  /\ Write(r, WithEvent(WithEntry(WithVan(tx[r], i, account), advance), i, "van.created"))
  /\ Moves(r, "van.commit")

\* The account, the debit of the advance and the event.  An INSERT whose
\* UNIQUE invoice_id another transaction has inserted waits for its outcome.
VanInsert(r) ==
  LET i == cmd[r].invoice
      account == [expected |-> cmd[r].expected, received |-> 0, status |-> "active"]
      advance == Debit(tx[r], i, cmd[r].expected)
  IN
  /\ pc[r] = "van.insert"
  /\ VanUnlocked(r, i)
  /\ KeyUncontended(r, AdvanceKey(i))
  /\ \/ /\ i \in DOMAIN vans \/ KeyTaken(AdvanceKey(i))
        /\ Rollback(r)
        /\ Moves(r, "error")
     \/ /\ i \notin DOMAIN vans
        /\ ~ KeyTaken(AdvanceKey(i))
        /\ Write(r, WithEvent(WithEntry(WithVan(tx[r], i, account), advance),
                              i, "van.created"))
        /\ Moves(r, "van.commit")

VanCommit(r) == Commits(r, "van.commit", "ok")

-----------------------------------------------------------------------------
(* recordPayment *)

\* findByAccountNumber; the row's status is kept for the settled check below.
PayFind(r) ==
  LET i == cmd[r].invoice IN
  /\ pc[r] = "pay.find"
  /\ IF i \in DOMAIN vans /\ vans[i].status # "expired"
     THEN Goto(r, "pay.layer1") /\ seen' = [seen EXCEPT ![r] = vans[i].status]
     ELSE Goto(r, "error") /\ UNCHANGED seen
  /\ UNCHANGED <<db, cmd, jobs, issued>>

\* Layer 1: an entry of this account with this key is a duplicate, settled or
\* not; new money is refused if the account was settled when it was read.
PayLayer1(r) ==
  /\ pc[r] = "pay.layer1"
  /\ Reads(r, IF \E e \in ledger : e.van = cmd[r].invoice /\ e.key = cmd[r].key
              THEN "duplicate"
              ELSE IF seen[r] = "settled" THEN "error" ELSE "pay.begin")

PayBegin(r) == Opens(r, "pay.begin", "pay.insert")

\* Mutant of PayInsert: the ledger has no UNIQUE key.
PayInsertNotUnique(r) ==
  /\ pc[r] = "pay.insert"
  /\ Write(r, WithEntry(tx[r], Credit(tx[r], cmd[r])))
  /\ Moves(r, "pay.receive")

\* Mutant of PayInsert: a key in an open transaction already counts as booked.
PayInsertNoWait(r) ==
  /\ pc[r] = "pay.insert"
  /\ \/ /\ KeyTaken(cmd[r].key) \/ ~ KeyUncontended(r, cmd[r].key)
        /\ Rollback(r)
        /\ Moves(r, "duplicate")
     \/ /\ ~ KeyTaken(cmd[r].key) /\ KeyUncontended(r, cmd[r].key)
        /\ Write(r, WithEntry(tx[r], Credit(tx[r], cmd[r])))
        /\ Moves(r, "pay.receive")

\* Layer 2: the UNIQUE key.  A violation becomes DuplicatePaymentError.
PayInsert(r) ==
  /\ pc[r] = "pay.insert"
  /\ KeyUncontended(r, cmd[r].key)
  /\ \/ /\ KeyTaken(cmd[r].key)
        /\ Rollback(r)
        /\ Moves(r, "duplicate")
     \/ /\ ~ KeyTaken(cmd[r].key)
        /\ Write(r, WithEntry(tx[r], Credit(tx[r], cmd[r])))
        /\ Moves(r, "pay.receive")

\* received_amount_cents = received_amount_cents + amount, on the locked row.
Received(row, amount) == [row EXCEPT !.received = @ + amount]

\* Mutant of PayReceive: read, add and write back, without the row's lock.
PayReceiveUnlocked(r) ==
  LET i == cmd[r].invoice
      updated == Received(VanRow(r, i), cmd[r].amount)
  IN
  /\ pc[r] = "pay.receive"
  /\ Write(r, WithVan(tx[r], i, updated))
  /\ Moves(r, IF updated.received >= updated.expected THEN "pay.settle" ELSE "pay.commit")

\* Mutant of PayReceive: the account settles only when more was received.
PayReceiveStrict(r) ==
  LET i == cmd[r].invoice
      updated == Received(VanRow(r, i), cmd[r].amount)
  IN
  /\ pc[r] = "pay.receive"
  /\ VanUnlocked(r, i)
  /\ Write(r, WithVan(tx[r], i, updated))
  /\ Moves(r, IF updated.received > updated.expected THEN "pay.settle" ELSE "pay.commit")

PayReceive(r) ==
  LET i == cmd[r].invoice
      updated == Received(VanRow(r, i), cmd[r].amount)
  IN
  /\ pc[r] = "pay.receive"
  /\ VanUnlocked(r, i)
  /\ Write(r, WithVan(tx[r], i, updated))
  /\ Moves(r, IF updated.received >= updated.expected THEN "pay.settle" ELSE "pay.commit")

\* settleAccount; UPDATE invoices SET status = 'REPAID', whatever the status
\* was; the event.
PaySettle(r) ==
  LET i == cmd[r].invoice
      settled == [VanRow(r, i) EXCEPT !.status = "settled"]
      t == WithStatus(WithVan(tx[r], i, settled), InvoiceRow(r, i), i, "REPAID")
  IN
  /\ pc[r] = "pay.settle"
  /\ InvoiceUnlocked(r, i)
  /\ Write(r, WithEvent(t, i, "invoice.repaid"))
  /\ Moves(r, "pay.commitSettled")

PayCommit(r) == Commits(r, "pay.commit", "pay.entries")
PayCommitSettled(r) == Commits(r, "pay.commitSettled", "pay.enqueue")

\* After the commit: findById, then documentQueue.add.
PayEnqueue(r) ==
  /\ pc[r] = "pay.enqueue"
  /\ jobs' = jobs \cup {ReceiptJob(cmd[r].invoice)}
  /\ Goto(r, "pay.entries")
  /\ UNCHANGED <<db, cmd, seen, issued>>

\* A second COMMIT outside any transaction, which does nothing, then the
\* entries for the response.
PayEntries(r) ==
  /\ pc[r] = "pay.entries"
  /\ Reads(r, "ok")

-----------------------------------------------------------------------------
VanArrive(r) ==
  \/ \E c \in CreateVanCmds : Arrive(r, c, "van.find")
  \/ \E c \in PayCmds : Arrive(r, c, "pay.find")

VanStep(r) ==
  \/ VanFind(r) \/ VanExisting(r) \/ VanBegin(r) \/ VanInsert(r) \/ VanCommit(r)
  \/ PayFind(r) \/ PayLayer1(r) \/ PayBegin(r) \/ PayInsert(r) \/ PayReceive(r)
  \/ PaySettle(r) \/ PayCommit(r) \/ PayCommitSettled(r) \/ PayEnqueue(r) \/ PayEntries(r)

=============================================================================
