--------------------------- MODULE SettlementEngine ---------------------------
(***************************************************************************)
(* The three services of the API over the one database they share: the     *)
(* whole system as a client, a buyer, a supplier and the bank meet it.     *)
(***************************************************************************)
EXTENDS InvoiceService, VanService, RiskService, FiniteSetsExt

ASSUME BoundAssumption == MaxRequests \in Nat

Init == ServerInit

ServiceStep(r) == InvoiceStep(r) \/ VanStep(r) \/ RiskStep(r)

Next ==
  \/ \E r \in Requests :
       \/ InvoiceArrive(r)
       \/ VanArrive(r)
       \/ RiskArrive(r)
       \/ ServiceStep(r)
       \/ Fail(r)
       \/ Respond(r)
  \/ Crash

Spec == Init /\ [][Next]_vars

\* node runs every callback whose awaited call has settled, and PostgreSQL
\* grants a row lock to its waiters in turn; nothing makes a request fail or
\* the process die.
Fairness == \A r \in Requests : WF_vars(ServiceStep(r)) /\ WF_vars(Respond(r))

FairSpec == Spec /\ Fairness

-----------------------------------------------------------------------------
(* Types *)

\* The status each event leaves the invoice in; the other events leave it alone.
StatusAfter == [e \in {"invoice.submitted", "invoice.buyer_approved",
                       "invoice.financing_requested", "invoice.repaid",
                       "risk.assessment.reject"} |->
  CASE e = "invoice.submitted"           -> "SUBMITTED"
    [] e = "invoice.buyer_approved"      -> "BUYER_APPROVED"
    [] e = "invoice.financing_requested" -> "FINANCING_REQUESTED"
    [] e = "invoice.repaid"              -> "REPAID"
    [] OTHER                             -> "CANCELLED"]

EventTypes == DOMAIN StatusAfter \cup
  {"risk.assessment.approve", "risk.assessment.manual_review", "van.created"}

Events == [type: EventTypes, at: Nat]
InvoiceRows == [status: Statuses, signed: BOOLEAN]
VanRows == [expected: Expected, received: Nat, status: VanStatuses]
Keys == {p.key : p \in Payments} \cup {AdvanceKey(i) : i \in Invoices}
Entries == [van: Invoices, type: {"debit", "credit"}, amount: Nat, key: Keys, at: Nat]

\* A table that has a row for some of the invoices.
IsTable(f, rows) == \E S \in SUBSET Invoices : f \in [S -> rows]

IsTransaction(t) ==
  /\ t \in [begun: Nat, invoices: {t.invoices}, vans: {t.vans},
           ledger: SUBSET Entries, events: [Invoices -> Seq(Events)]]
  /\ IsTable(t.invoices, InvoiceRows)
  /\ IsTable(t.vans, VanRows)

\* The steps of each operation from the arrival of a request to its answer.
Steps(op) ==
  CASE op = "submit"    -> {"submit.find", "submit.begin", "submit.save",
                            "submit.update", "submit.commit"}
    [] op = "approve"   -> {"approve.find", "approve.begin", "approve.update",
                            "approve.commit", "approve.notify"}
    [] op = "finance"   -> {"finance.find", "finance.begin", "finance.update",
                            "finance.commit"}
    [] op = "assess"    -> {"assess.find", "assess.begin", "assess.record", "assess.commit"}
    [] op = "createVan" -> {"van.find", "van.existing", "van.begin", "van.insert",
                            "van.commit"}
    [] op = "pay"       -> {"pay.find", "pay.layer1", "pay.begin", "pay.insert",
                            "pay.receive", "pay.settle", "pay.commit",
                            "pay.commitSettled", "pay.enqueue", "pay.entries"}
    [] OTHER            -> {}

Cmds == InvoiceCmds \cup CreateVanCmds \cup PayCmds \cup AssessCmds

DatabaseOK ==
  /\ IsTable(invoices, InvoiceRows)
  /\ events \in [Invoices -> Seq(Events)]
  /\ IsTable(vans, VanRows)
  /\ ledger \in SUBSET Entries
  /\ tx = [r \in Requests |-> tx[r]]
  /\ \A r \in Requests : IsTransaction(tx[r])
  /\ clock \in Nat

SessionOK ==
  /\ jobs \subseteq {ApprovedJob(i) : i \in Invoices} \cup {ReceiptJob(i) : i \in Invoices}
  /\ issued \in 0 .. MaxRequests
  /\ seen \in [Requests -> VanStatuses \cup {NotRead}]
  /\ cmd \in [Requests -> Cmds \cup {NoCmd}]
  /\ pc = [r \in Requests |-> pc[r]]
  /\ \A r \in Requests :
       pc[r] \in Steps(cmd[r].op) \cup (IF cmd[r] = NoCmd THEN {"idle"} ELSE Answers)

\* The type invariant.  A table names only known invoices, an open transaction
\* holds well-formed row versions, and a request is always at a step of the
\* operation it asked for.
TypeOK == DatabaseOK /\ SessionOK

-----------------------------------------------------------------------------
(* Safety *)

Has(i, type) == \E n \in DOMAIN events[i] : events[i][n].type = type

\* The indices of a log whose events name a status.
StatusEvents(log) == {n \in DOMAIN log : log[n].type \in DOMAIN StatusAfter}

\* The log says the invoice is in this status: its last status event does.
LogSays(log, status) ==
  \/ StatusEvents(log) = {} /\ status = "DRAFT"
  \/ \E n \in StatusEvents(log) :
       /\ \A m \in StatusEvents(log) : m <= n
       /\ status = StatusAfter[log[n].type]

\* The status column is a projection of the event log: the last event to be
\* committed that names a status names the status the row has, whatever
\* transactions raced, failed or died (invoice.service.ts, van.service.ts and
\* risk.service.ts write both in one transaction).
StatusIsProjection ==
  \A i \in Invoices :
    IF i \in DOMAIN invoices THEN LogSays(events[i], invoices[i].status)
                             ELSE events[i] = <<>>

Credits(i) == {e \in ledger : e.van = i /\ e.type = "credit"}

\* What an account has received is the sum of the credits booked to it: no
\* increment of recordPayment is lost, none is counted twice.
ReceivedIsSumOfCredits ==
  \A i \in Invoices :
    MapThenSumSet(LAMBDA e : e.amount, Credits(i))
      = IF i \in DOMAIN vans THEN vans[i].received ELSE 0

\* An account is settled exactly when it has received what was expected, and
\* exactly then its invoice has been repaid.
SettledIffCovered ==
  \A i \in DOMAIN vans :
    LET covered == vans[i].received >= vans[i].expected IN
    (vans[i].status = "settled" <=> covered) /\ (Has(i, "invoice.repaid") <=> covered)

\* However often the bank delivers a notice, and however the deliveries race,
\* a key is booked once.
BookedOnce == \A e, f \in ledger : e.key = f.key => e = f

\* createVan advances money once per invoice: an account, its debit of the
\* expected amount and the one van.created event come together or not at all.
OneAdvance ==
  \A i \in Invoices :
    LET debits == {e \in ledger : e.van = i /\ e.type = "debit"}
        opened == {n \in DOMAIN events[i] : events[i][n].type = "van.created"}
    IN IF i \in DOMAIN vans
       THEN /\ \E d \in debits : debits = {d} /\ d.amount = vans[i].expected
            /\ \E n \in opened : opened = {n}
       ELSE debits = {} /\ opened = {}

\* A 200 to the bank, as a success or as a duplicate, means that its payment
\* is in the ledger of the account it was for.
AcknowledgedIsBooked ==
  \A r \in Requests :
    cmd[r].op = "pay" /\ pc[r] \in {"ok", "duplicate"} =>
      \E e \in ledger : /\ e.van = cmd[r].invoice /\ e.type = "credit"
                        /\ e.key = cmd[r].key /\ e.amount = cmd[r].amount

\* A job is enqueued after the commit it tells of, so the worker never acts on
\* an approval or a settlement that was rolled back; and a client that was
\* told of success has its job.
JobsFollowCommits ==
  /\ \A i \in Invoices :
       /\ ApprovedJob(i) \in jobs => Has(i, "invoice.buyer_approved")
       /\ ReceiptJob(i) \in jobs => i \in DOMAIN vans /\ vans[i].status = "settled"
  /\ \A r \in Requests :
       pc[r] = "ok" /\ cmd[r].op = "approve" /\ cmd[r].invoice \in WithEmail
         => ApprovedJob(cmd[r].invoice) \in jobs

\* The collateral: in the log of an invoice a financing request comes after a
\* buyer's approval, and the row then carries the buyer's signature.
FinancingHasCollateral ==
  \A i \in Invoices : \A n \in DOMAIN events[i] :
    events[i][n].type = "invoice.financing_requested" =>
      /\ \E m \in 1 .. n - 1 : events[i][m].type = "invoice.buyer_approved"
      /\ invoices[i].signed

\* The next statement of r updates the row of its invoice.
UpdatesInvoice(r) ==
  \/ pc[r] \in {"submit.update", "approve.update", "finance.update", "pay.settle"}
  \/ pc[r] = "assess.record" /\ cmd[r].decision = "REJECT"

\* The next statement of r needs what s holds: the invoice row it updates, the
\* account row it inserts or updates, the key it inserts.
Waits(r, s) ==
  LET i == cmd[r].invoice IN
  /\ r # s
  /\ \/ UpdatesInvoice(r) /\ i \in DOMAIN tx[s].invoices
     \/ pc[r] \in {"van.insert", "pay.receive"} /\ i \in DOMAIN tx[s].vans
     \/ pc[r] = "van.insert" /\ \E e \in tx[s].ledger : e.key = AdvanceKey(i)
     \/ pc[r] = "pay.insert" /\ \E e \in tx[s].ledger : e.key = cmd[r].key

\* Locks form no circle and never leak: among any requests there is one that
\* waits for none of them, and nobody waits for a request that was answered.
\* recordPayment takes key, account and invoice in this order, createVan account
\* and key, everybody else an invoice alone; every way out lets them go.
NoEndlessWait ==
  \A R \in (SUBSET Requests) \ {{}} : \E r \in R : \A s \in Requests :
    Waits(r, s) => s \notin R /\ Running(s)

-----------------------------------------------------------------------------
(* Refinement *)

Accounts == [i \in DOMAIN vans |-> [expected |-> vans[i].expected,
                                    received |-> vans[i].received,
                                    settled  |-> vans[i].status = "settled"]]
Booked == {p \in Payments : \E e \in Credits(p.invoice) : e.key = p.key /\ e.amount = p.amount}

Promise == INSTANCE PaymentBook WITH accounts <- Accounts, booked <- Booked

\* Seen through its tables, with every step but the commits of createVan and
\* recordPayment invisible, the engine is a payment book.
KeepsPaymentBook == Promise!Spec

-----------------------------------------------------------------------------
(* Liveness *)

\* No request waits for ever for a row or a key: the order in which the
\* operations lock them admits no circle, and every outcome, also an error
\* in the middle, lets the locks go.
EveryRequestAnswered == \A r \in Requests : Running(r) ~> ~ Running(r)

=============================================================================
