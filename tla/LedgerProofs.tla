------------------------------ MODULE LedgerProofs ------------------------------
(***************************************************************************)
(* Proofs about the ledger of SettlementEngine and the collateral behind   *)
(* it, for any number of invoices, requests and payments: a key is booked  *)
(* once, a payment the bank was given a 200 for is in the ledger, and no   *)
(* financing is requested on an invoice its buyer has not signed.          *)
(***************************************************************************)
EXTENDS EngineProofs

-----------------------------------------------------------------------------
(* What a step of one request leaves alone *)

\* A step of r does not touch what belongs to another request.
Alone(r) ==
  \A s \in Requests \ {r} : pc'[s] = pc[s] /\ cmd'[s] = cmd[s] /\ tx'[s] = tx[s]

\* What an account's story is told by: its row, its entries and these events.
AccountEvents == {"van.created", "invoice.repaid"}

\* Transaction u is t with no word about any account added.
Spares(t, u) ==
  /\ u.vans = t.vans /\ u.ledger = t.ledger
  /\ \A i \in Invoices :
       \/ u.events[i] = t.events[i]
       \/ \E e \in Events : /\ e.type \notin AccountEvents
                            /\ u.events[i] = Append(t.events[i], e)

Blank(t) == t.vans = NoRows /\ t.ledger = {} /\ \A i \in Invoices : t.events[i] = <<>>

LEMMA NoTxBlank == Blank(NoTx)
  BY DEF Blank, NoTx

LEMMA MovesAlone ==
  ASSUME Inv, NEW r \in Requests, NEW to, Moves(r, to)
  PROVE  /\ pc'[r] = to /\ UNCHANGED cmd
         /\ \A s \in Requests \ {r} : pc'[s] = pc[s] /\ cmd'[s] = cmd[s]
  BY DEF Moves, Goto, Inv, SessionInv, SessionOK

LEMMA WriteAlone ==
  ASSUME Inv, NEW r \in Requests, NEW t, Write(r, t)
  PROVE  /\ tx'[r] = t /\ \A s \in Requests \ {r} : tx'[s] = tx[s]
         /\ invoices' = invoices /\ events' = events /\ vans' = vans /\ ledger' = ledger
  BY DEF Write, tables, Inv, DatabaseInv, DatabaseOK

LEMMA RollbackAlone ==
  ASSUME Inv, NEW r \in Requests, Rollback(r)
  PROVE  /\ tx'[r] = NoTx /\ \A s \in Requests \ {r} : tx'[s] = tx[s]
         /\ invoices' = invoices /\ events' = events /\ vans' = vans /\ ledger' = ledger
  BY WriteAlone DEF Rollback

LEMMA ReadsAlone ==
  ASSUME Inv, NEW r \in Requests, NEW to, Reads(r, to)
  PROVE  /\ Alone(r) /\ pc'[r] = to /\ UNCHANGED cmd
         /\ invoices' = invoices /\ events' = events /\ vans' = vans /\ ledger' = ledger
         /\ tx' = tx
  BY MovesAlone DEF Reads, Alone, db, tables

LEMMA OpensAlone ==
  ASSUME Inv, NEW r \in Requests, NEW from, NEW to, Opens(r, from, to)
  PROVE  /\ Alone(r) /\ pc[r] = from /\ pc'[r] = to /\ UNCHANGED cmd
         /\ invoices' = invoices /\ events' = events /\ vans' = vans /\ ledger' = ledger
         /\ Blank(tx'[r]) /\ tx'[r].invoices = NoRows
  <1>1. Begin(r) /\ Moves(r, to) /\ pc[r] = from
    BY DEF Opens
  <1>2. /\ tx'[r] = [NoTx EXCEPT !.begun = clock + 1]
        /\ \A s \in Requests \ {r} : tx'[s] = tx[s]
        /\ UNCHANGED tables
    BY <1>1 DEF Begin, Inv, DatabaseInv, DatabaseOK
  <1>3. Blank(tx'[r]) /\ tx'[r].invoices = NoRows
    BY <1>2 DEF Blank, NoTx
  <1> QED BY <1>1, <1>2, <1>3, MovesAlone DEF Alone, tables

LEMMA CommitsAlone ==
  ASSUME Inv, NEW r \in Requests, NEW from, NEW to, Commits(r, from, to)
  PROVE  /\ Alone(r) /\ pc[r] = from /\ pc'[r] \in {to, "error"} /\ UNCHANGED cmd
         /\ Commit(r) /\ tx'[r] = NoTx
  <1>1. pc[r] = from /\ Commit(r)
    BY DEF Commits
  <1>2. PICK step \in {to, "error"} : Moves(r, step)
    BY DEF Commits
  <1>3. tx'[r] = NoTx /\ \A s \in Requests \ {r} : tx'[s] = tx[s]
    BY <1>1 DEF Commit, Inv, DatabaseInv, DatabaseOK
  <1> QED BY <1>1, <1>2, <1>3, MovesAlone DEF Alone

\* A status and an event of no account, in either order, spare the accounts.
LEMMA StatusSpares ==
  ASSUME NEW t, IsTransaction(t), NEW row \in InvoiceRows, NEW i \in Invoices,
         NEW status \in Statuses, NEW type \in EventTypes \ AccountEvents
  PROVE  /\ Spares(t, WithEvent(WithStatus(t, row, i, status), i, type))
         /\ Spares(t, WithStatus(WithEvent(t, i, type), row, i, status))
         /\ Spares(t, WithEvent(t, i, type))
  <1>1. ASSUME NEW v, IsTransaction(v) PROVE Spares(v, WithEvent(v, i, type))
    <2> DEFINE u == WithEvent(v, i, type)
    <2>1. /\ u.vans = v.vans /\ u.ledger = v.ledger
          /\ \A j \in Invoices \ {i} : u.events[j] = v.events[j]
      BY <1>1, WithEventOK
    <2>2. PICK e \in Events : e.type = type /\ u.events[i] = Append(v.events[i], e)
      BY <1>1, WithEventOK
    <2> HIDE DEF u
    <2>3. Spares(v, u)
      BY <2>1, <2>2 DEF Spares
    <2> QED BY <2>3 DEF u
  <1>2. ASSUME NEW v, IsTransaction(v)
        PROVE  LET u == WithStatus(v, row, i, status) IN
               IsTransaction(u) /\ u.vans = v.vans /\ u.ledger = v.ledger /\ u.events = v.events
    BY <1>2, WithStatusOK
  <1>3. Spares(t, WithEvent(WithStatus(t, row, i, status), i, type))
    <2> DEFINE v == WithStatus(t, row, i, status)
    <2>1. IsTransaction(v) /\ v.vans = t.vans /\ v.ledger = t.ledger /\ v.events = t.events
      BY <1>2
    <2> HIDE DEF v
    <2>2. Spares(v, WithEvent(v, i, type))
      BY <1>1, <2>1
    <2>3. Spares(t, WithEvent(v, i, type))
      BY <2>1, <2>2 DEF Spares
    <2> QED BY <2>3 DEF v
  <1>4. Spares(t, WithStatus(WithEvent(t, i, type), row, i, status))
    <2> DEFINE v == WithEvent(t, i, type)
    <2>1. Spares(t, v) /\ IsTransaction(v)
      BY <1>1, WithEventOK
    <2> HIDE DEF v
    <2>2. LET u == WithStatus(v, row, i, status) IN
          u.vans = v.vans /\ u.ledger = v.ledger /\ u.events = v.events
      BY <1>2, <2>1
    <2>3. Spares(t, WithStatus(v, row, i, status))
      BY <2>1, <2>2 DEF Spares
    <2> QED BY <2>3 DEF v
  <1> QED BY <1>1, <1>3, <1>4

-----------------------------------------------------------------------------
(* The services that handle no money *)

\* A step of submitInvoice, approveInvoice, requestFinancing or assessAndRecord.
Elsewhere(r) ==
  /\ Alone(r) /\ UNCHANGED cmd
  /\ cmd[r].op \in {"submit", "approve", "finance", "assess"}
  /\ pc[r] \in Steps(cmd[r].op)
  /\ pc'[r] \in Steps(cmd[r].op) \cup Answers
  /\ \/ /\ UNCHANGED <<events, vans, ledger>>
        /\ Spares(tx[r], tx'[r]) \/ Blank(tx'[r])
     \/ Commit(r) /\ tx'[r] = NoTx

LEMMA ReadElsewhere ==
  ASSUME Inv, NEW r \in Requests, NEW op \in {"submit", "approve", "finance", "assess"},
         pc[r] \in Steps(op), NEW to \in Steps(op) \cup Answers, Reads(r, to)
  PROVE  Elsewhere(r)
  <1>1. cmd[r].op = op
    BY StepOfOp DEF Inv, SessionInv, Ops
  <1>2. Alone(r) /\ pc'[r] = to /\ UNCHANGED <<cmd, events, vans, ledger, tx>>
    BY ReadsAlone
  <1> QED BY <1>1, <1>2 DEF Elsewhere, Spares

LEMMA OpenElsewhere ==
  ASSUME Inv, NEW r \in Requests, NEW op \in {"submit", "approve", "finance", "assess"},
         NEW from \in Steps(op), NEW to \in Steps(op), Opens(r, from, to)
  PROVE  Elsewhere(r)
  <1>1. /\ Alone(r) /\ pc[r] = from /\ pc'[r] = to /\ Blank(tx'[r])
        /\ UNCHANGED <<cmd, events, vans, ledger>>
    BY OpensAlone
  <1>2. cmd[r].op = op
    BY <1>1, StepOfOp DEF Inv, SessionInv, Ops
  <1> QED BY <1>1, <1>2 DEF Elsewhere

LEMMA CommitElsewhere ==
  ASSUME Inv, NEW r \in Requests, NEW op \in {"submit", "approve", "finance", "assess"},
         NEW from \in Steps(op), NEW to \in Steps(op) \cup Answers, Commits(r, from, to)
  PROVE  Elsewhere(r)
  <1>1. /\ Alone(r) /\ pc[r] = from /\ pc'[r] \in {to, "error"} /\ UNCHANGED cmd
        /\ Commit(r) /\ tx'[r] = NoTx
    BY CommitsAlone
  <1>2. cmd[r].op = op
    BY <1>1, StepOfOp DEF Inv, SessionInv, Ops
  <1> QED BY <1>1, <1>2 DEF Elsewhere, Answers

\* A write of a status, of an event or of both.
LEMMA WriteElsewhere ==
  ASSUME Inv, NEW r \in Requests, NEW op \in {"submit", "approve", "finance", "assess"},
         pc[r] \in Steps(op), NEW to \in Steps(op), Moves(r, to),
         NEW t, Spares(tx[r], t), Write(r, t)
  PROVE  Elsewhere(r)
  <1>1. cmd[r].op = op
    BY StepOfOp DEF Inv, SessionInv, Ops
  <1>2. pc'[r] = to /\ UNCHANGED cmd /\ Alone(r)
    BY MovesAlone, WriteAlone DEF Alone
  <1>3. tx'[r] = t /\ UNCHANGED <<events, vans, ledger>>
    BY WriteAlone
  <1> QED BY <1>1, <1>2, <1>3 DEF Elsewhere

LEMMA SubmitElsewhere ==
  ASSUME Inv, NEW r \in Requests,
         SubmitFind(r) \/ SubmitBegin(r) \/ SubmitSave(r) \/ SubmitUpdate(r) \/ SubmitCommit(r)
  PROVE  Elsewhere(r)
  <1> DEFINE i == cmd[r].invoice
  <1>1. CASE SubmitFind(r)
    <2>1. PICK to \in {"submit.begin", "error"} : Reads(r, to)
      BY <1>1 DEF SubmitFind, Reads, Moves, Goto
    <2>2. pc[r] \in Steps("submit") /\ to \in Steps("submit") \cup Answers
      BY <1>1 DEF SubmitFind, Steps, Answers
    <2> QED BY <2>1, <2>2, ReadElsewhere
  <1>2. CASE SubmitBegin(r)
    BY <1>2, OpenElsewhere DEF SubmitBegin, Steps
  <1>3. CASE SubmitSave(r)
    <2>1. pc[r] \in Steps("submit") /\ cmd[r].op = "submit"
      BY <1>3, StepOfOp DEF SubmitSave, Steps, Inv, SessionInv, Ops
    <2>2. CASE Rollback(r) /\ Moves(r, "error")
      <3>1. /\ pc'[r] = "error" /\ tx'[r] = NoTx /\ Alone(r)
            /\ UNCHANGED <<cmd, events, vans, ledger>>
        BY <2>2, MovesAlone, RollbackAlone DEF Alone
      <3> QED BY <2>1, <3>1, NoTxBlank DEF Elsewhere, Answers
    <2>3. CASE UNCHANGED <<events, vans, ledger, tx, clock>> /\ Moves(r, "submit.update")
      <3>1. /\ pc'[r] = "submit.update" /\ Spares(tx[r], tx'[r]) /\ Alone(r)
            /\ UNCHANGED <<cmd, events, vans, ledger>>
        BY <2>3, MovesAlone DEF Alone, Spares
      <3> QED BY <2>1, <3>1 DEF Elsewhere, Steps
    <2> QED BY <1>3, <2>2, <2>3 DEF SubmitSave
  <1>4. CASE SubmitUpdate(r)
    <2>1. pc[r] \in Steps("submit") /\ "submit.commit" \in Steps("submit")
          /\ i \in DOMAIN invoices
      BY <1>4 DEF SubmitUpdate, Steps, Inv, SessionInv, WithInvoice
    <2>2. InvoiceRow(r, i) \in InvoiceRows /\ i \in Invoices /\ IsTransaction(tx[r])
      BY <2>1, InvoiceRowOK DEF Inv, DatabaseInv, Sound
    <2>3. "SUBMITTED" \in Statuses /\ "invoice.submitted" \in EventTypes \ AccountEvents
      BY DEF Statuses, EventTypes, StatusAfter, AccountEvents
    <2>4. Spares(tx[r], WithEvent(WithStatus(tx[r], InvoiceRow(r, i), i, "SUBMITTED"),
                                  i, "invoice.submitted"))
      BY <2>2, <2>3, StatusSpares
    <2> QED BY <1>4, <2>1, <2>4, WriteElsewhere DEF SubmitUpdate
  <1>5. CASE SubmitCommit(r)
    BY <1>5, CommitElsewhere DEF SubmitCommit, Steps, Answers
  <1> QED BY <1>1, <1>2, <1>3, <1>4, <1>5

LEMMA ApproveElsewhere ==
  ASSUME Inv, NEW r \in Requests,
         \/ ApproveFind(r) \/ ApproveBegin(r) \/ ApproveUpdate(r) \/ ApproveCommit(r)
         \/ ApproveNotify(r)
  PROVE  Elsewhere(r)
  <1> DEFINE i == cmd[r].invoice
  <1>1. CASE ApproveFind(r)
    <2>1. PICK to \in {"approve.begin", "error"} : Reads(r, to)
      BY <1>1 DEF ApproveFind, Reads, Moves, Goto
    <2>2. pc[r] \in Steps("approve") /\ to \in Steps("approve") \cup Answers
      BY <1>1 DEF ApproveFind, Steps, Answers
    <2> QED BY <2>1, <2>2, ReadElsewhere
  <1>2. CASE ApproveBegin(r)
    BY <1>2, OpenElsewhere DEF ApproveBegin, Steps
  <1>3. CASE ApproveUpdate(r)
    <2> DEFINE signed == [InvoiceRow(r, i) EXCEPT !.signed = TRUE]
    <2>1. pc[r] \in Steps("approve") /\ "approve.commit" \in Steps("approve")
          /\ i \in DOMAIN invoices
      BY <1>3 DEF ApproveUpdate, Steps, Inv, SessionInv, WithInvoice
    <2>2. signed \in InvoiceRows /\ i \in Invoices /\ IsTransaction(tx[r])
      BY <2>1, InvoiceRowOK DEF Inv, DatabaseInv, Sound, InvoiceRows
    <2>3. "BUYER_APPROVED" \in Statuses /\ "invoice.buyer_approved" \in EventTypes \ AccountEvents
      BY DEF Statuses, EventTypes, StatusAfter, AccountEvents
    <2>4. Spares(tx[r], WithEvent(WithStatus(tx[r], signed, i, "BUYER_APPROVED"),
                                  i, "invoice.buyer_approved"))
      <3> HIDE DEF signed
      <3> QED BY <2>2, <2>3, StatusSpares
    <2> QED BY <1>3, <2>1, <2>4, WriteElsewhere DEF ApproveUpdate
  <1>4. CASE ApproveCommit(r)
    BY <1>4, CommitElsewhere DEF ApproveCommit, Steps
  <1>5. CASE ApproveNotify(r)
    <2>1. cmd[r].op = "approve"
      BY <1>5, StepOfOp DEF ApproveNotify, Steps, Inv, SessionInv, Ops
    <2>2. /\ pc'[r] = "ok" /\ Alone(r) /\ UNCHANGED <<cmd, events, vans, ledger>>
          /\ Spares(tx[r], tx'[r])
      BY <1>5 DEF ApproveNotify, Goto, Alone, Spares, db, tables, Inv, SessionInv, SessionOK
    <2>3. pc[r] \in Steps("approve")
      BY <1>5 DEF ApproveNotify, Steps
    <2> QED BY <2>1, <2>2, <2>3 DEF Elsewhere, Answers
  <1> QED BY <1>1, <1>2, <1>3, <1>4, <1>5

LEMMA FinanceElsewhere ==
  ASSUME Inv, NEW r \in Requests,
         FinanceFind(r) \/ FinanceBegin(r) \/ FinanceUpdate(r) \/ FinanceCommit(r)
  PROVE  Elsewhere(r)
  <1> DEFINE i == cmd[r].invoice
  <1>1. CASE FinanceFind(r)
    <2>1. PICK to \in {"finance.begin", "error"} : Reads(r, to)
      BY <1>1 DEF FinanceFind, Reads, Moves, Goto
    <2>2. pc[r] \in Steps("finance") /\ to \in Steps("finance") \cup Answers
      BY <1>1 DEF FinanceFind, Steps, Answers
    <2> QED BY <2>1, <2>2, ReadElsewhere
  <1>2. CASE FinanceBegin(r)
    BY <1>2, OpenElsewhere DEF FinanceBegin, Steps
  <1>3. CASE FinanceUpdate(r)
    <2>1. pc[r] \in Steps("finance") /\ "finance.commit" \in Steps("finance")
          /\ i \in DOMAIN invoices
      BY <1>3 DEF FinanceUpdate, Steps, Inv, SessionInv, WithInvoice
    <2>2. InvoiceRow(r, i) \in InvoiceRows /\ i \in Invoices /\ IsTransaction(tx[r])
      BY <2>1, InvoiceRowOK DEF Inv, DatabaseInv, Sound
    <2>3. /\ "FINANCING_REQUESTED" \in Statuses
          /\ "invoice.financing_requested" \in EventTypes \ AccountEvents
      BY DEF Statuses, EventTypes, StatusAfter, AccountEvents
    <2>4. Spares(tx[r], WithEvent(WithStatus(tx[r], InvoiceRow(r, i), i, "FINANCING_REQUESTED"),
                                  i, "invoice.financing_requested"))
      BY <2>2, <2>3, StatusSpares
    <2> QED BY <1>3, <2>1, <2>4, WriteElsewhere DEF FinanceUpdate
  <1>4. CASE FinanceCommit(r)
    BY <1>4, CommitElsewhere DEF FinanceCommit, Steps, Answers
  <1> QED BY <1>1, <1>2, <1>3, <1>4

LEMMA AssessElsewhere ==
  ASSUME Inv, NEW r \in Requests, RiskStep(r)
  PROVE  Elsewhere(r)
  <1> DEFINE i == cmd[r].invoice
  <1>1. CASE AssessFind(r)
    <2>1. PICK to \in {"assess.begin", "error"} : Reads(r, to)
      BY <1>1 DEF AssessFind, Reads, Moves, Goto
    <2>2. pc[r] \in Steps("assess") /\ to \in Steps("assess") \cup Answers
      BY <1>1 DEF AssessFind, Steps, Answers
    <2> QED BY <2>1, <2>2, ReadElsewhere
  <1>2. CASE AssessBegin(r)
    BY <1>2, OpenElsewhere DEF AssessBegin, Steps
  <1>3. CASE AssessRecord(r)
    <2> DEFINE type == RiskEvent[cmd[r].decision]
    <2>1. pc[r] \in Steps("assess") /\ "assess.commit" \in Steps("assess")
          /\ i \in DOMAIN invoices
      BY <1>3 DEF AssessRecord, Steps, Inv, SessionInv, WithInvoice
    <2>2. InvoiceRow(r, i) \in InvoiceRows /\ i \in Invoices /\ IsTransaction(tx[r])
      BY <2>1, InvoiceRowOK DEF Inv, DatabaseInv, Sound
    <2>3. cmd[r].decision \in DOMAIN RiskEvent
      BY <2>1, StepOfOp, CommandFields DEF Inv, SessionInv, Ops
    <2>4. "CANCELLED" \in Statuses /\ type \in EventTypes \ AccountEvents
      BY <2>3 DEF Statuses, EventTypes, StatusAfter, AccountEvents, RiskEvent
    <2>5. /\ Spares(tx[r], WithEvent(tx[r], i, type))
          /\ Spares(tx[r], WithStatus(WithEvent(tx[r], i, type), InvoiceRow(r, i), i, "CANCELLED"))
      <3> HIDE DEF type
      <3> QED BY <2>2, <2>4, StatusSpares
    <2>6. /\ Moves(r, "assess.commit")
          /\ \/ Write(r, WithEvent(tx[r], i, type))
             \/ Write(r, WithStatus(WithEvent(tx[r], i, type), InvoiceRow(r, i), i, "CANCELLED"))
      BY <1>3 DEF AssessRecord
    <2> HIDE DEF type
    <2> QED BY <2>1, <2>5, <2>6, WriteElsewhere
  <1>4. CASE AssessCommit(r)
    BY <1>4, CommitElsewhere DEF AssessCommit, Steps, Answers
  <1> QED BY <1>1, <1>2, <1>3, <1>4 DEF RiskStep

LEMMA OtherServices ==
  ASSUME Inv, NEW r \in Requests, InvoiceStep(r) \/ RiskStep(r)
  PROVE  Elsewhere(r)
  BY SubmitElsewhere, ApproveElsewhere, FinanceElsewhere, AssessElsewhere DEF InvoiceStep

-----------------------------------------------------------------------------
(***************************************************************************)
(* The inductive invariant.  BookedOnce speaks of committed entries; what  *)
(* keeps a commit from breaking it is that the keys of open transactions   *)
(* are apart from each other and from the ledger, which the UNIQUE key     *)
(* sees to when an entry is inserted.  AcknowledgedIsBooked follows a      *)
(* payment through its transaction, and rests on every entry being one of  *)
(* the two the service writes, so that a key names one entry.              *)
(***************************************************************************)

KeysOnce ==
  /\ BookedOnce
  /\ \A r \in Requests :
       /\ \A e, f \in tx[r].ledger : e.key = f.key => e = f
       /\ \A e \in tx[r].ledger, f \in ledger : e.key # f.key
       /\ \A s \in Requests \ {r} : \A e \in tx[r].ledger, f \in tx[s].ledger : e.key # f.key

\* An entry is the debit of an advance or the credit of a transfer.
Genuine(e) ==
  \/ e.type = "debit" /\ e.van \in Invoices /\ e.key = AdvanceKey(e.van)
  \/ \E p \in Payments : /\ e.type = "credit" /\ e.van = p.invoice
                         /\ e.key = p.key /\ e.amount = p.amount

AllGenuine ==
  /\ \A e \in ledger : Genuine(e)
  /\ \A r \in Requests : \A e \in tx[r].ledger : Genuine(e)

\* The entry of command c.
IsCreditOf(e, c) ==
  e.van = c.invoice /\ e.type = "credit" /\ e.key = c.key /\ e.amount = c.amount

IsDebitOf(e, c) == e.van = c.invoice /\ e.type = "debit" /\ e.amount = c.expected

BookedInTx == {"pay.receive", "pay.settle", "pay.commit", "pay.commitSettled"}
BookedForGood == {"pay.enqueue", "pay.entries", "ok", "duplicate"}

\* How far the request of slot r has come with its entry.
Progress(r) ==
  /\ pc[r] \notin BookedInTx \cup {"van.commit"} => tx[r].ledger = {}
  /\ pc[r] = "van.commit" => \E e : tx[r].ledger = {e} /\ IsDebitOf(e, cmd[r])
  /\ pc[r] \in BookedInTx => \E e : tx[r].ledger = {e} /\ IsCreditOf(e, cmd[r])
  /\ cmd[r].op = "pay" /\ pc[r] \in BookedForGood => \E e \in ledger : IsCreditOf(e, cmd[r])

LedgerInv == KeysOnce /\ AllGenuine /\ \A r \in Requests : Progress(r)

-----------------------------------------------------------------------------
(* What the database operations do to the entries *)

\* Transactions keep their entries or lose them all.
LEMMA RestKeepsEntries ==
  ASSUME KeysOnce, AllGenuine, ledger' = ledger,
         \A s \in Requests : tx'[s].ledger = tx[s].ledger \/ tx'[s].ledger = {}
  PROVE  (KeysOnce /\ AllGenuine)'
  <1>1. KeysOnce'
    BY DEF KeysOnce, BookedOnce
  <1>2. AllGenuine'
    BY DEF AllGenuine, Genuine
  <1> QED BY <1>1, <1>2

LEMMA CommitKeepsEntries ==
  ASSUME KeysOnce, AllGenuine, NEW r \in Requests, ledger' = ledger \cup tx[r].ledger,
         tx'[r].ledger = {}, \A s \in Requests \ {r} : tx'[s].ledger = tx[s].ledger
  PROVE  (KeysOnce /\ AllGenuine)'
  <1>1. BookedOnce'
    BY DEF KeysOnce, BookedOnce
  <1>2. ASSUME NEW s \in Requests
        PROVE  /\ \A e, f \in tx'[s].ledger : e.key = f.key => e = f
               /\ \A e \in tx'[s].ledger, f \in ledger' : e.key # f.key
               /\ \A q \in Requests \ {s} :
                    \A e \in tx'[s].ledger, f \in tx'[q].ledger : e.key # f.key
    <2>1. CASE s = r
      BY <2>1
    <2>2. CASE s # r
      BY <2>2 DEF KeysOnce
    <2> QED BY <2>1, <2>2
  <1>3. AllGenuine'
    BY DEF AllGenuine, Genuine
  <1> QED BY <1>1, <1>2, <1>3 DEF KeysOnce

\* The INSERT of an entry by a transaction that has none.
LEMMA InsertKeepsEntries ==
  ASSUME KeysOnce, AllGenuine, NEW r \in Requests, NEW e, Genuine(e),
         KeyUncontended(r, e.key), ~ KeyTaken(e.key),
         ledger' = ledger, tx'[r].ledger = {e},
         \A s \in Requests \ {r} : tx'[s].ledger = tx[s].ledger
  PROVE  (KeysOnce /\ AllGenuine)'
  <1>1. BookedOnce'
    BY DEF KeysOnce, BookedOnce
  <1>2. ASSUME NEW s \in Requests
        PROVE  /\ \A f, g \in tx'[s].ledger : f.key = g.key => f = g
               /\ \A f \in tx'[s].ledger, g \in ledger' : f.key # g.key
               /\ \A q \in Requests \ {s} :
                    \A f \in tx'[s].ledger, g \in tx'[q].ledger : f.key # g.key
    <2>1. CASE s = r
      BY <2>1 DEF KeyUncontended, KeyTaken
    <2>2. CASE s # r
      BY <2>2 DEF KeysOnce, KeyUncontended
    <2> QED BY <2>1, <2>2
  <1>3. AllGenuine'
    BY DEF AllGenuine, Genuine
  <1> QED BY <1>1, <1>2, <1>3 DEF KeysOnce

\* A step of r is no business of the others.
LEMMA OthersProgress ==
  ASSUME NEW r \in Requests, \A s \in Requests : Progress(s), Alone(r),
         ledger \subseteq ledger', Progress(r)'
  PROVE  (\A s \in Requests : Progress(s))'
  <1>1. ASSUME NEW s \in Requests PROVE Progress(s)'
    <2>1. CASE s = r
      BY <2>1
    <2>2. CASE s # r
      BY <2>2 DEF Progress, Alone, IsCreditOf, IsDebitOf
    <2> QED BY <2>1, <2>2
  <1> QED BY <1>1

\* A step of r that adds no entry.
LEMMA RestKeepsLedger ==
  ASSUME LedgerInv, NEW r \in Requests, Alone(r), ledger' = ledger,
         tx'[r].ledger = tx[r].ledger \/ tx'[r].ledger = {}, Progress(r)'
  PROVE  LedgerInv'
  <1>1. \A s \in Requests : tx'[s].ledger = tx[s].ledger \/ tx'[s].ledger = {}
    BY DEF Alone
  <1>2. (KeysOnce /\ AllGenuine)'
    BY <1>1, RestKeepsEntries DEF LedgerInv
  <1>3. (\A s \in Requests : Progress(s))'
    BY OthersProgress DEF LedgerInv
  <1> QED BY <1>2, <1>3 DEF LedgerInv

LEMMA CommitKeepsLedger ==
  ASSUME LedgerInv, NEW r \in Requests, Alone(r), Commit(r), tx'[r] = NoTx, Progress(r)'
  PROVE  LedgerInv'
  <1>1. ledger' = ledger \cup tx[r].ledger /\ tx'[r].ledger = {}
    BY DEF Commit, NoTx
  <1>2. \A s \in Requests \ {r} : tx'[s].ledger = tx[s].ledger
    BY DEF Alone
  <1>3. (KeysOnce /\ AllGenuine)'
    BY <1>1, <1>2, CommitKeepsEntries DEF LedgerInv
  <1>4. (\A s \in Requests : Progress(s))'
    BY <1>1, OthersProgress DEF LedgerInv
  <1> QED BY <1>3, <1>4 DEF LedgerInv

LEMMA InsertKeepsLedger ==
  ASSUME LedgerInv, NEW r \in Requests, Alone(r), NEW e, Genuine(e),
         KeyUncontended(r, e.key), ~ KeyTaken(e.key),
         ledger' = ledger, tx'[r].ledger = {e}, Progress(r)'
  PROVE  LedgerInv'
  <1>1. \A s \in Requests \ {r} : tx'[s].ledger = tx[s].ledger
    BY DEF Alone
  <1>2. (KeysOnce /\ AllGenuine)'
    BY <1>1, InsertKeepsEntries DEF LedgerInv
  <1>3. (\A s \in Requests : Progress(s))'
    BY OthersProgress DEF LedgerInv
  <1> QED BY <1>2, <1>3 DEF LedgerInv

\* A request that has no entry yet, and is told of none.
LEMMA NoProgress ==
  ASSUME NEW r \in Requests, pc[r]' \notin BookedInTx \cup {"van.commit"},
         cmd[r].op' # "pay" \/ pc[r]' \notin BookedForGood, tx'[r].ledger = {}
  PROVE  Progress(r)'
  BY DEF Progress

-----------------------------------------------------------------------------
(* The steps *)

LEMMA ElsewhereKeepsLedger ==
  ASSUME Inv, LedgerInv, NEW r \in Requests, Elsewhere(r)
  PROVE  LedgerInv'
  <1>1. Alone(r) /\ cmd[r].op' # "pay" /\ pc[r]' \in Steps(cmd[r].op) \cup Answers
        /\ cmd[r].op \in {"submit", "approve", "finance", "assess"}
    BY DEF Elsewhere
  <1>2. pc[r]' \notin BookedInTx \cup {"van.commit"}
    BY <1>1 DEF Steps, Answers, BookedInTx
  <1>6. tx[r].ledger = {}
    <2>1. pc[r] \notin BookedInTx \cup {"van.commit"}
      BY DEF Elsewhere, Steps, BookedInTx
    <2> QED BY <2>1 DEF LedgerInv, Progress
  <1>7. tx'[r].ledger = {}
    BY <1>6, NoTxBlank DEF Elsewhere, Spares, Blank
  <1>3. Progress(r)'
    BY <1>1, <1>2, <1>7, NoProgress
  <1>4. CASE ledger' = ledger /\ (Spares(tx[r], tx'[r]) \/ Blank(tx'[r]))
    BY <1>1, <1>3, <1>4, RestKeepsLedger DEF Spares, Blank
  <1>5. CASE Commit(r) /\ tx'[r] = NoTx
    BY <1>1, <1>3, <1>5, CommitKeepsLedger
  <1> QED BY <1>4, <1>5 DEF Elsewhere

LEMMA CreateVanKeepsLedger ==
  ASSUME Inv, LedgerInv, NEW r \in Requests,
         VanFind(r) \/ VanExisting(r) \/ VanBegin(r) \/ VanInsert(r) \/ VanCommit(r)
  PROVE  LedgerInv'
  <1> DEFINE i == cmd[r].invoice
  <1>0. cmd[r].op = "createVan"
    <2>1. pc[r] \in Steps("createVan")
      BY DEF VanFind, VanExisting, VanBegin, VanInsert, VanCommit, Opens, Commits, Steps
    <2> QED BY <2>1, StepOfOp DEF Inv, SessionInv, Ops
  <1>1. CASE VanFind(r) \/ VanExisting(r)
    <2>1. PICK to \in {"van.existing", "van.begin", "error"} : Reads(r, to)
      BY <1>1 DEF VanFind, VanExisting, Reads, Moves, Goto
    <2>2. Alone(r) /\ pc[r]' = to /\ cmd' = cmd /\ ledger' = ledger /\ tx' = tx
      BY <2>1, ReadsAlone
    <2>4. tx[r].ledger = {}
      BY <1>1 DEF VanFind, VanExisting, LedgerInv, Progress, BookedInTx
    <2>3. Progress(r)'
      BY <1>0, <2>2, <2>4, NoProgress DEF BookedInTx
    <2> QED BY <2>2, <2>3, RestKeepsLedger
  <1>2. CASE VanBegin(r)
    <2>1. /\ Alone(r) /\ pc[r]' = "van.insert" /\ cmd' = cmd /\ ledger' = ledger
          /\ tx'[r].ledger = {}
      BY <1>2, OpensAlone DEF VanBegin, Blank
    <2>2. Progress(r)'
      BY <1>0, <2>1, NoProgress DEF BookedInTx
    <2> QED BY <2>1, <2>2, RestKeepsLedger
  <1>3. CASE VanInsert(r)
    <2>1. CASE Rollback(r) /\ Moves(r, "error")
      <3>1. /\ Alone(r) /\ pc[r]' = "error" /\ cmd' = cmd /\ ledger' = ledger
            /\ tx'[r].ledger = {}
        BY <2>1, RollbackAlone, MovesAlone, NoTxBlank DEF Alone, Blank
      <3>2. Progress(r)'
        BY <1>0, <3>1, NoProgress DEF BookedInTx
      <3> QED BY <3>1, <3>2, RestKeepsLedger
    <2> DEFINE account == [expected |-> cmd[r].expected, received |-> 0, status |-> "active"]
               advance == Debit(tx[r], i, cmd[r].expected)
               t == WithEvent(WithEntry(WithVan(tx[r], i, account), advance), i, "van.created")
    <2>2. CASE /\ KeyUncontended(r, AdvanceKey(i)) /\ ~ KeyTaken(AdvanceKey(i))
               /\ Write(r, t) /\ Moves(r, "van.commit")
      <3>1. /\ Alone(r) /\ pc[r]' = "van.commit" /\ cmd' = cmd /\ ledger' = ledger
            /\ tx'[r] = t
        BY <2>2, WriteAlone, MovesAlone DEF Alone
      <3>0. i \in Invoices
        BY <1>3, StepOfOp, CommandFields DEF VanInsert, Steps, Ops, Inv, SessionInv
      <3>2. advance.key = AdvanceKey(i) /\ Genuine(advance) /\ IsDebitOf(advance, cmd[r])
        BY <3>0 DEF Debit, Genuine, IsDebitOf
      <3>3. tx[r].ledger = {}
        BY <1>3 DEF VanInsert, LedgerInv, Progress, BookedInTx
      <3>4. t.ledger = tx[r].ledger \cup {advance}
        <4>1. IsTransaction(tx[r])
          BY DEF Inv, DatabaseInv, Sound
        <4> HIDE DEF advance, account
        <4>2. WithVan(tx[r], i, account).ledger = tx[r].ledger
              /\ DOMAIN WithVan(tx[r], i, account)
                   = {"begun", "invoices", "vans", "ledger", "events"}
          BY <4>1 DEF WithVan, IsTransaction
        <4>3. /\ WithEntry(WithVan(tx[r], i, account), advance).ledger = tx[r].ledger \cup {advance}
              /\ DOMAIN WithEntry(WithVan(tx[r], i, account), advance)
                   = {"begun", "invoices", "vans", "ledger", "events"}
          BY <4>2 DEF WithEntry
        <4> QED BY <4>3 DEF WithEvent
      <3>5. tx'[r].ledger = {advance}
        BY <3>1, <3>3, <3>4
      <3> HIDE DEF advance, t
      <3>6. Progress(r)'
        BY <1>0, <3>1, <3>2, <3>5 DEF Progress, IsDebitOf, BookedInTx
      <3> QED BY <2>2, <3>1, <3>2, <3>5, <3>6, InsertKeepsLedger
    <2> QED BY <1>3, <2>1, <2>2 DEF VanInsert
  <1>4. CASE VanCommit(r)
    <2>1. /\ Alone(r) /\ pc[r]' \in {"ok", "error"} /\ cmd' = cmd
          /\ Commit(r) /\ tx'[r] = NoTx
      BY <1>4, CommitsAlone DEF VanCommit
    <2>2. Progress(r)'
      BY <1>0, <2>1, NoProgress, NoTxBlank DEF BookedInTx, Blank
    <2> QED BY <2>1, <2>2, CommitKeepsLedger
  <1> QED BY <1>1, <1>2, <1>3, <1>4

\* The bank's key is the key of its payment, and of nothing else.
LEMMA KeyNamesCredit ==
  ASSUME AllGenuine, NEW c \in PayCmds, NEW e \in ledger, e.key = c.key
  PROVE  IsCreditOf(e, c)
  <1>1. PICK p \in Payments :
          c = [op |-> "pay", invoice |-> p.invoice, amount |-> p.amount, key |-> p.key]
    BY DEF PayCmds
  <1>2. ~ (e.van \in Invoices /\ e.key = AdvanceKey(e.van))
    BY <1>1, BankKeysAssumption
  <1>3. PICK q \in Payments :
          e.type = "credit" /\ e.van = q.invoice /\ e.key = q.key /\ e.amount = q.amount
    BY <1>2 DEF AllGenuine, Genuine
  <1>4. q = p
    BY <1>1, <1>3, BankKeysAssumption
  <1> QED BY <1>1, <1>3, <1>4 DEF IsCreditOf

LEMMA PayReadsKeepLedger ==
  ASSUME Inv, LedgerInv, NEW r \in Requests,
         PayFind(r) \/ PayLayer1(r) \/ PayBegin(r) \/ PayEnqueue(r) \/ PayEntries(r)
  PROVE  LedgerInv'
  <1>0. cmd[r].op = "pay" /\ cmd[r] \in Cmds
    <2>1. pc[r] \in Steps("pay")
      BY DEF PayFind, PayLayer1, PayBegin, PayEnqueue, PayEntries, Opens, Steps
    <2> QED BY <2>1, StepOfOp DEF Inv, SessionInv, Ops
  <1>1. CASE PayFind(r)
    <2>1. /\ Alone(r) /\ pc[r]' \in {"pay.layer1", "error"} /\ cmd' = cmd
          /\ ledger' = ledger /\ tx' = tx
      BY <1>1 DEF PayFind, Goto, Alone, db, tables, Inv, SessionInv, SessionOK
    <2>3. tx[r].ledger = {}
      BY <1>1 DEF PayFind, LedgerInv, Progress, BookedInTx
    <2>2. Progress(r)'
      BY <2>1, <2>3, NoProgress DEF BookedInTx, BookedForGood
    <2> QED BY <2>1, <2>2, RestKeepsLedger
  <1>2. CASE PayLayer1(r)
    <2>1. PICK to \in {"duplicate", "error", "pay.begin"} :
            /\ Reads(r, to)
            /\ to = "duplicate" => \E e \in ledger : e.key = cmd[r].key
      BY <1>2 DEF PayLayer1, Reads, Moves, Goto
    <2>2. Alone(r) /\ pc[r]' = to /\ cmd' = cmd /\ ledger' = ledger /\ tx' = tx
      BY <2>1, ReadsAlone
    <2>3. cmd[r] \in PayCmds
      BY <1>0 DEF Cmds, InvoiceCmds, CreateVanCmds, AssessCmds
    <2>5. tx[r].ledger = {}
      BY <1>2 DEF PayLayer1, LedgerInv, Progress, BookedInTx
    <2>4. Progress(r)'
      <3>1. CASE to = "duplicate"
        <4>1. \E e \in ledger : IsCreditOf(e, cmd[r])
          BY <2>1, <2>3, <3>1, KeyNamesCredit DEF LedgerInv
        <4> QED BY <2>2, <2>5, <3>1, <4>1 DEF Progress, IsCreditOf, BookedInTx
      <3>2. CASE to # "duplicate"
        BY <2>2, <2>5, <3>2, NoProgress DEF BookedInTx, BookedForGood
      <3> QED BY <3>1, <3>2
    <2> QED BY <2>2, <2>4, RestKeepsLedger
  <1>3. CASE PayBegin(r)
    <2>1. /\ Alone(r) /\ pc[r]' = "pay.insert" /\ cmd' = cmd /\ ledger' = ledger
          /\ tx'[r].ledger = {}
      BY <1>3, OpensAlone DEF PayBegin, Blank
    <2>2. Progress(r)'
      BY <2>1 DEF Progress, BookedInTx, BookedForGood
    <2> QED BY <2>1, <2>2, RestKeepsLedger
  <1>4. CASE PayEnqueue(r) \/ PayEntries(r)
    <2>1. /\ Alone(r) /\ pc[r] \in BookedForGood /\ pc[r]' \in BookedForGood
          /\ cmd' = cmd /\ ledger' = ledger /\ tx' = tx
      <3>1. CASE PayEnqueue(r)
        BY <3>1 DEF PayEnqueue, Goto, Alone, db, tables, Inv, SessionInv, SessionOK,
                    BookedForGood
      <3>2. CASE PayEntries(r)
        BY <3>2, ReadsAlone DEF PayEntries, BookedForGood
      <3> QED BY <1>4, <3>1, <3>2
    <2>2. \E e \in ledger : IsCreditOf(e, cmd[r])
      BY <1>0, <2>1 DEF LedgerInv, Progress
    <2>4. tx[r].ledger = {}
      BY <1>4 DEF PayEnqueue, PayEntries, LedgerInv, Progress, BookedInTx
    <2>3. Progress(r)'
      BY <2>1, <2>2, <2>4 DEF Progress, IsCreditOf, BookedInTx, BookedForGood
    <2> QED BY <2>1, <2>3, RestKeepsLedger
  <1> QED BY <1>1, <1>2, <1>3, <1>4

\* received and settled are written beside the entry, which stays.
LEMMA PayWritesEntry ==
  ASSUME Inv, NEW r \in Requests, PayReceive(r) \/ PaySettle(r)
  PROVE  /\ Alone(r) /\ cmd' = cmd /\ ledger' = ledger
         /\ pc[r] \in BookedInTx /\ pc[r]' \in BookedInTx
         /\ tx'[r].ledger = tx[r].ledger
  <1> DEFINE i == cmd[r].invoice
  <1>1. DOMAIN tx[r] = {"begun", "invoices", "vans", "ledger", "events"}
    BY DEF Inv, DatabaseInv, Sound, IsTransaction
  <1>2. CASE PayReceive(r)
    <2> DEFINE t == WithVan(tx[r], i, Received(VanRow(r, i), cmd[r].amount))
    <2>1. PICK to \in {"pay.settle", "pay.commit"} : Moves(r, to)
      BY <1>2 DEF PayReceive, Moves, Goto
    <2>2. Write(r, t) /\ pc[r] = "pay.receive"
      BY <1>2 DEF PayReceive
    <2>3. t.ledger = tx[r].ledger
      BY <1>1 DEF WithVan
    <2> HIDE DEF t
    <2> QED BY <2>1, <2>2, <2>3, MovesAlone, WriteAlone DEF Alone, BookedInTx
  <1>3. CASE PaySettle(r)
    <2> DEFINE v == WithVan(tx[r], i, [VanRow(r, i) EXCEPT !.status = "settled"])
               w == WithStatus(v, InvoiceRow(r, i), i, "REPAID")
               t == WithEvent(w, i, "invoice.repaid")
    <2>1. Moves(r, "pay.commitSettled") /\ Write(r, t) /\ pc[r] = "pay.settle"
      BY <1>3 DEF PaySettle
    <2>2. v.ledger = tx[r].ledger /\ DOMAIN v = DOMAIN tx[r]
      BY <1>1 DEF WithVan
    <2>3. w.ledger = v.ledger /\ DOMAIN w = DOMAIN v
      <3> HIDE DEF v
      <3> QED BY <1>1, <2>2 DEF WithStatus
    <2>4. t.ledger = w.ledger
      <3> HIDE DEF w
      <3> QED BY <1>1, <2>2, <2>3 DEF WithEvent
    <2> HIDE DEF t, w, v
    <2> QED BY <2>1, <2>2, <2>3, <2>4, MovesAlone, WriteAlone DEF Alone, BookedInTx
  <1> QED BY <1>2, <1>3

LEMMA PayWritesKeepLedger ==
  ASSUME Inv, LedgerInv, NEW r \in Requests,
         \/ PayInsert(r) \/ PayReceive(r) \/ PaySettle(r)
         \/ PayCommit(r) \/ PayCommitSettled(r)
  PROVE  LedgerInv'
  <1>0. cmd[r].op = "pay" /\ cmd[r] \in PayCmds
    <2>1. pc[r] \in Steps("pay")
      BY DEF PayInsert, PayReceive, PaySettle, PayCommit, PayCommitSettled, Commits, Steps
    <2>2. cmd[r].op = "pay" /\ cmd[r] \in Cmds
      BY <2>1, StepOfOp DEF Inv, SessionInv, Ops
    <2> QED BY <2>2 DEF Cmds, InvoiceCmds, CreateVanCmds, AssessCmds
  <1>1. CASE PayInsert(r)
    <2>1. CASE KeyTaken(cmd[r].key) /\ Rollback(r) /\ Moves(r, "duplicate")
      <3>1. /\ Alone(r) /\ pc[r]' = "duplicate" /\ cmd' = cmd /\ ledger' = ledger
            /\ tx'[r].ledger = {}
        BY <2>1, RollbackAlone, MovesAlone, NoTxBlank DEF Alone, Blank
      <3>2. \E e \in ledger : IsCreditOf(e, cmd[r])
        BY <1>0, <2>1, KeyNamesCredit DEF KeyTaken, LedgerInv
      <3>3. Progress(r)'
        BY <3>1, <3>2 DEF Progress, IsCreditOf, BookedInTx
      <3> QED BY <3>1, <3>3, RestKeepsLedger
    <2> DEFINE credit == Credit(tx[r], cmd[r])
    <2>2. CASE /\ KeyUncontended(r, cmd[r].key) /\ ~ KeyTaken(cmd[r].key)
               /\ Write(r, WithEntry(tx[r], credit)) /\ Moves(r, "pay.receive")
      <3>1. /\ Alone(r) /\ pc[r]' = "pay.receive" /\ cmd' = cmd /\ ledger' = ledger
            /\ tx'[r] = WithEntry(tx[r], credit)
        BY <2>2, WriteAlone, MovesAlone DEF Alone
      <3>2. credit.key = cmd[r].key /\ Genuine(credit) /\ IsCreditOf(credit, cmd[r])
        BY <1>0 DEF Credit, Genuine, IsCreditOf, PayCmds
      <3>3. tx[r].ledger = {}
        BY <1>1 DEF PayInsert, LedgerInv, Progress, BookedInTx
      <3>4. DOMAIN tx[r] = {"begun", "invoices", "vans", "ledger", "events"}
        BY DEF Inv, DatabaseInv, Sound, IsTransaction
      <3> HIDE DEF credit
      <3>5. tx'[r].ledger = {credit}
        BY <3>1, <3>3, <3>4 DEF WithEntry
      <3>6. Progress(r)'
        BY <3>1, <3>2, <3>5 DEF Progress, IsCreditOf, BookedInTx, BookedForGood
      <3> QED BY <2>2, <3>1, <3>2, <3>5, <3>6, InsertKeepsLedger
    <2> QED BY <1>1, <2>1, <2>2 DEF PayInsert
  <1>2. CASE PayReceive(r) \/ PaySettle(r)
    <2>1. /\ Alone(r) /\ cmd' = cmd /\ ledger' = ledger
          /\ pc[r] \in BookedInTx /\ pc[r]' \in BookedInTx
          /\ tx'[r].ledger = tx[r].ledger
      BY <1>2, PayWritesEntry
    <2>3. PICK e : tx[r].ledger = {e} /\ IsCreditOf(e, cmd[r])
      BY <2>1 DEF LedgerInv, Progress
    <2>2. Progress(r)'
      BY <2>1, <2>3 DEF Progress, IsCreditOf, BookedInTx, BookedForGood
    <2> QED BY <2>1, <2>2, RestKeepsLedger
  <1>3. CASE PayCommit(r) \/ PayCommitSettled(r)
    <2>1. /\ Alone(r) /\ pc[r] \in BookedInTx /\ cmd' = cmd /\ Commit(r) /\ tx'[r] = NoTx
          /\ pc[r]' \in {"pay.entries", "pay.enqueue", "error"}
      BY <1>3, CommitsAlone DEF PayCommit, PayCommitSettled, BookedInTx
    <2>2. ledger' = ledger \cup tx[r].ledger
      BY <2>1 DEF Commit
    <2>3. \E e \in tx[r].ledger : IsCreditOf(e, cmd[r])
      BY <2>1 DEF LedgerInv, Progress
    <2>4. \E e \in ledger' : IsCreditOf(e, cmd[r])
      BY <2>2, <2>3
    <2>5. Progress(r)'
      BY <2>1, <2>4, NoTxBlank DEF Progress, IsCreditOf, BookedInTx, Blank
    <2> QED BY <2>1, <2>5, CommitKeepsLedger
  <1> QED BY <1>1, <1>2, <1>3

-----------------------------------------------------------------------------
(* Requests come, fail, are answered, and die with the process *)

LEMMA ArriveKeepsLedger ==
  ASSUME Inv, LedgerInv, NEW r \in Requests, InvoiceArrive(r) \/ VanArrive(r) \/ RiskArrive(r)
  PROVE  LedgerInv'
  <1> DEFINE first == {"submit.find", "approve.find", "finance.find", "van.find", "pay.find",
                       "assess.find"}
  <1>1. PICK step \in first : \E c : Arrive(r, c, step)
    <2>1. CASE InvoiceArrive(r)
      <3>1. PICK c \in InvoiceCmds : Arrive(r, c, InvoiceFirstStep[c.op])
        BY <2>1 DEF InvoiceArrive
      <3>2. InvoiceFirstStep[c.op] \in first
        BY DEF InvoiceCmds, InvoiceFirstStep
      <3> QED BY <3>1, <3>2
    <2>2. CASE VanArrive(r) \/ RiskArrive(r)
      BY <2>2 DEF VanArrive, RiskArrive
    <2> QED BY <2>1, <2>2
  <1>2. PICK c : Arrive(r, c, step)
    BY <1>1
  <1>3. /\ Alone(r) /\ pc[r]' = step /\ ledger' = ledger /\ tx' = tx
    BY <1>2 DEF Arrive, Goto, Alone, db, tables, Inv, SessionInv, SessionOK
  <1>4. tx[r].ledger = {}
    BY <1>2 DEF Arrive, LedgerInv, Progress, BookedInTx
  <1>5. Progress(r)'
    BY <1>3, <1>4 DEF Progress, BookedInTx, BookedForGood
  <1> QED BY <1>3, <1>5, RestKeepsLedger

LEMMA FailKeepsLedger ==
  ASSUME Inv, LedgerInv, NEW r \in Requests, Fail(r)
  PROVE  LedgerInv'
  <1>1. /\ Alone(r) /\ pc[r]' = "error" /\ ledger' = ledger /\ tx'[r].ledger = {}
    BY RollbackAlone, MovesAlone, NoTxBlank DEF Fail, Alone, Blank
  <1>2. Progress(r)'
    BY <1>1 DEF Progress, BookedInTx, BookedForGood
  <1> QED BY <1>1, <1>2, RestKeepsLedger

LEMMA RespondKeepsLedger ==
  ASSUME Inv, LedgerInv, NEW r \in Requests, Respond(r)
  PROVE  LedgerInv'
  <1>1. /\ Alone(r) /\ pc[r]' = "idle" /\ ledger' = ledger /\ tx' = tx
    BY DEF Respond, Goto, Alone, db, tables, Inv, SessionInv, SessionOK
  <1>3. tx[r].ledger = {}
    BY DEF Respond, Answers, LedgerInv, Progress, BookedInTx
  <1>2. Progress(r)'
    BY <1>1, <1>3 DEF Progress, BookedInTx, BookedForGood
  <1> QED BY <1>1, <1>2, RestKeepsLedger

LEMMA CrashKeepsLedger ==
  ASSUME Inv, LedgerInv, Crash
  PROVE  LedgerInv'
  <1>1. /\ ledger' = ledger /\ \A s \in Requests : tx'[s].ledger = {} /\ pc'[s] = "idle"
    BY NoTxBlank DEF Crash, RollbackAll, tables, Blank
  <1>2. (KeysOnce /\ AllGenuine)'
    BY <1>1, RestKeepsEntries DEF LedgerInv
  <1>3. (\A s \in Requests : Progress(s))'
    BY <1>1 DEF Progress, BookedInTx, BookedForGood
  <1> QED BY <1>2, <1>3 DEF LedgerInv

-----------------------------------------------------------------------------
(* The theorems *)

LEMMA InitLedger == Init => LedgerInv
  <1> SUFFICES ASSUME Init PROVE LedgerInv
    OBVIOUS
  <1>1. ledger = {} /\ \A r \in Requests : tx[r].ledger = {} /\ pc[r] = "idle"
    BY NoTxBlank DEF Init, ServerInit, DatabaseInit, Blank
  <1>2. KeysOnce /\ AllGenuine
    BY <1>1 DEF KeysOnce, BookedOnce, AllGenuine
  <1>3. \A r \in Requests : Progress(r)
    BY <1>1 DEF Progress, BookedInTx, BookedForGood
  <1> QED BY <1>2, <1>3 DEF LedgerInv

LEMMA NextLedger == Inv /\ LedgerInv /\ [Next]_vars => LedgerInv'
  <1> SUFFICES ASSUME Inv, LedgerInv, [Next]_vars PROVE LedgerInv'
    OBVIOUS
  <1>1. ASSUME NEW r \in Requests, InvoiceArrive(r) \/ VanArrive(r) \/ RiskArrive(r)
        PROVE  LedgerInv'
    BY <1>1, ArriveKeepsLedger
  <1>2. ASSUME NEW r \in Requests, InvoiceStep(r) \/ RiskStep(r)
        PROVE  LedgerInv'
    BY <1>2, OtherServices, ElsewhereKeepsLedger
  <1>3. ASSUME NEW r \in Requests, VanStep(r)
        PROVE  LedgerInv'
    BY <1>3, CreateVanKeepsLedger, PayReadsKeepLedger, PayWritesKeepLedger DEF VanStep
  <1>4. ASSUME NEW r \in Requests, Fail(r)
        PROVE  LedgerInv'
    BY <1>4, FailKeepsLedger
  <1>5. ASSUME NEW r \in Requests, Respond(r)
        PROVE  LedgerInv'
    BY <1>5, RespondKeepsLedger
  <1>6. CASE Crash
    BY <1>6, CrashKeepsLedger
  <1>7. CASE UNCHANGED vars
    <2>1. UNCHANGED <<ledger, tx, pc, cmd>>
      BY <1>7 DEF vars, db, tables, session
    <2>2. (KeysOnce /\ AllGenuine)'
      BY <2>1, RestKeepsEntries DEF LedgerInv
    <2>3. (\A s \in Requests : Progress(s))'
      BY <2>1 DEF LedgerInv, Progress, IsCreditOf, IsDebitOf
    <2> QED BY <2>2, <2>3 DEF LedgerInv
  <1> QED BY <1>1, <1>2, <1>3, <1>4, <1>5, <1>6, <1>7 DEF Next, ServiceStep

LEMMA LedgerInvariance == Spec => []LedgerInv
  <1>1. Init => LedgerInv
    BY InitLedger
  <1>2. Inv /\ LedgerInv /\ [Next]_vars => LedgerInv'
    BY NextLedger
  <1> QED BY <1>1, <1>2, Invariance, PTL DEF Spec

\* However often the bank delivers a notice, and however the deliveries race,
\* fail or die half way, the ledger has one entry for a key: recordPayment and
\* createVan insert under ledger_entries' UNIQUE idempotency_key.
THEOREM PaymentBookedOnce == Spec => []BookedOnce
  <1>1. LedgerInv => BookedOnce
    BY DEF LedgerInv, KeysOnce
  <1> QED BY <1>1, LedgerInvariance, PTL

\* Every answer of 200 to the bank, of a success as of a duplicate found by
\* either layer of recordPayment, stands for a committed credit of that amount
\* to that account: a duplicate is never told of an entry that can still roll back.
THEOREM PaymentAcknowledgedIsBooked == Spec => []AcknowledgedIsBooked
  <1>1. LedgerInv => AcknowledgedIsBooked
    BY DEF LedgerInv, Progress, IsCreditOf, BookedForGood, AcknowledgedIsBooked
  <1> QED BY <1>1, LedgerInvariance, PTL

-----------------------------------------------------------------------------
(* Logs, as a financier reads them *)

Approved(log) == \E n \in DOMAIN log : log[n].type = "invoice.buyer_approved"
Financed(log) == \E n \in DOMAIN log : log[n].type = "invoice.financing_requested"
Secured(log) ==
  \A n \in DOMAIN log :
    log[n].type = "invoice.financing_requested" =>
      \E m \in 1 .. n - 1 : log[m].type = "invoice.buyer_approved"

LEMMA AppendApproval ==
  ASSUME NEW log \in Seq(Events), NEW e \in Events
  PROVE  /\ Approved(Append(log, e)) => Approved(log) \/ e.type = "invoice.buyer_approved"
         /\ e.type = "invoice.buyer_approved" => Approved(Append(log, e))
         /\ Financed(Append(log, e)) => Financed(log) \/ e.type = "invoice.financing_requested"
  <1> DEFINE both == Append(log, e)
             n == Len(log) + 1
  <1>1. /\ Len(log) \in Nat /\ DOMAIN log = 1 .. Len(log) /\ DOMAIN both = 1 .. n
        /\ both[n] = e /\ \A m \in 1 .. Len(log) : both[m] = log[m]
        /\ n \in 1 .. n /\ \A m \in 1 .. n : m = n \/ m \in 1 .. Len(log)
    OBVIOUS
  <1> HIDE DEF both, n
  <1>2. /\ Approved(both) => Approved(log) \/ e.type = "invoice.buyer_approved"
        /\ e.type = "invoice.buyer_approved" => Approved(both)
    BY <1>1 DEF Approved
  <1>3. Financed(both) => Financed(log) \/ e.type = "invoice.financing_requested"
    BY <1>1 DEF Financed
  <1> QED BY <1>2, <1>3 DEF both

LEMMA ConcatApproval ==
  ASSUME NEW a \in Seq(Events), NEW b \in Seq(Events), NEW both, both = a \o b
  PROVE  /\ Approved(both) <=> Approved(a) \/ Approved(b)
         /\ Secured(a) /\ (Financed(b) => Approved(a)) => Secured(both)
  <1>1. /\ Len(a) \in Nat /\ Len(b) \in Nat
        /\ DOMAIN a = 1 .. Len(a) /\ DOMAIN b = 1 .. Len(b)
        /\ DOMAIN both = 1 .. Len(a) + Len(b)
        /\ \A m \in 1 .. Len(a) : both[m] = a[m]
        /\ \A m \in 1 .. Len(b) : both[Len(a) + m] = b[m]
    OBVIOUS
  <1>2. \A m \in DOMAIN both :
          \/ m \in DOMAIN a /\ both[m] = a[m]
          \/ m - Len(a) \in DOMAIN b /\ both[m] = b[m - Len(a)] /\ m > Len(a)
    <2> TAKE m \in DOMAIN both
    <2>1. CASE m <= Len(a)
      BY <1>1, <2>1
    <2>2. CASE ~ (m <= Len(a))
      <3>1. m - Len(a) \in 1 .. Len(b) /\ m = Len(a) + (m - Len(a)) /\ m > Len(a)
        BY <1>1, <2>2
      <3> QED BY <1>1, <3>1
    <2> QED BY <2>1, <2>2
  <1>3. \A m \in DOMAIN a : m \in DOMAIN both /\ both[m] = a[m]
    BY <1>1
  <1>4. \A m \in DOMAIN b : Len(a) + m \in DOMAIN both /\ both[Len(a) + m] = b[m]
    BY <1>1
  <1>5. Approved(both) <=> Approved(a) \/ Approved(b)
    <2>1. ASSUME Approved(both) PROVE Approved(a) \/ Approved(b)
      <3>1. PICK m \in DOMAIN both : both[m].type = "invoice.buyer_approved"
        BY <2>1 DEF Approved
      <3>2. CASE m \in DOMAIN a /\ both[m] = a[m]
        BY <3>1, <3>2 DEF Approved
      <3>3. CASE m - Len(a) \in DOMAIN b /\ both[m] = b[m - Len(a)]
        BY <3>1, <3>3 DEF Approved
      <3> QED BY <1>2, <3>2, <3>3
    <2>2. ASSUME Approved(a) PROVE Approved(both)
      BY <1>3, <2>2 DEF Approved
    <2>3. ASSUME Approved(b) PROVE Approved(both)
      <3>1. PICK m \in DOMAIN b : b[m].type = "invoice.buyer_approved"
        BY <2>3 DEF Approved
      <3>2. Len(a) + m \in DOMAIN both /\ both[Len(a) + m] = b[m]
        BY <1>4
      <3> QED BY <3>1, <3>2 DEF Approved
    <2> QED BY <2>1, <2>2, <2>3
  <1>6. ASSUME Secured(a), Financed(b) => Approved(a) PROVE Secured(both)
    <2> SUFFICES ASSUME NEW n \in DOMAIN both, both[n].type = "invoice.financing_requested"
                 PROVE  \E m \in 1 .. n - 1 : both[m].type = "invoice.buyer_approved"
      BY DEF Secured
    <2>1. CASE n \in DOMAIN a /\ both[n] = a[n]
      <3>1. PICK m \in 1 .. n - 1 : a[m].type = "invoice.buyer_approved"
        BY <1>6, <2>1 DEF Secured
      <3>2. both[m] = a[m]
        BY <1>1, <2>1, <3>1
      <3> QED BY <3>1, <3>2
    <2>2. CASE n - Len(a) \in DOMAIN b /\ both[n] = b[n - Len(a)] /\ n > Len(a)
      <3>1. Approved(a)
        BY <1>6, <2>2 DEF Financed
      <3>2. PICK m \in DOMAIN a : a[m].type = "invoice.buyer_approved"
        BY <3>1 DEF Approved
      <3>3. m \in 1 .. n - 1 /\ both[m] = a[m]
        BY <1>1, <2>2
      <3> QED BY <3>2, <3>3
    <2> QED BY <1>2, <2>1, <2>2
  <1> QED BY <1>5, <1>6

-----------------------------------------------------------------------------
(***************************************************************************)
(* The inductive invariant of the collateral.  An approval and the         *)
(* signature it leaves are committed together; what keeps the signature is *)
(* that every later version of the row is a copy of the committed one,     *)
(* made under its lock.  A financing request rests on a status read        *)
(* without a lock, and is right all the same: an approval that was         *)
(* committed once stays in the log.                                        *)
(***************************************************************************)

InvoiceLocks ==
  \A r, s \in Requests : r # s => DOMAIN tx[r].invoices \cap DOMAIN tx[s].invoices = {}

\* A row a transaction has written bears the signature, if the committed row or an
\* approval in its own log says so; and it finances only what was approved before.
Signs(r) ==
  LET t == tx[r] IN
  \A i \in Invoices :
    /\ i \in DOMAIN t.invoices /\ invoices[i].signed => t.invoices[i].signed
    /\ Approved(t.events[i]) => i \in DOMAIN t.invoices /\ t.invoices[i].signed
    /\ Financed(t.events[i]) => Approved(events[i])

Backed(i) ==
  /\ Approved(events[i]) => i \in DOMAIN invoices /\ invoices[i].signed
  /\ Secured(events[i])

Financing == {"finance.begin", "finance.update", "finance.commit"}

\* What a request that has found its invoice fit, or has approved it, can rely on.
Evidence(r) ==
  LET i == cmd[r].invoice IN
  /\ pc[r] \in Financing \cup {"approve.notify"} => Approved(events[i])
  /\ pc[r] = "approve.commit" => Approved(tx[r].events[i])
  /\ pc[r] = "ok" /\ cmd[r].op = "approve" /\ i \in WithEmail => ApprovedJob(i) \in jobs

\* The jobs of approvals tell of approvals.
ToldOnce == \A i \in Invoices : ApprovedJob(i) \in jobs => Approved(events[i])

CollateralInv ==
  /\ InvoiceLocks
  /\ \A r \in Requests : Signs(r) /\ Evidence(r)
  /\ \A i \in Invoices : Backed(i)
  /\ ToldOnce

-----------------------------------------------------------------------------
(* What a step does to rows and logs *)

\* The transaction of r writes rows under their locks and keeps their signature; it
\* logs an approval beside a signed row, and finances what has been approved.
Careful(r) ==
  LET t == tx[r]
      u == tx'[r]
  IN
  /\ DOMAIN t.invoices \subseteq DOMAIN u.invoices
  /\ \A i \in DOMAIN u.invoices :
       /\ i \notin DOMAIN t.invoices => InvoiceUnlocked(r, i)
       /\ InvoiceRow(r, i).signed => u.invoices[i].signed
  /\ \A i \in Invoices :
       \/ u.events[i] = t.events[i]
       \/ \E e \in Events :
            /\ u.events[i] = Append(t.events[i], e)
            /\ e.type = "invoice.buyer_approved" => i \in DOMAIN u.invoices /\ u.invoices[i].signed
            /\ e.type = "invoice.financing_requested" => Approved(events[i])

Bare(t) == t.invoices = NoRows /\ \A i \in Invoices : t.events[i] = <<>>

\* A step of r leaves the tables alone, commits, or inserts a draft.
Touches(r) ==
  /\ Alone(r)
  /\ \/ invoices' = invoices /\ events' = events /\ (Careful(r) \/ Bare(tx'[r]))
     \/ Commit(r) /\ tx'[r] = NoTx
     \/ \E i \in Invoices \ DOMAIN invoices :
          /\ invoices' = Over(Row(i, [status |-> "DRAFT", signed |-> FALSE]), invoices)
          /\ events' = events /\ tx' = tx

\* What every step keeps, whosever it is.
Kept ==
  /\ InvoiceLocks'
  /\ \A s \in Requests : Signs(s)'
  /\ \A i \in Invoices : Backed(i)' /\ (Approved(events[i]) => Approved(events'[i]))

LEMMA BareSigns ==
  ASSUME NEW s \in Requests, Bare(tx'[s])
  PROVE  Signs(s)' /\ DOMAIN tx'[s].invoices = {}
  BY DEF Bare, Signs, NoRows, Approved, Financed

LEMMA SeenRow ==
  ASSUME NEW r \in Requests, NEW i
  PROVE  InvoiceRow(r, i) =
           IF i \in DOMAIN tx[r].invoices THEN tx[r].invoices[i]
           ELSE IF i \in DOMAIN invoices THEN invoices[i] ELSE InvoiceRow(r, i)
  BY DEF InvoiceRow, Over

LEMMA CarefulKeeps ==
  ASSUME Inv, Inv', CollateralInv, NEW r \in Requests, Alone(r),
         invoices' = invoices, events' = events, Careful(r) \/ Bare(tx'[r])
  PROVE  Kept
  <1>1. ASSUME NEW s \in Requests, s # r PROVE Signs(s)' /\ tx'[s] = tx[s]
    <2>1. Signs(s) /\ tx'[s] = tx[s]
      BY <1>1 DEF CollateralInv, Alone
    <2> QED BY <2>1 DEF Signs
  <1>2. CASE Bare(tx'[r])
    <2>1. Signs(r)' /\ DOMAIN tx'[r].invoices = {}
      BY <1>2, BareSigns
    <2>2. InvoiceLocks'
      BY <1>1, <2>1 DEF CollateralInv, InvoiceLocks
    <2> QED BY <1>1, <2>1, <2>2 DEF Kept, CollateralInv, Backed
  <1>3. CASE Careful(r)
    <2>1. InvoiceLocks'
      <3>1. ASSUME NEW s \in Requests, s # r
            PROVE  DOMAIN tx'[r].invoices \cap DOMAIN tx'[s].invoices = {}
        BY <1>1, <1>3, <3>1 DEF Careful, InvoiceUnlocked, CollateralInv, InvoiceLocks
      <3> QED BY <1>1, <3>1 DEF CollateralInv, InvoiceLocks
    <2>2. ASSUME NEW i \in Invoices
          PROVE  /\ i \in DOMAIN tx'[r].invoices /\ invoices[i].signed => tx'[r].invoices[i].signed
                 /\ Approved(tx'[r].events[i]) =>
                      i \in DOMAIN tx'[r].invoices /\ tx'[r].invoices[i].signed
                 /\ Financed(tx'[r].events[i]) => Approved(events[i])
      <3> DEFINE t == tx[r]
                 u == tx'[r]
      <3>1. /\ i \in DOMAIN t.invoices /\ invoices[i].signed => t.invoices[i].signed
            /\ Approved(t.events[i]) => i \in DOMAIN t.invoices /\ t.invoices[i].signed
            /\ Financed(t.events[i]) => Approved(events[i])
        BY DEF CollateralInv, Signs
      <3>2. i \in DOMAIN u.invoices => i \in DOMAIN invoices
        BY DEF Inv, DatabaseInv, Sound
      <3>3. i \in DOMAIN u.invoices /\ invoices[i].signed => u.invoices[i].signed
        BY <1>3, <3>1, <3>2, SeenRow DEF Careful
      <3>4. Approved(t.events[i]) => i \in DOMAIN u.invoices /\ u.invoices[i].signed
        BY <1>3, <3>1, SeenRow DEF Careful
      <3>5. t.events[i] \in Seq(Events)
        BY DEF Inv, DatabaseInv, Sound, IsTransaction
      <3>6. CASE u.events[i] = t.events[i]
        BY <3>1, <3>3, <3>4, <3>6
      <3>7. CASE u.events[i] # t.events[i]
        <4>1. PICK e \in Events :
                /\ u.events[i] = Append(t.events[i], e)
                /\ e.type = "invoice.buyer_approved" =>
                     i \in DOMAIN u.invoices /\ u.invoices[i].signed
                /\ e.type = "invoice.financing_requested" => Approved(events[i])
          BY <1>3, <3>7 DEF Careful
        <4>2. /\ Approved(u.events[i]) =>
                   Approved(t.events[i]) \/ e.type = "invoice.buyer_approved"
              /\ Financed(u.events[i]) =>
                   Financed(t.events[i]) \/ e.type = "invoice.financing_requested"
          BY <3>5, <4>1, AppendApproval
        <4> QED BY <3>1, <3>3, <3>4, <4>1, <4>2
      <3> QED BY <3>6, <3>7
    <2>3. Signs(r)'
      BY <2>2 DEF Signs
    <2> QED BY <1>1, <2>1, <2>3 DEF Kept, CollateralInv, Backed
  <1> QED BY <1>2, <1>3

LEMMA CommitKeepsCollateral ==
  ASSUME Inv, CollateralInv, NEW r \in Requests, Alone(r), Commit(r), tx'[r] = NoTx
  PROVE  Kept
  <1> DEFINE t == tx[r]
  <1>1. Sound(t) /\ t.events \in [Invoices -> Seq(Events)] /\ events \in [Invoices -> Seq(Events)]
    BY DEF Inv, DatabaseInv, DatabaseOK, Sound, IsTransaction
  <1>2. /\ DOMAIN invoices' = DOMAIN invoices
        /\ \A i \in DOMAIN invoices :
             invoices'[i] = IF i \in DOMAIN t.invoices THEN t.invoices[i] ELSE invoices[i]
    BY <1>1 DEF Commit, Over, Sound
  <1>3. ASSUME NEW i \in Invoices
        PROVE  /\ Approved(events'[i]) <=> Approved(events[i]) \/ Approved(t.events[i])
               /\ Secured(events'[i])
    <2>1. events'[i] = events[i] \o t.events[i] /\ events[i] \in Seq(Events)
          /\ t.events[i] \in Seq(Events)
      BY <1>1 DEF Commit
    <2>2. Secured(events[i]) /\ (Financed(t.events[i]) => Approved(events[i]))
      BY DEF CollateralInv, Backed, Signs
    <2> QED BY <2>1, <2>2, ConcatApproval
  <1>4. ASSUME NEW i \in Invoices PROVE Backed(i)'
    <2>1. /\ i \in DOMAIN t.invoices /\ invoices[i].signed => t.invoices[i].signed
          /\ Approved(t.events[i]) => i \in DOMAIN t.invoices /\ t.invoices[i].signed
          /\ Approved(events[i]) => i \in DOMAIN invoices /\ invoices[i].signed
      BY DEF CollateralInv, Signs, Backed
    <2>2. DOMAIN t.invoices \subseteq DOMAIN invoices
      BY <1>1 DEF Sound
    <2>3. Approved(events'[i]) => i \in DOMAIN invoices' /\ invoices'[i].signed
      BY <1>2, <1>3, <2>1, <2>2
    <2> QED BY <1>3, <2>3 DEF Backed
  <1>5. Signs(r)' /\ DOMAIN tx'[r].invoices = {}
    <2>1. Bare(NoTx)
      BY DEF Bare, NoTx
    <2> QED BY <2>1, BareSigns
  <1>6. ASSUME NEW s \in Requests, s # r PROVE Signs(s)'
    <2>1. tx'[s] = tx[s] /\ DOMAIN tx[s].invoices \subseteq DOMAIN invoices
      BY <1>6 DEF Alone, Inv, DatabaseInv, Sound
    <2>2. \A i \in DOMAIN tx[s].invoices : invoices'[i] = invoices[i]
      BY <1>2, <1>6, <2>1 DEF CollateralInv, InvoiceLocks
    <2>3. Signs(s)
      BY DEF CollateralInv
    <2> QED BY <1>3, <2>1, <2>2, <2>3 DEF Signs
  <1>7. InvoiceLocks'
    BY <1>5 DEF CollateralInv, InvoiceLocks, Alone
  <1> QED BY <1>3, <1>4, <1>5, <1>6, <1>7 DEF Kept

LEMMA DraftKeepsCollateral ==
  ASSUME Inv, CollateralInv, NEW i \in Invoices \ DOMAIN invoices,
         invoices' = Over(Row(i, [status |-> "DRAFT", signed |-> FALSE]), invoices),
         events' = events, tx' = tx
  PROVE  Kept
  <1>1. /\ DOMAIN invoices \subseteq DOMAIN invoices'
        /\ \A j \in DOMAIN invoices : invoices'[j] = invoices[j]
    BY DEF Over, Row
  <1>2. ASSUME NEW s \in Requests PROVE Signs(s)'
    <2>1. Signs(s) /\ DOMAIN tx[s].invoices \subseteq DOMAIN invoices
      BY DEF CollateralInv, Inv, DatabaseInv, Sound
    <2> QED BY <1>1, <2>1 DEF Signs
  <1>3. ASSUME NEW j \in Invoices PROVE Backed(j)'
    BY <1>1 DEF CollateralInv, Backed
  <1>4. InvoiceLocks'
    BY DEF CollateralInv, InvoiceLocks
  <1> QED BY <1>2, <1>3, <1>4 DEF Kept

LEMMA TouchesKeep ==
  ASSUME Inv, Inv', CollateralInv, NEW r \in Requests, Touches(r)
  PROVE  Kept
  BY CarefulKeeps, CommitKeepsCollateral, DraftKeepsCollateral DEF Touches

\* A step of r that touches the database like this, and adds no job but those of
\* approvals that have been committed.
LEMMA StepKeepsCollateral ==
  ASSUME Inv, Inv', CollateralInv, NEW r \in Requests, Touches(r), Evidence(r)',
         jobs \subseteq jobs',
         \A i \in Invoices :
           ApprovedJob(i) \in jobs' => ApprovedJob(i) \in jobs \/ Approved(events[i])
  PROVE  CollateralInv'
  <1>1. Kept
    BY TouchesKeep
  <1>2. ASSUME NEW s \in Requests, s # r PROVE Evidence(s)'
    <2>1. pc'[s] = pc[s] /\ cmd'[s] = cmd[s] /\ tx'[s] = tx[s] /\ Evidence(s)
      BY <1>2 DEF Touches, Alone, CollateralInv
    <2>2. pc[s] \in Steps("finance") \cup Steps("approve") => cmd[s].invoice \in Invoices
      BY StepOfOp, CommandFields DEF Inv, SessionInv, Ops
    <2>3. pc[s] \in Financing \cup {"approve.notify"} => cmd[s].invoice \in Invoices
      BY <2>2 DEF Financing, Steps
    <2>4. pc[s] \in Financing \cup {"approve.notify"} => Approved(events'[cmd[s].invoice])
      BY <1>1, <2>1, <2>3 DEF Evidence, Kept
    <2> QED BY <2>1, <2>4 DEF Evidence
  <1>3. ToldOnce'
    BY <1>1 DEF CollateralInv, ToldOnce, Kept
  <1> QED BY <1>1, <1>2, <1>3 DEF CollateralInv, Kept

LEMMA NoEvidence ==
  ASSUME Inv', NEW r \in Requests, cmd'[r].op \notin {"approve", "finance"}
  PROVE  Evidence(r)'
  <1>1. /\ pc'[r] \in Steps(cmd'[r].op) \cup {"idle"} \cup Answers
        /\ cmd'[r] \in Cmds \cup {NoCmd}
    BY DEF Inv, SessionInv, SessionOK
  <1>2. cmd'[r].op \in Ops \cup {"none"}
    BY <1>1, CommandFields DEF NoCmd
  <1>3. pc'[r] \notin Financing \cup {"approve.notify", "approve.commit"}
    BY <1>1, <1>2 DEF Ops, Steps, Financing, Answers
  <1> QED BY <1>3 DEF Evidence

-----------------------------------------------------------------------------
(* What the statements of the services do to a row and its log *)

\* A read, or a statement about an account.
LEMMA RestIsCareful ==
  ASSUME NEW r \in Requests, tx'[r].invoices = tx[r].invoices, tx'[r].events = tx[r].events
  PROVE  Careful(r)
  <1>1. \A i \in DOMAIN tx[r].invoices : InvoiceRow(r, i) = tx[r].invoices[i]
    BY DEF InvoiceRow, Over
  <1> QED BY <1>1 DEF Careful

\* An event that leaves the row alone.
LEMMA EventIsCareful ==
  ASSUME NEW r \in Requests, NEW i \in Invoices, NEW e \in Events,
         tx'[r].invoices = tx[r].invoices,
         \A j \in Invoices \ {i} : tx'[r].events[j] = tx[r].events[j],
         tx'[r].events[i] = Append(tx[r].events[i], e),
         e.type \notin {"invoice.buyer_approved", "invoice.financing_requested"}
  PROVE  Careful(r)
  <1>1. \A j \in DOMAIN tx[r].invoices : InvoiceRow(r, j) = tx[r].invoices[j]
    BY DEF InvoiceRow, Over
  <1> QED BY <1>1 DEF Careful

\* A status on a row nobody else has locked, and the event that names it.
LEMMA StatusIsCareful ==
  ASSUME NEW r \in Requests, NEW i \in Invoices, NEW e \in Events, InvoiceUnlocked(r, i),
         DOMAIN tx'[r].invoices = DOMAIN tx[r].invoices \cup {i},
         \A j \in DOMAIN tx[r].invoices \ {i} : tx'[r].invoices[j] = tx[r].invoices[j],
         InvoiceRow(r, i).signed => tx'[r].invoices[i].signed,
         \A j \in Invoices \ {i} : tx'[r].events[j] = tx[r].events[j],
         tx'[r].events[i] = Append(tx[r].events[i], e),
         e.type = "invoice.buyer_approved" => tx'[r].invoices[i].signed,
         e.type = "invoice.financing_requested" => Approved(events[i])
  PROVE  Careful(r)
  <1>1. \A j \in DOMAIN tx[r].invoices : InvoiceRow(r, j) = tx[r].invoices[j]
    BY DEF InvoiceRow, Over
  <1>2. ASSUME NEW j \in DOMAIN tx'[r].invoices
        PROVE  /\ j \notin DOMAIN tx[r].invoices => InvoiceUnlocked(r, j)
               /\ InvoiceRow(r, j).signed => tx'[r].invoices[j].signed
    BY <1>1
  <1>3. ASSUME NEW j \in Invoices
        PROVE  \/ tx'[r].events[j] = tx[r].events[j]
               \/ \E f \in Events :
                    /\ tx'[r].events[j] = Append(tx[r].events[j], f)
                    /\ f.type = "invoice.buyer_approved" =>
                         j \in DOMAIN tx'[r].invoices /\ tx'[r].invoices[j].signed
                    /\ f.type = "invoice.financing_requested" => Approved(events[j])
    BY DEF Events
  <1> QED BY <1>2, <1>3 DEF Careful

LEMMA LogsEvent ==
  ASSUME NEW t, IsTransaction(t), NEW i \in Invoices, NEW type \in EventTypes
  PROVE  \E e \in Events :
           e.type = type /\ WithEvent(t, i, type).events[i] = Append(t.events[i], e)
  BY WithEventOK

LEMMA EventWriteCareful ==
  ASSUME NEW r \in Requests, NEW i \in Invoices,
         NEW t, IsTransaction(t), t.invoices = tx[r].invoices, t.events = tx[r].events,
         NEW type \in EventTypes,
         type \notin {"invoice.buyer_approved", "invoice.financing_requested"},
         tx'[r] = WithEvent(t, i, type)
  PROVE  Careful(r)
  <1>1. /\ tx'[r].invoices = tx[r].invoices
        /\ \A j \in Invoices \ {i} : tx'[r].events[j] = tx[r].events[j]
    BY WithEventOK
  <1>2. PICK e \in Events : e.type = type /\ tx'[r].events[i] = Append(t.events[i], e)
    BY LogsEvent
  <1> QED BY <1>1, <1>2, EventIsCareful

\* updateStatus and append, on a row version t already holds or not.
LEMMA StatusThenEventCareful ==
  ASSUME NEW r \in Requests, NEW i \in Invoices, InvoiceUnlocked(r, i),
         NEW t, IsTransaction(t), t.invoices = tx[r].invoices, t.events = tx[r].events,
         NEW row \in InvoiceRows, InvoiceRow(r, i).signed => row.signed,
         NEW status \in Statuses, NEW type \in EventTypes,
         type = "invoice.buyer_approved" => row.signed,
         type = "invoice.financing_requested" => Approved(events[i]),
         tx'[r] = WithEvent(WithStatus(t, row, i, status), i, type)
  PROVE  /\ Careful(r)
         /\ type = "invoice.buyer_approved" => Approved(tx'[r].events[i])
  <1> DEFINE v == WithStatus(t, row, i, status)
  <1>1. /\ IsTransaction(v)
        /\ DOMAIN v.invoices = DOMAIN t.invoices \cup {i}
        /\ v.invoices[i].signed = row.signed
        /\ \A j \in DOMAIN t.invoices \ {i} : v.invoices[j] = t.invoices[j]
        /\ v.events = t.events
    BY WithStatusOK
  <1>2. tx'[r] = WithEvent(v, i, type)
    OBVIOUS
  <1> HIDE DEF v
  <1>3. PICK u : u = WithEvent(v, i, type)
    OBVIOUS
  <1>4. /\ u.invoices = v.invoices
        /\ \A j \in Invoices \ {i} : u.events[j] = v.events[j]
    BY <1>1, <1>3, WithEventOK
  <1>5. PICK e \in Events : e.type = type /\ u.events[i] = Append(v.events[i], e)
    <2>1. \E e \in Events :
            e.type = type /\ WithEvent(v, i, type).events[i] = Append(v.events[i], e)
      BY <1>1, LogsEvent
    <2> QED BY <1>3, <2>1
  <1>6. tx'[r] = u
    BY <1>2, <1>3
  <1>7. Careful(r)
    BY <1>1, <1>4, <1>5, <1>6, StatusIsCareful
  <1>8. v.events[i] \in Seq(Events)
    BY <1>1 DEF IsTransaction
  <1>9. type = "invoice.buyer_approved" => Approved(u.events[i])
    BY <1>5, <1>8, AppendApproval
  <1> QED BY <1>6, <1>7, <1>9

\* The order of assessAndRecord.
LEMMA EventThenStatusCareful ==
  ASSUME NEW r \in Requests, NEW i \in Invoices, InvoiceUnlocked(r, i),
         IsTransaction(tx[r]), InvoiceRow(r, i) \in InvoiceRows,
         NEW status \in Statuses, NEW type \in EventTypes,
         type \notin {"invoice.buyer_approved", "invoice.financing_requested"},
         tx'[r] = WithStatus(WithEvent(tx[r], i, type), InvoiceRow(r, i), i, status)
  PROVE  Careful(r)
  <1> DEFINE v == WithEvent(tx[r], i, type)
  <1>1. IsTransaction(v) /\ v.invoices = tx[r].invoices
        /\ \A j \in Invoices \ {i} : v.events[j] = tx[r].events[j]
    BY WithEventOK
  <1>2. PICK e \in Events : e.type = type /\ v.events[i] = Append(tx[r].events[i], e)
    BY WithEventOK
  <1>3. tx'[r] = WithStatus(v, InvoiceRow(r, i), i, status)
    OBVIOUS
  <1> HIDE DEF v
  <1>4. PICK u : u = WithStatus(v, InvoiceRow(r, i), i, status)
    OBVIOUS
  <1>5. /\ DOMAIN u.invoices = DOMAIN v.invoices \cup {i}
        /\ u.invoices[i].signed = InvoiceRow(r, i).signed
        /\ \A j \in DOMAIN v.invoices \ {i} : u.invoices[j] = v.invoices[j]
        /\ u.events = v.events
    BY <1>1, <1>4, WithStatusOK
  <1>6. tx'[r] = u
    BY <1>3, <1>4
  <1> QED BY <1>1, <1>2, <1>5, <1>6, StatusIsCareful

-----------------------------------------------------------------------------
(* The steps every operation has *)

LEMMA ReadKeepsCollateral ==
  ASSUME Inv, Inv', CollateralInv, NEW r \in Requests, NEW to, Reads(r, to), Evidence(r)'
  PROVE  CollateralInv'
  <1>1. /\ Alone(r) /\ invoices' = invoices /\ events' = events /\ tx' = tx /\ jobs' = jobs
    BY ReadsAlone DEF Reads, Moves
  <1>2. Careful(r)
    BY <1>1, RestIsCareful
  <1>3. Touches(r)
    BY <1>1, <1>2 DEF Touches
  <1> QED BY <1>1, <1>3, StepKeepsCollateral

LEMMA OpenKeepsCollateral ==
  ASSUME Inv, Inv', CollateralInv, NEW r \in Requests, NEW from, NEW to,
         Opens(r, from, to), Evidence(r)'
  PROVE  CollateralInv'
  <1>1. /\ Alone(r) /\ invoices' = invoices /\ events' = events /\ jobs' = jobs
        /\ Bare(tx'[r])
    BY OpensAlone DEF Opens, Moves, Blank, Bare
  <1>2. Touches(r)
    BY <1>1 DEF Touches
  <1> QED BY <1>1, <1>2, StepKeepsCollateral

LEMMA EndKeepsCollateral ==
  ASSUME Inv, Inv', CollateralInv, NEW r \in Requests, NEW to, Rollback(r), Moves(r, to),
         Evidence(r)'
  PROVE  CollateralInv'
  <1>1. /\ Alone(r) /\ invoices' = invoices /\ events' = events /\ jobs' = jobs
        /\ tx'[r] = NoTx
    BY MovesAlone, RollbackAlone DEF Moves, Alone
  <1>2. Bare(tx'[r])
    BY <1>1 DEF Bare, NoTx
  <1>3. Touches(r)
    BY <1>1, <1>2 DEF Touches
  <1> QED BY <1>1, <1>3, StepKeepsCollateral

LEMMA CommitStepKeepsCollateral ==
  ASSUME Inv, Inv', CollateralInv, NEW r \in Requests, NEW from, NEW to,
         Commits(r, from, to), Evidence(r)'
  PROVE  CollateralInv'
  <1>1. Alone(r) /\ Commit(r) /\ tx'[r] = NoTx /\ jobs' = jobs
    BY CommitsAlone DEF Commits, Moves
  <1>2. Touches(r)
    BY <1>1 DEF Touches
  <1> QED BY <1>1, <1>2, StepKeepsCollateral

LEMMA WriteKeepsCollateral ==
  ASSUME Inv, Inv', CollateralInv, NEW r \in Requests, NEW to, NEW t,
         Write(r, t), Moves(r, to), Careful(r), Evidence(r)'
  PROVE  CollateralInv'
  <1>1. Alone(r) /\ invoices' = invoices /\ events' = events /\ jobs' = jobs
    BY MovesAlone, WriteAlone DEF Moves, Alone
  <1>2. Touches(r)
    BY <1>1 DEF Touches
  <1> QED BY <1>1, <1>2, StepKeepsCollateral

-----------------------------------------------------------------------------
(* The services *)

LEMMA SubmitKeepsCollateral ==
  ASSUME Inv, Inv', CollateralInv, NEW r \in Requests,
         SubmitFind(r) \/ SubmitBegin(r) \/ SubmitSave(r) \/ SubmitUpdate(r) \/ SubmitCommit(r)
  PROVE  CollateralInv'
  <1> DEFINE i == cmd[r].invoice
  <1>1. pc[r] \in Steps("submit") /\ UNCHANGED cmd
    BY DEF SubmitFind, SubmitBegin, SubmitSave, SubmitUpdate, SubmitCommit, Reads, Opens,
           Commits, Moves, Steps
  <1>2. cmd[r].op = "submit" /\ i \in Invoices
    BY <1>1, StepOfOp, CommandFields DEF Inv, SessionInv, Ops
  <1>3. Evidence(r)'
    BY <1>1, <1>2, NoEvidence
  <1>4. CASE SubmitFind(r)
    BY <1>3, <1>4, ReadKeepsCollateral DEF SubmitFind
  <1>5. CASE SubmitBegin(r)
    BY <1>3, <1>5, OpenKeepsCollateral DEF SubmitBegin
  <1>6. CASE SubmitSave(r)
    <2>1. CASE Rollback(r) /\ Moves(r, "error")
      BY <1>3, <2>1, EndKeepsCollateral
    <2>2. CASE /\ i \notin DOMAIN invoices /\ Moves(r, "submit.update")
               /\ invoices' = Over(Row(i, [status |-> "DRAFT", signed |-> FALSE]), invoices)
               /\ UNCHANGED <<events, vans, ledger, tx, clock>>
      <3>1. Alone(r) /\ jobs' = jobs
        BY <2>2, MovesAlone DEF Moves, Alone
      <3>2. Touches(r)
        BY <1>2, <2>2, <3>1 DEF Touches
      <3> QED BY <1>3, <3>1, <3>2, StepKeepsCollateral
    <2> QED BY <1>6, <2>1, <2>2 DEF SubmitSave
  <1>7. CASE SubmitUpdate(r)
    <2>1. i \in DOMAIN invoices
      BY <1>7 DEF SubmitUpdate, Inv, SessionInv, WithInvoice
    <2>2. InvoiceRow(r, i) \in InvoiceRows /\ IsTransaction(tx[r])
      BY <2>1, InvoiceRowOK DEF Inv, DatabaseInv, Sound
    <2>3. "SUBMITTED" \in Statuses /\ "invoice.submitted" \in EventTypes
      BY DEF Statuses, EventTypes, StatusAfter
    <2>4. tx'[r] = WithEvent(WithStatus(tx[r], InvoiceRow(r, i), i, "SUBMITTED"),
                             i, "invoice.submitted")
      BY <1>7, WriteAlone DEF SubmitUpdate
    <2>5. InvoiceUnlocked(r, i)
      BY <1>7 DEF SubmitUpdate
    <2>6. Careful(r)
      BY <1>2, <2>2, <2>3, <2>4, <2>5, StatusThenEventCareful
    <2> QED BY <1>3, <1>7, <2>6, WriteKeepsCollateral DEF SubmitUpdate
  <1>8. CASE SubmitCommit(r)
    BY <1>3, <1>8, CommitStepKeepsCollateral DEF SubmitCommit
  <1> QED BY <1>4, <1>5, <1>6, <1>7, <1>8

LEMMA CommitApproves ==
  ASSUME Inv, NEW r \in Requests, NEW i \in Invoices, Commit(r), Approved(tx[r].events[i])
  PROVE  Approved(events'[i])
  <1>1. IsTransaction(tx[r]) /\ events \in [Invoices -> Seq(Events)]
    BY DEF Inv, DatabaseInv, DatabaseOK
  <1>2. events[i] \in Seq(Events) /\ tx[r].events[i] \in Seq(Events)
    BY <1>1 DEF IsTransaction
  <1>3. events'[i] = events[i] \o tx[r].events[i]
    BY DEF Commit
  <1> QED BY <1>2, <1>3, ConcatApproval

LEMMA ApproveKeepsCollateral ==
  ASSUME Inv, Inv', CollateralInv, NEW r \in Requests,
         \/ ApproveFind(r) \/ ApproveBegin(r) \/ ApproveUpdate(r) \/ ApproveCommit(r)
         \/ ApproveNotify(r)
  PROVE  CollateralInv'
  <1> DEFINE i == cmd[r].invoice
  <1>1. pc[r] \in Steps("approve") /\ UNCHANGED cmd
    BY DEF ApproveFind, ApproveBegin, ApproveUpdate, ApproveCommit, ApproveNotify, Reads, Opens,
           Commits, Moves, Steps
  <1>2. cmd[r].op = "approve" /\ i \in Invoices
    BY <1>1, StepOfOp, CommandFields DEF Inv, SessionInv, Ops
  <1>3. CASE ApproveFind(r)
    <2>1. PICK to \in {"approve.begin", "error"} : Reads(r, to)
      BY <1>3 DEF ApproveFind, Reads, Moves, Goto
    <2>2. pc'[r] = to
      BY <2>1, ReadsAlone
    <2>3. Evidence(r)'
      BY <2>2 DEF Evidence, Financing
    <2> QED BY <2>1, <2>3, ReadKeepsCollateral
  <1>4. CASE ApproveBegin(r)
    <2>1. Opens(r, "approve.begin", "approve.update") /\ pc'[r] = "approve.update"
      BY <1>4, OpensAlone DEF ApproveBegin
    <2>2. Evidence(r)'
      BY <2>1 DEF Evidence, Financing
    <2> QED BY <2>1, <2>2, OpenKeepsCollateral
  <1>5. CASE ApproveUpdate(r)
    <2> DEFINE signed == [InvoiceRow(r, i) EXCEPT !.signed = TRUE]
    <2>1. i \in DOMAIN invoices
      BY <1>5 DEF ApproveUpdate, Inv, SessionInv, WithInvoice
    <2>2. signed \in InvoiceRows /\ signed.signed = TRUE /\ IsTransaction(tx[r])
      BY <2>1, InvoiceRowOK DEF Inv, DatabaseInv, Sound, InvoiceRows
    <2>3. "BUYER_APPROVED" \in Statuses /\ "invoice.buyer_approved" \in EventTypes
      BY DEF Statuses, EventTypes, StatusAfter
    <2>4. tx'[r] = WithEvent(WithStatus(tx[r], signed, i, "BUYER_APPROVED"),
                             i, "invoice.buyer_approved")
      BY <1>5, WriteAlone DEF ApproveUpdate
    <2>5. InvoiceUnlocked(r, i) /\ Moves(r, "approve.commit")
      BY <1>5 DEF ApproveUpdate
    <2>6. Careful(r) /\ Approved(tx'[r].events[i])
      <3> HIDE DEF signed
      <3> QED BY <1>2, <2>2, <2>3, <2>4, <2>5, StatusThenEventCareful
    <2>7. pc'[r] = "approve.commit"
      BY <2>5, MovesAlone
    <2>8. Evidence(r)'
      BY <1>1, <2>6, <2>7 DEF Evidence, Financing
    <2> QED BY <1>5, <2>6, <2>8, WriteKeepsCollateral DEF ApproveUpdate
  <1>6. CASE ApproveCommit(r)
    <2>1. pc[r] = "approve.commit" /\ pc'[r] \in {"approve.notify", "error"} /\ Commit(r)
      BY <1>6, CommitsAlone DEF ApproveCommit
    <2>2. Approved(tx[r].events[i])
      BY <2>1 DEF CollateralInv, Evidence
    <2>3. Approved(events'[i])
      BY <1>2, <2>1, <2>2, CommitApproves
    <2>4. Evidence(r)'
      BY <1>1, <2>1, <2>3 DEF Evidence, Financing
    <2> QED BY <1>6, <2>4, CommitStepKeepsCollateral DEF ApproveCommit
  <1>7. CASE ApproveNotify(r)
    <2>1. Alone(r) /\ pc'[r] = "ok" /\ invoices' = invoices /\ events' = events /\ tx' = tx
      BY <1>7 DEF ApproveNotify, Goto, Alone, db, tables, Inv, SessionInv, SessionOK
    <2>2. jobs' = IF i \in WithEmail THEN jobs \cup {ApprovedJob(i)} ELSE jobs
      BY <1>7 DEF ApproveNotify
    <2>3. Approved(events[i])
      BY <1>7 DEF ApproveNotify, CollateralInv, Evidence
    <2>4. Evidence(r)'
      BY <1>1, <2>1, <2>2 DEF Evidence, Financing
    <2>5. \A j \in Invoices :
            ApprovedJob(j) \in jobs' => ApprovedJob(j) \in jobs \/ Approved(events[j])
      BY <2>2, <2>3 DEF ApprovedJob
    <2>6. Touches(r)
      BY <2>1, RestIsCareful DEF Touches
    <2> QED BY <2>2, <2>4, <2>5, <2>6, StepKeepsCollateral
  <1> QED BY <1>3, <1>4, <1>5, <1>6, <1>7

\* An invoice whose status is BUYER_APPROVED has been approved.
LEMMA StatusTellsApproval ==
  ASSUME Inv, NEW i \in DOMAIN invoices, CanTransition(invoices[i].status, "FINANCING_REQUESTED")
  PROVE  Approved(events[i])
  <1>1. i \in Invoices /\ invoices[i].status \in Statuses
    <2>1. IsTable(invoices, InvoiceRows)
      BY DEF Inv, DatabaseInv, DatabaseOK
    <2>2. i \in Invoices /\ invoices[i] \in InvoiceRows
      BY <2>1, TableRow
    <2> QED BY <2>2 DEF InvoiceRows
  <1>2. invoices[i].status = "BUYER_APPROVED"
    BY <1>1 DEF CanTransition, ValidTransitions, Statuses
  <1>3. LogSays(events[i], "BUYER_APPROVED")
    BY <1>1, <1>2 DEF Inv, DatabaseInv, StatusIsProjection
  <1>4. PICK n \in StatusEvents(events[i]) : "BUYER_APPROVED" = StatusAfter[events[i][n].type]
    BY <1>3 DEF LogSays
  <1>5. n \in DOMAIN events[i] /\ events[i][n].type \in DOMAIN StatusAfter
    BY DEF StatusEvents
  <1>6. events[i][n].type = "invoice.buyer_approved"
    BY <1>4, <1>5 DEF StatusAfter
  <1> QED BY <1>5, <1>6 DEF Approved

LEMMA FinanceKeepsCollateral ==
  ASSUME Inv, Inv', CollateralInv, NEW r \in Requests,
         FinanceFind(r) \/ FinanceBegin(r) \/ FinanceUpdate(r) \/ FinanceCommit(r)
  PROVE  CollateralInv'
  <1> DEFINE i == cmd[r].invoice
  <1>1. pc[r] \in Steps("finance") /\ UNCHANGED cmd
    BY DEF FinanceFind, FinanceBegin, FinanceUpdate, FinanceCommit, Reads, Opens, Commits,
           Moves, Steps
  <1>2. cmd[r].op = "finance" /\ i \in Invoices
    BY <1>1, StepOfOp, CommandFields DEF Inv, SessionInv, Ops
  <1>3. CASE FinanceFind(r)
    <2>1. PICK to \in {"finance.begin", "error"} :
            /\ Reads(r, to)
            /\ to = "finance.begin" =>
                 i \in DOMAIN invoices /\ CanTransition(invoices[i].status, "FINANCING_REQUESTED")
      BY <1>3 DEF FinanceFind
    <2>2. pc'[r] = to /\ events' = events
      BY <2>1, ReadsAlone
    <2>3. to = "finance.begin" => Approved(events[i])
      BY <2>1, StatusTellsApproval
    <2>4. Evidence(r)'
      BY <1>1, <1>2, <2>2, <2>3 DEF Evidence, Financing
    <2> QED BY <2>1, <2>4, ReadKeepsCollateral
  <1>4. CASE FinanceBegin(r)
    <2>1. /\ pc[r] = "finance.begin" /\ pc'[r] = "finance.update" /\ events' = events
          /\ Opens(r, "finance.begin", "finance.update")
      BY <1>4, OpensAlone DEF FinanceBegin
    <2>2. Approved(events[i])
      BY <2>1 DEF CollateralInv, Evidence, Financing
    <2>3. Evidence(r)'
      BY <1>1, <2>1, <2>2 DEF Evidence, Financing
    <2> QED BY <2>1, <2>3, OpenKeepsCollateral
  <1>5. CASE FinanceUpdate(r)
    <2>1. i \in DOMAIN invoices
      BY <1>5 DEF FinanceUpdate, Inv, SessionInv, WithInvoice
    <2>2. InvoiceRow(r, i) \in InvoiceRows /\ IsTransaction(tx[r])
      BY <2>1, InvoiceRowOK DEF Inv, DatabaseInv, Sound
    <2>3. "FINANCING_REQUESTED" \in Statuses /\ "invoice.financing_requested" \in EventTypes
      BY DEF Statuses, EventTypes, StatusAfter
    <2>4. /\ tx'[r] = WithEvent(WithStatus(tx[r], InvoiceRow(r, i), i, "FINANCING_REQUESTED"),
                                i, "invoice.financing_requested")
          /\ events' = events
      BY <1>5, WriteAlone DEF FinanceUpdate
    <2>5. InvoiceUnlocked(r, i) /\ pc[r] = "finance.update" /\ Moves(r, "finance.commit")
      BY <1>5 DEF FinanceUpdate
    <2>6. Approved(events[i])
      BY <2>5 DEF CollateralInv, Evidence, Financing
    <2>7. Careful(r)
      BY <1>2, <2>2, <2>3, <2>4, <2>5, <2>6, StatusThenEventCareful
    <2>8. pc'[r] = "finance.commit"
      BY <2>5, MovesAlone
    <2>9. Evidence(r)'
      BY <1>1, <2>4, <2>6, <2>8 DEF Evidence, Financing
    <2> QED BY <1>5, <2>7, <2>9, WriteKeepsCollateral DEF FinanceUpdate
  <1>6. CASE FinanceCommit(r)
    <2>1. pc'[r] \in {"ok", "error"}
      BY <1>6, CommitsAlone DEF FinanceCommit
    <2>2. Evidence(r)'
      BY <1>1, <1>2, <2>1 DEF Evidence, Financing
    <2> QED BY <1>6, <2>2, CommitStepKeepsCollateral DEF FinanceCommit
  <1> QED BY <1>3, <1>4, <1>5, <1>6

LEMMA AssessKeepsCollateral ==
  ASSUME Inv, Inv', CollateralInv, NEW r \in Requests, RiskStep(r)
  PROVE  CollateralInv'
  <1> DEFINE i == cmd[r].invoice
             type == RiskEvent[cmd[r].decision]
  <1>1. pc[r] \in Steps("assess") /\ UNCHANGED cmd
    BY DEF RiskStep, AssessFind, AssessBegin, AssessRecord, AssessCommit, Reads, Opens, Commits,
           Moves, Steps
  <1>2. cmd[r].op = "assess" /\ i \in Invoices /\ cmd[r].decision \in DOMAIN RiskEvent
    BY <1>1, StepOfOp, CommandFields DEF Inv, SessionInv, Ops
  <1>3. Evidence(r)'
    BY <1>1, <1>2, NoEvidence
  <1>4. CASE AssessFind(r)
    BY <1>3, <1>4, ReadKeepsCollateral DEF AssessFind
  <1>5. CASE AssessBegin(r)
    BY <1>3, <1>5, OpenKeepsCollateral DEF AssessBegin
  <1>6. CASE AssessRecord(r)
    <2>1. i \in DOMAIN invoices
      BY <1>6 DEF AssessRecord, Inv, SessionInv, WithInvoice
    <2>2. InvoiceRow(r, i) \in InvoiceRows /\ IsTransaction(tx[r])
      BY <2>1, InvoiceRowOK DEF Inv, DatabaseInv, Sound
    <2>3. /\ "CANCELLED" \in Statuses /\ type \in EventTypes
          /\ type \notin {"invoice.buyer_approved", "invoice.financing_requested"}
      BY <1>2 DEF Statuses, EventTypes, StatusAfter, RiskEvent
    <2>4. \/ /\ InvoiceUnlocked(r, i)
             /\ Write(r, WithStatus(WithEvent(tx[r], i, type), InvoiceRow(r, i), i, "CANCELLED"))
          \/ Write(r, WithEvent(tx[r], i, type))
      BY <1>6 DEF AssessRecord
    <2> HIDE DEF type
    <2>5. CASE /\ InvoiceUnlocked(r, i)
               /\ Write(r, WithStatus(WithEvent(tx[r], i, type), InvoiceRow(r, i), i, "CANCELLED"))
      <3>1. tx'[r] = WithStatus(WithEvent(tx[r], i, type), InvoiceRow(r, i), i, "CANCELLED")
        BY <2>5, WriteAlone
      <3>2. Careful(r)
        BY <1>2, <2>2, <2>3, <2>5, <3>1, EventThenStatusCareful
      <3>3. Moves(r, "assess.commit")
        BY <1>6 DEF AssessRecord
      <3> QED BY <1>3, <2>5, <3>2, <3>3, WriteKeepsCollateral
    <2>6. CASE Write(r, WithEvent(tx[r], i, type))
      <3>1. tx'[r] = WithEvent(tx[r], i, type)
        BY <2>6, WriteAlone
      <3>2. Careful(r)
        BY <1>2, <2>2, <2>3, <3>1, EventWriteCareful
      <3>3. Moves(r, "assess.commit")
        BY <1>6 DEF AssessRecord
      <3> QED BY <1>3, <2>6, <3>2, <3>3, WriteKeepsCollateral
    <2> QED BY <2>4, <2>5, <2>6
  <1>7. CASE AssessCommit(r)
    BY <1>3, <1>7, CommitStepKeepsCollateral DEF AssessCommit
  <1> QED BY <1>4, <1>5, <1>6, <1>7 DEF RiskStep

LEMMA CreateVanKeepsCollateral ==
  ASSUME Inv, Inv', CollateralInv, NEW r \in Requests,
         VanFind(r) \/ VanExisting(r) \/ VanBegin(r) \/ VanInsert(r) \/ VanCommit(r)
  PROVE  CollateralInv'
  <1> DEFINE i == cmd[r].invoice
  <1>1. pc[r] \in Steps("createVan") /\ UNCHANGED cmd
    BY DEF VanFind, VanExisting, VanBegin, VanInsert, VanCommit, Reads, Opens, Commits,
           Moves, Steps
  <1>2. /\ cmd[r].op = "createVan" /\ i \in Invoices
        /\ cmd[r].expected \in Expected /\ cmd[r].expected \in Nat
    BY <1>1, StepOfOp, CommandFields, VanAssumption DEF Inv, SessionInv, Ops
  <1>3. Evidence(r)'
    BY <1>1, <1>2, NoEvidence
  <1>4. CASE VanFind(r) \/ VanExisting(r)
    BY <1>3, <1>4, ReadKeepsCollateral DEF VanFind, VanExisting
  <1>5. CASE VanBegin(r)
    BY <1>3, <1>5, OpenKeepsCollateral DEF VanBegin
  <1>6. CASE VanInsert(r)
    <2>1. CASE Rollback(r) /\ Moves(r, "error")
      BY <1>3, <2>1, EndKeepsCollateral
    <2> DEFINE account == [expected |-> cmd[r].expected, received |-> 0, status |-> "active"]
               advance == Debit(tx[r], i, cmd[r].expected)
               opened == WithVan(tx[r], i, account)
               booked == WithEntry(opened, advance)
    <2>2. CASE Write(r, WithEvent(booked, i, "van.created")) /\ Moves(r, "van.commit")
      <3>1. IsTransaction(tx[r]) /\ tx[r].begun \in Nat
        BY DEF Inv, DatabaseInv, Sound, IsTransaction
      <3>2. account \in VanRows /\ advance \in Entries
        <4>1. account \in VanRows
          BY <1>2 DEF VanRows, VanStatuses
        <4>2. advance \in Entries
          BY <1>2, <3>1 DEF Debit, Entries, Keys
        <4> QED BY <4>1, <4>2
      <3>3. tx'[r] = WithEvent(booked, i, "van.created")
        BY <2>2, WriteAlone
      <3>4. IsTransaction(booked) /\ booked.invoices = tx[r].invoices
            /\ booked.events = tx[r].events
        <4> HIDE DEF account, advance
        <4>1. IsTransaction(opened) /\ opened.invoices = tx[r].invoices
              /\ opened.events = tx[r].events
          BY <1>2, <3>1, <3>2, WithVanOK
        <4> HIDE DEF opened
        <4> QED BY <3>2, <4>1, WithEntryOK
      <3> HIDE DEF booked
      <3>5. "van.created" \in EventTypes
        BY DEF EventTypes
      <3>6. Careful(r)
        BY <1>2, <3>3, <3>4, <3>5, EventWriteCareful
      <3> QED BY <1>3, <2>2, <3>6, WriteKeepsCollateral
    <2> QED BY <1>6, <2>1, <2>2 DEF VanInsert
  <1>7. CASE VanCommit(r)
    BY <1>3, <1>7, CommitStepKeepsCollateral DEF VanCommit
  <1> QED BY <1>4, <1>5, <1>6, <1>7

LEMMA PayKeepsCollateral ==
  ASSUME Inv, Inv', CollateralInv, NEW r \in Requests,
         \/ PayFind(r) \/ PayLayer1(r) \/ PayBegin(r) \/ PayInsert(r) \/ PayReceive(r)
         \/ PaySettle(r) \/ PayCommit(r) \/ PayCommitSettled(r) \/ PayEnqueue(r) \/ PayEntries(r)
  PROVE  CollateralInv'
  <1> DEFINE i == cmd[r].invoice
  <1>1. pc[r] \in Steps("pay") /\ UNCHANGED cmd
    BY DEF PayFind, PayLayer1, PayBegin, PayInsert, PayReceive, PaySettle, PayCommit,
           PayCommitSettled, PayEnqueue, PayEntries, Reads, Opens, Commits, Moves, Steps
  <1>2. cmd[r].op = "pay" /\ i \in Invoices /\ cmd[r].amount \in Nat /\ cmd[r].key \in Keys
    BY <1>1, StepOfOp, CommandFields DEF Inv, SessionInv, Ops
  <1>3. Evidence(r)'
    BY <1>1, <1>2, NoEvidence
  <1>4. CASE PayFind(r) \/ PayEnqueue(r)
    <2>1. Alone(r) /\ invoices' = invoices /\ events' = events /\ tx' = tx
      BY <1>4 DEF PayFind, PayEnqueue, Goto, Alone, db, tables, Inv, SessionInv, SessionOK
    <2>2. jobs' = jobs \/ jobs' = jobs \cup {ReceiptJob(i)}
      BY <1>4 DEF PayFind, PayEnqueue
    <2>3. \A j \in Invoices : ApprovedJob(j) \in jobs' => ApprovedJob(j) \in jobs
      BY <2>2 DEF ApprovedJob, ReceiptJob
    <2>4. Touches(r)
      BY <2>1, RestIsCareful DEF Touches
    <2> QED BY <1>3, <2>2, <2>3, <2>4, StepKeepsCollateral
  <1>5. CASE PayLayer1(r) \/ PayEntries(r)
    BY <1>3, <1>5, ReadKeepsCollateral DEF PayLayer1, PayEntries
  <1>6. CASE PayBegin(r)
    BY <1>3, <1>6, OpenKeepsCollateral DEF PayBegin
  <1>7. CASE PayInsert(r)
    <2>1. CASE Rollback(r) /\ Moves(r, "duplicate")
      BY <1>3, <2>1, EndKeepsCollateral
    <2>2. CASE Write(r, WithEntry(tx[r], Credit(tx[r], cmd[r]))) /\ Moves(r, "pay.receive")
      <3>1. DOMAIN tx[r] = {"begun", "invoices", "vans", "ledger", "events"}
        BY DEF Inv, DatabaseInv, Sound, IsTransaction
      <3>2. tx'[r] = WithEntry(tx[r], Credit(tx[r], cmd[r]))
        BY <2>2, WriteAlone
      <3>3. tx'[r].invoices = tx[r].invoices /\ tx'[r].events = tx[r].events
        BY <3>1, <3>2 DEF WithEntry
      <3> QED BY <1>3, <2>2, <3>3, RestIsCareful, WriteKeepsCollateral
    <2> QED BY <1>7, <2>1, <2>2 DEF PayInsert
  <1>8. CASE PayReceive(r)
    <2> DEFINE t == WithVan(tx[r], i, Received(VanRow(r, i), cmd[r].amount))
    <2>1. PICK to \in {"pay.settle", "pay.commit"} : Moves(r, to)
      BY <1>8 DEF PayReceive, Moves, Goto
    <2>2. Write(r, t)
      BY <1>8 DEF PayReceive
    <2>3. DOMAIN tx[r] = {"begun", "invoices", "vans", "ledger", "events"}
      BY DEF Inv, DatabaseInv, Sound, IsTransaction
    <2>4. t.invoices = tx[r].invoices /\ t.events = tx[r].events
      BY <2>3 DEF WithVan
    <2> HIDE DEF t
    <2>5. tx'[r].invoices = tx[r].invoices /\ tx'[r].events = tx[r].events
      BY <2>2, <2>4, WriteAlone
    <2> QED BY <1>3, <2>1, <2>2, <2>5, RestIsCareful, WriteKeepsCollateral
  <1>9. CASE PaySettle(r)
    <2> DEFINE v == WithVan(tx[r], i, [VanRow(r, i) EXCEPT !.status = "settled"])
    <2>1. pc[r] = "pay.settle" /\ InvoiceUnlocked(r, i) /\ Moves(r, "pay.commitSettled")
      BY <1>9 DEF PaySettle
    <2>2. i \in DOMAIN invoices /\ IsTransaction(v)
      BY <2>1, PayWritesSound DEF Sound
    <2>3. DOMAIN tx[r] = {"begun", "invoices", "vans", "ledger", "events"}
      BY DEF Inv, DatabaseInv, Sound, IsTransaction
    <2>4. v.invoices = tx[r].invoices /\ v.events = tx[r].events
      BY <2>3 DEF WithVan
    <2>5. Write(r, WithEvent(WithStatus(v, InvoiceRow(r, i), i, "REPAID"), i, "invoice.repaid"))
      BY <1>9 DEF PaySettle
    <2> HIDE DEF v
    <2>6. tx'[r] = WithEvent(WithStatus(v, InvoiceRow(r, i), i, "REPAID"), i, "invoice.repaid")
      BY <2>5, WriteAlone
    <2>7. InvoiceRow(r, i) \in InvoiceRows
      BY <2>2, InvoiceRowOK DEF Inv
    <2>8. "REPAID" \in Statuses /\ "invoice.repaid" \in EventTypes
      BY DEF Statuses, EventTypes, StatusAfter
    <2>9. Careful(r)
      BY <1>2, <2>1, <2>2, <2>4, <2>6, <2>7, <2>8, StatusThenEventCareful
    <2> QED BY <1>3, <2>1, <2>5, <2>9, WriteKeepsCollateral
  <1>10. CASE PayCommit(r) \/ PayCommitSettled(r)
    BY <1>3, <1>10, CommitStepKeepsCollateral DEF PayCommit, PayCommitSettled
  <1> QED BY <1>4, <1>5, <1>6, <1>7, <1>8, <1>9, <1>10

-----------------------------------------------------------------------------
(* Requests come, fail, are answered, and die with the process *)

LEMMA SlotKeepsCollateral ==
  ASSUME Inv, Inv', CollateralInv, NEW r \in Requests,
         InvoiceArrive(r) \/ VanArrive(r) \/ RiskArrive(r) \/ Respond(r)
  PROVE  CollateralInv'
  <1> DEFINE first == {"submit.find", "approve.find", "finance.find", "van.find", "pay.find",
                       "assess.find"}
  <1>1. CASE InvoiceArrive(r) \/ VanArrive(r) \/ RiskArrive(r)
    <2>1. PICK step \in first : \E c : Arrive(r, c, step)
      <3>1. CASE InvoiceArrive(r)
        <4>1. PICK c \in InvoiceCmds : Arrive(r, c, InvoiceFirstStep[c.op])
          BY <3>1 DEF InvoiceArrive
        <4>2. InvoiceFirstStep[c.op] \in first
          BY DEF InvoiceCmds, InvoiceFirstStep
        <4> QED BY <4>1, <4>2
      <3>2. CASE VanArrive(r) \/ RiskArrive(r)
        BY <3>2 DEF VanArrive, RiskArrive
      <3> QED BY <1>1, <3>1, <3>2
    <2>2. PICK c : Arrive(r, c, step)
      BY <2>1
    <2>3. /\ Alone(r) /\ pc'[r] = step /\ jobs' = jobs
          /\ invoices' = invoices /\ events' = events /\ tx' = tx
      BY <2>2 DEF Arrive, Goto, Alone, db, tables, Inv, SessionInv, SessionOK
    <2>4. Evidence(r)'
      BY <2>3 DEF Evidence, Financing
    <2>5. Touches(r)
      BY <2>3, RestIsCareful DEF Touches
    <2> QED BY <2>3, <2>4, <2>5, StepKeepsCollateral
  <1>2. CASE Respond(r)
    <2>1. /\ Alone(r) /\ pc'[r] = "idle" /\ jobs' = jobs
          /\ invoices' = invoices /\ events' = events /\ tx' = tx
      BY <1>2 DEF Respond, Goto, Alone, db, tables, Inv, SessionInv, SessionOK
    <2>2. Evidence(r)'
      BY <2>1 DEF Evidence, Financing
    <2>3. Touches(r)
      BY <2>1, RestIsCareful DEF Touches
    <2> QED BY <2>1, <2>2, <2>3, StepKeepsCollateral
  <1> QED BY <1>1, <1>2

LEMMA FailKeepsCollateral ==
  ASSUME Inv, Inv', CollateralInv, NEW r \in Requests, Fail(r)
  PROVE  CollateralInv'
  <1>1. Rollback(r) /\ Moves(r, "error") /\ pc'[r] = "error"
    BY MovesAlone DEF Fail
  <1>2. Evidence(r)'
    BY <1>1 DEF Evidence, Financing
  <1> QED BY <1>1, <1>2, EndKeepsCollateral

LEMMA CrashKeepsCollateral ==
  ASSUME CollateralInv, Crash
  PROVE  CollateralInv'
  <1>1. /\ invoices' = invoices /\ events' = events /\ jobs' = jobs
        /\ \A s \in Requests : tx'[s] = NoTx /\ pc'[s] = "idle"
    BY DEF Crash, RollbackAll, tables
  <1>2. ASSUME NEW s \in Requests
        PROVE  Signs(s)' /\ Evidence(s)' /\ DOMAIN tx'[s].invoices = {}
    <2>1. Bare(tx'[s])
      BY <1>1 DEF Bare, NoTx
    <2>2. Evidence(s)'
      BY <1>1 DEF Evidence, Financing
    <2> QED BY <2>1, <2>2, BareSigns
  <1>3. InvoiceLocks'
    BY <1>2 DEF InvoiceLocks
  <1> QED BY <1>1, <1>2, <1>3 DEF CollateralInv, Backed, ToldOnce

-----------------------------------------------------------------------------
(* The collateral's theorem *)

LEMMA InitCollateral == Init => CollateralInv
  <1> SUFFICES ASSUME Init PROVE CollateralInv
    OBVIOUS
  <1>1. /\ jobs = {} /\ \A i \in Invoices : events[i] = <<>>
        /\ \A r \in Requests : tx[r] = NoTx /\ pc[r] = "idle"
    BY DEF Init, ServerInit, DatabaseInit
  <1>2. NoTx.invoices = NoRows /\ DOMAIN NoRows = {} /\ \A i \in Invoices : NoTx.events[i] = <<>>
    BY DEF NoTx, NoRows
  <1>3. \A i \in Invoices : Backed(i)
    BY <1>1 DEF Backed, Approved, Secured
  <1>4. \A r \in Requests : Signs(r) /\ Evidence(r)
    BY <1>1, <1>2 DEF Signs, Evidence, Approved, Financed, Financing
  <1>5. InvoiceLocks /\ ToldOnce
    BY <1>1, <1>2 DEF InvoiceLocks, ToldOnce
  <1> QED BY <1>3, <1>4, <1>5 DEF CollateralInv

LEMMA NextCollateral == Inv /\ Inv' /\ CollateralInv /\ [Next]_vars => CollateralInv'
  <1> SUFFICES ASSUME Inv, Inv', CollateralInv, [Next]_vars PROVE CollateralInv'
    OBVIOUS
  <1>1. ASSUME NEW r \in Requests, InvoiceStep(r) \/ RiskStep(r) \/ VanStep(r)
        PROVE  CollateralInv'
    BY <1>1, SubmitKeepsCollateral, ApproveKeepsCollateral, FinanceKeepsCollateral,
       AssessKeepsCollateral, CreateVanKeepsCollateral, PayKeepsCollateral
       DEF InvoiceStep, VanStep
  <1>2. ASSUME NEW r \in Requests,
               InvoiceArrive(r) \/ VanArrive(r) \/ RiskArrive(r) \/ Respond(r)
        PROVE  CollateralInv'
    BY <1>2, SlotKeepsCollateral
  <1>3. ASSUME NEW r \in Requests, Fail(r) PROVE CollateralInv'
    BY <1>3, FailKeepsCollateral
  <1>4. CASE Crash
    BY <1>4, CrashKeepsCollateral
  <1>5. CASE UNCHANGED vars
    <2>1. UNCHANGED <<invoices, events, tx, pc, cmd, jobs>>
      BY <1>5 DEF vars, db, tables, session
    <2> QED BY <2>1 DEF CollateralInv, InvoiceLocks, Signs, Evidence, Backed, ToldOnce
  <1> QED BY <1>1, <1>2, <1>3, <1>4, <1>5 DEF Next, ServiceStep

LEMMA CollateralInvariance == Spec => []CollateralInv
  <1>1. Init => CollateralInv
    BY InitCollateral
  <1>2. Inv /\ Inv' /\ CollateralInv /\ [Next]_vars => CollateralInv'
    BY NextCollateral
  <1> QED BY <1>1, <1>2, Invariance, PTL DEF Spec

\* A financier never lends on an invoice nobody owes: however approvals, financing
\* requests, rejections and failures interleave, the log of requestFinancing's
\* invoice holds an earlier approval by the buyer, and the row its signature.
THEOREM CollateralHeld == Spec => []FinancingHasCollateral
  <1>1. Inv /\ CollateralInv => FinancingHasCollateral
    <2> SUFFICES ASSUME Inv, CollateralInv, NEW i \in Invoices, NEW n \in DOMAIN events[i],
                        events[i][n].type = "invoice.financing_requested"
                 PROVE  /\ \E m \in 1 .. n - 1 : events[i][m].type = "invoice.buyer_approved"
                        /\ invoices[i].signed
      BY DEF FinancingHasCollateral
    <2>1. Backed(i)
      BY DEF CollateralInv
    <2>2. PICK m \in 1 .. n - 1 : events[i][m].type = "invoice.buyer_approved"
      BY <2>1 DEF Backed, Secured
    <2>3. m \in DOMAIN events[i]
      <3>1. events[i] \in Seq(Events)
        BY DEF Inv, DatabaseInv, DatabaseOK
      <3> QED BY <3>1
    <2> QED BY <2>1, <2>2, <2>3 DEF Backed, Approved
  <1> QED BY <1>1, Invariance, CollateralInvariance, PTL

=============================================================================
