----------------------------- MODULE EngineProofs -----------------------------
(***************************************************************************)
(* Proofs about SettlementEngine, for any number of invoices, requests and *)
(* payments: its type invariant, and that the status column of an invoice  *)
(* is a projection of its event log.                                       *)
(***************************************************************************)
EXTENDS SettlementEngine, TLAPS

-----------------------------------------------------------------------------
(* Tables and transactions *)

LEMMA OverIsTable ==
  ASSUME NEW rows, NEW f, NEW g, IsTable(f, rows), IsTable(g, rows)
  PROVE  IsTable(Over(f, g), rows)
  <1>1. PICK S \in SUBSET Invoices : f \in [S -> rows]
    BY DEF IsTable
  <1>2. PICK T \in SUBSET Invoices : g \in [T -> rows]
    BY DEF IsTable
  <1>3. Over(f, g) \in [S \cup T -> rows]
    BY <1>1, <1>2 DEF Over
  <1> QED BY <1>1, <1>2, <1>3 DEF IsTable, Over

LEMMA TableRow ==
  ASSUME NEW rows, NEW f, IsTable(f, rows)
  PROVE  /\ DOMAIN f \subseteq Invoices
         /\ \A i \in DOMAIN f : f[i] \in rows
  BY DEF IsTable

LEMMA RowIsTable ==
  ASSUME NEW rows, NEW i \in Invoices, NEW v \in rows
  PROVE  IsTable(Row(i, v), rows) /\ DOMAIN Row(i, v) = {i} /\ Row(i, v)[i] = v
  <1>1. Row(i, v) \in [{i} -> rows]
    BY DEF Row
  <1> QED BY <1>1 DEF IsTable, Row

LEMMA NoTxOK == IsTransaction(NoTx)
  <1>1. NoRows \in [{} -> InvoiceRows] /\ NoRows \in [{} -> VanRows]
    BY DEF NoRows
  <1>2. IsTable(NoRows, InvoiceRows) /\ IsTable(NoRows, VanRows)
    BY <1>1 DEF IsTable
  <1> QED BY <1>2 DEF NoTx, IsTransaction

\* What each statement adds to a transaction, and that it leaves it well formed.
LEMMA WithStatusOK ==
  ASSUME NEW t, IsTransaction(t), NEW row \in InvoiceRows, NEW i \in Invoices,
         NEW status \in Statuses
  PROVE  LET u == WithStatus(t, row, i, status) IN
         /\ IsTransaction(u)
         /\ DOMAIN u.invoices = DOMAIN t.invoices \cup {i}
         /\ u.invoices[i].status = status /\ u.invoices[i].signed = row.signed
         /\ \A j \in DOMAIN t.invoices \ {i} : u.invoices[j] = t.invoices[j]
         /\ u.vans = t.vans /\ u.ledger = t.ledger /\ u.events = t.events
         /\ u.begun = t.begun
  <1> DEFINE written == [row EXCEPT !.status = status]
             table == Over(Row(i, written), t.invoices)
             u == WithStatus(t, row, i, status)
  <1>1. written \in InvoiceRows /\ written.status = status /\ written.signed = row.signed
    BY DEF InvoiceRows
  <1>2. /\ IsTable(Row(i, written), InvoiceRows)
        /\ DOMAIN Row(i, written) = {i} /\ Row(i, written)[i] = written
    BY <1>1, RowIsTable
  <1>3. IsTable(t.invoices, InvoiceRows)
    BY DEF IsTransaction
  <1>4. IsTable(table, InvoiceRows) /\ DOMAIN table = {i} \cup DOMAIN t.invoices
    <2> HIDE DEF written
    <2>1. IsTable(Over(Row(i, written), t.invoices), InvoiceRows)
      BY <1>2, <1>3, OverIsTable
    <2>2. DOMAIN Over(Row(i, written), t.invoices) = {i} \cup DOMAIN t.invoices
      BY <1>2 DEF Over
    <2> QED BY <2>1, <2>2
  <1>5. \A x \in {i} \cup DOMAIN t.invoices : table[x] = IF x = i THEN written ELSE t.invoices[x]
    BY DEF Over, Row
  <1>8. u = [t EXCEPT !.invoices = table]
    BY DEF WithStatus
  <1>6. /\ u \in [begun: Nat, invoices: {table}, vans: {t.vans},
                   ledger: SUBSET Entries, events: [Invoices -> Seq(Events)]]
        /\ u.invoices = table /\ u.vans = t.vans /\ u.ledger = t.ledger
        /\ u.events = t.events /\ u.begun = t.begun
    BY <1>8 DEF IsTransaction
  <1>7. IsTransaction(u)
    BY <1>4, <1>6 DEF IsTransaction
  <1> QED BY <1>1, <1>4, <1>5, <1>6, <1>7

LEMMA WithVanOK ==
  ASSUME NEW t, IsTransaction(t), NEW row \in VanRows, NEW i \in Invoices
  PROVE  LET u == WithVan(t, i, row) IN
         /\ IsTransaction(u)
         /\ DOMAIN u.vans = DOMAIN t.vans \cup {i}
         /\ u.invoices = t.invoices /\ u.ledger = t.ledger /\ u.events = t.events
         /\ u.begun = t.begun
  <1> DEFINE table == Over(Row(i, row), t.vans)
             u == WithVan(t, i, row)
  <1>2. IsTable(Row(i, row), VanRows) /\ DOMAIN Row(i, row) = {i}
    BY RowIsTable
  <1>3. IsTable(t.vans, VanRows)
    BY DEF IsTransaction
  <1>4. IsTable(table, VanRows) /\ DOMAIN table = {i} \cup DOMAIN t.vans
    <2>1. IsTable(Over(Row(i, row), t.vans), VanRows)
      BY <1>2, <1>3, OverIsTable
    <2>2. DOMAIN Over(Row(i, row), t.vans) = {i} \cup DOMAIN t.vans
      BY <1>2 DEF Over
    <2> QED BY <2>1, <2>2
  <1>5. u = [t EXCEPT !.vans = table]
    BY DEF WithVan
  <1>6. /\ u \in [begun: Nat, invoices: {t.invoices}, vans: {table},
                   ledger: SUBSET Entries, events: [Invoices -> Seq(Events)]]
        /\ u.invoices = t.invoices /\ u.vans = table /\ u.ledger = t.ledger
        /\ u.events = t.events /\ u.begun = t.begun
    BY <1>5 DEF IsTransaction
  <1>7. IsTransaction(u)
    BY <1>4, <1>6 DEF IsTransaction
  <1> QED BY <1>4, <1>6, <1>7

LEMMA WithEntryOK ==
  ASSUME NEW t, IsTransaction(t), NEW entry \in Entries
  PROVE  LET u == WithEntry(t, entry) IN
         /\ IsTransaction(u)
         /\ u.invoices = t.invoices /\ u.vans = t.vans /\ u.events = t.events
         /\ u.begun = t.begun
  BY DEF WithEntry, IsTransaction

LEMMA WithEventOK ==
  ASSUME NEW t, IsTransaction(t), NEW i \in Invoices, NEW type \in EventTypes
  PROVE  LET u == WithEvent(t, i, type) IN
         /\ IsTransaction(u)
         /\ u.invoices = t.invoices /\ u.vans = t.vans /\ u.ledger = t.ledger
         /\ u.begun = t.begun
         /\ \A j \in Invoices \ {i} : u.events[j] = t.events[j]
         /\ \E e \in Events : e.type = type /\ u.events[i] = Append(t.events[i], e)
  <1> DEFINE e == [type |-> type, at |-> t.begun]
             u == WithEvent(t, i, type)
  <1>1. e \in Events /\ e.type = type
    BY DEF Events, IsTransaction
  <1>2. t.events \in [Invoices -> Seq(Events)]
    BY DEF IsTransaction
  <1>3. Append(t.events[i], e) \in Seq(Events)
    BY <1>1, <1>2
  <1>4. u = [t EXCEPT !.events = [t.events EXCEPT ![i] = Append(t.events[i], e)]]
    BY DEF WithEvent
  <1>5. [t.events EXCEPT ![i] = Append(t.events[i], e)] \in [Invoices -> Seq(Events)]
    BY <1>2, <1>3
  <1>6. u.events = [t.events EXCEPT ![i] = Append(t.events[i], e)]
    BY <1>4 DEF IsTransaction
  <1>7. u \in [begun: Nat, invoices: {t.invoices}, vans: {t.vans},
               ledger: SUBSET Entries, events: [Invoices -> Seq(Events)]]
        /\ u.invoices = t.invoices /\ u.vans = t.vans /\ u.ledger = t.ledger
        /\ u.begun = t.begun
    BY <1>4, <1>5 DEF IsTransaction
  <1>8. IsTransaction(u)
    BY <1>7 DEF IsTransaction
  <1> QED BY <1>1, <1>2, <1>6, <1>7, <1>8

-----------------------------------------------------------------------------
(* Logs *)

LEMMA AppendTells ==
  ASSUME NEW log \in Seq(Events), NEW e \in Events
  PROVE  /\ e.type \notin DOMAIN StatusAfter =>
              StatusEvents(Append(log, e)) = StatusEvents(log)
         /\ e.type \in DOMAIN StatusAfter =>
              /\ StatusEvents(Append(log, e)) # {}
              /\ LogSays(Append(log, e), StatusAfter[e.type])
  <1> DEFINE both == Append(log, e)
             n == Len(log) + 1
  <1>1. /\ Len(log) \in Nat /\ DOMAIN log = 1 .. Len(log)
        /\ DOMAIN both = 1 .. n
        /\ both[n] = e
        /\ \A m \in 1 .. Len(log) : both[m] = log[m]
    OBVIOUS
  <1>2. CASE e.type \notin DOMAIN StatusAfter
    BY <1>1, <1>2 DEF StatusEvents
  <1>3. CASE e.type \in DOMAIN StatusAfter
    <2>1. n \in StatusEvents(both)
      BY <1>1, <1>3 DEF StatusEvents
    <2>2. \A m \in StatusEvents(both) : m <= n
      BY <1>1 DEF StatusEvents
    <2> QED BY <1>1, <1>3, <2>1, <2>2 DEF LogSays
  <1> QED BY <1>2, <1>3

LEMMA ConcatTells ==
  ASSUME NEW a \in Seq(Events), NEW b \in Seq(Events), NEW status
  PROVE  /\ StatusEvents(b) = {} /\ LogSays(a, status) => LogSays(a \o b, status)
         /\ StatusEvents(b) # {} /\ LogSays(b, status) => LogSays(a \o b, status)
  <1> DEFINE both == a \o b
  <1>1. /\ Len(a) \in Nat /\ Len(b) \in Nat
        /\ DOMAIN a = 1 .. Len(a) /\ DOMAIN b = 1 .. Len(b)
        /\ DOMAIN both = 1 .. Len(a) + Len(b)
        /\ \A m \in 1 .. Len(a) : both[m] = a[m]
        /\ \A m \in 1 .. Len(b) : both[Len(a) + m] = b[m]
    OBVIOUS
  <1>2. \A m \in DOMAIN both :
          m \in DOMAIN a \/ (m - Len(a) \in DOMAIN b /\ both[m] = b[m - Len(a)])
    <2> TAKE m \in DOMAIN both
    <2>1. CASE m <= Len(a)
      BY <1>1, <2>1
    <2>2. CASE ~ (m <= Len(a))
      <3>1. m - Len(a) \in 1 .. Len(b) /\ m = Len(a) + (m - Len(a))
        BY <1>1, <2>2
      <3> QED BY <1>1, <3>1
    <2> QED BY <2>1, <2>2
  <1>3. ASSUME StatusEvents(b) = {}, LogSays(a, status)
        PROVE  LogSays(both, status)
    <2>1. StatusEvents(both) = StatusEvents(a)
      BY <1>1, <1>2, <1>3 DEF StatusEvents
    <2>2. \A m \in StatusEvents(a) : both[m] = a[m]
      BY <1>1 DEF StatusEvents
    <2> QED BY <1>3, <2>1, <2>2 DEF LogSays
  <1>4. ASSUME StatusEvents(b) # {}, LogSays(b, status)
        PROVE  LogSays(both, status)
    <2>1. PICK n \in StatusEvents(b) :
            (\A m \in StatusEvents(b) : m <= n) /\ status = StatusAfter[b[n].type]
      BY <1>4 DEF LogSays
    <2>2. n \in 1 .. Len(b) /\ both[Len(a) + n] = b[n]
      BY <1>1 DEF StatusEvents
    <2>3. Len(a) + n \in StatusEvents(both)
      BY <1>1, <2>2 DEF StatusEvents
    <2>4. ASSUME NEW m \in StatusEvents(both)
          PROVE  m <= Len(a) + n
      <3>1. m \in DOMAIN both /\ both[m].type \in DOMAIN StatusAfter
        BY DEF StatusEvents
      <3>2. CASE m \in DOMAIN a
        BY <1>1, <2>2, <3>2
      <3>3. CASE m - Len(a) \in DOMAIN b /\ both[m] = b[m - Len(a)]
        <4>1. m - Len(a) \in StatusEvents(b)
          BY <3>1, <3>3 DEF StatusEvents
        <4> QED BY <1>1, <2>1, <2>2, <3>1, <4>1
      <3> QED BY <1>2, <3>1, <3>2, <3>3
    <2> QED BY <2>1, <2>2, <2>3, <2>4 DEF LogSays
  <1> QED BY <1>3, <1>4

-----------------------------------------------------------------------------
(***************************************************************************)
(* The inductive invariant.  StatusIsProjection is not inductive by        *)
(* itself: a commit preserves it only because the transaction brings a new *)
(* status and the event that names it together, and the log of an invoice  *)
(* starts only once its row exists.                                        *)
(***************************************************************************)

\* What transaction t does to the log of i ends in the status it writes, and it
\* logs a status event only if it writes a status.
Tells(t, i) ==
  /\ IF i \in DOMAIN t.invoices
     THEN /\ StatusEvents(t.events[i]) # {}
          /\ LogSays(t.events[i], t.invoices[i].status)
     ELSE StatusEvents(t.events[i]) = {}
  /\ i \notin DOMAIN invoices => t.events[i] = <<>>

Sound(t) ==
  /\ IsTransaction(t)
  /\ DOMAIN t.invoices \subseteq DOMAIN invoices
  /\ DOMAIN t.vans \subseteq DOMAIN invoices
  /\ \A i \in Invoices : Tells(t, i)

DatabaseInv ==
  /\ DatabaseOK
  /\ DOMAIN vans \subseteq DOMAIN invoices
  /\ \A r \in Requests : Sound(tx[r])
  /\ StatusIsProjection

\* The steps of a request that has found its invoice, or its account.
WithInvoice ==
  {"submit.update", "submit.commit",
   "approve.begin", "approve.update", "approve.commit", "approve.notify",
   "finance.begin", "finance.update", "finance.commit",
   "assess.begin", "assess.record", "assess.commit",
   "van.existing", "van.begin", "van.insert", "van.commit"}
WithVanFound == Steps("pay") \ {"pay.find"}

SessionInv ==
  /\ SessionOK
  /\ \A r \in Requests :
       /\ pc[r] \in WithInvoice => cmd[r].invoice \in DOMAIN invoices
       /\ pc[r] \in WithVanFound => cmd[r].invoice \in DOMAIN vans

Inv == DatabaseInv /\ SessionInv

-----------------------------------------------------------------------------
(* What each database operation preserves *)

LEMMA NoTxSound == ASSUME DatabaseInv PROVE Sound(NoTx)
  <1>1. IsTransaction(NoTx)
    BY NoTxOK
  <1>2. NoTx.invoices = NoRows /\ NoTx.vans = NoRows /\ \A i \in Invoices : NoTx.events[i] = <<>>
    BY DEF NoTx
  <1>3. DOMAIN NoRows = {}
    BY DEF NoRows
  <1>4. StatusEvents(<<>>) = {}
    BY DEF StatusEvents
  <1> QED BY <1>1, <1>2, <1>3, <1>4 DEF Sound, Tells

\* A step that changes only the transaction of r.
LEMMA WriteKeeps ==
  ASSUME DatabaseInv, NEW r \in Requests, tx' = [tx EXCEPT ![r] = tx'[r]], Sound(tx'[r]),
         UNCHANGED tables, clock' \in Nat
  PROVE  DatabaseInv'
  <1> USE DEF tables
  <1>1. ASSUME NEW s \in Requests
        PROVE  Sound(tx[s])'
    <2>1. tx'[s] = IF s = r THEN tx'[r] ELSE tx[s]
      BY DEF DatabaseInv, DatabaseOK
    <2>2. Sound(tx'[s])
      BY <2>1 DEF DatabaseInv
    <2> QED BY <2>2 DEF Sound, Tells, IsTransaction, LogSays, StatusEvents
  <1>2. (\A s \in Requests : IsTransaction(tx[s]))'
    BY <1>1 DEF Sound
  <1>3. tx' = [s \in Requests |-> tx'[s]]
    BY DEF DatabaseInv, DatabaseOK
  <1>4. DatabaseOK'
    BY <1>2, <1>3 DEF DatabaseInv, DatabaseOK, IsTable
  <1>5. StatusIsProjection'
    BY DEF DatabaseInv, StatusIsProjection, LogSays, StatusEvents
  <1> QED BY <1>1, <1>4, <1>5 DEF DatabaseInv

LEMMA CommitKeeps ==
  ASSUME DatabaseInv, NEW r \in Requests, Commit(r)
  PROVE  /\ DatabaseInv'
         /\ DOMAIN invoices \subseteq DOMAIN invoices'
         /\ DOMAIN vans \subseteq DOMAIN vans'
  <1> DEFINE t == tx[r]
  <1>1. Sound(t) /\ IsTransaction(t)
    BY DEF DatabaseInv, Sound
  <1>2. IsTable(t.invoices, InvoiceRows) /\ IsTable(t.vans, VanRows)
    BY <1>1 DEF IsTransaction
  <1>3. IsTable(invoices, InvoiceRows) /\ IsTable(vans, VanRows)
    BY DEF DatabaseInv, DatabaseOK
  <1>4. /\ invoices' = Over(t.invoices, invoices) /\ vans' = Over(t.vans, vans)
        /\ events' = [i \in Invoices |-> events[i] \o t.events[i]]
        /\ ledger' = ledger \cup t.ledger
        /\ tx' = [tx EXCEPT ![r] = NoTx] /\ clock' = clock
    BY DEF Commit
  <1>5. IsTable(invoices, InvoiceRows)' /\ IsTable(vans, VanRows)'
    <2>1. IsTable(Over(t.invoices, invoices), InvoiceRows)
      BY <1>2, <1>3, OverIsTable
    <2>2. IsTable(Over(t.vans, vans), VanRows)
      BY <1>2, <1>3, OverIsTable
    <2> QED BY <1>4, <2>1, <2>2
  <1>6. /\ DOMAIN invoices' = DOMAIN invoices
        /\ DOMAIN vans' = DOMAIN t.vans \cup DOMAIN vans
        /\ \A i \in DOMAIN invoices :
             invoices'[i] = IF i \in DOMAIN t.invoices THEN t.invoices[i] ELSE invoices[i]
    BY <1>1, <1>4 DEF Over, Sound
  <1>7. events \in [Invoices -> Seq(Events)] /\ t.events \in [Invoices -> Seq(Events)]
    BY <1>1 DEF DatabaseInv, DatabaseOK, IsTransaction
  <1>8. events' \in [Invoices -> Seq(Events)]
    BY <1>4, <1>7
  <1>9. \A s \in Requests : tx'[s] = IF s = r THEN NoTx ELSE tx[s]
    BY <1>4 DEF DatabaseInv, DatabaseOK
  <1>10. ASSUME NEW s \in Requests
         PROVE  Sound(tx[s])'
    <2>1. Sound(tx'[s])
      BY <1>9, NoTxSound DEF DatabaseInv
    <2> QED BY <1>6, <2>1 DEF Sound, Tells, IsTransaction, LogSays, StatusEvents
  <1>11. DatabaseOK'
    <2>1. (\A s \in Requests : IsTransaction(tx[s]))'
      BY <1>10 DEF Sound
    <2>2. tx' = [s \in Requests |-> tx'[s]]
      BY <1>4 DEF DatabaseInv, DatabaseOK
    <2>3. ledger' \in SUBSET Entries /\ clock' \in Nat
      BY <1>1, <1>4 DEF DatabaseInv, DatabaseOK, IsTransaction
    <2> QED BY <1>5, <1>8, <2>1, <2>2, <2>3 DEF DatabaseOK
  <1>12. StatusIsProjection'
    <2> SUFFICES ASSUME NEW i \in Invoices
                 PROVE  IF i \in DOMAIN invoices' THEN LogSays(events'[i], invoices'[i].status)
                                                  ELSE events'[i] = <<>>
      BY DEF StatusIsProjection, LogSays, StatusEvents
    <2>1. events'[i] = events[i] \o t.events[i] /\ events[i] \in Seq(Events)
          /\ t.events[i] \in Seq(Events)
      BY <1>4, <1>7
    <2>2. Tells(t, i)
      BY <1>1 DEF Sound
    <2>3. CASE i \notin DOMAIN invoices
      <3>1. events[i] = <<>> /\ t.events[i] = <<>>
        BY <2>2, <2>3 DEF DatabaseInv, StatusIsProjection, Tells
      <3>2. <<>> \o <<>> = <<>>
        OBVIOUS
      <3> QED BY <1>6, <2>1, <2>3, <3>1, <3>2
    <2>4. CASE i \in DOMAIN invoices /\ i \in DOMAIN t.invoices
      <3>1. StatusEvents(t.events[i]) # {} /\ LogSays(t.events[i], t.invoices[i].status)
        BY <2>2, <2>4 DEF Tells
      <3>2. LogSays(events[i] \o t.events[i], t.invoices[i].status)
        BY <2>1, <3>1, ConcatTells
      <3> QED BY <1>6, <2>1, <2>4, <3>2
    <2>5. CASE i \in DOMAIN invoices /\ i \notin DOMAIN t.invoices
      <3>1. StatusEvents(t.events[i]) = {} /\ LogSays(events[i], invoices[i].status)
        BY <2>2, <2>5 DEF Tells, DatabaseInv, StatusIsProjection
      <3>2. LogSays(events[i] \o t.events[i], invoices[i].status)
        BY <2>1, <3>1, ConcatTells
      <3> QED BY <1>6, <2>1, <2>5, <3>2
    <2> QED BY <2>3, <2>4, <2>5
  <1>13. DOMAIN vans' \subseteq DOMAIN invoices'
    BY <1>1, <1>6 DEF DatabaseInv, Sound
  <1> QED BY <1>6, <1>10, <1>11, <1>12, <1>13 DEF DatabaseInv

LEMMA RollbackKeeps ==
  ASSUME DatabaseInv, NEW r \in Requests, Rollback(r)
  PROVE  DatabaseInv' /\ UNCHANGED tables
  <1>1. tx'[r] = NoTx /\ tx' = [tx EXCEPT ![r] = tx'[r]] /\ UNCHANGED tables /\ clock' \in Nat
    BY DEF Rollback, Write, DatabaseInv, DatabaseOK
  <1>2. Sound(tx'[r])
    BY <1>1, NoTxSound
  <1> QED BY <1>1, <1>2, WriteKeeps

LEMMA BeginKeeps ==
  ASSUME DatabaseInv, NEW r \in Requests, Begin(r)
  PROVE  DatabaseInv' /\ UNCHANGED tables
  <1> DEFINE t == [NoTx EXCEPT !.begun = clock + 1]
  <1>1. /\ tx'[r] = t /\ tx' = [tx EXCEPT ![r] = tx'[r]] /\ UNCHANGED tables
        /\ clock' \in Nat /\ clock + 1 \in Nat
    BY DEF Begin, DatabaseInv, DatabaseOK
  <1>2. IsTransaction(NoTx) /\ Sound(NoTx)
    BY NoTxSound DEF Sound
  <1>3. /\ t \in [begun: Nat, invoices: {NoTx.invoices}, vans: {NoTx.vans},
                  ledger: SUBSET Entries, events: [Invoices -> Seq(Events)]]
        /\ t.invoices = NoTx.invoices /\ t.vans = NoTx.vans /\ t.events = NoTx.events
    BY <1>1, <1>2 DEF IsTransaction
  <1>4. IsTransaction(t)
    BY <1>2, <1>3 DEF IsTransaction
  <1>5. Sound(t)
    BY <1>2, <1>3, <1>4 DEF Sound, Tells
  <1> QED BY <1>1, <1>5, WriteKeeps

LEMMA RollbackAllKeeps ==
  ASSUME DatabaseInv, RollbackAll
  PROVE  DatabaseInv' /\ UNCHANGED tables
  <1> USE DEF tables
  <1>1. tx' = [r \in Requests |-> NoTx] /\ UNCHANGED tables /\ clock' = clock
    BY DEF RollbackAll
  <1>2. ASSUME NEW s \in Requests
        PROVE  Sound(tx[s])'
    <2>1. Sound(tx'[s])
      BY <1>1, NoTxSound
    <2> QED BY <1>1, <2>1 DEF Sound, Tells, IsTransaction, LogSays, StatusEvents
  <1>3. (\A s \in Requests : IsTransaction(tx[s]))'
    BY <1>2 DEF Sound
  <1>4. tx' = [s \in Requests |-> tx'[s]]
    BY <1>1
  <1>5. DatabaseOK'
    BY <1>1, <1>3, <1>4 DEF DatabaseInv, DatabaseOK, IsTable
  <1>6. StatusIsProjection'
    BY <1>1 DEF DatabaseInv, StatusIsProjection, LogSays, StatusEvents
  <1> QED BY <1>1, <1>2, <1>5, <1>6 DEF DatabaseInv

\* submitInvoice's INSERT: a DRAFT row whose log is still empty.
LEMMA InsertKeeps ==
  ASSUME DatabaseInv, NEW i \in Invoices, i \notin DOMAIN invoices,
         invoices' = Over(Row(i, [status |-> "DRAFT", signed |-> FALSE]), invoices),
         UNCHANGED <<events, vans, ledger, tx, clock>>
  PROVE  DatabaseInv' /\ DOMAIN invoices' = DOMAIN invoices \cup {i}
  <1> DEFINE draft == [status |-> "DRAFT", signed |-> FALSE]
  <1>1. draft \in InvoiceRows /\ draft.status = "DRAFT"
    BY DEF InvoiceRows, Statuses
  <1>2. /\ IsTable(Row(i, draft), InvoiceRows)
        /\ DOMAIN Row(i, draft) = {i} /\ Row(i, draft)[i] = draft
    BY <1>1, RowIsTable
  <1>3. IsTable(invoices, InvoiceRows) /\ IsTable(vans, VanRows)
    BY DEF DatabaseInv, DatabaseOK
  <1>4. IsTable(Over(Row(i, draft), invoices), InvoiceRows)
    <2> HIDE DEF draft
    <2> QED BY <1>2, <1>3, OverIsTable
  <1>5. /\ DOMAIN invoices' = DOMAIN invoices \cup {i}
        /\ invoices'[i] = draft
        /\ \A j \in DOMAIN invoices : invoices'[j] = invoices[j]
    BY DEF Over, Row
  <1>6. IsTable(invoices, InvoiceRows)' /\ IsTable(vans, VanRows)'
    BY <1>3, <1>4
  <1>7. ASSUME NEW s \in Requests
        PROVE  Sound(tx[s])'
    <2>1. Sound(tx[s]) /\ tx'[s] = tx[s]
      BY DEF DatabaseInv
    <2> QED BY <1>5, <2>1 DEF Sound, Tells, IsTransaction, LogSays, StatusEvents
  <1>8. DatabaseOK'
    <2>1. (\A s \in Requests : IsTransaction(tx[s]))'
      BY <1>7 DEF Sound
    <2> QED BY <1>6, <2>1 DEF DatabaseInv, DatabaseOK
  <1>9. StatusIsProjection'
    <2> SUFFICES ASSUME NEW j \in Invoices
                 PROVE  IF j \in DOMAIN invoices' THEN LogSays(events[j], invoices'[j].status)
                                                  ELSE events[j] = <<>>
      BY DEF StatusIsProjection, LogSays, StatusEvents
    <2>1. CASE j = i
      <3>1. events[i] = <<>>
        BY DEF DatabaseInv, StatusIsProjection
      <3>2. StatusEvents(<<>>) = {}
        BY DEF StatusEvents
      <3> QED BY <1>1, <1>5, <2>1, <3>1, <3>2 DEF LogSays
    <2>2. CASE j # i
      BY <1>5, <2>2 DEF DatabaseInv, StatusIsProjection
    <2> QED BY <2>1, <2>2
  <1>10. DOMAIN vans' \subseteq DOMAIN invoices'
    BY <1>5 DEF DatabaseInv
  <1> QED BY <1>5, <1>7, <1>8, <1>9, <1>10 DEF DatabaseInv

-----------------------------------------------------------------------------
(* The rows a transaction sees, and the transactions the services build *)

LEMMA InvoiceRowOK ==
  ASSUME DatabaseInv, NEW r \in Requests, NEW i \in DOMAIN invoices
  PROVE  i \in Invoices /\ InvoiceRow(r, i) \in InvoiceRows
  <1>1. IsTable(invoices, InvoiceRows) /\ IsTable(tx[r].invoices, InvoiceRows)
    BY DEF DatabaseInv, DatabaseOK, IsTransaction
  <1>2. /\ i \in Invoices /\ invoices[i] \in InvoiceRows
        /\ \A j \in DOMAIN tx[r].invoices : tx[r].invoices[j] \in InvoiceRows
    BY <1>1, TableRow
  <1>3. InvoiceRow(r, i) = IF i \in DOMAIN tx[r].invoices THEN tx[r].invoices[i] ELSE invoices[i]
    BY DEF InvoiceRow, Over
  <1> QED BY <1>2, <1>3

LEMMA VanRowOK ==
  ASSUME DatabaseInv, NEW r \in Requests, NEW i \in DOMAIN vans
  PROVE  i \in Invoices /\ i \in DOMAIN invoices /\ VanRow(r, i) \in VanRows
  <1>1. IsTable(vans, VanRows) /\ IsTable(tx[r].vans, VanRows)
    BY DEF DatabaseInv, DatabaseOK, IsTransaction
  <1>2. /\ i \in Invoices /\ vans[i] \in VanRows
        /\ \A j \in DOMAIN tx[r].vans : tx[r].vans[j] \in VanRows
    BY <1>1, TableRow
  <1>3. VanRow(r, i) = IF i \in DOMAIN tx[r].vans THEN tx[r].vans[i] ELSE vans[i]
    BY DEF VanRow, Over
  <1> QED BY <1>2, <1>3 DEF DatabaseInv

\* A status and the event that names it, in either order.
LEMMA StatusSound ==
  ASSUME NEW t, Sound(t), NEW u, IsTransaction(u), NEW i \in DOMAIN invoices,
         i \in Invoices,
         DOMAIN u.invoices = DOMAIN t.invoices \cup {i},
         \A j \in DOMAIN t.invoices \ {i} : u.invoices[j] = t.invoices[j],
         DOMAIN u.vans \subseteq DOMAIN invoices,
         \A j \in Invoices \ {i} : u.events[j] = t.events[j],
         NEW e \in Events, e.type \in DOMAIN StatusAfter,
         u.events[i] = Append(t.events[i], e),
         u.invoices[i].status = StatusAfter[e.type]
  PROVE  Sound(u)
  <1>1. t.events[i] \in Seq(Events)
    BY DEF Sound, IsTransaction
  <1>2. StatusEvents(u.events[i]) # {} /\ LogSays(u.events[i], u.invoices[i].status)
    BY <1>1, AppendTells
  <1>3. \A j \in Invoices : Tells(u, j)
    <2> TAKE j \in Invoices
    <2>1. CASE j = i
      BY <1>2, <2>1 DEF Tells
    <2>2. CASE j # i
      BY <2>2 DEF Sound, Tells
    <2> QED BY <2>1, <2>2
  <1> QED BY <1>3 DEF Sound

\* An event that names no status.
LEMMA NoteSound ==
  ASSUME NEW t, Sound(t), NEW u, IsTransaction(u), NEW i \in DOMAIN invoices,
         i \in Invoices,
         u.invoices = t.invoices,
         DOMAIN u.vans \subseteq DOMAIN invoices,
         \A j \in Invoices \ {i} : u.events[j] = t.events[j],
         NEW e \in Events, e.type \notin DOMAIN StatusAfter,
         u.events[i] = Append(t.events[i], e)
  PROVE  Sound(u)
  <1>1. t.events[i] \in Seq(Events)
    BY DEF Sound, IsTransaction
  <1>2. StatusEvents(u.events[i]) = StatusEvents(t.events[i])
    BY <1>1, AppendTells
  <1>3. i \in DOMAIN t.invoices => LogSays(t.events[i], t.invoices[i].status)
                                   /\ StatusEvents(t.events[i]) # {}
    BY DEF Sound, Tells
  <1>4. ASSUME NEW status, LogSays(t.events[i], status)
        PROVE  LogSays(u.events[i], status)
    <2>1. \A m \in StatusEvents(t.events[i]) : u.events[i][m] = t.events[i][m]
      BY <1>1 DEF StatusEvents
    <2> QED BY <1>2, <1>4, <2>1 DEF LogSays
  <1>5. \A j \in Invoices : Tells(u, j)
    <2> TAKE j \in Invoices
    <2>1. CASE j = i
      <3>1. CASE i \in DOMAIN t.invoices
        BY <1>2, <1>3, <1>4, <2>1, <3>1 DEF Tells
      <3>2. CASE i \notin DOMAIN t.invoices
        BY <1>2, <2>1, <3>2 DEF Tells, Sound
      <3> QED BY <3>1, <3>2
    <2>2. CASE j # i
      BY <2>2 DEF Sound, Tells
    <2> QED BY <2>1, <2>2
  <1> QED BY <1>5 DEF Sound

\* Accounts and entries say nothing of any status.
LEMMA MoneySound ==
  ASSUME NEW t, Sound(t), NEW u, IsTransaction(u), u.invoices = t.invoices,
         u.events = t.events, DOMAIN u.vans \subseteq DOMAIN invoices
  PROVE  Sound(u)
  BY DEF Sound, Tells

\* updateStatus and append, as submitInvoice, approveInvoice, requestFinancing
\* and recordPayment call them.
LEMMA StatusThenEvent ==
  ASSUME NEW t, Sound(t), NEW i \in DOMAIN invoices, i \in Invoices,
         NEW row \in InvoiceRows, NEW type \in DOMAIN StatusAfter,
         NEW u, u = WithEvent(WithStatus(t, row, i, StatusAfter[type]), i, type)
  PROVE  Sound(u)
  <1> DEFINE v == WithStatus(t, row, i, StatusAfter[type])
  <1>1. IsTransaction(t) /\ StatusAfter[type] \in Statuses /\ type \in EventTypes
    BY DEF Sound, StatusAfter, Statuses, EventTypes
  <1>2. /\ IsTransaction(v)
        /\ DOMAIN v.invoices = DOMAIN t.invoices \cup {i}
        /\ v.invoices[i].status = StatusAfter[type]
        /\ \A j \in DOMAIN t.invoices \ {i} : v.invoices[j] = t.invoices[j]
        /\ v.vans = t.vans /\ v.events = t.events
    BY <1>1, WithStatusOK
  <1> HIDE DEF v
  <1>3. u = WithEvent(v, i, type)
    BY DEF v
  <1>4. /\ IsTransaction(u) /\ u.invoices = v.invoices /\ u.vans = v.vans
        /\ \A j \in Invoices \ {i} : u.events[j] = v.events[j]
    BY <1>1, <1>2, <1>3, WithEventOK
  <1>5. PICK e \in Events : e.type = type /\ u.events[i] = Append(v.events[i], e)
    BY <1>1, <1>2, <1>3, WithEventOK
  <1>6. /\ DOMAIN u.invoices = DOMAIN t.invoices \cup {i}
        /\ \A j \in DOMAIN t.invoices \ {i} : u.invoices[j] = t.invoices[j]
        /\ u.invoices[i].status = StatusAfter[e.type]
        /\ \A j \in Invoices \ {i} : u.events[j] = t.events[j]
        /\ u.events[i] = Append(t.events[i], e)
        /\ e.type \in DOMAIN StatusAfter
    BY <1>2, <1>4, <1>5
  <1>7. DOMAIN u.vans \subseteq DOMAIN invoices
    BY <1>2, <1>4 DEF Sound
  <1> QED BY <1>4, <1>6, <1>7, StatusSound

\* The same two, in the order assessAndRecord calls them.
LEMMA EventThenStatus ==
  ASSUME NEW t, Sound(t), NEW i \in DOMAIN invoices, i \in Invoices,
         NEW row \in InvoiceRows, NEW type \in DOMAIN StatusAfter,
         NEW u, u = WithStatus(WithEvent(t, i, type), row, i, StatusAfter[type])
  PROVE  Sound(u)
  <1> DEFINE v == WithEvent(t, i, type)
  <1>1. IsTransaction(t) /\ StatusAfter[type] \in Statuses /\ type \in EventTypes
    BY DEF Sound, StatusAfter, Statuses, EventTypes
  <1>2. /\ IsTransaction(v) /\ v.invoices = t.invoices /\ v.vans = t.vans
        /\ \A j \in Invoices \ {i} : v.events[j] = t.events[j]
    BY <1>1, WithEventOK
  <1>3. PICK e \in Events : e.type = type /\ v.events[i] = Append(t.events[i], e)
    BY <1>1, WithEventOK
  <1> HIDE DEF v
  <1>4. u = WithStatus(v, row, i, StatusAfter[type])
    BY DEF v
  <1>5. /\ IsTransaction(u)
        /\ DOMAIN u.invoices = DOMAIN v.invoices \cup {i}
        /\ u.invoices[i].status = StatusAfter[type]
        /\ \A j \in DOMAIN v.invoices \ {i} : u.invoices[j] = v.invoices[j]
        /\ u.vans = v.vans /\ u.events = v.events
    BY <1>1, <1>2, <1>4, WithStatusOK
  <1>6. /\ DOMAIN u.invoices = DOMAIN t.invoices \cup {i}
        /\ \A j \in DOMAIN t.invoices \ {i} : u.invoices[j] = t.invoices[j]
        /\ u.invoices[i].status = StatusAfter[e.type]
        /\ \A j \in Invoices \ {i} : u.events[j] = t.events[j]
        /\ u.events[i] = Append(t.events[i], e)
        /\ e.type \in DOMAIN StatusAfter
    BY <1>2, <1>3, <1>5
  <1>7. DOMAIN u.vans \subseteq DOMAIN invoices
    BY <1>2, <1>5 DEF Sound
  <1> QED BY <1>5, <1>6, <1>7, StatusSound

LEMMA EventOnly ==
  ASSUME NEW t, Sound(t), NEW i \in DOMAIN invoices, i \in Invoices,
         NEW type \in EventTypes, type \notin DOMAIN StatusAfter
  PROVE  Sound(WithEvent(t, i, type))
  <1> DEFINE u == WithEvent(t, i, type)
  <1>1. IsTransaction(t)
    BY DEF Sound
  <1>2. /\ IsTransaction(u) /\ u.invoices = t.invoices /\ u.vans = t.vans
        /\ \A j \in Invoices \ {i} : u.events[j] = t.events[j]
    BY <1>1, WithEventOK
  <1>3. PICK e \in Events : e.type = type /\ u.events[i] = Append(t.events[i], e)
    BY <1>1, WithEventOK
  <1>4. DOMAIN u.vans \subseteq DOMAIN invoices
    BY <1>2 DEF Sound
  <1> HIDE DEF u
  <1>5. Sound(u)
    BY <1>2, <1>3, <1>4, NoteSound
  <1> QED BY <1>5 DEF u

-----------------------------------------------------------------------------
(* Requests *)

Ops == {"submit", "approve", "finance", "assess", "createVan", "pay"}

LEMMA DecisionHasEvent ==
  ASSUME NEW c
  PROVE  AssessInvoiceRisk(c).decision \in DOMAIN RiskEvent
  <1>1. \E x \in {"APPROVE", "MANUAL_REVIEW", "REJECT"} : AssessInvoiceRisk(c).decision = x
    BY DEF AssessInvoiceRisk, Result
  <1> QED BY <1>1 DEF RiskEvent

LEMMA CommandFields ==
  ASSUME NEW c \in Cmds
  PROVE  /\ c.op \in Ops /\ c.invoice \in Invoices
         /\ c.op = "assess" => c.decision \in DOMAIN RiskEvent
         /\ c.op = "createVan" => c.expected \in Expected
         /\ c.op = "pay" => c.key \in Keys /\ c.amount \in Nat
  <1>1. CASE c \in InvoiceCmds
    BY <1>1 DEF InvoiceCmds, Ops
  <1>2. CASE c \in CreateVanCmds
    BY <1>2 DEF CreateVanCmds, Ops
  <1>3. CASE c \in PayCmds
    <2>1. PICK p \in Payments :
            c = [op |-> "pay", invoice |-> p.invoice, amount |-> p.amount, key |-> p.key]
      BY <1>3 DEF PayCmds
    <2>2. p.invoice \in Invoices /\ p.amount \in Nat /\ p.key \in Keys
      BY VanAssumption DEF Keys
    <2> QED BY <2>1, <2>2 DEF Ops
  <1>4. CASE c \in AssessCmds
    <2>1. PICK d \in Assessments : c = [op |-> "assess", invoice |-> c.invoice,
                                       decision |-> AssessInvoiceRisk(d).decision]
      BY <1>4 DEF AssessCmds
    <2>2. c.op = "assess" /\ c.invoice \in Invoices
      BY <1>4 DEF AssessCmds
    <2>3. AssessInvoiceRisk(d).decision \in DOMAIN RiskEvent
      BY DecisionHasEvent
    <2> QED BY <2>1, <2>2, <2>3 DEF Ops
  <1> QED BY <1>1, <1>2, <1>3, <1>4 DEF Cmds

\* A step belongs to one operation, and only a request for it is there.
LEMMA StepOfOp ==
  ASSUME SessionOK, NEW r \in Requests, NEW op \in Ops, pc[r] \in Steps(op)
  PROVE  cmd[r] \in Cmds /\ cmd[r].op = op
  <1>1. cmd[r] \in Cmds \cup {NoCmd}
    BY DEF SessionOK
  <1>2. pc[r] \in Steps(cmd[r].op) \cup (IF cmd[r] = NoCmd THEN {"idle"} ELSE Answers)
    BY DEF SessionOK
  <1>3. pc[r] \notin Answers \cup {"idle"}
    BY DEF Steps, Answers, Ops
  <1>4. pc[r] \in Steps(cmd[r].op)
    BY <1>2, <1>3
  <1>5. NoCmd.op = "none" /\ Steps("none") = {}
    BY DEF NoCmd, Steps
  <1>6. cmd[r] \in Cmds
    BY <1>1, <1>4, <1>5
  <1>7. cmd[r].op \in Ops
    BY <1>6, CommandFields
  <1>8. \A a, b \in Ops : a # b => Steps(a) \cap Steps(b) = {}
    BY DEF Steps, Ops
  <1> QED BY <1>4, <1>6, <1>7, <1>8

\* A step of request r that leaves its command alone and may add a job.
LEMMA SessionKeeps ==
  ASSUME SessionInv, NEW r \in Requests, cmd[r] \in Cmds,
         pc' = [pc EXCEPT ![r] = pc'[r]],
         pc'[r] \in Steps(cmd[r].op) \cup Answers,
         UNCHANGED <<cmd, issued>>,
         seen' \in [Requests -> VanStatuses \cup {NotRead}],
         jobs' \subseteq jobs \cup {ApprovedJob(cmd[r].invoice), ReceiptJob(cmd[r].invoice)},
         DOMAIN invoices \subseteq DOMAIN invoices', DOMAIN vans \subseteq DOMAIN vans',
         pc'[r] \in WithInvoice => cmd[r].invoice \in DOMAIN invoices',
         pc'[r] \in WithVanFound => cmd[r].invoice \in DOMAIN vans'
  PROVE  SessionInv'
  <1>1. \A s \in Requests : pc'[s] = IF s = r THEN pc'[r] ELSE pc[s]
    BY DEF SessionInv, SessionOK
  <1>2. pc' = [s \in Requests |-> pc'[s]]
    BY DEF SessionInv, SessionOK
  <1>3. cmd[r].invoice \in Invoices /\ cmd[r] # NoCmd
    <2>1. cmd[r].invoice \in Invoices /\ cmd[r].op \in Ops
      BY CommandFields
    <2> QED BY <2>1 DEF NoCmd, Ops
  <1>4. jobs' \subseteq {ApprovedJob(i) : i \in Invoices} \cup {ReceiptJob(i) : i \in Invoices}
    BY <1>3 DEF SessionInv, SessionOK
  <1>5. SessionOK'
    <2>1. \A s \in Requests : pc'[s] \in
            Steps(cmd[s].op) \cup (IF cmd[s] = NoCmd THEN {"idle"} ELSE Answers)
      BY <1>1, <1>3 DEF SessionInv, SessionOK
    <2> QED BY <1>2, <1>4, <2>1 DEF SessionInv, SessionOK
  <1>6. ASSUME NEW s \in Requests
        PROVE  /\ pc'[s] \in WithInvoice => cmd[s].invoice \in DOMAIN invoices'
               /\ pc'[s] \in WithVanFound => cmd[s].invoice \in DOMAIN vans'
    <2>1. CASE s = r
      BY <2>1
    <2>2. CASE s # r
      <3>1. pc'[s] = pc[s]
        BY <1>1, <2>2
      <3>2. /\ pc[s] \in WithInvoice => cmd[s].invoice \in DOMAIN invoices
            /\ pc[s] \in WithVanFound => cmd[s].invoice \in DOMAIN vans
        BY DEF SessionInv
      <3> QED BY <3>1, <3>2
    <2> QED BY <2>1, <2>2
  <1> QED BY <1>5, <1>6 DEF SessionInv

\* The same with nothing said of where the request goes: it stays with its
\* operation and keeps what it has found.
LEMMA MovesKeeps ==
  ASSUME SessionInv, NEW r \in Requests, NEW op \in Ops, pc[r] \in Steps(op),
         NEW to \in Steps(op) \cup Answers, Moves(r, to),
         DOMAIN invoices \subseteq DOMAIN invoices', DOMAIN vans \subseteq DOMAIN vans',
         to \in WithInvoice => pc[r] \in WithInvoice \/ cmd[r].invoice \in DOMAIN invoices',
         to \in WithVanFound => pc[r] \in WithVanFound \/ cmd[r].invoice \in DOMAIN vans'
  PROVE  SessionInv'
  <1>1. cmd[r] \in Cmds /\ cmd[r].op = op
    BY StepOfOp DEF SessionInv
  <1>2. pc' = [pc EXCEPT ![r] = pc'[r]] /\ pc'[r] = to /\ UNCHANGED <<cmd, seen, jobs, issued>>
    BY DEF Moves, Goto, SessionInv, SessionOK
  <1>3. /\ to \in WithInvoice => cmd[r].invoice \in DOMAIN invoices'
        /\ to \in WithVanFound => cmd[r].invoice \in DOMAIN vans'
    BY DEF SessionInv
  <1>4. seen' \in [Requests -> VanStatuses \cup {NotRead}] /\ jobs' \subseteq jobs
    BY <1>2 DEF SessionInv, SessionOK
  <1> QED BY <1>1, <1>2, <1>3, <1>4, SessionKeeps

-----------------------------------------------------------------------------
(* The kinds of step the services are made of.  Each stays with its operation *)
(* and needs nothing it has not found.                                        *)

Follows(r, to) ==
  /\ to \in WithInvoice => pc[r] \in WithInvoice \/ cmd[r].invoice \in DOMAIN invoices
  /\ to \in WithVanFound => pc[r] \in WithVanFound \/ cmd[r].invoice \in DOMAIN vans

LEMMA WritesKeep ==
  ASSUME Inv, NEW r \in Requests, NEW op \in Ops, pc[r] \in Steps(op),
         NEW to \in Steps(op) \cup Answers, Moves(r, to), Follows(r, to),
         tx' = [tx EXCEPT ![r] = tx'[r]], Sound(tx'[r]), UNCHANGED tables, clock' \in Nat
  PROVE  Inv'
  <1>1. DatabaseInv'
    BY WriteKeeps DEF Inv
  <1>2. invoices' = invoices /\ vans' = vans
    BY DEF tables
  <1>3. SessionInv'
    BY <1>2, MovesKeeps DEF Inv, Follows
  <1> QED BY <1>1, <1>3 DEF Inv

LEMMA ReadsKeep ==
  ASSUME Inv, NEW r \in Requests, NEW op \in Ops, pc[r] \in Steps(op),
         NEW to \in Steps(op) \cup Answers, Reads(r, to), Follows(r, to)
  PROVE  Inv'
  <1>1. Moves(r, to) /\ UNCHANGED tables /\ tx' = tx /\ clock' = clock
    BY DEF Reads, db
  <1>2. tx' = [tx EXCEPT ![r] = tx'[r]] /\ Sound(tx'[r]) /\ clock' \in Nat
    BY <1>1 DEF Inv, DatabaseInv, DatabaseOK
  <1> QED BY <1>1, <1>2, WritesKeep

LEMMA RefusesKeep ==
  ASSUME Inv, NEW r \in Requests, NEW op \in Ops, pc[r] \in Steps(op),
         NEW to \in Answers, Rollback(r), Moves(r, to)
  PROVE  Inv'
  <1>1. DatabaseInv' /\ UNCHANGED tables
    BY RollbackKeeps DEF Inv
  <1>2. to \notin WithInvoice /\ to \notin WithVanFound
    BY DEF Answers, WithInvoice, WithVanFound, Steps
  <1>3. SessionInv'
    BY <1>1, <1>2, MovesKeeps DEF Inv, tables
  <1> QED BY <1>1, <1>3 DEF Inv

LEMMA OpensKeep ==
  ASSUME Inv, NEW r \in Requests, NEW op \in Ops, NEW from \in Steps(op),
         NEW to \in Steps(op), Opens(r, from, to), Follows(r, to)
  PROVE  Inv'
  <1>1. pc[r] = from /\ Begin(r) /\ Moves(r, to)
    BY DEF Opens
  <1>2. DatabaseInv' /\ UNCHANGED tables
    BY <1>1, BeginKeeps DEF Inv
  <1>3. SessionInv'
    BY <1>1, <1>2, MovesKeeps DEF Inv, Follows, tables
  <1> QED BY <1>2, <1>3 DEF Inv

LEMMA CommitsKeep ==
  ASSUME Inv, NEW r \in Requests, NEW op \in Ops, NEW from \in Steps(op),
         NEW to \in Steps(op) \cup Answers, Commits(r, from, to), Follows(r, to)
  PROVE  Inv'
  <1>1. pc[r] = from /\ Commit(r)
    BY DEF Commits
  <1>2. /\ DatabaseInv'
        /\ DOMAIN invoices \subseteq DOMAIN invoices' /\ DOMAIN vans \subseteq DOMAIN vans'
    BY <1>1, CommitKeeps DEF Inv
  <1>3. PICK step \in {to, "error"} : Moves(r, step)
    BY DEF Commits
  <1>4. /\ step \in Steps(op) \cup Answers
        /\ step \in WithInvoice => to \in WithInvoice
        /\ step \in WithVanFound => to \in WithVanFound
    BY DEF Answers, WithInvoice, WithVanFound, Steps
  <1>5. SessionInv'
    BY <1>1, <1>2, <1>3, <1>4, MovesKeeps DEF Inv, Follows
  <1> QED BY <1>2, <1>5 DEF Inv

\* A step after the commit that may add the job of the command's invoice.
LEMMA EnqueuesKeep ==
  ASSUME Inv, NEW r \in Requests, NEW op \in Ops, pc[r] \in Steps(op),
         NEW to \in Steps(op) \cup Answers, Goto(r, to), Follows(r, to),
         UNCHANGED <<db, cmd, seen, issued>>,
         jobs' \subseteq jobs \cup {ApprovedJob(cmd[r].invoice), ReceiptJob(cmd[r].invoice)}
  PROVE  Inv'
  <1>1. UNCHANGED tables /\ tx' = tx /\ clock' = clock
    BY DEF db
  <1>2. tx' = [tx EXCEPT ![r] = tx'[r]] /\ Sound(tx'[r]) /\ clock' \in Nat
    BY <1>1 DEF Inv, DatabaseInv, DatabaseOK
  <1>3. DatabaseInv'
    BY <1>1, <1>2, WriteKeeps DEF Inv
  <1>4. cmd[r] \in Cmds /\ cmd[r].op = op
    BY StepOfOp DEF Inv, SessionInv
  <1>5. pc' = [pc EXCEPT ![r] = pc'[r]] /\ pc'[r] = to
    BY DEF Goto, Inv, SessionInv, SessionOK
  <1>6. invoices' = invoices /\ vans' = vans
    BY <1>1 DEF tables
  <1>7. /\ to \in WithInvoice => cmd[r].invoice \in DOMAIN invoices'
        /\ to \in WithVanFound => cmd[r].invoice \in DOMAIN vans'
    BY <1>6 DEF Follows, Inv, SessionInv
  <1>8. SessionInv'
    BY <1>4, <1>5, <1>6, <1>7, SessionKeeps DEF Inv, SessionInv, SessionOK
  <1> QED BY <1>3, <1>8 DEF Inv

\* A status and its event, written by a request that has found its invoice.
LEMMA StatusStepKeeps ==
  ASSUME Inv, NEW r \in Requests, NEW op \in Ops, pc[r] \in Steps(op),
         NEW to \in Steps(op), Moves(r, to), Follows(r, to),
         NEW row \in InvoiceRows, NEW type \in DOMAIN StatusAfter,
         NEW t, Sound(t),
         cmd[r].invoice \in DOMAIN invoices,
         Write(r, WithEvent(WithStatus(t, row, cmd[r].invoice, StatusAfter[type]),
                            cmd[r].invoice, type))
  PROVE  Inv'
  <1> DEFINE u == WithEvent(WithStatus(t, row, cmd[r].invoice, StatusAfter[type]),
                            cmd[r].invoice, type)
  <1>1. cmd[r].invoice \in Invoices
    BY InvoiceRowOK DEF Inv
  <1>2. Sound(u)
    <2> HIDE DEF u
    <2>1. u = WithEvent(WithStatus(t, row, cmd[r].invoice, StatusAfter[type]),
                        cmd[r].invoice, type)
      BY DEF u
    <2> QED BY <1>1, <2>1, StatusThenEvent
  <1>3. tx' = [tx EXCEPT ![r] = u] /\ UNCHANGED tables /\ clock' \in Nat
    BY DEF Write, Inv, DatabaseInv, DatabaseOK
  <1>4. tx'[r] = u
    BY <1>3 DEF Inv, DatabaseInv, DatabaseOK
  <1> QED BY <1>2, <1>3, <1>4, WritesKeep

-----------------------------------------------------------------------------
(* The steps of the services *)

LEMMA SubmitKeeps ==
  ASSUME Inv, NEW r \in Requests,
         SubmitFind(r) \/ SubmitBegin(r) \/ SubmitSave(r) \/ SubmitUpdate(r) \/ SubmitCommit(r)
  PROVE  Inv'
  <1> DEFINE i == cmd[r].invoice
  <1>1. CASE SubmitFind(r)
    <2>1. pc[r] \in Steps("submit")
      BY <1>1 DEF SubmitFind, Steps
    <2>2. PICK to \in {"submit.begin", "error"} : Reads(r, to)
      BY <1>1 DEF SubmitFind, Reads, Moves, Goto
    <2>3. to \in Steps("submit") \cup Answers /\ Follows(r, to)
      BY DEF Steps, Answers, Follows, WithInvoice, WithVanFound
    <2> QED BY <2>1, <2>2, <2>3, ReadsKeep DEF Ops
  <1>2. CASE SubmitBegin(r)
    <2>1. Opens(r, "submit.begin", "submit.save") /\ Follows(r, "submit.save")
      BY <1>2 DEF SubmitBegin, Follows, WithInvoice, WithVanFound, Steps
    <2> QED BY <2>1, OpensKeep DEF Ops, Steps
  <1>3. CASE SubmitSave(r)
    <2>1. pc[r] \in Steps("submit")
      BY <1>3 DEF SubmitSave, Steps
    <2>2. CASE Rollback(r) /\ Moves(r, "error")
      BY <2>1, <2>2, RefusesKeep DEF Ops, Answers
    <2>3. CASE /\ i \notin DOMAIN invoices
               /\ invoices' = Over(Row(i, [status |-> "DRAFT", signed |-> FALSE]), invoices)
               /\ UNCHANGED <<events, vans, ledger, tx, clock>>
               /\ Moves(r, "submit.update")
      <3>1. i \in Invoices
        BY <2>1, StepOfOp, CommandFields DEF Ops, Inv, SessionInv
      <3>2. DatabaseInv' /\ DOMAIN invoices' = DOMAIN invoices \cup {i}
        BY <2>3, <3>1, InsertKeeps DEF Inv
      <3>3. /\ "submit.update" \in Steps("submit") \cup Answers
            /\ "submit.update" \notin WithVanFound
        BY DEF Steps, WithVanFound
      <3>4. DOMAIN vans \subseteq DOMAIN vans' /\ SessionInv
        BY <2>3 DEF Inv
      <3>5. SessionInv'
        BY <2>1, <2>3, <3>2, <3>3, <3>4, MovesKeeps DEF Ops
      <3> QED BY <3>2, <3>5 DEF Inv
    <2> QED BY <1>3, <2>2, <2>3 DEF SubmitSave
  <1>4. CASE SubmitUpdate(r)
    <2>1. pc[r] \in Steps("submit") /\ i \in DOMAIN invoices
      BY <1>4 DEF SubmitUpdate, Steps, Inv, SessionInv, WithInvoice
    <2>2. InvoiceRow(r, i) \in InvoiceRows /\ Sound(tx[r])
      BY <2>1, InvoiceRowOK DEF Inv, DatabaseInv
    <2>3. /\ "invoice.submitted" \in DOMAIN StatusAfter
          /\ StatusAfter["invoice.submitted"] = "SUBMITTED"
      BY DEF StatusAfter
    <2>4. "submit.commit" \in Steps("submit") /\ Follows(r, "submit.commit")
      BY <2>1 DEF Steps, Follows, WithVanFound
    <2> QED BY <1>4, <2>1, <2>2, <2>3, <2>4, StatusStepKeeps DEF SubmitUpdate, Ops
  <1>5. CASE SubmitCommit(r)
    <2>1. Commits(r, "submit.commit", "ok") /\ Follows(r, "ok")
      BY <1>5 DEF SubmitCommit, Follows, WithInvoice, WithVanFound, Steps
    <2> QED BY <2>1, CommitsKeep DEF Ops, Steps, Answers
  <1> QED BY <1>1, <1>2, <1>3, <1>4, <1>5

LEMMA ApproveKeeps ==
  ASSUME Inv, NEW r \in Requests,
         \/ ApproveFind(r) \/ ApproveBegin(r) \/ ApproveUpdate(r) \/ ApproveCommit(r)
         \/ ApproveNotify(r)
  PROVE  Inv'
  <1> DEFINE i == cmd[r].invoice
  <1>1. CASE ApproveFind(r)
    <2>1. pc[r] \in Steps("approve")
      BY <1>1 DEF ApproveFind, Steps
    <2>2. PICK to \in {"approve.begin", "error"} :
            Reads(r, to) /\ (to = "approve.begin" => i \in DOMAIN invoices)
      BY <1>1 DEF ApproveFind, Reads, Moves, Goto
    <2>3. to \in Steps("approve") \cup Answers /\ Follows(r, to)
      BY <2>2 DEF Steps, Answers, Follows, WithInvoice, WithVanFound
    <2> QED BY <2>1, <2>2, <2>3, ReadsKeep DEF Ops
  <1>2. CASE ApproveBegin(r)
    <2>1. Opens(r, "approve.begin", "approve.update")
      BY <1>2 DEF ApproveBegin
    <2>2. Follows(r, "approve.update")
      BY <2>1 DEF Opens, Follows, WithInvoice, WithVanFound, Steps
    <2> QED BY <2>1, <2>2, OpensKeep DEF Ops, Steps
  <1>3. CASE ApproveUpdate(r)
    <2> DEFINE signed == [InvoiceRow(r, i) EXCEPT !.signed = TRUE]
    <2>1. pc[r] \in Steps("approve") /\ i \in DOMAIN invoices
      BY <1>3 DEF ApproveUpdate, Steps, Inv, SessionInv, WithInvoice
    <2>2. InvoiceRow(r, i) \in InvoiceRows /\ Sound(tx[r])
      BY <2>1, InvoiceRowOK DEF Inv, DatabaseInv
    <2>3. signed \in InvoiceRows
      BY <2>2 DEF InvoiceRows
    <2>4. /\ "invoice.buyer_approved" \in DOMAIN StatusAfter
          /\ StatusAfter["invoice.buyer_approved"] = "BUYER_APPROVED"
      BY DEF StatusAfter
    <2>5. "approve.commit" \in Steps("approve") /\ Follows(r, "approve.commit")
      BY <2>1 DEF Steps, Follows, WithVanFound
    <2>6. /\ Write(r, WithEvent(WithStatus(tx[r], signed, i, StatusAfter["invoice.buyer_approved"]),
                                i, "invoice.buyer_approved"))
          /\ Moves(r, "approve.commit")
      BY <1>3, <2>4 DEF ApproveUpdate
    <2> HIDE DEF signed
    <2> QED BY <2>1, <2>2, <2>3, <2>4, <2>5, <2>6, StatusStepKeeps DEF Ops
  <1>4. CASE ApproveCommit(r)
    <2>1. Commits(r, "approve.commit", "approve.notify")
      BY <1>4 DEF ApproveCommit
    <2>2. Follows(r, "approve.notify")
      BY <2>1 DEF Commits, Follows, WithInvoice, WithVanFound, Steps
    <2> QED BY <2>1, <2>2, CommitsKeep DEF Ops, Steps
  <1>5. CASE ApproveNotify(r)
    <2>1. pc[r] \in Steps("approve") /\ Follows(r, "ok")
      BY <1>5 DEF ApproveNotify, Steps, Follows, WithInvoice, WithVanFound
    <2>2. /\ Goto(r, "ok") /\ UNCHANGED <<db, cmd, seen, issued>>
          /\ jobs' \subseteq jobs \cup {ApprovedJob(i), ReceiptJob(i)}
      BY <1>5 DEF ApproveNotify
    <2> QED BY <2>1, <2>2, EnqueuesKeep DEF Ops, Answers
  <1> QED BY <1>1, <1>2, <1>3, <1>4, <1>5

LEMMA FinanceKeeps ==
  ASSUME Inv, NEW r \in Requests,
         FinanceFind(r) \/ FinanceBegin(r) \/ FinanceUpdate(r) \/ FinanceCommit(r)
  PROVE  Inv'
  <1> DEFINE i == cmd[r].invoice
  <1>1. CASE FinanceFind(r)
    <2>1. pc[r] \in Steps("finance")
      BY <1>1 DEF FinanceFind, Steps
    <2>2. PICK to \in {"finance.begin", "error"} :
            Reads(r, to) /\ (to = "finance.begin" => i \in DOMAIN invoices)
      BY <1>1 DEF FinanceFind, Reads, Moves, Goto
    <2>3. to \in Steps("finance") \cup Answers /\ Follows(r, to)
      BY <2>2 DEF Steps, Answers, Follows, WithInvoice, WithVanFound
    <2> QED BY <2>1, <2>2, <2>3, ReadsKeep DEF Ops
  <1>2. CASE FinanceBegin(r)
    <2>1. Opens(r, "finance.begin", "finance.update")
      BY <1>2 DEF FinanceBegin
    <2>2. Follows(r, "finance.update")
      BY <2>1 DEF Opens, Follows, WithInvoice, WithVanFound, Steps
    <2> QED BY <2>1, <2>2, OpensKeep DEF Ops, Steps
  <1>3. CASE FinanceUpdate(r)
    <2>1. pc[r] \in Steps("finance") /\ i \in DOMAIN invoices
      BY <1>3 DEF FinanceUpdate, Steps, Inv, SessionInv, WithInvoice
    <2>2. InvoiceRow(r, i) \in InvoiceRows /\ Sound(tx[r])
      BY <2>1, InvoiceRowOK DEF Inv, DatabaseInv
    <2>3. /\ "invoice.financing_requested" \in DOMAIN StatusAfter
          /\ StatusAfter["invoice.financing_requested"] = "FINANCING_REQUESTED"
      BY DEF StatusAfter
    <2>4. "finance.commit" \in Steps("finance") /\ Follows(r, "finance.commit")
      BY <2>1 DEF Steps, Follows, WithVanFound
    <2> QED BY <1>3, <2>1, <2>2, <2>3, <2>4, StatusStepKeeps DEF FinanceUpdate, Ops
  <1>4. CASE FinanceCommit(r)
    <2>1. Commits(r, "finance.commit", "ok") /\ Follows(r, "ok")
      BY <1>4 DEF FinanceCommit, Follows, WithInvoice, WithVanFound, Steps
    <2> QED BY <2>1, CommitsKeep DEF Ops, Steps, Answers
  <1> QED BY <1>1, <1>2, <1>3, <1>4

\* The event comes before the status here, and an assessment that is not a
\* rejection writes no status at all.
LEMMA AssessRecordSound ==
  ASSUME Inv, NEW r \in Requests, AssessRecord(r)
  PROVE  Sound(tx'[r]) /\ tx' = [tx EXCEPT ![r] = tx'[r]]
  <1> DEFINE i == cmd[r].invoice
             type == RiskEvent[cmd[r].decision]
             t == WithEvent(tx[r], i, type)
             u == WithStatus(t, InvoiceRow(r, i), i, "CANCELLED")
  <1>1. pc[r] \in Steps("assess") /\ i \in DOMAIN invoices
    BY DEF AssessRecord, Steps, Inv, SessionInv, WithInvoice
  <1>2. cmd[r] \in Cmds /\ cmd[r].op = "assess"
    BY <1>1, StepOfOp DEF Ops, Inv, SessionInv
  <1>3. i \in Invoices /\ cmd[r].decision \in DOMAIN RiskEvent
    BY <1>2, CommandFields
  <1>4. /\ type \in EventTypes
        /\ cmd[r].decision = "REJECT" =>
             type \in DOMAIN StatusAfter /\ StatusAfter[type] = "CANCELLED"
        /\ cmd[r].decision # "REJECT" => type \notin DOMAIN StatusAfter
    BY <1>3 DEF RiskEvent, EventTypes, StatusAfter
  <1>5. Sound(tx[r]) /\ InvoiceRow(r, i) \in InvoiceRows
    BY <1>1, InvoiceRowOK DEF Inv, DatabaseInv
  <1>6. CASE cmd[r].decision = "REJECT"
    <2>1. tx' = [tx EXCEPT ![r] = u] /\ tx'[r] = u
      BY <1>6 DEF AssessRecord, Write, Inv, DatabaseInv, DatabaseOK
    <2>2. u = WithStatus(WithEvent(tx[r], i, type), InvoiceRow(r, i), i, StatusAfter[type])
      BY <1>4, <1>6
    <2>3. Sound(u)
      <3> HIDE DEF u, type
      <3> QED BY <1>1, <1>3, <1>4, <1>5, <1>6, <2>2, EventThenStatus
    <2> QED BY <2>1, <2>3
  <1>7. CASE cmd[r].decision # "REJECT"
    <2>1. tx' = [tx EXCEPT ![r] = t] /\ tx'[r] = t
      BY <1>7 DEF AssessRecord, Write, Inv, DatabaseInv, DatabaseOK
    <2>2. Sound(t)
      <3> HIDE DEF type
      <3> QED BY <1>1, <1>3, <1>4, <1>5, <1>7, EventOnly
    <2> QED BY <2>1, <2>2
  <1> QED BY <1>6, <1>7

LEMMA AssessKeeps ==
  ASSUME Inv, NEW r \in Requests,
         AssessFind(r) \/ AssessBegin(r) \/ AssessRecord(r) \/ AssessCommit(r)
  PROVE  Inv'
  <1> DEFINE i == cmd[r].invoice
  <1>1. CASE AssessFind(r)
    <2>1. pc[r] \in Steps("assess")
      BY <1>1 DEF AssessFind, Steps
    <2>2. PICK to \in {"assess.begin", "error"} :
            Reads(r, to) /\ (to = "assess.begin" => i \in DOMAIN invoices)
      BY <1>1 DEF AssessFind, Reads, Moves, Goto
    <2>3. to \in Steps("assess") \cup Answers /\ Follows(r, to)
      BY <2>2 DEF Steps, Answers, Follows, WithInvoice, WithVanFound
    <2> QED BY <2>1, <2>2, <2>3, ReadsKeep DEF Ops
  <1>2. CASE AssessBegin(r)
    <2>1. Opens(r, "assess.begin", "assess.record")
      BY <1>2 DEF AssessBegin
    <2>2. Follows(r, "assess.record")
      BY <2>1 DEF Opens, Follows, WithInvoice, WithVanFound, Steps
    <2> QED BY <2>1, <2>2, OpensKeep DEF Ops, Steps
  <1>3. CASE AssessRecord(r)
    <2>1. pc[r] \in Steps("assess") /\ pc[r] \in WithInvoice
      BY <1>3 DEF AssessRecord, Steps, WithInvoice
    <2>2. "assess.commit" \in Steps("assess") /\ Follows(r, "assess.commit")
      BY <2>1 DEF Steps, Follows, WithVanFound
    <2>3. /\ Moves(r, "assess.commit")
          /\ Sound(tx'[r]) /\ tx' = [tx EXCEPT ![r] = tx'[r]]
      BY <1>3, AssessRecordSound DEF AssessRecord
    <2>4. UNCHANGED tables /\ clock' \in Nat
      BY <1>3 DEF AssessRecord, Write, Inv, DatabaseInv, DatabaseOK
    <2> QED BY <2>1, <2>2, <2>3, <2>4, WritesKeep DEF Ops
  <1>4. CASE AssessCommit(r)
    <2>1. Commits(r, "assess.commit", "ok") /\ Follows(r, "ok")
      BY <1>4 DEF AssessCommit, Follows, WithInvoice, WithVanFound, Steps
    <2> QED BY <2>1, CommitsKeep DEF Ops, Steps, Answers
  <1> QED BY <1>1, <1>2, <1>3, <1>4

\* The row, the debit and the event of createVan.
LEMMA VanInsertSound ==
  ASSUME Inv, NEW r \in Requests, pc[r] = "van.insert",
         NEW t, t = WithEvent(WithEntry(WithVan(tx[r], cmd[r].invoice,
                                [expected |-> cmd[r].expected, received |-> 0,
                                 status |-> "active"]),
                              Debit(tx[r], cmd[r].invoice, cmd[r].expected)),
                              cmd[r].invoice, "van.created")
  PROVE  Sound(t)
  <1> DEFINE i == cmd[r].invoice
             account == [expected |-> cmd[r].expected, received |-> 0, status |-> "active"]
             advance == Debit(tx[r], i, cmd[r].expected)
             opened == WithVan(tx[r], i, account)
             booked == WithEntry(opened, advance)
  <1>1. i \in DOMAIN invoices
    BY DEF Inv, SessionInv, WithInvoice
  <1>2. cmd[r] \in Cmds /\ cmd[r].op = "createVan"
    <2>1. pc[r] \in Steps("createVan")
      BY DEF Steps
    <2> QED BY <2>1, StepOfOp DEF Ops, Inv, SessionInv
  <1>3. i \in Invoices /\ cmd[r].expected \in Expected /\ cmd[r].expected \in Nat
    BY <1>2, CommandFields, VanAssumption
  <1>4. Sound(tx[r]) /\ IsTransaction(tx[r]) /\ tx[r].begun \in Nat
    BY DEF Inv, DatabaseInv, Sound, IsTransaction
  <1>5. account \in VanRows
    BY <1>3 DEF VanRows, VanStatuses
  <1>6. advance \in Entries
    BY <1>3, <1>4 DEF Debit, Entries, Keys
  <1> HIDE DEF account, advance
  <1>7. /\ IsTransaction(opened) /\ DOMAIN opened.vans = DOMAIN tx[r].vans \cup {i}
        /\ opened.invoices = tx[r].invoices /\ opened.events = tx[r].events
    BY <1>3, <1>4, <1>5, WithVanOK
  <1> HIDE DEF opened
  <1>8. /\ IsTransaction(booked) /\ booked.vans = opened.vans
        /\ booked.invoices = opened.invoices /\ booked.events = opened.events
    BY <1>6, <1>7, WithEntryOK
  <1> HIDE DEF booked
  <1>9. DOMAIN booked.vans \subseteq DOMAIN invoices
    BY <1>1, <1>4, <1>7, <1>8 DEF Sound
  <1>10. Sound(booked)
    BY <1>4, <1>7, <1>8, <1>9, MoneySound
  <1>11. "van.created" \in EventTypes /\ "van.created" \notin DOMAIN StatusAfter
    BY DEF EventTypes, StatusAfter
  <1>12. Sound(WithEvent(booked, i, "van.created"))
    BY <1>1, <1>3, <1>10, <1>11, EventOnly
  <1> QED BY <1>12 DEF booked, opened, account, advance

LEMMA CreateVanKeeps ==
  ASSUME Inv, NEW r \in Requests,
         VanFind(r) \/ VanExisting(r) \/ VanBegin(r) \/ VanInsert(r) \/ VanCommit(r)
  PROVE  Inv'
  <1> DEFINE i == cmd[r].invoice
  <1>1. CASE VanFind(r)
    <2>1. pc[r] \in Steps("createVan")
      BY <1>1 DEF VanFind, Steps
    <2>2. PICK to \in {"van.existing", "error"} :
            Reads(r, to) /\ (to = "van.existing" => i \in DOMAIN invoices)
      BY <1>1 DEF VanFind, Reads, Moves, Goto
    <2>3. to \in Steps("createVan") \cup Answers /\ Follows(r, to)
      BY <2>2 DEF Steps, Answers, Follows, WithInvoice, WithVanFound
    <2> QED BY <2>1, <2>2, <2>3, ReadsKeep DEF Ops
  <1>2. CASE VanExisting(r)
    <2>1. pc[r] \in Steps("createVan") /\ pc[r] \in WithInvoice
      BY <1>2 DEF VanExisting, Steps, WithInvoice
    <2>2. PICK to \in {"van.begin", "error"} : Reads(r, to)
      BY <1>2 DEF VanExisting, Reads, Moves, Goto
    <2>3. to \in Steps("createVan") \cup Answers /\ Follows(r, to)
      BY <2>1 DEF Steps, Answers, Follows, WithVanFound
    <2> QED BY <2>1, <2>2, <2>3, ReadsKeep DEF Ops
  <1>3. CASE VanBegin(r)
    <2>1. Opens(r, "van.begin", "van.insert")
      BY <1>3 DEF VanBegin
    <2>2. Follows(r, "van.insert")
      BY <2>1 DEF Opens, Follows, WithInvoice, WithVanFound, Steps
    <2> QED BY <2>1, <2>2, OpensKeep DEF Ops, Steps
  <1>4. CASE VanInsert(r)
    <2>1. pc[r] \in Steps("createVan") /\ pc[r] \in WithInvoice /\ pc[r] = "van.insert"
      BY <1>4 DEF VanInsert, Steps, WithInvoice
    <2>2. CASE Rollback(r) /\ Moves(r, "error")
      BY <2>1, <2>2, RefusesKeep DEF Ops, Answers
    <2>3. CASE /\ tx'[r] = WithEvent(WithEntry(WithVan(tx[r], i,
                                       [expected |-> cmd[r].expected, received |-> 0,
                                        status |-> "active"]),
                                     Debit(tx[r], i, cmd[r].expected)),
                                     i, "van.created")
               /\ tx' = [tx EXCEPT ![r] = tx'[r]]
               /\ UNCHANGED <<tables, clock>>
               /\ Moves(r, "van.commit")
      <3>1. Sound(tx'[r])
        BY <2>1, <2>3, VanInsertSound
      <3>2. clock' \in Nat
        BY <2>3 DEF Inv, DatabaseInv, DatabaseOK
      <3>3. "van.commit" \in Steps("createVan") /\ Follows(r, "van.commit")
        BY <2>1 DEF Steps, Follows, WithVanFound
      <3> QED BY <2>1, <2>3, <3>1, <3>2, <3>3, WritesKeep DEF Ops
    <2> QED BY <1>4, <2>2, <2>3 DEF VanInsert, Write, Inv, DatabaseInv, DatabaseOK
  <1>5. CASE VanCommit(r)
    <2>1. Commits(r, "van.commit", "ok") /\ Follows(r, "ok")
      BY <1>5 DEF VanCommit, Follows, WithInvoice, WithVanFound, Steps
    <2> QED BY <2>1, CommitsKeep DEF Ops, Steps, Answers
  <1> QED BY <1>1, <1>2, <1>3, <1>4, <1>5

\* The statements of recordPayment touch accounts and entries; only its last one
\* touches an invoice.
LEMMA PayWritesSound ==
  ASSUME Inv, NEW r \in Requests, pc[r] \in {"pay.insert", "pay.receive", "pay.settle"}
  PROVE  /\ cmd[r].invoice \in DOMAIN invoices /\ cmd[r].invoice \in Invoices
         /\ Sound(WithEntry(tx[r], Credit(tx[r], cmd[r])))
         /\ Sound(WithVan(tx[r], cmd[r].invoice,
                          Received(VanRow(r, cmd[r].invoice), cmd[r].amount)))
         /\ Sound(WithVan(tx[r], cmd[r].invoice,
                          [VanRow(r, cmd[r].invoice) EXCEPT !.status = "settled"]))
  <1> DEFINE i == cmd[r].invoice
             row == VanRow(r, i)
             entry == Credit(tx[r], cmd[r])
             received == Received(row, cmd[r].amount)
             settled == [row EXCEPT !.status = "settled"]
  <1>1. pc[r] \in Steps("pay") /\ pc[r] \in WithVanFound
    BY DEF Steps, WithVanFound
  <1>2. cmd[r] \in Cmds /\ cmd[r].op = "pay"
    BY <1>1, StepOfOp DEF Ops, Inv, SessionInv
  <1>3. i \in Invoices /\ cmd[r].key \in Keys /\ cmd[r].amount \in Nat
    BY <1>2, CommandFields
  <1>4. i \in DOMAIN vans
    BY <1>1 DEF Inv, SessionInv
  <1>5. i \in DOMAIN invoices /\ row \in VanRows
    BY <1>4, VanRowOK DEF Inv
  <1>6. Sound(tx[r]) /\ IsTransaction(tx[r]) /\ tx[r].begun \in Nat
    BY DEF Inv, DatabaseInv, Sound, IsTransaction
  <1>7. entry \in Entries
    BY <1>3, <1>6 DEF Credit, Entries
  <1>8. received \in VanRows /\ settled \in VanRows
    BY <1>3, <1>5 DEF Received, VanRows, VanStatuses
  <1> HIDE DEF row, entry, received, settled
  <1>9. Sound(WithEntry(tx[r], entry))
    <2>1. LET u == WithEntry(tx[r], entry) IN
            /\ IsTransaction(u) /\ u.invoices = tx[r].invoices
            /\ u.vans = tx[r].vans /\ u.events = tx[r].events
      BY <1>6, <1>7, WithEntryOK
    <2> QED BY <1>6, <2>1, MoneySound DEF Sound
  <1>10. ASSUME NEW v \in VanRows
         PROVE  Sound(WithVan(tx[r], i, v))
    <2>1. LET u == WithVan(tx[r], i, v) IN
            /\ IsTransaction(u) /\ DOMAIN u.vans = DOMAIN tx[r].vans \cup {i}
            /\ u.invoices = tx[r].invoices /\ u.events = tx[r].events
      BY <1>3, <1>6, WithVanOK
    <2>2. DOMAIN WithVan(tx[r], i, v).vans \subseteq DOMAIN invoices
      BY <1>5, <1>6, <2>1 DEF Sound
    <2> QED BY <1>6, <2>1, <2>2, MoneySound
  <1>11. Sound(WithVan(tx[r], i, received)) /\ Sound(WithVan(tx[r], i, settled))
    BY <1>8, <1>10
  <1> QED BY <1>3, <1>5, <1>9, <1>11 DEF row, entry, received, settled

LEMMA PayReadsKeep ==
  ASSUME Inv, NEW r \in Requests,
         PayFind(r) \/ PayLayer1(r) \/ PayBegin(r) \/ PayEntries(r)
  PROVE  Inv'
  <1> DEFINE i == cmd[r].invoice
  <1>1. CASE PayFind(r)
    <2>1. pc[r] \in Steps("pay") /\ "pay.layer1" \in Steps("pay")
      BY <1>1 DEF PayFind, Steps
    <2>2. cmd[r] \in Cmds /\ cmd[r].op = "pay"
      BY <2>1, StepOfOp DEF Ops, Inv, SessionInv
    <2>3. /\ pc' = [pc EXCEPT ![r] = pc'[r]]
          /\ pc'[r] \in {"pay.layer1", "error"}
          /\ pc'[r] = "pay.layer1" => i \in DOMAIN vans
          /\ UNCHANGED <<db, cmd, jobs, issued>>
      BY <1>1 DEF PayFind, Goto, Inv, SessionInv, SessionOK
    <2>4. UNCHANGED tables /\ tx' = tx /\ clock' = clock /\ vans' = vans /\ invoices' = invoices
      BY <2>3 DEF db, tables
    <2>5. tx' = [tx EXCEPT ![r] = tx'[r]] /\ Sound(tx'[r]) /\ clock' \in Nat
      BY <2>4 DEF Inv, DatabaseInv, DatabaseOK
    <2>6. DatabaseInv'
      BY <2>4, <2>5, WriteKeeps DEF Inv
    <2>7. seen' \in [Requests -> VanStatuses \cup {NotRead}]
      <3>1. \A j \in DOMAIN vans : vans[j].status \in VanStatuses
        <4>1. IsTable(vans, VanRows)
          BY DEF Inv, DatabaseInv, DatabaseOK
        <4>2. \A j \in DOMAIN vans : vans[j] \in VanRows
          BY <4>1, TableRow
        <4> QED BY <4>2 DEF VanRows
      <3> QED BY <1>1, <3>1 DEF PayFind, Inv, SessionInv, SessionOK
    <2>8. pc'[r] \notin WithInvoice /\ ("error" \notin WithVanFound)
      BY <2>3 DEF WithInvoice, WithVanFound, Steps
    <2>9. pc'[r] \in Steps(cmd[r].op) \cup Answers
      BY <2>1, <2>2, <2>3 DEF Answers
    <2>10. SessionInv'
      BY <2>2, <2>3, <2>4, <2>7, <2>8, <2>9, SessionKeeps DEF Inv
    <2> QED BY <2>6, <2>10 DEF Inv
  <1>2. CASE PayLayer1(r)
    <2>1. pc[r] \in Steps("pay") /\ pc[r] \in WithVanFound
      BY <1>2 DEF PayLayer1, Steps, WithVanFound
    <2>2. PICK to \in {"duplicate", "error", "pay.begin"} : Reads(r, to)
      BY <1>2 DEF PayLayer1, Reads, Moves, Goto
    <2>3. to \in Steps("pay") \cup Answers /\ Follows(r, to)
      BY <2>1 DEF Steps, Answers, Follows, WithInvoice
    <2> QED BY <2>1, <2>2, <2>3, ReadsKeep DEF Ops
  <1>3. CASE PayBegin(r)
    <2>1. Opens(r, "pay.begin", "pay.insert")
      BY <1>3 DEF PayBegin
    <2>2. Follows(r, "pay.insert")
      BY <2>1 DEF Opens, Follows, WithInvoice, WithVanFound, Steps
    <2> QED BY <2>1, <2>2, OpensKeep DEF Ops, Steps
  <1>4. CASE PayEntries(r)
    <2>1. pc[r] \in Steps("pay") /\ Reads(r, "ok") /\ Follows(r, "ok")
      BY <1>4 DEF PayEntries, Steps, Follows, WithInvoice, WithVanFound
    <2> QED BY <2>1, ReadsKeep DEF Ops, Answers
  <1> QED BY <1>1, <1>2, <1>3, <1>4

LEMMA PayKeeps ==
  ASSUME Inv, NEW r \in Requests,
         \/ PayInsert(r) \/ PayReceive(r) \/ PaySettle(r)
         \/ PayCommit(r) \/ PayCommitSettled(r) \/ PayEnqueue(r)
  PROVE  Inv'
  <1> DEFINE i == cmd[r].invoice
  <1>1. CASE PayInsert(r)
    <2>1. pc[r] \in Steps("pay") /\ pc[r] \in WithVanFound /\ pc[r] = "pay.insert"
      BY <1>1 DEF PayInsert, Steps, WithVanFound
    <2>2. CASE Rollback(r) /\ Moves(r, "duplicate")
      BY <2>1, <2>2, RefusesKeep DEF Ops, Answers
    <2>3. CASE Write(r, WithEntry(tx[r], Credit(tx[r], cmd[r]))) /\ Moves(r, "pay.receive")
      <3>1. tx'[r] = WithEntry(tx[r], Credit(tx[r], cmd[r])) /\ tx' = [tx EXCEPT ![r] = tx'[r]]
        BY <2>3 DEF Write, Inv, DatabaseInv, DatabaseOK
      <3>2. Sound(tx'[r]) /\ UNCHANGED tables /\ clock' \in Nat
        BY <2>1, <2>3, <3>1, PayWritesSound DEF Write, Inv, DatabaseInv, DatabaseOK
      <3>3. "pay.receive" \in Steps("pay") /\ Follows(r, "pay.receive")
        BY <2>1 DEF Steps, Follows, WithInvoice
      <3> QED BY <2>1, <2>3, <3>1, <3>2, <3>3, WritesKeep DEF Ops
    <2> QED BY <1>1, <2>2, <2>3 DEF PayInsert
  <1>2. CASE PayReceive(r)
    <2> DEFINE u == WithVan(tx[r], i, Received(VanRow(r, i), cmd[r].amount))
    <2>1. pc[r] \in Steps("pay") /\ pc[r] \in WithVanFound /\ pc[r] = "pay.receive"
      BY <1>2 DEF PayReceive, Steps, WithVanFound
    <2>2. PICK to \in {"pay.settle", "pay.commit"} : Moves(r, to)
      BY <1>2 DEF PayReceive, Moves, Goto
    <2>3. to \in Steps("pay") \cup Answers /\ Follows(r, to)
      BY <2>1 DEF Steps, Follows, WithInvoice
    <2>4. Write(r, u)
      BY <1>2 DEF PayReceive
    <2>5. Sound(u)
      BY <2>1, PayWritesSound
    <2> HIDE DEF u
    <2>6. /\ tx'[r] = u /\ tx' = [tx EXCEPT ![r] = tx'[r]]
          /\ UNCHANGED tables /\ clock' \in Nat
      BY <2>4 DEF Write, Inv, DatabaseInv, DatabaseOK
    <2> QED BY <2>1, <2>2, <2>3, <2>5, <2>6, WritesKeep DEF Ops
  <1>3. CASE PaySettle(r)
    <2> DEFINE t == WithVan(tx[r], i, [VanRow(r, i) EXCEPT !.status = "settled"])
    <2>1. pc[r] \in Steps("pay") /\ pc[r] \in WithVanFound /\ pc[r] = "pay.settle"
      BY <1>3 DEF PaySettle, Steps, WithVanFound
    <2>2. i \in DOMAIN invoices /\ Sound(t)
      BY <2>1, PayWritesSound
    <2>3. InvoiceRow(r, i) \in InvoiceRows
      BY <2>2, InvoiceRowOK DEF Inv
    <2>4. "invoice.repaid" \in DOMAIN StatusAfter /\ StatusAfter["invoice.repaid"] = "REPAID"
      BY DEF StatusAfter
    <2>5. "pay.commitSettled" \in Steps("pay") /\ Follows(r, "pay.commitSettled")
      BY <2>1 DEF Steps, Follows, WithInvoice
    <2>6. /\ Write(r, WithEvent(WithStatus(t, InvoiceRow(r, i), i, StatusAfter["invoice.repaid"]),
                                i, "invoice.repaid"))
          /\ Moves(r, "pay.commitSettled")
      BY <1>3, <2>4 DEF PaySettle
    <2> HIDE DEF t
    <2> QED BY <2>1, <2>2, <2>3, <2>4, <2>5, <2>6, StatusStepKeeps DEF Ops
  <1>4. CASE PayCommit(r)
    <2>1. Commits(r, "pay.commit", "pay.entries")
      BY <1>4 DEF PayCommit
    <2>2. Follows(r, "pay.entries")
      BY <2>1 DEF Commits, Follows, WithInvoice, WithVanFound, Steps
    <2> QED BY <2>1, <2>2, CommitsKeep DEF Ops, Steps
  <1>5. CASE PayCommitSettled(r)
    <2>1. Commits(r, "pay.commitSettled", "pay.enqueue")
      BY <1>5 DEF PayCommitSettled
    <2>2. Follows(r, "pay.enqueue")
      BY <2>1 DEF Commits, Follows, WithInvoice, WithVanFound, Steps
    <2> QED BY <2>1, <2>2, CommitsKeep DEF Ops, Steps
  <1>6. CASE PayEnqueue(r)
    <2>1. /\ pc[r] \in Steps("pay") /\ "pay.entries" \in Steps("pay")
          /\ Follows(r, "pay.entries")
      BY <1>6 DEF PayEnqueue, Steps, Follows, WithInvoice, WithVanFound
    <2>2. /\ Goto(r, "pay.entries") /\ UNCHANGED <<db, cmd, seen, issued>>
          /\ jobs' \subseteq jobs \cup {ApprovedJob(i), ReceiptJob(i)}
      BY <1>6 DEF PayEnqueue
    <2> QED BY <2>1, <2>2, EnqueuesKeep DEF Ops
  <1> QED BY <1>1, <1>2, <1>3, <1>4, <1>5, <1>6

-----------------------------------------------------------------------------
(* Requests come, fail, are answered, and die with the process *)

\* A session whose requests differ from those of SessionInv in r only.
LEMMA SlotKeeps ==
  ASSUME SessionInv, NEW r \in Requests, NEW c \in Cmds \cup {NoCmd}, NEW step,
         cmd' = [cmd EXCEPT ![r] = c], pc' = [pc EXCEPT ![r] = step],
         step \in Steps(c.op) \cup (IF c = NoCmd THEN {"idle"} ELSE Answers),
         step \notin WithInvoice, step \notin WithVanFound,
         seen' \in [Requests -> VanStatuses \cup {NotRead}],
         issued' \in 0 .. MaxRequests, UNCHANGED <<jobs, tables>>
  PROVE  SessionInv'
  <1>1. \A s \in Requests : /\ pc'[s] = IF s = r THEN step ELSE pc[s]
                            /\ cmd'[s] = IF s = r THEN c ELSE cmd[s]
    BY DEF SessionInv, SessionOK
  <1>2. pc' = [s \in Requests |-> pc'[s]] /\ cmd' \in [Requests -> Cmds \cup {NoCmd}]
    BY DEF SessionInv, SessionOK
  <1>3. \A s \in Requests : pc'[s] \in
          Steps(cmd'[s].op) \cup (IF cmd'[s] = NoCmd THEN {"idle"} ELSE Answers)
    BY <1>1 DEF SessionInv, SessionOK
  <1>4. SessionOK'
    BY <1>2, <1>3 DEF SessionInv, SessionOK
  <1>5. \A s \in Requests :
          /\ pc'[s] \in WithInvoice => cmd'[s].invoice \in DOMAIN invoices'
          /\ pc'[s] \in WithVanFound => cmd'[s].invoice \in DOMAIN vans'
    BY <1>1 DEF SessionInv, tables
  <1> QED BY <1>4, <1>5 DEF SessionInv

LEMMA DatabaseStays ==
  ASSUME DatabaseInv, UNCHANGED db
  PROVE  DatabaseInv' /\ UNCHANGED tables
  <1> USE DEF db, tables
  <1>1. ASSUME NEW s \in Requests
        PROVE  Sound(tx[s])'
    <2>1. Sound(tx[s]) /\ tx'[s] = tx[s]
      BY DEF DatabaseInv
    <2> QED BY <2>1 DEF Sound, Tells, IsTransaction, LogSays, StatusEvents
  <1>2. (\A s \in Requests : IsTransaction(tx[s]))'
    BY <1>1 DEF Sound
  <1>3. DatabaseOK'
    BY <1>2 DEF DatabaseInv, DatabaseOK, IsTable
  <1>4. StatusIsProjection'
    BY DEF DatabaseInv, StatusIsProjection, LogSays, StatusEvents
  <1> QED BY <1>1, <1>3, <1>4 DEF DatabaseInv

LEMMA ArriveKeeps ==
  ASSUME Inv, NEW r \in Requests, NEW c \in Cmds, NEW step \in Steps(c.op),
         step \notin WithInvoice, step \notin WithVanFound, Arrive(r, c, step)
  PROVE  Inv'
  <1>1. DatabaseInv' /\ UNCHANGED tables
    BY DatabaseStays DEF Arrive, Inv
  <1>2. issued' \in 0 .. MaxRequests
    BY BoundAssumption DEF Arrive, Inv, SessionInv, SessionOK
  <1>3. seen' \in [Requests -> VanStatuses \cup {NotRead}]
    BY DEF Arrive, Inv, SessionInv, SessionOK
  <1>4. /\ cmd' = [cmd EXCEPT ![r] = c] /\ pc' = [pc EXCEPT ![r] = step]
        /\ UNCHANGED jobs /\ SessionInv
    BY DEF Arrive, Goto, Inv
  <1>5. SessionInv'
    BY <1>1, <1>2, <1>3, <1>4, SlotKeeps
  <1> QED BY <1>1, <1>5 DEF Inv

LEMMA ArrivalsKeep ==
  ASSUME Inv, NEW r \in Requests, InvoiceArrive(r) \/ VanArrive(r) \/ RiskArrive(r)
  PROVE  Inv'
  <1>1. CASE InvoiceArrive(r)
    <2>1. PICK c \in InvoiceCmds : Arrive(r, c, InvoiceFirstStep[c.op])
      BY <1>1 DEF InvoiceArrive
    <2>2. PICK step : step = InvoiceFirstStep[c.op]
      OBVIOUS
    <2>3. c \in Cmds /\ c.op \in {"submit", "approve", "finance"}
      BY DEF Cmds, InvoiceCmds
    <2>4. /\ step \in Steps(c.op)
          /\ step \notin WithInvoice /\ step \notin WithVanFound
      BY <2>2, <2>3 DEF InvoiceFirstStep, Steps, WithInvoice, WithVanFound
    <2> QED BY <2>1, <2>2, <2>3, <2>4, ArriveKeeps
  <1>2. CASE \E c \in CreateVanCmds : Arrive(r, c, "van.find")
    <2>1. PICK c \in CreateVanCmds : Arrive(r, c, "van.find")
      BY <1>2
    <2>2. c \in Cmds /\ c.op = "createVan"
      BY DEF Cmds, CreateVanCmds
    <2>3. /\ "van.find" \in Steps(c.op)
          /\ "van.find" \notin WithInvoice /\ "van.find" \notin WithVanFound
      BY <2>2 DEF Steps, WithInvoice, WithVanFound
    <2> QED BY <2>1, <2>2, <2>3, ArriveKeeps
  <1>3. CASE \E c \in PayCmds : Arrive(r, c, "pay.find")
    <2>1. PICK c \in PayCmds : Arrive(r, c, "pay.find")
      BY <1>3
    <2>2. c \in Cmds /\ c.op = "pay"
      BY DEF Cmds, PayCmds
    <2>3. /\ "pay.find" \in Steps(c.op)
          /\ "pay.find" \notin WithInvoice /\ "pay.find" \notin WithVanFound
      BY <2>2 DEF Steps, WithInvoice, WithVanFound
    <2> QED BY <2>1, <2>2, <2>3, ArriveKeeps
  <1>4. CASE RiskArrive(r)
    <2>1. PICK c \in AssessCmds : Arrive(r, c, "assess.find")
      BY <1>4 DEF RiskArrive
    <2>2. c \in Cmds /\ c.op = "assess"
      BY DEF Cmds, AssessCmds
    <2>3. /\ "assess.find" \in Steps(c.op)
          /\ "assess.find" \notin WithInvoice /\ "assess.find" \notin WithVanFound
      BY <2>2 DEF Steps, WithInvoice, WithVanFound
    <2> QED BY <2>1, <2>2, <2>3, ArriveKeeps
  <1> QED BY <1>1, <1>2, <1>3, <1>4 DEF VanArrive

LEMMA FailKeeps ==
  ASSUME Inv, NEW r \in Requests, Fail(r)
  PROVE  Inv'
  <1>1. pc[r] \in Steps(cmd[r].op) /\ cmd[r] \in Cmds \cup {NoCmd}
    BY DEF Fail, Running, Inv, SessionInv, SessionOK
  <1>2. cmd[r] \in Cmds
    BY <1>1 DEF NoCmd, Steps
  <1>3. PICK op \in Ops : pc[r] \in Steps(op)
    BY <1>1, <1>2, CommandFields
  <1> QED BY <1>3, RefusesKeep DEF Fail, Answers

LEMMA RespondKeeps ==
  ASSUME Inv, NEW r \in Requests, Respond(r)
  PROVE  Inv'
  <1>1. DatabaseInv' /\ UNCHANGED tables
    BY DatabaseStays DEF Respond, Inv
  <1>2. /\ seen' \in [Requests -> VanStatuses \cup {NotRead}]
        /\ issued' \in 0 .. MaxRequests /\ UNCHANGED jobs
    BY DEF Respond, Inv, SessionInv, SessionOK
  <1>3. "idle" \notin WithInvoice /\ "idle" \notin WithVanFound
    BY DEF WithInvoice, WithVanFound, Steps
  <1>4. cmd' = [cmd EXCEPT ![r] = NoCmd] /\ pc' = [pc EXCEPT ![r] = "idle"] /\ SessionInv
    BY DEF Respond, Goto, Inv
  <1>5. SessionInv'
    BY <1>1, <1>2, <1>3, <1>4, SlotKeeps
  <1> QED BY <1>1, <1>5 DEF Inv

LEMMA CrashKeeps ==
  ASSUME Inv, Crash
  PROVE  Inv'
  <1>1. DatabaseInv' /\ UNCHANGED tables
    BY RollbackAllKeeps DEF Crash, Inv
  <1>2. \A r \in Requests : pc'[r] = "idle" /\ cmd'[r] = NoCmd
    BY DEF Crash
  <1>3. SessionOK'
    BY <1>2 DEF Crash, Inv, SessionInv, SessionOK
  <1>4. "idle" \notin WithInvoice /\ "idle" \notin WithVanFound
    BY DEF WithInvoice, WithVanFound, Steps
  <1>5. SessionInv'
    BY <1>2, <1>3, <1>4 DEF SessionInv
  <1> QED BY <1>1, <1>5 DEF Inv

-----------------------------------------------------------------------------
(* The theorems *)

LEMMA InitInv == Init => Inv
  <1> SUFFICES ASSUME Init PROVE Inv
    OBVIOUS
  <1> USE DEF Init, ServerInit, DatabaseInit
  <1>1. DatabaseOK
    <2>1. IsTable(NoRows, InvoiceRows) /\ IsTable(NoRows, VanRows)
      BY NoTxOK DEF IsTransaction, NoTx
    <2>2. \A r \in Requests : IsTransaction(tx[r])
      BY NoTxOK
    <2> QED BY <2>1, <2>2 DEF DatabaseOK
  <1>2. DOMAIN NoRows = {}
    BY DEF NoRows
  <1>3. StatusIsProjection
    BY <1>2 DEF StatusIsProjection
  <1>4. \A r \in Requests : Sound(tx[r])
    <2>1. StatusEvents(<<>>) = {} /\ NoTx.invoices = NoRows /\ NoTx.vans = NoRows
      BY DEF StatusEvents, NoTx
    <2>2. \A i \in Invoices : NoTx.events[i] = <<>>
      BY DEF NoTx
    <2> QED BY <1>2, <2>1, <2>2, NoTxOK DEF Sound, Tells
  <1>5. SessionOK
    BY BoundAssumption DEF SessionOK
  <1>6. "idle" \notin WithInvoice /\ "idle" \notin WithVanFound
    BY DEF WithInvoice, WithVanFound, Steps
  <1> QED BY <1>1, <1>2, <1>3, <1>4, <1>5, <1>6 DEF Inv, DatabaseInv, SessionInv

LEMMA NextInv == Inv /\ [Next]_vars => Inv'
  <1> SUFFICES ASSUME Inv, [Next]_vars PROVE Inv'
    OBVIOUS
  <1>1. ASSUME NEW r \in Requests, InvoiceArrive(r) \/ VanArrive(r) \/ RiskArrive(r)
        PROVE  Inv'
    BY <1>1, ArrivalsKeep
  <1>2. ASSUME NEW r \in Requests, InvoiceStep(r)
        PROVE  Inv'
    BY <1>2, SubmitKeeps, ApproveKeeps, FinanceKeeps DEF InvoiceStep
  <1>3. ASSUME NEW r \in Requests, VanStep(r)
        PROVE  Inv'
    BY <1>3, CreateVanKeeps, PayReadsKeep, PayKeeps DEF VanStep
  <1>4. ASSUME NEW r \in Requests, RiskStep(r)
        PROVE  Inv'
    BY <1>4, AssessKeeps DEF RiskStep
  <1>5. ASSUME NEW r \in Requests, Fail(r)
        PROVE  Inv'
    BY <1>5, FailKeeps
  <1>6. ASSUME NEW r \in Requests, Respond(r)
        PROVE  Inv'
    BY <1>6, RespondKeeps
  <1>7. CASE Crash
    BY <1>7, CrashKeeps
  <1>8. CASE UNCHANGED vars
    <2>1. UNCHANGED db /\ UNCHANGED session
      BY <1>8 DEF vars
    <2>2. DatabaseInv' /\ UNCHANGED tables
      BY <2>1, DatabaseStays DEF Inv
    <2>3. SessionInv'
      BY <2>1, <2>2 DEF session, tables, Inv, SessionInv, SessionOK
    <2> QED BY <2>2, <2>3 DEF Inv
  <1> QED BY <1>1, <1>2, <1>3, <1>4, <1>5, <1>6, <1>7, <1>8 DEF Next, ServiceStep

LEMMA Invariance == Spec => []Inv
  <1>1. Init => Inv
    BY InitInv
  <1>2. Inv /\ [Next]_vars => Inv'
    BY NextInv
  <1> QED BY <1>1, <1>2, PTL DEF Spec

\* Whatever the requests, in every state the tables name only known invoices,
\* the open transactions hold well-formed rows, and each request is at a step
\* of the operation it asked for.
THEOREM TypeCorrect == Spec => []TypeOK
  <1>1. Inv => TypeOK
    BY DEF Inv, DatabaseInv, SessionInv, TypeOK
  <1> QED BY <1>1, Invariance, PTL

\* Whatever the requests, and however they interleave, fail and die, the status
\* of an invoice is the one its event log says: updateStatus and append are
\* called in one transaction by every service that calls either.
THEOREM StatusProjection == Spec => []StatusIsProjection
  <1>1. Inv => StatusIsProjection
    BY DEF Inv, DatabaseInv
  <1> QED BY <1>1, Invariance, PTL

=============================================================================
