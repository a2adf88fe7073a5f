------------------------------- MODULE Database -------------------------------
(***************************************************************************)
(* The PostgreSQL tables the three services share, and the transactions    *)
(* they run over them at READ COMMITTED.  A table holds committed rows.    *)
(* tx[r] is the open transaction of request r: the row versions it has     *)
(* written and not committed.  A written version and the row's lock are    *)
(* the same thing: nobody else can write the row until the version is      *)
(* committed or rolled back, and nobody else can see it.  A write to a     *)
(* locked row (or of a unique key another transaction has inserted) waits. *)
(*                                                                         *)
(* An invoice is named by its invoice_number, which is UNIQUE; a virtual   *)
(* account (VAN) by its invoice, because virtual_accounts.invoice_id is    *)
(* UNIQUE.  occurred_at, which defaults to now(), is the time the          *)
(* transaction BEGAN; clock numbers the BEGINs.                            *)
(***************************************************************************)
EXTENDS InvoiceStateMachine, Integers, Sequences

CONSTANTS Invoices,    \* invoice numbers
          Requests     \* HTTP requests that can be in flight at once

VARIABLES invoices,    \* table invoices: invoice -> [status, signed]
          events,      \* table invoice_events, per invoice, in commit order
          vans,        \* table virtual_accounts: invoice -> [expected, received, status]
          ledger,      \* table ledger_entries: a set, its key is UNIQUE
          tx,          \* the open transaction of each request
          clock        \* BEGINs so far

tables == <<invoices, events, vans, ledger>>
db == <<tables, tx, clock>>

VanStatuses == {"active", "settled", "expired"}

NoRows == [x \in {} |-> x]

NoTx == [begun |-> 0, invoices |-> NoRows, vans |-> NoRows, ledger |-> {},
         events |-> [i \in Invoices |-> <<>>]]

-----------------------------------------------------------------------------
\* The rows of new, and those of old that new does not have.
Over(new, old) ==
  [x \in DOMAIN new \cup DOMAIN old |-> IF x \in DOMAIN new THEN new[x] ELSE old[x]]

\* A table with one row.
Row(key, value) == [x \in {key} |-> value]

\* The version of a row that request r's own transaction sees.
InvoiceRow(r, i) == Over(tx[r].invoices, invoices)[i]
VanRow(r, i) == Over(tx[r].vans, vans)[i]

InvoiceUnlocked(r, i) == \A s \in Requests \ {r} : i \notin DOMAIN tx[s].invoices
VanUnlocked(r, i) == \A s \in Requests \ {r} : i \notin DOMAIN tx[s].vans

\* No other open transaction has inserted an entry with this key: an INSERT
\* of the key need not wait for anybody's outcome.
KeyUncontended(r, k) == \A s \in Requests \ {r} : \A e \in tx[s].ledger : e.key # k
KeyTaken(k) == \E e \in ledger : e.key = k

-----------------------------------------------------------------------------
(* What one statement adds to an open transaction t. *)

\* invoiceRepo.updateStatus(i, status, client)
WithStatus(t, row, i, status) ==
  [t EXCEPT !.invoices = Over(Row(i, [row EXCEPT !.status = status]), @)]

\* eventRepo.append({invoice_id: i, event_type: type}, client)
WithEvent(t, i, type) ==
  [t EXCEPT !.events[i] = Append(@, [type |-> type, at |-> t.begun])]

\* vanRepo.appendLedgerEntry(entry, client)
WithEntry(t, entry) == [t EXCEPT !.ledger = @ \cup {entry}]

\* INSERT INTO or UPDATE of virtual_accounts on the client
WithVan(t, i, row) == [t EXCEPT !.vans = Over(Row(i, row), @)]

-----------------------------------------------------------------------------
Begin(r) ==
  /\ clock' = clock + 1
  /\ tx' = [tx EXCEPT ![r] = [NoTx EXCEPT !.begun = clock + 1]]
  /\ UNCHANGED tables

\* A statement that adds to the transaction of r; the tables do not change.
Write(r, t) ==
  /\ tx' = [tx EXCEPT ![r] = t]
  /\ UNCHANGED <<tables, clock>>

Commit(r) ==
  /\ invoices' = Over(tx[r].invoices, invoices)
  /\ events' = [i \in Invoices |-> events[i] \o tx[r].events[i]]
  /\ vans' = Over(tx[r].vans, vans)
  /\ ledger' = ledger \cup tx[r].ledger
  /\ tx' = [tx EXCEPT ![r] = NoTx]
  /\ UNCHANGED clock

Rollback(r) == Write(r, NoTx)

\* The server dies: PostgreSQL rolls back every transaction it had open.
RollbackAll ==
  /\ tx' = [r \in Requests |-> NoTx]
  /\ UNCHANGED <<tables, clock>>

DatabaseInit ==
  /\ invoices = NoRows
  /\ events = [i \in Invoices |-> <<>>]
  /\ vans = NoRows
  /\ ledger = {}
  /\ tx = [r \in Requests |-> NoTx]
  /\ clock = 0

=============================================================================
