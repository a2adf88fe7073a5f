----------------------------- MODULE AccountProofs -----------------------------
(***************************************************************************)
(* Proofs about the virtual accounts of SettlementEngine, for any number   *)
(* of invoices, requests and payments: money is advanced once, an account  *)
(* is settled when and only when it is covered, the engine, seen through   *)
(* its tables, is a PaymentBook, its jobs tell of what was committed, what *)
(* an account has received is the sum of its credits, and no requests wait *)
(* for each other's locks.                                                 *)
(***************************************************************************)
EXTENDS LedgerProofs, FiniteSetTheorems

-----------------------------------------------------------------------------
(* Logs, as accounts read them *)

Created(log) == {n \in DOMAIN log : log[n].type = "van.created"}
CreatedOnce(log) == \E n : Created(log) = {n}
Repaid(log) == \E n \in DOMAIN log : log[n].type = "invoice.repaid"
Quiet(log) == \A n \in DOMAIN log : log[n].type \notin AccountEvents

LEMMA EmptyIsQuiet == Quiet(<<>>)
  BY DEF Quiet

LEMMA QuietTells ==
  ASSUME NEW log, Quiet(log)
  PROVE  Created(log) = {} /\ ~ Repaid(log)
  BY DEF Quiet, Created, Repaid, AccountEvents

LEMMA AppendAccount ==
  ASSUME NEW log \in Seq(Events), NEW e \in Events
  PROVE  LET both == Append(log, e) IN
         /\ Quiet(log) /\ e.type \notin AccountEvents => Quiet(both)
         /\ Quiet(log) /\ e.type = "van.created" =>
              CreatedOnce(both) /\ ~ Repaid(both)
         /\ Created(log) = {} /\ e.type = "invoice.repaid" =>
              Created(both) = {} /\ Repaid(both)
  <1> DEFINE both == Append(log, e)
             n == Len(log) + 1
  <1>1. /\ Len(log) \in Nat /\ DOMAIN log = 1 .. Len(log) /\ DOMAIN both = 1 .. n
        /\ both[n] = e /\ \A m \in 1 .. Len(log) : both[m] = log[m]
        /\ \A m \in 1 .. n : m = n \/ m \in 1 .. Len(log)
    OBVIOUS
  <1> HIDE DEF both, n
  <1>2. n \in DOMAIN both
    BY <1>1 DEF n
  <1>3. Quiet(log) /\ e.type \notin AccountEvents => Quiet(both)
    BY <1>1 DEF Quiet
  <1>4. ASSUME Quiet(log), e.type = "van.created"
        PROVE  CreatedOnce(both) /\ ~ Repaid(both)
    <2>1. Created(both) = {n}
      BY <1>1, <1>2, <1>4 DEF Created, Quiet, AccountEvents
    <2>2. ~ Repaid(both)
      BY <1>1, <1>4 DEF Repaid, Quiet, AccountEvents
    <2> QED BY <2>1, <2>2 DEF CreatedOnce
  <1>5. Created(log) = {} /\ e.type = "invoice.repaid" => Created(both) = {} /\ Repaid(both)
    BY <1>1, <1>2 DEF Created, Repaid
  <1> QED BY <1>3, <1>4, <1>5 DEF both

LEMMA ConcatAccount ==
  ASSUME NEW a \in Seq(Events), NEW b \in Seq(Events), NEW both, both = a \o b
  PROVE  /\ Created(b) = {} => Created(both) = Created(a)
         /\ Created(a) = {} /\ CreatedOnce(b) => CreatedOnce(both)
         /\ Repaid(both) <=> Repaid(a) \/ Repaid(b)
  <1>1. /\ Len(a) \in Nat /\ Len(b) \in Nat
        /\ DOMAIN a = 1 .. Len(a) /\ DOMAIN b = 1 .. Len(b)
        /\ DOMAIN both = 1 .. Len(a) + Len(b)
        /\ \A m \in 1 .. Len(a) : both[m] = a[m]
        /\ \A m \in 1 .. Len(b) : both[Len(a) + m] = b[m]
    OBVIOUS
  <1>2. \A m \in DOMAIN both :
          \/ m \in DOMAIN a /\ both[m] = a[m]
          \/ m - Len(a) \in DOMAIN b /\ both[m] = b[m - Len(a)] /\ m \notin DOMAIN a
    <2> TAKE m \in DOMAIN both
    <2>1. CASE m <= Len(a)
      BY <1>1, <2>1
    <2>2. CASE ~ (m <= Len(a))
      <3>1. m - Len(a) \in 1 .. Len(b) /\ m = Len(a) + (m - Len(a)) /\ m \notin DOMAIN a
        BY <1>1, <2>2
      <3> QED BY <1>1, <3>1
    <2> QED BY <2>1, <2>2
  <1>3. \A m \in DOMAIN a : m \in DOMAIN both /\ both[m] = a[m]
    BY <1>1
  <1>4. \A m \in DOMAIN b : Len(a) + m \in DOMAIN both /\ both[Len(a) + m] = b[m]
    BY <1>1
  <1>5. Created(b) = {} => Created(both) = Created(a)
    BY <1>2, <1>3 DEF Created
  <1>6. ASSUME Created(a) = {}, NEW n, Created(b) = {n}
        PROVE  Created(both) = {Len(a) + n}
    <2>1. n \in DOMAIN b /\ b[n].type = "van.created"
      BY <1>6 DEF Created
    <2>2. Len(a) + n \in Created(both)
      BY <1>4, <2>1 DEF Created
    <2>3. ASSUME NEW m \in Created(both) PROVE m = Len(a) + n
      <3>1. m \in DOMAIN both /\ both[m].type = "van.created"
        BY DEF Created
      <3>2. m \notin DOMAIN a \/ both[m] # a[m]
        BY <1>6, <3>1 DEF Created
      <3>3. m - Len(a) \in Created(b)
        BY <1>2, <3>1, <3>2 DEF Created
      <3>4. m \in Int /\ n \in Int /\ m - Len(a) = n
        BY <1>1, <1>6, <2>1, <3>1, <3>3
      <3> QED BY <1>1, <3>4
    <2> QED BY <2>2, <2>3
  <1>7. Repaid(both) <=> Repaid(a) \/ Repaid(b)
    BY <1>2, <1>3, <1>4 DEF Repaid
  <1>8. Created(a) = {} /\ CreatedOnce(b) => CreatedOnce(both)
    BY <1>6 DEF CreatedOnce
  <1> QED BY <1>5, <1>7, <1>8

-----------------------------------------------------------------------------
(***************************************************************************)
(* The inductive invariant.  Story says of the tables what OneAdvance and  *)
(* SettledIffCovered say; a commit keeps it because what the transaction   *)
(* has written is the next chapter of the committed row, and still is when *)
(* it commits: nobody else can have written a row this transaction locks.  *)
(***************************************************************************)

\* No two transactions hold a version of one account.
VanLocks ==
  \A r, s \in Requests : r # s => DOMAIN tx[r].vans \cap DOMAIN tx[s].vans = {}

Debits(entries, i) == {e \in entries : e.van = i /\ e.type = "debit"}

Covered(row) == row.received >= row.expected

Story(i) ==
  IF i \in DOMAIN vans
  THEN /\ \E d : Debits(ledger, i) = {d} /\ d.amount = vans[i].expected
       /\ CreatedOnce(events[i])
       /\ vans[i].status = "settled" <=> Covered(vans[i])
       /\ Repaid(events[i]) <=> Covered(vans[i])
  ELSE Debits(ledger, i) = {} /\ Created(events[i]) = {} /\ ~ Repaid(events[i])

\* The steps at which a transaction holds its account.
Paying == {"pay.settle", "pay.commit", "pay.commitSettled"}
Holding == Paying \cup {"van.commit"}

\* A transaction that has written the account of invoice i and no other.
WritesOnly(t, i) ==
  DOMAIN t.vans = {i} /\ \A j \in Invoices \ {i} : Quiet(t.events[j])

HasOpened(t, c) ==
  LET i == c.invoice IN
  /\ WritesOnly(t, i)
  /\ i \notin DOMAIN vans
  /\ t.vans[i] = [expected |-> c.expected, received |-> 0, status |-> "active"]
  /\ CreatedOnce(t.events[i]) /\ ~ Repaid(t.events[i])

HasReceived(t, c) ==
  LET i == c.invoice IN
  /\ WritesOnly(t, i)
  /\ Created(t.events[i]) = {}
  /\ t.vans[i].expected = vans[i].expected
  /\ t.vans[i].received = vans[i].received + c.amount

Chapter(r) ==
  LET t == tx[r]
      i == cmd[r].invoice
  IN
  /\ pc[r] \notin Holding => DOMAIN t.vans = {} /\ \A j \in Invoices : Quiet(t.events[j])
  /\ pc[r] = "van.commit" => HasOpened(t, cmd[r])
  /\ pc[r] \in Paying => HasReceived(t, cmd[r])
  /\ pc[r] = "pay.settle" => Covered(t.vans[i])
  /\ pc[r] = "pay.commit" =>
       ~ Covered(t.vans[i]) /\ t.vans[i].status = vans[i].status /\ ~ Repaid(t.events[i])
  /\ pc[r] = "pay.commitSettled" =>
       Covered(t.vans[i]) /\ t.vans[i].status = "settled" /\ Repaid(t.events[i])

AccountInv ==
  /\ VanLocks
  /\ \A r \in Requests : Chapter(r)
  /\ \A i \in Invoices : Story(i)

\* What a step does to the accounts, seen through the tables.
MoneyMoves ==
  \/ vans' = vans /\ ledger' = ledger
  \/ \E r \in Requests : Commit(r) /\ pc[r] \in {"van.commit", "pay.commit", "pay.commitSettled"}

AccountStep == AccountInv' /\ MoneyMoves

-----------------------------------------------------------------------------
(* What a step of one request leaves to the others *)

\* Rows that the transaction of r has not written are not changed by its step.
Locked(r) ==
  /\ DOMAIN vans \subseteq DOMAIN vans'
  /\ \A j \in DOMAIN vans' \ DOMAIN tx[r].vans : j \in DOMAIN vans /\ vans'[j] = vans[j]

LEMMA OthersChapter ==
  ASSUME Inv, VanLocks, NEW r \in Requests, Alone(r), Locked(r),
         NEW s \in Requests, s # r, Chapter(s)
  PROVE  Chapter(s)'
  <1> DEFINE i == cmd[s].invoice
  <1>1. pc[s]' = pc[s] /\ cmd[s]' = cmd[s] /\ tx[s]' = tx[s]
    BY DEF Alone
  <1>2. CASE pc[s] \notin Holding
    BY <1>1, <1>2 DEF Chapter, Holding, Paying
  <1>3. CASE pc[s] = "van.commit"
    <2>1. HasOpened(tx[s], cmd[s])
      BY <1>3 DEF Chapter
    <2>2. i \notin DOMAIN tx[r].vans
      BY <2>1 DEF HasOpened, WritesOnly, VanLocks
    <2>3. i \notin DOMAIN vans'
      BY <2>1, <2>2 DEF Locked, HasOpened
    <2>4. HasOpened(tx[s], cmd[s])'
      BY <1>1, <2>1, <2>3 DEF HasOpened, WritesOnly
    <2> QED BY <1>1, <1>3, <2>4 DEF Chapter, Holding, Paying
  <1>4. CASE pc[s] \in Paying
    <2>1. HasReceived(tx[s], cmd[s])
      BY <1>4 DEF Chapter
    <2>2. i \notin DOMAIN tx[r].vans
      BY <2>1 DEF HasReceived, WritesOnly, VanLocks
    <2>3. i \in DOMAIN vans
      BY <1>4 DEF Paying, WithVanFound, Steps, Inv, SessionInv
    <2>4. vans'[i] = vans[i]
      BY <2>2, <2>3 DEF Locked
    <2>5. HasReceived(tx[s], cmd[s])'
      BY <1>1, <2>1, <2>4 DEF HasReceived, WritesOnly
    <2> QED BY <1>1, <1>4, <2>4, <2>5 DEF Chapter, Holding, Paying
  <1> QED BY <1>2, <1>3, <1>4 DEF Holding

\* A step of r that commits nothing.
LEMMA UncommittedKeeps ==
  ASSUME Inv, AccountInv, NEW r \in Requests, Alone(r),
         events' = events, vans' = vans, ledger' = ledger,
         \/ DOMAIN tx'[r].vans \subseteq DOMAIN tx[r].vans
         \/ \E i : VanUnlocked(r, i) /\ DOMAIN tx'[r].vans \subseteq DOMAIN tx[r].vans \cup {i},
         Chapter(r)'
  PROVE  AccountStep
  <1>1. Locked(r)
    BY DEF Locked
  <1>2. ASSUME NEW s \in Requests PROVE Chapter(s)'
    <2>1. CASE s = r
      BY <2>1
    <2>2. CASE s # r
      BY <1>1, <2>2, OthersChapter DEF AccountInv
    <2> QED BY <2>1, <2>2
  <1>3. VanLocks'
    <2>1. ASSUME NEW s \in Requests, s # r
          PROVE  DOMAIN tx'[r].vans \cap DOMAIN tx'[s].vans = {}
      BY <2>1 DEF AccountInv, VanLocks, VanUnlocked, Alone
    <2> QED BY <2>1 DEF AccountInv, VanLocks, Alone
  <1>4. ASSUME NEW i \in Invoices PROVE Story(i)'
    <2>1. Story(i)
      BY DEF AccountInv
    <2> QED BY <2>1 DEF Story
  <1> QED BY <1>2, <1>3, <1>4 DEF AccountStep, AccountInv, MoneyMoves

\* A request that holds no account.
LEMMA NoChapter ==
  ASSUME NEW r \in Requests, pc[r]' \notin Holding, DOMAIN tx'[r].vans = {},
         \A j \in Invoices : Quiet(tx'[r].events[j])
  PROVE  Chapter(r)'
  BY DEF Chapter, Holding, Paying

LEMMA BlankSaysNothing ==
  ASSUME NEW t, Blank(t)
  PROVE  DOMAIN t.vans = {} /\ \A j \in Invoices : Quiet(t.events[j])
  BY EmptyIsQuiet DEF Blank, NoRows

\* A step of r that reads, or that rolls back, or begins.
LEMMA IdleKeeps ==
  ASSUME Inv, AccountInv, NEW r \in Requests, Alone(r), pc[r]' \notin Holding,
         events' = events, vans' = vans, ledger' = ledger,
         (pc[r] \notin Holding /\ tx'[r] = tx[r]) \/ Blank(tx'[r])
  PROVE  AccountStep
  <1>1. DOMAIN tx'[r].vans = {} /\ \A j \in Invoices : Quiet(tx'[r].events[j])
    BY BlankSaysNothing DEF AccountInv, Chapter
  <1>2. Chapter(r)'
    BY <1>1, NoChapter
  <1> QED BY <1>1, <1>2, UncommittedKeeps

-----------------------------------------------------------------------------
(* A commit *)

LEMMA CommitMakes ==
  ASSUME Inv, NEW r \in Requests, Commit(r)
  PROVE  LET t == tx[r] IN
         /\ DOMAIN vans' = DOMAIN t.vans \cup DOMAIN vans
         /\ \A j \in DOMAIN t.vans : vans'[j] = t.vans[j]
         /\ \A j \in DOMAIN vans \ DOMAIN t.vans : vans'[j] = vans[j]
         /\ ledger' = ledger \cup t.ledger
         /\ \A j \in Invoices : /\ events'[j] = events[j] \o t.events[j]
                                /\ events[j] \in Seq(Events) /\ t.events[j] \in Seq(Events)
         /\ Locked(r)
  <1>1. events \in [Invoices -> Seq(Events)] /\ tx[r].events \in [Invoices -> Seq(Events)]
    BY DEF Inv, DatabaseInv, DatabaseOK, IsTransaction
  <1>2. /\ vans' = Over(tx[r].vans, vans) /\ ledger' = ledger \cup tx[r].ledger
        /\ events' = [j \in Invoices |-> events[j] \o tx[r].events[j]]
    BY DEF Commit
  <1>3. /\ DOMAIN vans' = DOMAIN tx[r].vans \cup DOMAIN vans
        /\ \A j \in DOMAIN tx[r].vans : vans'[j] = tx[r].vans[j]
        /\ \A j \in DOMAIN vans \ DOMAIN tx[r].vans : vans'[j] = vans[j]
    BY <1>2 DEF Over
  <1> QED BY <1>1, <1>2, <1>3 DEF Locked

LEMMA CommitLogs ==
  ASSUME Inv, NEW r \in Requests, Commit(r), NEW i \in Invoices
  PROVE  LET log == tx[r].events[i] IN
         /\ Created(log) = {} => Created(events'[i]) = Created(events[i])
         /\ Created(events[i]) = {} /\ CreatedOnce(log) => CreatedOnce(events'[i])
         /\ Repaid(events'[i]) <=> Repaid(events[i]) \/ Repaid(log)
  <1>1. /\ events'[i] = events[i] \o tx[r].events[i]
        /\ events[i] \in Seq(Events) /\ tx[r].events[i] \in Seq(Events)
    BY CommitMakes
  <1>2. PICK a, b, both : a = events[i] /\ b = tx[r].events[i] /\ both = events'[i]
    OBVIOUS
  <1>3. a \in Seq(Events) /\ b \in Seq(Events) /\ both = a \o b
    BY <1>1, <1>2
  <1>4. /\ Created(b) = {} => Created(both) = Created(a)
        /\ Created(a) = {} /\ CreatedOnce(b) => CreatedOnce(both)
        /\ Repaid(both) <=> Repaid(a) \/ Repaid(b)
    BY <1>3, ConcatAccount
  <1> QED BY <1>2, <1>4

\* An account the transaction has not written.
LEMMA CommitSparesStory ==
  ASSUME Inv, LedgerInv, AccountInv, NEW r \in Requests, Commit(r),
         NEW i \in Invoices, i \notin DOMAIN tx[r].vans
  PROVE  Story(i)'
  <1> DEFINE t == tx[r]
  <1>1. Quiet(t.events[i]) /\ (pc[r] \in Holding => i # cmd[r].invoice)
    BY DEF AccountInv, Chapter, Holding, HasOpened, HasReceived, WritesOnly
  <1>2. \A e \in t.ledger : ~ (e.van = i /\ e.type = "debit")
    BY <1>1 DEF LedgerInv, Progress, IsDebitOf, IsCreditOf, Holding, BookedInTx
  <1>3. Debits(ledger', i) = Debits(ledger, i)
    BY <1>2, CommitMakes DEF Debits
  <1>4. /\ Created(events'[i]) = Created(events[i])
        /\ CreatedOnce(events'[i]) <=> CreatedOnce(events[i])
        /\ Repaid(events'[i]) <=> Repaid(events[i])
    <2>1. Created(t.events[i]) = {} /\ ~ Repaid(t.events[i])
      BY <1>1, QuietTells
    <2> QED BY <2>1, CommitLogs DEF CreatedOnce
  <1>5. (i \in DOMAIN vans' <=> i \in DOMAIN vans) /\ (i \in DOMAIN vans => vans'[i] = vans[i])
    BY CommitMakes
  <1>6. Story(i)
    BY DEF AccountInv
  <1> QED BY <1>3, <1>4, <1>5, <1>6 DEF Story

\* The account createVan opens.
LEMMA OpeningTellsStory ==
  ASSUME Inv, LedgerInv, AccountInv, NEW r \in Requests, Commit(r), pc[r] = "van.commit",
         NEW i \in Invoices, i = cmd[r].invoice, cmd[r].expected \in Expected
  PROVE  Story(i)'
  <1> DEFINE t == tx[r]
  <1>1. HasOpened(t, cmd[r]) /\ Story(i)
    BY DEF AccountInv, Chapter
  <1>2. PICK e : t.ledger = {e} /\ IsDebitOf(e, cmd[r])
    BY DEF LedgerInv, Progress
  <1>3. i \in DOMAIN vans' /\ vans'[i] = t.vans[i]
    BY <1>1, CommitMakes DEF HasOpened, WritesOnly
  <1>4. /\ vans'[i].expected = cmd[r].expected /\ vans'[i].received = 0
        /\ vans'[i].status = "active" /\ cmd[r].expected \in Nat \ {0}
    <2>1. t.vans[i] = [expected |-> cmd[r].expected, received |-> 0, status |-> "active"]
      BY <1>1 DEF HasOpened
    <2>2. cmd[r].expected \in Nat \ {0}
      BY VanAssumption
    <2> QED BY <1>3, <2>1, <2>2
  <1>5. ~ Covered(vans'[i])
    BY <1>4 DEF Covered
  <1>6. Debits(ledger', i) = {e} /\ e.amount = vans'[i].expected
    <2>1. Debits(ledger, i) = {}
      BY <1>1 DEF HasOpened, Story
    <2> QED BY <1>2, <1>4, <2>1, CommitMakes DEF Debits, IsDebitOf
  <1>7. CreatedOnce(events'[i]) /\ ~ Repaid(events'[i])
    <2>1. Created(events[i]) = {} /\ ~ Repaid(events[i])
      BY <1>1 DEF HasOpened, Story
    <2>2. CreatedOnce(t.events[i]) /\ ~ Repaid(t.events[i])
      BY <1>1 DEF HasOpened
    <2> QED BY <2>1, <2>2, CommitLogs
  <1> QED BY <1>3, <1>4, <1>5, <1>6, <1>7 DEF Story

\* The account recordPayment has added to.
LEMMA PaymentTellsStory ==
  ASSUME Inv, LedgerInv, AccountInv, NEW r \in Requests, Commit(r),
         pc[r] \in {"pay.commit", "pay.commitSettled"},
         NEW i \in Invoices, i = cmd[r].invoice, cmd[r].amount \in Nat
  PROVE  Story(i)'
  <1> DEFINE t == tx[r]
  <1>1. HasReceived(t, cmd[r]) /\ Story(i) /\ i \in DOMAIN vans
    BY DEF AccountInv, Chapter, Paying, Inv, SessionInv, WithVanFound, Steps
  <1>2. PICK e : t.ledger = {e} /\ IsCreditOf(e, cmd[r])
    BY DEF LedgerInv, Progress, BookedInTx
  <1>3. i \in DOMAIN vans' /\ vans'[i] = t.vans[i]
    BY <1>1, CommitMakes DEF HasReceived, WritesOnly
  <1>4. vans[i] \in VanRows
    BY <1>1, TableRow DEF Inv, DatabaseInv, DatabaseOK
  <1>5. /\ vans'[i].expected = vans[i].expected
        /\ vans'[i].received = vans[i].received + cmd[r].amount
    BY <1>1, <1>3 DEF HasReceived
  <1>6. vans[i].received \in Nat /\ vans[i].expected \in Nat
    BY <1>4, VanAssumption DEF VanRows
  <1>7. Covered(vans[i]) => Covered(vans'[i])
    BY <1>5, <1>6 DEF Covered
  <1>8. Debits(ledger', i) = Debits(ledger, i)
    BY <1>2, CommitMakes DEF Debits, IsCreditOf
  <1>9. /\ CreatedOnce(events'[i]) <=> CreatedOnce(events[i])
        /\ Repaid(events'[i]) <=> Repaid(events[i]) \/ Repaid(t.events[i])
    BY <1>1, CommitLogs DEF HasReceived, CreatedOnce
  <1>10. CASE pc[r] = "pay.commit"
    <2>1. ~ Covered(vans'[i]) /\ vans'[i].status = vans[i].status /\ ~ Repaid(t.events[i])
      BY <1>3, <1>10 DEF AccountInv, Chapter
    <2> QED BY <1>1, <1>3, <1>5, <1>7, <1>8, <1>9, <2>1 DEF Story
  <1>11. CASE pc[r] = "pay.commitSettled"
    <2>1. Covered(vans'[i]) /\ vans'[i].status = "settled" /\ Repaid(t.events[i])
      BY <1>3, <1>11 DEF AccountInv, Chapter
    <2> QED BY <1>1, <1>3, <1>5, <1>8, <1>9, <2>1 DEF Story
  <1> QED BY <1>10, <1>11

LEMMA CommittedKeeps ==
  ASSUME Inv, LedgerInv, AccountInv, NEW r \in Requests, Alone(r), Commit(r), tx'[r] = NoTx,
         pc[r]' \notin Holding,
         \/ pc[r] \notin Holding
         \/ pc[r] = "van.commit" /\ cmd[r].invoice \in Invoices /\ cmd[r].expected \in Expected
         \/ /\ pc[r] \in {"pay.commit", "pay.commitSettled"}
            /\ cmd[r].invoice \in Invoices /\ cmd[r].amount \in Nat
  PROVE  AccountInv'
  <1>1. ASSUME NEW i \in Invoices PROVE Story(i)'
    <2>1. CASE i \notin DOMAIN tx[r].vans
      BY <2>1, CommitSparesStory
    <2>2. CASE i \in DOMAIN tx[r].vans
      <3>1. pc[r] \in Holding /\ i = cmd[r].invoice
        BY <2>2 DEF AccountInv, Chapter, Holding, HasOpened, HasReceived, WritesOnly
      <3>2. CASE pc[r] = "van.commit"
        BY <3>1, <3>2, OpeningTellsStory DEF Holding, Paying
      <3>3. CASE pc[r] # "van.commit"
        BY <3>1, <3>3, PaymentTellsStory DEF Holding, Paying
      <3> QED BY <3>2, <3>3
    <2> QED BY <2>1, <2>2
  <1>2. DOMAIN tx'[r].vans = {} /\ Chapter(r)'
    BY NoTxBlank, BlankSaysNothing, NoChapter
  <1>3. ASSUME NEW s \in Requests PROVE Chapter(s)'
    <2>1. CASE s = r
      BY <1>2, <2>1
    <2>2. CASE s # r
      BY <2>2, OthersChapter, CommitMakes DEF AccountInv
    <2> QED BY <2>1, <2>2
  <1>4. VanLocks'
    <2>1. \A s \in Requests \ {r} : tx'[s] = tx[s]
      BY DEF Alone
    <2> QED BY <1>2, <2>1 DEF AccountInv, VanLocks
  <1> QED BY <1>1, <1>3, <1>4 DEF AccountInv

\* A commit of what says nothing of accounts changes none.
LEMMA OtherCommitKeeps ==
  ASSUME Inv, LedgerInv, AccountInv, NEW r \in Requests, Alone(r), Commit(r), tx'[r] = NoTx,
         pc[r]' \notin Holding, pc[r] \notin Holding \cup BookedInTx
  PROVE  AccountStep
  <1>1. AccountInv'
    BY CommittedKeeps
  <1>2. tx[r].ledger = {} /\ DOMAIN tx[r].vans = {}
    BY DEF LedgerInv, Progress, AccountInv, Chapter, Holding
  <1>3. vans' = vans
    <2>1. vans = [j \in DOMAIN vans |-> vans[j]]
      BY DEF Inv, DatabaseInv, DatabaseOK, IsTable
    <2> QED BY <1>2, <2>1 DEF Commit, Over
  <1>4. ledger' = ledger
    BY <1>2 DEF Commit
  <1> QED BY <1>1, <1>3, <1>4 DEF AccountStep, MoneyMoves

-----------------------------------------------------------------------------
(* The steps *)

LEMMA ElsewhereKeepsAccounts ==
  ASSUME Inv, LedgerInv, AccountInv, NEW r \in Requests, Elsewhere(r)
  PROVE  AccountStep
  <1>1. /\ Alone(r) /\ pc[r] \in Steps(cmd[r].op) /\ pc[r]' \in Steps(cmd[r].op) \cup Answers
        /\ cmd[r].op \in {"submit", "approve", "finance", "assess"}
    BY DEF Elsewhere
  <1>2. pc[r] \notin Holding \cup BookedInTx /\ pc[r]' \notin Holding
    BY <1>1 DEF Steps, Answers, Holding, Paying, BookedInTx
  <1>3. CASE UNCHANGED <<events, vans, ledger>> /\ Spares(tx[r], tx'[r])
    <2>1. DOMAIN tx[r].vans = {} /\ \A j \in Invoices : Quiet(tx[r].events[j])
      BY <1>2 DEF AccountInv, Chapter
    <2>2. DOMAIN tx'[r].vans = {}
      BY <1>3, <2>1 DEF Spares
    <2>3. ASSUME NEW j \in Invoices PROVE Quiet(tx'[r].events[j])
      <3>1. tx[r].events[j] \in Seq(Events)
        BY DEF Inv, DatabaseInv, Sound, IsTransaction
      <3>2. Quiet(tx[r].events[j])
        BY <2>1
      <3>3. CASE tx'[r].events[j] = tx[r].events[j]
        BY <3>2, <3>3
      <3>4. CASE \E e \in Events : /\ e.type \notin AccountEvents
                                   /\ tx'[r].events[j] = Append(tx[r].events[j], e)
        BY <3>1, <3>2, <3>4, AppendAccount
      <3> QED BY <1>3, <3>3, <3>4 DEF Spares
    <2>4. Chapter(r)'
      BY <1>2, <2>2, <2>3, NoChapter
    <2> QED BY <1>1, <1>3, <2>1, <2>2, <2>4, UncommittedKeeps
  <1>4. CASE UNCHANGED <<events, vans, ledger>> /\ Blank(tx'[r])
    BY <1>1, <1>2, <1>4, IdleKeeps
  <1>5. CASE Commit(r) /\ tx'[r] = NoTx
    BY <1>1, <1>2, <1>5, OtherCommitKeeps
  <1> QED BY <1>3, <1>4, <1>5 DEF Elsewhere

\* The transaction of createVan.
LEMMA OpeningOK ==
  ASSUME NEW before, IsTransaction(before), DOMAIN before.vans = {},
         \A j \in Invoices : Quiet(before.events[j]),
         NEW k \in Invoices, NEW row, NEW entry,
         NEW u, u = WithEvent(WithEntry(WithVan(before, k, row), entry), k, "van.created")
  PROVE  /\ DOMAIN u.vans = {k} /\ u.vans[k] = row
         /\ \A j \in Invoices \ {k} : Quiet(u.events[j])
         /\ CreatedOnce(u.events[k]) /\ ~ Repaid(u.events[k])
  <1> DEFINE v == WithVan(before, k, row)
             w == WithEntry(v, entry)
             e == [type |-> "van.created", at |-> before.begun]
             table == Over(Row(k, row), before.vans)
  <1>1. /\ DOMAIN before = {"begun", "invoices", "vans", "ledger", "events"}
        /\ before.events \in [Invoices -> Seq(Events)] /\ before.begun \in Nat
    BY DEF IsTransaction
  <1>2. DOMAIN table = {k} /\ table[k] = row
    BY DEF Over, Row
  <1>3. /\ DOMAIN v = DOMAIN before /\ v.vans = table
        /\ v.events = before.events /\ v.begun = before.begun
    <2> HIDE DEF table
    <2> QED BY <1>1 DEF WithVan, table
  <1> HIDE DEF table
  <1>4. /\ DOMAIN w = DOMAIN before /\ w.vans = table
        /\ w.events = before.events /\ w.begun = before.begun
    <2> HIDE DEF v
    <2> QED BY <1>1, <1>3 DEF WithEntry
  <1>5. u.vans = table /\ u.events = [before.events EXCEPT ![k] = Append(before.events[k], e)]
    <2> HIDE DEF w
    <2>1. u = [w EXCEPT !.events[k] = Append(w.events[k], [type |-> "van.created", at |-> w.begun])]
      BY DEF WithEvent, w
    <2> QED BY <1>1, <1>4, <2>1
  <1>6. e \in Events /\ e.type = "van.created"
    BY <1>1 DEF Events, EventTypes
  <1> HIDE DEF e
  <1>7. /\ u.events[k] = Append(before.events[k], e)
        /\ \A j \in Invoices \ {k} : u.events[j] = before.events[j]
    BY <1>1, <1>5
  <1>8. CreatedOnce(Append(before.events[k], e)) /\ ~ Repaid(Append(before.events[k], e))
    BY <1>1, <1>6, AppendAccount
  <1> QED BY <1>2, <1>5, <1>7, <1>8

LEMMA CreateVanKeepsAccounts ==
  ASSUME Inv, LedgerInv, AccountInv, NEW r \in Requests,
         VanFind(r) \/ VanExisting(r) \/ VanBegin(r) \/ VanInsert(r) \/ VanCommit(r)
  PROVE  AccountStep
  <1> DEFINE i == cmd[r].invoice
  <1>1. i \in Invoices /\ cmd[r].expected \in Expected
    <2>1. pc[r] \in Steps("createVan")
      BY DEF VanFind, VanExisting, VanBegin, VanInsert, VanCommit, Opens, Commits, Steps
    <2> QED BY <2>1, StepOfOp, CommandFields DEF Inv, SessionInv, Ops
  <1>2. CASE VanFind(r) \/ VanExisting(r)
    <2>1. PICK to \in {"van.existing", "van.begin", "error"} : Reads(r, to)
      BY <1>2 DEF VanFind, VanExisting, Reads, Moves, Goto
    <2>2. /\ Alone(r) /\ pc[r]' = to /\ events' = events /\ vans' = vans /\ ledger' = ledger
          /\ tx' = tx
      BY <2>1, ReadsAlone
    <2>3. pc[r] \notin Holding
      BY <1>2 DEF VanFind, VanExisting, Holding, Paying
    <2> QED BY <2>2, <2>3, IdleKeeps DEF Holding, Paying
  <1>3. CASE VanBegin(r)
    <2>1. /\ Alone(r) /\ pc[r]' = "van.insert" /\ events' = events /\ vans' = vans
          /\ ledger' = ledger /\ Blank(tx'[r])
      BY <1>3, OpensAlone DEF VanBegin
    <2> QED BY <2>1, IdleKeeps DEF Holding, Paying
  <1>4. CASE VanInsert(r)
    <2>1. CASE Rollback(r) /\ Moves(r, "error")
      <3>1. /\ Alone(r) /\ pc[r]' = "error" /\ events' = events /\ vans' = vans
            /\ ledger' = ledger /\ Blank(tx'[r])
        BY <2>1, RollbackAlone, MovesAlone, NoTxBlank DEF Alone
      <3> QED BY <3>1, IdleKeeps DEF Holding, Paying
    <2> DEFINE account == [expected |-> cmd[r].expected, received |-> 0, status |-> "active"]
               advance == Debit(tx[r], i, cmd[r].expected)
               t == WithEvent(WithEntry(WithVan(tx[r], i, account), advance), i, "van.created")
    <2>2. CASE i \notin DOMAIN vans /\ Write(r, t) /\ Moves(r, "van.commit")
      <3>1. pc[r] = "van.insert" /\ VanUnlocked(r, i)
        BY <1>4 DEF VanInsert
      <3>2. IsTransaction(tx[r]) /\ DOMAIN tx[r].vans = {}
            /\ \A j \in Invoices : Quiet(tx[r].events[j])
        BY <3>1 DEF Inv, DatabaseInv, Sound, AccountInv, Chapter, Holding, Paying
      <3>3. PICK u : u = t
        OBVIOUS
      <3>4. /\ DOMAIN u.vans = {i} /\ u.vans[i] = account
            /\ \A j \in Invoices \ {i} : Quiet(u.events[j])
            /\ CreatedOnce(u.events[i]) /\ ~ Repaid(u.events[i])
        <4>1. u = WithEvent(WithEntry(WithVan(tx[r], i, account), advance), i, "van.created")
          BY <3>3
        <4> HIDE DEF account, advance, t
        <4> QED BY <1>1, <3>2, <4>1, OpeningOK
      <3>5. Write(r, u)
        BY <2>2, <3>3
      <3> HIDE DEF t, advance
      <3>6. /\ Alone(r) /\ pc[r]' = "van.commit" /\ cmd' = cmd /\ events' = events
            /\ vans' = vans /\ ledger' = ledger /\ tx'[r] = u
        BY <2>2, <3>5, WriteAlone, MovesAlone DEF Alone
      <3>7. HasOpened(tx[r], cmd[r])'
        BY <2>2, <3>4, <3>6 DEF HasOpened, WritesOnly
      <3>8. Chapter(r)'
        BY <3>6, <3>7 DEF Chapter, Holding, Paying
      <3> QED BY <3>1, <3>2, <3>4, <3>6, <3>8, UncommittedKeeps
    <2> QED BY <1>4, <2>1, <2>2 DEF VanInsert
  <1>5. CASE VanCommit(r)
    <2>1. /\ Alone(r) /\ pc[r] = "van.commit" /\ pc[r]' \in {"ok", "error"}
          /\ Commit(r) /\ tx'[r] = NoTx
      BY <1>5, CommitsAlone DEF VanCommit
    <2>2. AccountInv'
      BY <1>1, <2>1, CommittedKeeps DEF Holding, Paying
    <2> QED BY <2>1, <2>2 DEF AccountStep, MoneyMoves
  <1> QED BY <1>2, <1>3, <1>4, <1>5

\* The row recordPayment updates, before and after.
LEMMA RowToPay ==
  ASSUME Inv, AccountInv, NEW r \in Requests, pc[r] \in {"pay.receive", "pay.settle"}
  PROVE  LET i == cmd[r].invoice IN
         /\ i \in Invoices /\ i \in DOMAIN vans /\ i \in DOMAIN invoices
         /\ vans[i] \in VanRows /\ InvoiceRow(r, i) \in InvoiceRows
         /\ cmd[r].amount \in Nat /\ IsTransaction(tx[r])
         /\ pc[r] = "pay.receive" => VanRow(r, i) = vans[i]
         /\ pc[r] = "pay.settle" => VanRow(r, i) = tx[r].vans[i] /\ tx[r].vans[i] \in VanRows
  <1> DEFINE inv == cmd[r].invoice
  <1>1. pc[r] \in Steps("pay") /\ pc[r] \in WithVanFound
    BY DEF Steps, WithVanFound
  <1>2. inv \in Invoices /\ cmd[r].amount \in Nat
    BY <1>1, StepOfOp, CommandFields DEF Inv, SessionInv, Ops
  <1>3. inv \in DOMAIN vans /\ inv \in DOMAIN invoices
    BY <1>1, VanRowOK DEF Inv, SessionInv
  <1>4. InvoiceRow(r, inv) \in InvoiceRows /\ IsTransaction(tx[r])
    BY <1>3, InvoiceRowOK DEF Inv, DatabaseInv, Sound
  <1>5. IsTable(vans, VanRows) /\ IsTable(tx[r].vans, VanRows)
    BY <1>4 DEF Inv, DatabaseInv, DatabaseOK, IsTransaction
  <1>6. vans[inv] \in VanRows /\ \A j \in DOMAIN tx[r].vans : tx[r].vans[j] \in VanRows
    BY <1>3, <1>5, TableRow
  <1>7. VanRow(r, inv) = IF inv \in DOMAIN tx[r].vans THEN tx[r].vans[inv] ELSE vans[inv]
    BY <1>3 DEF VanRow, Over
  <1>8. pc[r] = "pay.receive" => DOMAIN tx[r].vans = {}
    BY DEF AccountInv, Chapter, Holding, Paying
  <1>9. pc[r] = "pay.settle" => inv \in DOMAIN tx[r].vans
    BY DEF AccountInv, Chapter, Paying, HasReceived, WritesOnly
  <1> QED BY <1>2, <1>3, <1>4, <1>6, <1>7, <1>8, <1>9

LEMMA ReceiveKeepsAccounts ==
  ASSUME Inv, AccountInv, NEW r \in Requests, PayReceive(r)
  PROVE  AccountStep
  <1> DEFINE i == cmd[r].invoice
             row == Received(vans[i], cmd[r].amount)
             u == WithVan(tx[r], i, row)
  <1>1. pc[r] = "pay.receive" /\ VanUnlocked(r, i) /\ VanRow(r, i) = vans[i]
    BY RowToPay DEF PayReceive
  <1>2. /\ i \in Invoices /\ i \in DOMAIN vans /\ vans[i] \in VanRows
        /\ cmd[r].amount \in Nat /\ IsTransaction(tx[r])
    BY <1>1, RowToPay
  <1>3. /\ row.expected = vans[i].expected /\ row.status = vans[i].status
        /\ row.received = vans[i].received + cmd[r].amount
    BY <1>2 DEF Received, VanRows
  <1>4. /\ DOMAIN tx[r].vans = {} /\ \A j \in Invoices : Quiet(tx[r].events[j])
    BY <1>1 DEF AccountInv, Chapter, Holding, Paying
  <1>5. /\ Write(r, u)
        /\ Moves(r, IF Covered(row) THEN "pay.settle" ELSE "pay.commit")
    BY <1>1 DEF PayReceive, Covered
  <1> HIDE DEF row
  <1>6. DOMAIN u.vans = {i} /\ u.vans[i] = row /\ u.events = tx[r].events
    <2> DEFINE table == Over(Row(i, row), tx[r].vans)
    <2>1. DOMAIN table = {i} /\ table[i] = row
      BY <1>4 DEF Over, Row
    <2>2. u.vans = table /\ u.events = tx[r].events
      <3> HIDE DEF table
      <3> QED BY <1>2 DEF IsTransaction, WithVan, table
    <2> QED BY <2>1, <2>2
  <1> HIDE DEF u
  <1>7. /\ Alone(r) /\ cmd' = cmd /\ events' = events /\ vans' = vans /\ ledger' = ledger
        /\ tx'[r] = u /\ pc[r]' = IF Covered(row) THEN "pay.settle" ELSE "pay.commit"
    BY <1>5, WriteAlone, MovesAlone DEF Alone
  <1>8. \A j \in Invoices : Quiet(tx'[r].events[j])
    BY <1>4, <1>6, <1>7
  <1>9. Created(tx'[r].events[i]) = {} /\ ~ Repaid(tx'[r].events[i])
    BY <1>2, <1>8, QuietTells
  <1>10. HasReceived(tx[r], cmd[r])'
    BY <1>3, <1>6, <1>7, <1>8, <1>9 DEF HasReceived, WritesOnly
  <1>11. Chapter(r)'
    BY <1>3, <1>6, <1>7, <1>9, <1>10 DEF Chapter, Holding, Paying
  <1> QED BY <1>1, <1>4, <1>6, <1>7, <1>11, UncommittedKeeps

LEMMA SettleKeepsAccounts ==
  ASSUME Inv, AccountInv, NEW r \in Requests, PaySettle(r)
  PROVE  AccountStep
  <1> DEFINE i == cmd[r].invoice
             old == tx[r].vans[i]
             row == [old EXCEPT !.status = "settled"]
             v == WithVan(tx[r], i, row)
             w == WithStatus(v, InvoiceRow(r, i), i, "REPAID")
             u == WithEvent(w, i, "invoice.repaid")
  <1>1. pc[r] = "pay.settle" /\ VanRow(r, i) = old
    BY RowToPay DEF PaySettle
  <1>2. /\ i \in Invoices /\ old \in VanRows /\ InvoiceRow(r, i) \in InvoiceRows
        /\ IsTransaction(tx[r])
    BY <1>1, RowToPay
  <1>3. HasReceived(tx[r], cmd[r]) /\ Covered(old)
    BY <1>1 DEF AccountInv, Chapter, Paying
  <1>4. /\ row \in VanRows /\ row.status = "settled"
        /\ row.expected = old.expected /\ row.received = old.received
    BY <1>2 DEF VanRows, VanStatuses
  <1>5. Write(r, u) /\ Moves(r, "pay.commitSettled")
    BY <1>1 DEF PaySettle
  <1> HIDE DEF row
  <1>6. IsTransaction(v) /\ DOMAIN v.vans = {i} /\ v.vans[i] = row /\ v.events = tx[r].events
    <2> DEFINE table == Over(Row(i, row), tx[r].vans)
    <2>1. DOMAIN tx[r].vans = {i}
      BY <1>3 DEF HasReceived, WritesOnly
    <2>2. DOMAIN table = {i} /\ table[i] = row
      BY <2>1 DEF Over, Row
    <2>3. v.vans = table
      <3> HIDE DEF table
      <3> QED BY <1>2 DEF IsTransaction, WithVan, table
    <2>4. IsTransaction(v) /\ v.events = tx[r].events
      BY <1>2, <1>4, WithVanOK
    <2> QED BY <2>2, <2>3, <2>4
  <1> HIDE DEF v
  <1>7. IsTransaction(w) /\ w.vans = v.vans /\ w.events = v.events
    <2>1. "REPAID" \in Statuses
      BY DEF Statuses
    <2> QED BY <1>2, <1>6, <2>1, WithStatusOK
  <1> HIDE DEF w
  <1>8. /\ u.vans = w.vans /\ \A j \in Invoices \ {i} : u.events[j] = w.events[j]
        /\ \E e \in Events : e.type = "invoice.repaid" /\ u.events[i] = Append(w.events[i], e)
    <2>1. "invoice.repaid" \in EventTypes
      BY DEF EventTypes, StatusAfter
    <2> HIDE DEF i
    <2>2. /\ u.vans = w.vans
          /\ \A j \in Invoices \ {i} : u.events[j] = w.events[j]
      BY <1>2, <1>7, <2>1, WithEventOK
    <2>3. \E e \in Events : e.type = "invoice.repaid" /\ u.events[i] = Append(w.events[i], e)
      BY <1>2, <1>7, <2>1, WithEventOK
    <2> QED BY <2>2, <2>3
  <1> HIDE DEF u
  <1>9. /\ Alone(r) /\ pc[r]' = "pay.commitSettled" /\ cmd' = cmd /\ events' = events
        /\ vans' = vans /\ ledger' = ledger /\ tx'[r] = u
    BY <1>5, WriteAlone, MovesAlone DEF Alone
  <1>10. Created(u.events[i]) = {} /\ Repaid(u.events[i])
    <2>1. PICK e \in Events :
            e.type = "invoice.repaid" /\ u.events[i] = Append(tx[r].events[i], e)
      BY <1>6, <1>7, <1>8
    <2>2. tx[r].events[i] \in Seq(Events)
      BY <1>2 DEF IsTransaction
    <2>3. Created(tx[r].events[i]) = {}
      BY <1>3 DEF HasReceived
    <2> QED BY <2>1, <2>2, <2>3, AppendAccount
  <1>11. \A j \in Invoices \ {i} : Quiet(u.events[j])
    BY <1>3, <1>6, <1>7, <1>8 DEF HasReceived, WritesOnly
  <1>12. u.vans[i] = row /\ DOMAIN u.vans = {i}
    BY <1>6, <1>7, <1>8
  <1>13. HasReceived(tx[r], cmd[r])'
    BY <1>3, <1>4, <1>9, <1>10, <1>11, <1>12 DEF HasReceived, WritesOnly
  <1>14. Covered(row)
    BY <1>3, <1>4 DEF Covered
  <1>15. Chapter(r)'
    BY <1>4, <1>9, <1>10, <1>12, <1>13, <1>14 DEF Chapter, Holding, Paying
  <1>16. DOMAIN tx'[r].vans \subseteq DOMAIN tx[r].vans
    BY <1>3, <1>9, <1>12 DEF HasReceived, WritesOnly
  <1> QED BY <1>9, <1>15, <1>16, UncommittedKeeps

LEMMA PayKeepsAccounts ==
  ASSUME Inv, LedgerInv, AccountInv, NEW r \in Requests,
         \/ PayFind(r) \/ PayLayer1(r) \/ PayBegin(r) \/ PayInsert(r)
         \/ PayCommit(r) \/ PayCommitSettled(r) \/ PayEnqueue(r) \/ PayEntries(r)
  PROVE  AccountStep
  <1>1. CASE PayFind(r) \/ PayLayer1(r) \/ PayEnqueue(r) \/ PayEntries(r)
    <2>1. /\ Alone(r) /\ pc[r] \notin Holding /\ pc[r]' \notin Holding
          /\ events' = events /\ vans' = vans /\ ledger' = ledger /\ tx'[r] = tx[r]
      <3> USE DEF Holding, Paying
      <3>1. CASE PayFind(r) \/ PayEnqueue(r)
        BY <3>1 DEF PayFind, PayEnqueue, Goto, Alone, db, tables, Inv, SessionInv, SessionOK
      <3>2. CASE PayLayer1(r) \/ PayEntries(r)
        <4>1. PICK to \in {"duplicate", "error", "pay.begin", "ok"} : Reads(r, to)
          BY <3>2 DEF PayLayer1, PayEntries, Reads, Moves, Goto
        <4> QED BY <3>2, <4>1, ReadsAlone DEF PayLayer1, PayEntries
      <3> QED BY <1>1, <3>1, <3>2
    <2> QED BY <2>1, IdleKeeps
  <1>2. CASE PayBegin(r)
    <2>1. /\ Alone(r) /\ pc[r]' = "pay.insert" /\ events' = events /\ vans' = vans
          /\ ledger' = ledger /\ Blank(tx'[r])
      BY <1>2, OpensAlone DEF PayBegin
    <2> QED BY <2>1, IdleKeeps DEF Holding, Paying
  <1>3. CASE PayInsert(r)
    <2>1. CASE Rollback(r) /\ Moves(r, "duplicate")
      <3>1. /\ Alone(r) /\ pc[r]' = "duplicate" /\ events' = events /\ vans' = vans
            /\ ledger' = ledger /\ Blank(tx'[r])
        BY <2>1, RollbackAlone, MovesAlone, NoTxBlank DEF Alone
      <3> QED BY <3>1, IdleKeeps DEF Holding, Paying
    <2> DEFINE credit == Credit(tx[r], cmd[r])
    <2>2. CASE Write(r, WithEntry(tx[r], credit)) /\ Moves(r, "pay.receive")
      <3>1. DOMAIN tx[r].vans = {} /\ \A j \in Invoices : Quiet(tx[r].events[j])
        BY <1>3 DEF PayInsert, AccountInv, Chapter, Holding, Paying
      <3>2. /\ Alone(r) /\ pc[r]' = "pay.receive" /\ events' = events /\ vans' = vans
            /\ ledger' = ledger /\ tx'[r] = WithEntry(tx[r], credit)
        BY <2>2, WriteAlone, MovesAlone DEF Alone
      <3> HIDE DEF credit
      <3>3. tx'[r].vans = tx[r].vans /\ tx'[r].events = tx[r].events
        BY <3>2 DEF WithEntry, Inv, DatabaseInv, Sound, IsTransaction
      <3>4. DOMAIN tx'[r].vans = {} /\ \A j \in Invoices : Quiet(tx'[r].events[j])
        BY <3>1, <3>3
      <3>5. Chapter(r)'
        BY <3>2, <3>4, NoChapter DEF Holding, Paying
      <3> QED BY <3>1, <3>2, <3>4, <3>5, UncommittedKeeps
    <2> QED BY <1>3, <2>1, <2>2 DEF PayInsert
  <1>4. CASE PayCommit(r) \/ PayCommitSettled(r)
    <2>1. /\ Alone(r) /\ pc[r] \in {"pay.commit", "pay.commitSettled"}
          /\ pc[r]' \in {"pay.entries", "pay.enqueue", "error"}
          /\ Commit(r) /\ tx'[r] = NoTx
      BY <1>4, CommitsAlone DEF PayCommit, PayCommitSettled
    <2>2. cmd[r].invoice \in Invoices /\ cmd[r].amount \in Nat
      <3>1. pc[r] \in Steps("pay")
        BY <2>1 DEF Steps
      <3> QED BY <3>1, StepOfOp, CommandFields DEF Inv, SessionInv, Ops
    <2>3. AccountInv'
      BY <2>1, <2>2, CommittedKeeps DEF Holding, Paying
    <2> QED BY <2>1, <2>3 DEF AccountStep, MoneyMoves
  <1> QED BY <1>1, <1>2, <1>3, <1>4

-----------------------------------------------------------------------------
(* Requests come, fail, are answered, and die with the process *)

LEMMA SlotKeepsAccounts ==
  ASSUME Inv, LedgerInv, AccountInv, NEW r \in Requests,
         \/ InvoiceArrive(r) \/ VanArrive(r) \/ RiskArrive(r) \/ Fail(r) \/ Respond(r)
  PROVE  AccountStep
  <1>1. CASE InvoiceArrive(r) \/ VanArrive(r) \/ RiskArrive(r)
    <2> DEFINE first == {"submit.find", "approve.find", "finance.find", "van.find", "pay.find",
                         "assess.find"}
    <2>1. PICK step \in first : \E c : Arrive(r, c, step)
      <3>1. CASE InvoiceArrive(r)
        <4>1. PICK c \in InvoiceCmds : Arrive(r, c, InvoiceFirstStep[c.op])
          BY <3>1 DEF InvoiceArrive
        <4>2. InvoiceFirstStep[c.op] \in first
          BY DEF InvoiceCmds, InvoiceFirstStep
        <4> QED BY <4>1, <4>2
      <3>2. CASE VanArrive(r) \/ RiskArrive(r)
        BY <3>2 DEF VanArrive, RiskArrive
      <3> QED BY <1>1, <3>1, <3>2
    <2>2. PICK c : Arrive(r, c, step)
      BY <2>1
    <2>3. /\ Alone(r) /\ pc[r]' = step /\ pc[r] = "idle" /\ events' = events /\ vans' = vans
          /\ ledger' = ledger /\ tx'[r] = tx[r]
      BY <2>2 DEF Arrive, Goto, Alone, db, tables, Inv, SessionInv, SessionOK
    <2> QED BY <2>3, IdleKeeps DEF Holding, Paying
  <1>2. CASE Fail(r)
    <2>1. /\ Alone(r) /\ pc[r]' = "error" /\ events' = events /\ vans' = vans
          /\ ledger' = ledger /\ Blank(tx'[r])
      BY <1>2, RollbackAlone, MovesAlone, NoTxBlank DEF Fail, Alone
    <2> QED BY <2>1, IdleKeeps DEF Holding, Paying
  <1>3. CASE Respond(r)
    <2>1. /\ Alone(r) /\ pc[r] \in Answers /\ pc[r]' = "idle" /\ events' = events
          /\ vans' = vans /\ ledger' = ledger /\ tx'[r] = tx[r]
      BY <1>3 DEF Respond, Goto, Alone, db, tables, Inv, SessionInv, SessionOK
    <2> QED BY <2>1, IdleKeeps DEF Holding, Paying, Answers
  <1> QED BY <1>1, <1>2, <1>3

LEMMA CrashKeepsAccounts ==
  ASSUME Inv, AccountInv, Crash
  PROVE  AccountStep
  <1>1. /\ events' = events /\ vans' = vans /\ ledger' = ledger
        /\ \A s \in Requests : Blank(tx'[s]) /\ pc'[s] = "idle"
    BY NoTxBlank DEF Crash, RollbackAll, tables
  <1>2. ASSUME NEW s \in Requests PROVE DOMAIN tx'[s].vans = {} /\ Chapter(s)'
    <2>1. DOMAIN tx'[s].vans = {} /\ \A j \in Invoices : Quiet(tx'[s].events[j])
      BY <1>1, BlankSaysNothing
    <2> QED BY <1>1, <2>1, NoChapter DEF Holding, Paying
  <1>3. VanLocks'
    BY <1>2 DEF VanLocks
  <1>4. ASSUME NEW i \in Invoices PROVE Story(i)'
    <2>1. Story(i)
      BY DEF AccountInv
    <2> QED BY <1>1, <2>1 DEF Story
  <1> QED BY <1>1, <1>2, <1>3, <1>4 DEF AccountStep, AccountInv, MoneyMoves

LEMMA StutterKeepsAccounts ==
  ASSUME AccountInv, UNCHANGED vars
  PROVE  AccountStep
  <1>1. UNCHANGED <<events, vans, ledger, tx, pc, cmd>>
    BY DEF vars, db, tables, session
  <1>2. ASSUME NEW s \in Requests PROVE Chapter(s)'
    <2>1. Chapter(s)
      BY DEF AccountInv
    <2>2. HasOpened(tx[s], cmd[s]) => HasOpened(tx[s], cmd[s])'
      BY <1>1 DEF HasOpened, WritesOnly
    <2>3. HasReceived(tx[s], cmd[s]) => HasReceived(tx[s], cmd[s])'
      BY <1>1 DEF HasReceived, WritesOnly
    <2> QED BY <1>1, <2>1, <2>2, <2>3 DEF Chapter
  <1>3. VanLocks'
    BY <1>1 DEF AccountInv, VanLocks
  <1>4. ASSUME NEW i \in Invoices PROVE Story(i)'
    <2>1. Story(i)
      BY DEF AccountInv
    <2> QED BY <1>1, <2>1 DEF Story
  <1> QED BY <1>1, <1>2, <1>3, <1>4 DEF AccountStep, AccountInv, MoneyMoves

-----------------------------------------------------------------------------
(* The invariant *)

LEMMA InitAccounts == Init => AccountInv
  <1> SUFFICES ASSUME Init PROVE AccountInv
    OBVIOUS
  <1>1. /\ vans = NoRows /\ ledger = {} /\ \A i \in Invoices : events[i] = <<>>
        /\ \A r \in Requests : tx[r] = NoTx /\ pc[r] = "idle"
    BY DEF Init, ServerInit, DatabaseInit
  <1>2. ASSUME NEW r \in Requests PROVE DOMAIN tx[r].vans = {} /\ Chapter(r)
    <2>1. DOMAIN tx[r].vans = {} /\ \A j \in Invoices : Quiet(tx[r].events[j])
      BY <1>1, NoTxBlank, BlankSaysNothing
    <2> QED BY <1>1, <2>1 DEF Chapter, Holding, Paying
  <1>3. VanLocks
    BY <1>2 DEF VanLocks
  <1>4. ASSUME NEW i \in Invoices PROVE Story(i)
    <2>1. Created(events[i]) = {} /\ ~ Repaid(events[i])
      BY <1>1, EmptyIsQuiet, QuietTells
    <2> QED BY <1>1, <2>1 DEF Story, Debits, NoRows
  <1> QED BY <1>2, <1>3, <1>4 DEF AccountInv

LEMMA NextAccounts == Inv /\ LedgerInv /\ AccountInv /\ [Next]_vars => AccountStep
  <1> SUFFICES ASSUME Inv, LedgerInv, AccountInv, [Next]_vars PROVE AccountStep
    OBVIOUS
  <1>1. ASSUME NEW r \in Requests,
               \/ InvoiceArrive(r) \/ VanArrive(r) \/ RiskArrive(r) \/ Fail(r) \/ Respond(r)
        PROVE  AccountStep
    BY <1>1, SlotKeepsAccounts
  <1>2. ASSUME NEW r \in Requests, InvoiceStep(r) \/ RiskStep(r)
        PROVE  AccountStep
    BY <1>2, OtherServices, ElsewhereKeepsAccounts
  <1>3. ASSUME NEW r \in Requests, VanStep(r)
        PROVE  AccountStep
    BY <1>3, CreateVanKeepsAccounts, PayKeepsAccounts, ReceiveKeepsAccounts,
       SettleKeepsAccounts DEF VanStep
  <1>4. CASE Crash
    BY <1>4, CrashKeepsAccounts
  <1>5. CASE UNCHANGED vars
    BY <1>5, StutterKeepsAccounts
  <1> QED BY <1>1, <1>2, <1>3, <1>4, <1>5 DEF Next, ServiceStep

LEMMA AccountInvariance == Spec => []AccountInv
  <1>1. Init => AccountInv
    BY InitAccounts
  <1>2. Inv /\ LedgerInv /\ AccountInv /\ [Next]_vars => AccountInv'
    BY NextAccounts DEF AccountStep
  <1> QED BY <1>1, <1>2, Invariance, LedgerInvariance, PTL DEF Spec

\* However createVan's callers race, fail or die half way, an account comes with
\* one debit of what is expected of it and one van.created event, and neither
\* comes without the account.
THEOREM AdvancedOnce == Spec => []OneAdvance
  <1>1. AccountInv => OneAdvance
    <2> SUFFICES ASSUME AccountInv, NEW i \in Invoices
                 PROVE  IF i \in DOMAIN vans
                        THEN /\ \E d \in Debits(ledger, i) :
                                  Debits(ledger, i) = {d} /\ d.amount = vans[i].expected
                             /\ \E n \in Created(events[i]) : Created(events[i]) = {n}
                        ELSE Debits(ledger, i) = {} /\ Created(events[i]) = {}
      BY DEF OneAdvance, Debits, Created
    <2>1. Story(i)
      BY DEF AccountInv
    <2>2. CASE i \in DOMAIN vans
      <3>1. \E d \in Debits(ledger, i) :
              Debits(ledger, i) = {d} /\ d.amount = vans[i].expected
        BY <2>1, <2>2 DEF Story
      <3>2. \E n \in Created(events[i]) : Created(events[i]) = {n}
        BY <2>1, <2>2 DEF Story, CreatedOnce
      <3> QED BY <2>2, <3>1, <3>2
    <2>3. CASE i \notin DOMAIN vans
      BY <2>1, <2>3 DEF Story
    <2> QED BY <2>2, <2>3
  <1> QED BY <1>1, AccountInvariance, PTL

\* However payments race, an account is settled exactly when it has received
\* what was expected, and exactly then its invoice's log says it was repaid:
\* settleAccount and invoice.repaid go with the increment that covers it.
THEOREM SettledExactlyWhenCovered == Spec => []SettledIffCovered
  <1>1. Inv /\ AccountInv => SettledIffCovered
    <2> SUFFICES ASSUME Inv, AccountInv, NEW i \in DOMAIN vans
                 PROVE  /\ vans[i].status = "settled" <=> Covered(vans[i])
                        /\ Repaid(events[i]) <=> Covered(vans[i])
      BY DEF SettledIffCovered, Has, Repaid, Covered
    <2>1. i \in Invoices
      BY TableRow DEF Inv, DatabaseInv, DatabaseOK
    <2>2. Story(i)
      BY <2>1 DEF AccountInv
    <2> QED BY <2>2 DEF Story
  <1> QED BY <1>1, Invariance, AccountInvariance, PTL

-----------------------------------------------------------------------------
(***************************************************************************)
(* The engine implements PaymentBook: a commit of createVan opens an       *)
(* account, a commit of recordPayment books its transfer and settles the   *)
(* account when it covers it, and no other step moves money.               *)
(***************************************************************************)

LEMMA InitKeepsBook == Init => Promise!Init
  <1> SUFFICES ASSUME Init PROVE Promise!Init
    OBVIOUS
  <1>1. vans = NoRows /\ ledger = {}
    BY DEF Init, ServerInit, DatabaseInit
  <1>2. Accounts = [i \in {} |-> i]
    BY <1>1 DEF Accounts, NoRows
  <1>3. Booked = {}
    BY <1>1 DEF Booked, Credits
  <1> QED BY <1>2, <1>3 DEF Promise!Init

\* createVan's transaction books no transfer and adds one account.
LEMMA OpeningIsOpen ==
  ASSUME Inv, LedgerInv, AccountInv, NEW r \in Requests, Commit(r), pc[r] = "van.commit"
  PROVE  Promise!Next
  <1> DEFINE t == tx[r]
             opened == cmd[r].invoice
             expected == cmd[r].expected
  <1>1. opened \in Invoices /\ expected \in Expected
    <2>1. pc[r] \in Steps("createVan")
      BY DEF Steps
    <2> QED BY <2>1, StepOfOp, CommandFields DEF Inv, SessionInv, Ops
  <1>2. HasOpened(t, cmd[r])
    BY DEF AccountInv, Chapter
  <1>3. PICK e : t.ledger = {e} /\ IsDebitOf(e, cmd[r])
    BY DEF LedgerInv, Progress
  <1>4. Booked' = Booked
    <2>1. ledger' = ledger \cup {e} /\ e.type = "debit"
      BY <1>3, CommitMakes DEF IsDebitOf
    <2>2. \A p \in Payments : Credits(p.invoice)' = Credits(p.invoice)
      BY <2>1 DEF Credits
    <2> QED BY <2>2 DEF Booked
  <1>5. /\ DOMAIN vans' = DOMAIN vans \cup {opened} /\ opened \notin DOMAIN vans
        /\ vans'[opened] = [expected |-> expected, received |-> 0, status |-> "active"]
        /\ \A j \in DOMAIN vans : vans'[j] = vans[j]
    BY <1>2, CommitMakes DEF HasOpened, WritesOnly
  <1> HIDE DEF opened, expected, t
  <1>6. Accounts' = [j \in DOMAIN Accounts \cup {opened} |->
                       IF j = opened
                       THEN [expected |-> expected, received |-> 0, settled |-> FALSE]
                       ELSE Accounts[j]]
    <2>1. /\ DOMAIN Accounts' = DOMAIN vans' /\ DOMAIN Accounts = DOMAIN vans
          /\ \A j \in DOMAIN vans : Accounts'[j] = Accounts[j]
      BY <1>5 DEF Accounts
    <2>2. Accounts'[opened] = [expected |-> expected, received |-> 0, settled |-> FALSE]
      <3>1. (vans'[opened].status = "settled") = FALSE
        BY <1>5
      <3>2. vans'[opened].expected = expected /\ vans'[opened].received = 0
        BY <1>5
      <3>3. Accounts'[opened] = [expected |-> vans'[opened].expected,
                                 received |-> vans'[opened].received,
                                 settled |-> vans'[opened].status = "settled"]
        BY <1>5 DEF Accounts
      <3> QED BY <3>1, <3>2, <3>3
    <2>3. Accounts' = [j \in DOMAIN Accounts' |-> Accounts'[j]]
      BY DEF Accounts
    <2> HIDE DEF Accounts
    <2> QED BY <1>5, <2>1, <2>2, <2>3
  <1>7. opened \notin DOMAIN Accounts
    BY <1>5 DEF Accounts
  <1>8. Promise!Open(opened, expected)
    BY <1>4, <1>6, <1>7 DEF Promise!Open
  <1> QED BY <1>1, <1>8 DEF Promise!Next

\* What Book makes of an account.
After(account, received, settled) ==
  [account EXCEPT !.received = received, !.settled = settled]
IsAccount(account, expected, received, settled) ==
  account = [expected |-> expected, received |-> received, settled |-> settled]

LEMMA UpdatedAccount ==
  ASSUME NEW expected, NEW before, NEW open, NEW received, NEW settled, NEW account,
         IsAccount(account, expected, before, open)
  PROVE  IsAccount(After(account, received, settled), account.expected, received, settled)
  <1> USE DEF IsAccount, After
  <1> DEFINE booked == [account EXCEPT !.received = received]
             new == [booked EXCEPT !.settled = settled]
  <1>1. DOMAIN account = {"expected", "received", "settled"}
    OBVIOUS
  <1>2. /\ booked = [f \in DOMAIN account |-> booked[f]]
        /\ DOMAIN booked = DOMAIN account
    OBVIOUS
  <1>3. booked.expected = account.expected /\ booked.received = received
    BY <1>1
  <1>4. DOMAIN new = DOMAIN booked /\ new = [f \in DOMAIN booked |-> new[f]]
    OBVIOUS
  <1>5. new.expected = booked.expected /\ new.received = booked.received /\ new.settled = settled
    BY <1>1, <1>2
  <1>6. new = [expected |-> account.expected, received |-> received, settled |-> settled]
    <2> HIDE DEF new, booked
    <2> QED BY <1>1, <1>2, <1>3, <1>4, <1>5
  <1> QED BY <1>6

\* recordPayment's transaction books the transfer it was told of, which no
\* other has booked before it.
LEMMA PaymentIsBook ==
  ASSUME Inv, LedgerInv, AccountInv, AccountInv', NEW r \in Requests, Commit(r),
         pc[r] \in {"pay.commit", "pay.commitSettled"}
  PROVE  Promise!Next
  <1> DEFINE t == tx[r]
  <1>1. PICK p \in Payments :
          cmd[r] = [op |-> "pay", invoice |-> p.invoice, amount |-> p.amount, key |-> p.key]
    <2>1. pc[r] \in Steps("pay")
      BY DEF Steps
    <2>2. cmd[r].op = "pay" /\ cmd[r] \in Cmds
      BY <2>1, StepOfOp DEF Inv, SessionInv, Ops
    <2> QED BY <2>2 DEF Cmds, PayCmds, InvoiceCmds, CreateVanCmds, AssessCmds
  <1>2. /\ p.invoice \in Invoices /\ p.amount \in Nat
        /\ cmd[r].invoice = p.invoice /\ cmd[r].amount = p.amount /\ cmd[r].key = p.key
    BY <1>1, VanAssumption
  <1> PICK paid \in Invoices : paid = cmd[r].invoice
    BY <1>2
  <1>3. HasReceived(t, cmd[r]) /\ paid \in DOMAIN vans
    BY DEF AccountInv, Chapter, Paying, Inv, SessionInv, WithVanFound, Steps
  <1>4. PICK e : t.ledger = {e} /\ IsCreditOf(e, cmd[r])
    BY DEF LedgerInv, Progress, BookedInTx
  <1>5. ledger' = ledger \cup {e}
    BY <1>4, CommitMakes
  <1>6. /\ e.van = p.invoice /\ e.type = "credit" /\ e.key = p.key /\ e.amount = p.amount
        /\ \A f \in ledger : f.key # p.key
    BY <1>2, <1>4 DEF IsCreditOf, LedgerInv, KeysOnce
  <1>7. p \notin Booked
    BY <1>6 DEF Booked, Credits
  <1>8. Booked' = Booked \cup {p}
    <2>1. ASSUME NEW q \in Payments
          PROVE  q \in Booked' <=> q \in Booked \/ q = p
      BY <1>5, <1>6, BankKeysAssumption DEF Booked, Credits
    <2> QED BY <2>1 DEF Booked
  <1>9. /\ DOMAIN vans' = DOMAIN vans
        /\ \A j \in DOMAIN vans \ {paid} : vans'[j] = vans[j]
        /\ vans'[paid].expected = vans[paid].expected
        /\ vans'[paid].received = vans[paid].received + p.amount
    BY <1>2, <1>3, CommitMakes DEF HasReceived, WritesOnly
  <1>10. vans'[paid].status = "settled" <=> vans[paid].received + p.amount >= vans[paid].expected
    <2>1. Story(paid)'
      BY DEF AccountInv
    <2>2. paid \in DOMAIN vans'
      BY <1>3, <1>9
    <2> QED BY <1>9, <2>1, <2>2 DEF Story, Covered
  <1> HIDE DEF t
  <1> DEFINE account == Accounts[paid]
             received == account.received + p.amount
  <1>11. account = [expected |-> vans[paid].expected, received |-> vans[paid].received,
                    settled |-> vans[paid].status = "settled"]
    BY <1>3 DEF Accounts
  <1>12. Accounts' = [Accounts EXCEPT ![paid] =
                        [account EXCEPT !.received = received,
                                        !.settled = received >= account.expected]]
    <2>1. /\ DOMAIN Accounts' = DOMAIN Accounts /\ DOMAIN Accounts = DOMAIN vans
          /\ \A j \in DOMAIN vans \ {paid} : Accounts'[j] = Accounts[j]
      BY <1>9 DEF Accounts
    <2>2. received = vans'[paid].received /\ account.expected = vans'[paid].expected
      BY <1>9, <1>11
    <2>3. (vans'[paid].status = "settled") = (received >= account.expected)
      BY <1>9, <1>10, <2>2
    <2>4. Accounts'[paid] = [expected |-> vans'[paid].expected,
                             received |-> vans'[paid].received,
                             settled |-> vans'[paid].status = "settled"]
      BY <1>3, <1>9 DEF Accounts
    <2>5. Accounts'[paid] = [expected |-> account.expected, received |-> received,
                             settled |-> received >= account.expected]
      BY <2>2, <2>3, <2>4
    <2>6. [account EXCEPT !.received = received, !.settled = received >= account.expected]
            = [expected |-> account.expected, received |-> received,
               settled |-> received >= account.expected]
      <3> HIDE DEF account, received
      <3>1. PICK open, paidUp : /\ open = (vans[paid].status = "settled")
                                /\ paidUp = (received >= account.expected)
        OBVIOUS
      <3>2. IsAccount(account, vans[paid].expected, vans[paid].received, open)
        BY <1>11, <3>1 DEF IsAccount
      <3>3. IsAccount(After(account, received, paidUp), account.expected, received, paidUp)
        BY <3>2, UpdatedAccount
      <3> QED BY <3>1, <3>3 DEF IsAccount, After
    <2>7. /\ Accounts' = [j \in DOMAIN Accounts' |-> Accounts'[j]]
          /\ Accounts = [j \in DOMAIN Accounts |-> Accounts[j]]
      BY DEF Accounts
    <2> HIDE DEF Accounts, account, received
    <2> QED BY <1>3, <2>1, <2>5, <2>6, <2>7
  <1>13. Promise!Book(p)
    BY <1>2, <1>3, <1>7, <1>8, <1>12 DEF Promise!Book, Accounts
  <1> QED BY <1>13 DEF Promise!Next

LEMMA NextKeepsBook ==
  Inv /\ LedgerInv /\ AccountInv /\ [Next]_vars => [Promise!Next]_<<Accounts, Booked>>
  <1> SUFFICES ASSUME Inv, LedgerInv, AccountInv, [Next]_vars
               PROVE  [Promise!Next]_<<Accounts, Booked>>
    OBVIOUS
  <1>1. AccountInv' /\ MoneyMoves
    BY NextAccounts DEF AccountStep
  <1>2. CASE vans' = vans /\ ledger' = ledger
    BY <1>2 DEF Accounts, Booked, Credits
  <1>3. CASE \E r \in Requests :
               Commit(r) /\ pc[r] \in {"van.commit", "pay.commit", "pay.commitSettled"}
    BY <1>1, <1>3, OpeningIsOpen, PaymentIsBook
  <1> QED BY <1>1, <1>2, <1>3 DEF MoneyMoves

\* Seen through its tables the engine is a payment book: an account is opened
\* once, a transfer is booked once and whole whatever notices, retries and
\* crashes there are, and the account settles in the commit that covers it.
THEOREM ImplementsPaymentBook == Spec => KeepsPaymentBook
  <1> QED BY InitKeepsBook, NextKeepsBook, Invariance, LedgerInvariance, AccountInvariance, PTL
          DEF Spec, KeepsPaymentBook, Promise!Spec

-----------------------------------------------------------------------------
(***************************************************************************)
(* The jobs.  A receipt is enqueued in a step of its own, after the commit *)
(* that settled the account, on the word of a request that knows no more   *)
(* than that it got there; what makes it true is that a settled account    *)
(* stays settled, however many commits come in between.                    *)
(***************************************************************************)

Settled(i) == i \in DOMAIN vans /\ vans[i].status = "settled"

ReceiptInv ==
  /\ \A i \in Invoices : ReceiptJob(i) \in jobs => Settled(i)
  /\ \A r \in Requests : pc[r] = "pay.enqueue" => Settled(cmd[r].invoice)

\* A payment that is committed settles its account, if it covers it, and no
\* commit takes an account's settlement back.
LEMMA SettledStays ==
  ASSUME Inv, LedgerInv, AccountInv, [Next]_vars
  PROVE  \A i \in Invoices : Settled(i) => Settled(i)'
  <1>1. AccountInv' /\ MoneyMoves
    BY NextAccounts DEF AccountStep
  <1> SUFFICES ASSUME NEW i \in Invoices, i \in DOMAIN vans, vans[i].status = "settled"
               PROVE  i \in DOMAIN vans' /\ vans'[i].status = "settled"
    BY DEF Settled
  <1>2. CASE vans' = vans
    BY <1>2
  <1>3. ASSUME NEW r \in Requests, Commit(r),
               pc[r] \in {"van.commit", "pay.commit", "pay.commitSettled"}
        PROVE  i \in DOMAIN vans' /\ vans'[i].status = "settled"
    <2>1. CASE i \notin DOMAIN tx[r].vans
      BY <1>3, <2>1, CommitMakes
    <2>2. CASE i \in DOMAIN tx[r].vans
      <3>1. Chapter(r)
        BY DEF AccountInv
      <3>2. i = cmd[r].invoice /\ HasReceived(tx[r], cmd[r])
        BY <1>3, <2>2, <3>1 DEF Chapter, HasOpened, HasReceived, WritesOnly, Paying
      <3>3. \/ tx[r].vans[i].status = vans[i].status
            \/ tx[r].vans[i].status = "settled"
        BY <1>3, <3>1, <3>2 DEF Chapter, HasOpened, WritesOnly
      <3> QED BY <1>3, <2>2, <3>3, CommitMakes
    <2> QED BY <2>1, <2>2
  <1> QED BY <1>1, <1>2, <1>3 DEF MoneyMoves

LEMMA CommitSettles ==
  ASSUME Inv, AccountInv, NEW r \in Requests, PayCommitSettled(r)
  PROVE  Settled(cmd[r].invoice)'
  <1> DEFINE i == cmd[r].invoice
  <1>1. pc[r] = "pay.commitSettled" /\ Commit(r) /\ cmd' = cmd
    BY CommitsAlone DEF PayCommitSettled
  <1>2. HasReceived(tx[r], cmd[r]) /\ tx[r].vans[i].status = "settled"
    BY <1>1 DEF AccountInv, Chapter, Paying
  <1>3. i \in DOMAIN vans' /\ vans'[i].status = "settled"
    BY <1>1, <1>2, CommitMakes DEF HasReceived, WritesOnly
  <1> QED BY <1>1, <1>3 DEF Settled

\* A step of r that promises nobody a receipt.
Unpromising(r) ==
  /\ \A s \in Requests \ {r} : pc'[s] = pc[s] /\ cmd'[s] = cmd[s]
  /\ pc'[r] # "pay.enqueue"
  /\ \A i \in Invoices : ReceiptJob(i) \in jobs' => ReceiptJob(i) \in jobs

LEMMA UnpromisingKeeps ==
  ASSUME ReceiptInv, NEW r \in Requests, Unpromising(r), Inv,
         \A i \in Invoices : Settled(i) => Settled(i)'
  PROVE  ReceiptInv'
  <1>1. ASSUME NEW s \in Requests, pc'[s] = "pay.enqueue"
        PROVE  Settled(cmd[s].invoice)'
    <2>1. s # r /\ pc[s] = "pay.enqueue" /\ cmd'[s] = cmd[s]
      BY <1>1 DEF Unpromising
    <2>2. Settled(cmd[s].invoice)
      BY <2>1 DEF ReceiptInv
    <2>3. cmd[s].invoice \in Invoices
      <3>1. pc[s] \in Steps("pay")
        BY <2>1 DEF Steps
      <3> QED BY <3>1, StepOfOp, CommandFields DEF Inv, SessionInv, Ops
    <2>4. PICK i \in Invoices : i = cmd[s].invoice
      BY <2>3
    <2>5. Settled(i)'
      BY <2>2, <2>4
    <2>6. cmd'[s].invoice = i
      BY <2>1, <2>4
    <2> QED BY <2>5, <2>6 DEF Settled
  <1> QED BY <1>1 DEF ReceiptInv, Unpromising

LEMMA MovesUnpromising ==
  ASSUME Inv, NEW r \in Requests, NEW to, to # "pay.enqueue", Moves(r, to)
  PROVE  Unpromising(r)
  BY MovesAlone DEF Unpromising, Moves

LEMMA StepsUnpromising ==
  ASSUME Inv, NEW r \in Requests,
         ServiceStep(r), ~ PayCommitSettled(r), ~ PayEnqueue(r)
  PROVE  Unpromising(r)
  <1>1. CASE InvoiceStep(r) /\ ~ ApproveNotify(r)
    <2>1. \E to : to # "pay.enqueue" /\ Moves(r, to)
      <3>1. CASE SubmitFind(r) \/ ApproveFind(r) \/ FinanceFind(r)
        BY <3>1 DEF SubmitFind, ApproveFind, FinanceFind, Reads
      <3>2. CASE \/ SubmitBegin(r) \/ ApproveBegin(r) \/ FinanceBegin(r)
        BY <3>2 DEF SubmitBegin, ApproveBegin, FinanceBegin, Opens
      <3>3. CASE SubmitCommit(r) \/ ApproveCommit(r) \/ FinanceCommit(r)
        BY <3>3 DEF SubmitCommit, ApproveCommit, FinanceCommit, Commits
      <3>4. CASE SubmitSave(r) \/ SubmitUpdate(r) \/ ApproveUpdate(r) \/ FinanceUpdate(r)
        BY <3>4 DEF SubmitSave, SubmitUpdate, ApproveUpdate, FinanceUpdate
      <3> QED BY <1>1, <3>1, <3>2, <3>3, <3>4 DEF InvoiceStep
    <2> QED BY <2>1, MovesUnpromising
  <1>2. CASE ApproveNotify(r)
    <2>1. /\ \A s \in Requests \ {r} : pc'[s] = pc[s]
          /\ pc'[r] = "ok" /\ cmd' = cmd /\ jobs' \subseteq jobs \cup {ApprovedJob(cmd[r].invoice)}
      BY <1>2 DEF ApproveNotify, Goto, Inv, SessionInv, SessionOK
    <2> QED BY <2>1 DEF Unpromising, ApprovedJob, ReceiptJob
  <1>3. CASE RiskStep(r)
    <2>1. \E to : to # "pay.enqueue" /\ Moves(r, to)
      BY <1>3 DEF RiskStep, AssessFind, AssessBegin, AssessRecord, AssessCommit, Reads, Opens,
                  Commits
    <2> QED BY <2>1, MovesUnpromising
  <1>4. CASE VanStep(r) /\ ~ PayFind(r)
    <2>1. \E to : to # "pay.enqueue" /\ Moves(r, to)
      <3>1. CASE VanFind(r) \/ VanExisting(r) \/ PayLayer1(r) \/ PayEntries(r)
        BY <3>1 DEF VanFind, VanExisting, PayLayer1, PayEntries, Reads
      <3>2. CASE VanBegin(r) \/ PayBegin(r)
        BY <3>2 DEF VanBegin, PayBegin, Opens
      <3>3. CASE VanCommit(r) \/ PayCommit(r)
        BY <3>3 DEF VanCommit, PayCommit, Commits
      <3>4. CASE VanInsert(r) \/ PayInsert(r) \/ PayReceive(r) \/ PaySettle(r)
        BY <3>4 DEF VanInsert, PayInsert, PayReceive, PaySettle
      <3> QED BY <1>4, <3>1, <3>2, <3>3, <3>4 DEF VanStep
    <2> QED BY <2>1, MovesUnpromising
  <1>5. CASE PayFind(r)
    BY <1>5 DEF PayFind, Goto, Unpromising, Inv, SessionInv, SessionOK
  <1> QED BY <1>1, <1>2, <1>3, <1>4, <1>5 DEF ServiceStep

LEMMA SlotsUnpromising ==
  ASSUME Inv, NEW r \in Requests,
         \/ InvoiceArrive(r) \/ VanArrive(r) \/ RiskArrive(r) \/ Fail(r) \/ Respond(r)
  PROVE  Unpromising(r)
  <1>1. ASSUME NEW c, NEW step, step # "pay.enqueue", Arrive(r, c, step)
        PROVE  Unpromising(r)
    BY <1>1 DEF Arrive, Goto, Unpromising, Inv, SessionInv, SessionOK
  <1>2. CASE InvoiceArrive(r)
    <2>1. PICK c \in InvoiceCmds : Arrive(r, c, InvoiceFirstStep[c.op])
      BY <1>2 DEF InvoiceArrive
    <2>2. InvoiceFirstStep[c.op] # "pay.enqueue"
      BY DEF InvoiceCmds, InvoiceFirstStep
    <2> QED BY <1>1, <2>1, <2>2
  <1>3. CASE VanArrive(r) \/ RiskArrive(r)
    BY <1>1, <1>3 DEF VanArrive, RiskArrive
  <1>4. CASE Fail(r)
    BY <1>4, MovesUnpromising DEF Fail
  <1>5. CASE Respond(r)
    BY <1>5 DEF Respond, Goto, Unpromising, Inv, SessionInv, SessionOK
  <1> QED BY <1>2, <1>3, <1>4, <1>5

LEMMA NextReceipts ==
  Inv /\ LedgerInv /\ AccountInv /\ ReceiptInv /\ [Next]_vars => ReceiptInv'
  <1> SUFFICES ASSUME Inv, LedgerInv, AccountInv, ReceiptInv, [Next]_vars PROVE ReceiptInv'
    OBVIOUS
  <1>0. \A i \in Invoices : Settled(i) => Settled(i)'
    BY SettledStays
  <1>1. ASSUME NEW r \in Requests, Unpromising(r) PROVE ReceiptInv'
    BY <1>0, <1>1, UnpromisingKeeps
  <1>2. ASSUME NEW r \in Requests, PayCommitSettled(r) PROVE ReceiptInv'
    <2>1. Alone(r) /\ cmd' = cmd /\ jobs' = jobs
      BY <1>2, CommitsAlone DEF PayCommitSettled, Commits, Moves
    <2>2. Settled(cmd[r].invoice)'
      BY <1>2, CommitSettles
    <2>3. ASSUME NEW s \in Requests, pc'[s] = "pay.enqueue" PROVE Settled(cmd[s].invoice)'
      <3>1. CASE s = r
        BY <2>2, <3>1
      <3>2. CASE s # r
        <4>1. pc[s] = "pay.enqueue"
          BY <2>1, <2>3, <3>2 DEF Alone
        <4>2. cmd[s].invoice \in Invoices
          <5>1. pc[s] \in Steps("pay")
            BY <4>1 DEF Steps
          <5> QED BY <5>1, StepOfOp, CommandFields DEF Inv, SessionInv, Ops
        <4>3. PICK i \in Invoices : i = cmd[s].invoice
          BY <4>2
        <4>4. Settled(i)'
          BY <1>0, <4>1, <4>3 DEF ReceiptInv
        <4> QED BY <2>1, <4>3, <4>4 DEF Settled
      <3> QED BY <3>1, <3>2
    <2> QED BY <1>0, <2>1, <2>3 DEF ReceiptInv
  <1>3. ASSUME NEW r \in Requests, PayEnqueue(r) PROVE ReceiptInv'
    <2>1. /\ UNCHANGED <<cmd, vans>> /\ pc[r] = "pay.enqueue"
          /\ \A s \in Requests : pc'[s] = "pay.enqueue" => pc[s] = "pay.enqueue"
          /\ jobs' = jobs \cup {ReceiptJob(cmd[r].invoice)}
      BY <1>3 DEF PayEnqueue, Goto, db, tables, Inv, SessionInv, SessionOK
    <2>2. Settled(cmd[r].invoice)
      BY <2>1 DEF ReceiptInv
    <2> QED BY <2>1, <2>2 DEF ReceiptInv, Settled, ReceiptJob
  <1>4. CASE Crash
    <2>1. UNCHANGED <<vans, jobs>> /\ \A s \in Requests : pc'[s] = "idle"
      BY <1>4 DEF Crash, RollbackAll, tables
    <2> QED BY <2>1 DEF ReceiptInv, Settled
  <1>5. CASE UNCHANGED vars
    <2>1. UNCHANGED <<vans, jobs, pc, cmd>>
      BY <1>5 DEF vars, db, tables, session
    <2> QED BY <2>1 DEF ReceiptInv, Settled
  <1> QED BY <1>1, <1>2, <1>3, <1>4, <1>5, StepsUnpromising, SlotsUnpromising DEF Next

LEMMA ReceiptInvariance == Spec => []ReceiptInv
  <1>1. Init => ReceiptInv
    BY DEF Init, ServerInit, ReceiptInv
  <1>2. Inv /\ LedgerInv /\ AccountInv /\ ReceiptInv /\ [Next]_vars => ReceiptInv'
    BY NextReceipts
  <1> QED BY <1>1, <1>2, Invariance, LedgerInvariance, AccountInvariance, PTL DEF Spec

\* A worker never acts on what was rolled back: approveInvoice and recordPayment
\* enqueue after their commit, what the job says stays true until it is taken,
\* and a caller whose approval was answered with success has its job.
THEOREM JobsTellOfCommits == Spec => []JobsFollowCommits
  <1>1. CollateralInv /\ ReceiptInv => JobsFollowCommits
    BY DEF CollateralInv, ToldOnce, Evidence, Approved, ReceiptInv, Settled, JobsFollowCommits, Has
  <1> QED BY <1>1, CollateralInvariance, ReceiptInvariance, PTL

-----------------------------------------------------------------------------
(* Sums of entries.  What holds of every finite set is shown by refuting   *)
(* its smallest counterexample.                                            *)

SumOf(entries) == MapThenSumSet(LAMBDA e : e.amount, entries)

AnyOf(entries) == CHOOSE e \in entries : TRUE

\* The function that SumOf evaluates, as MapThenFoldSet defines it.
IsSum(f, entries) ==
  f = [s \in SUBSET entries |->
         IF s = {} THEN 0 ELSE AnyOf(s).amount + f[s \ {AnyOf(s)}]]

LEMMA SumDefined ==
  ASSUME NEW entries
  PROVE  SumOf(entries) = (CHOOSE f : IsSum(f, entries))[entries]
  BY DEF SumOf, MapThenSumSet, MapThenFoldSet, IsSum, AnyOf

LEMMA Smallest ==
  ASSUME NEW S, IsFiniteSet(S), NEW Bad, Bad \subseteq SUBSET S, Bad # {}
  PROVE  \E T \in Bad : \A U \in Bad : U \subseteq T => U = T
  <1> DEFINE R == StrictSubsetOrdering(S)
             F == FiniteSubsetsOf(S)
  <1>1. IsWellFoundedOn(R, F)
    BY FS_StrictSubsetOrderingWellFounded
  <1>2. F = SUBSET S
    BY FS_FiniteSubsetsOfFinite
  <1>3. \A U, T \in SUBSET S : U \subseteq T /\ U # T => <<U, T>> \in R
    BY DEF StrictSubsetOrdering
  <1> HIDE DEF R, F
  <1>4. Bad \subseteq F
    BY <1>2
  <1>5. PICK T \in Bad : \A U \in Bad : ~ (<<U, T>> \in R)
    BY <1>1, <1>4, WFMin
  <1> QED BY <1>3, <1>5

\* Removing the chosen element: the equation of the sum.
Adds(T) == SumOf(T) = IF T = {} THEN 0
                      ELSE AnyOf(T).amount + SumOf(T \ {AnyOf(T)})

LEMMA AnyOfIsIn ==
  ASSUME NEW T, T # {}
  PROVE  AnyOf(T) \in T
  BY DEF AnyOf

LEMMA SumFollows ==
  ASSUME NEW T, IsFiniteSet(T), \A s \in SUBSET T : s # T => Adds(s)
  PROVE  Adds(T)
  <1> DEFINE h == [s \in SUBSET T |->
               IF s = T THEN IF T = {} THEN 0
                             ELSE AnyOf(T).amount + SumOf(T \ {AnyOf(T)})
               ELSE SumOf(s)]
  <1>1. IsSum(h, T)
    <2>1. ASSUME NEW s \in SUBSET T
          PROVE  h[s] = IF s = {} THEN 0 ELSE AnyOf(s).amount + h[s \ {AnyOf(s)}]
      <3>1. CASE s = {}
        <4>1. CASE T = {}
          BY <3>1, <4>1
        <4>2. CASE T # {}
          BY <3>1, <4>2 DEF Adds
        <4> QED BY <4>1, <4>2
      <3>2. CASE s # {}
        <4>1. AnyOf(s) \in s
          BY <3>2, AnyOfIsIn
        <4>2. s \ {AnyOf(s)} \in SUBSET T /\ s \ {AnyOf(s)} # T
          BY <4>1
        <4>3. h[s \ {AnyOf(s)}] = SumOf(s \ {AnyOf(s)})
          BY <4>2
        <4>4. CASE s = T
          BY <3>2, <4>3, <4>4
        <4>5. CASE s # T
          <5>1. h[s] = SumOf(s)
            BY <4>5
          <5> QED BY <3>2, <4>3, <4>5, <5>1 DEF Adds
        <4> QED BY <4>4, <4>5
      <3> QED BY <3>1, <3>2
    <2>2. h = [s \in SUBSET T |-> h[s]]
      OBVIOUS
    <2> HIDE DEF h
    <2>3. [s \in SUBSET T |-> h[s]]
            = [s \in SUBSET T |-> IF s = {} THEN 0 ELSE AnyOf(s).amount + h[s \ {AnyOf(s)}]]
      BY <2>1
    <2> QED BY <2>2, <2>3 DEF IsSum
  <1> DEFINE f == CHOOSE g : IsSum(g, T)
  <1>2. IsSum(f, T)
    BY <1>1
  <1>3. SumOf(T) = f[T]
    BY SumDefined
  <1> HIDE DEF h, f
  <1>4. \A s \in SUBSET T :
          f[s] = IF s = {} THEN 0 ELSE AnyOf(s).amount + f[s \ {AnyOf(s)}]
    <2>1. f = [s \in SUBSET T |->
                 IF s = {} THEN 0 ELSE AnyOf(s).amount + f[s \ {AnyOf(s)}]]
      BY <1>2 DEF IsSum
    <2> DEFINE body(s) == IF s = {} THEN 0 ELSE AnyOf(s).amount + f[s \ {AnyOf(s)}]
    <2>2. f = [s \in SUBSET T |-> body(s)]
      BY <2>1
    <2> HIDE DEF body
    <2>3. \A s \in SUBSET T : f[s] = body(s)
      BY <2>2
    <2> QED BY <2>3 DEF body
  <1>5. \A s \in SUBSET T : s # T => f[s] = SumOf(s)
    <2>0. PICK Bad : Bad = {s \in SUBSET T : s # T /\ f[s] # SumOf(s)}
      OBVIOUS
    <2>1. SUFFICES ASSUME Bad # {} PROVE FALSE
      BY <2>0
    <2>2. PICK s \in Bad : \A u \in Bad : u \subseteq s => u = s
      <3>1. Bad \subseteq SUBSET T
        BY <2>0
      <3> QED BY <2>1, <3>1, Smallest
    <2>3. s \in SUBSET T /\ s # T /\ f[s] # SumOf(s) /\ Adds(s)
      BY <2>0
    <2>4. CASE s = {}
      BY <1>4, <2>3, <2>4 DEF Adds
    <2>5. CASE s # {}
      <3>1. AnyOf(s) \in s
        BY <2>5, AnyOfIsIn
      <3> DEFINE u == s \ {AnyOf(s)}
      <3>2. u \in SUBSET T /\ u # T /\ u \subseteq s /\ u # s
        BY <2>3, <3>1
      <3>3. f[u] = SumOf(u)
        BY <2>0, <2>2, <3>2
      <3>4. f[s] = AnyOf(s).amount + f[u] /\ SumOf(s) = AnyOf(s).amount + SumOf(u)
        BY <1>4, <2>3, <2>5 DEF Adds
      <3> QED BY <2>3, <3>3, <3>4
    <2> QED BY <2>4, <2>5
  <1>6. CASE T = {}
    BY <1>3, <1>4, <1>6 DEF Adds
  <1>7. CASE T # {}
    <2>1. AnyOf(T) \in T
      BY <1>7, AnyOfIsIn
    <2>2. f[T \ {AnyOf(T)}] = SumOf(T \ {AnyOf(T)})
      BY <1>5, <2>1
    <2> QED BY <1>3, <1>4, <1>7, <2>2 DEF Adds
  <1> QED BY <1>6, <1>7

LEMMA SumAdds ==
  ASSUME NEW S, IsFiniteSet(S)
  PROVE  \A T \in SUBSET S : Adds(T)
  <1>0. PICK Bad : Bad = {T \in SUBSET S : ~ Adds(T)}
    OBVIOUS
  <1>1. SUFFICES ASSUME Bad # {} PROVE FALSE
    BY <1>0
  <1>2. PICK T \in Bad : \A U \in Bad : U \subseteq T => U = T
    <2>1. Bad \subseteq SUBSET S
      BY <1>0
    <2> QED BY <1>1, <2>1, Smallest
  <1>3. IsFiniteSet(T) /\ T \in SUBSET S
    BY <1>0, FS_Subset
  <1>4. \A s \in SUBSET T : s # T => Adds(s)
    BY <1>0, <1>2, <1>3
  <1> QED BY <1>0, <1>2, <1>3, <1>4, SumFollows

LEMMA SumIsNat ==
  ASSUME NEW S, IsFiniteSet(S), \A e \in S : e.amount \in Nat
  PROVE  \A T \in SUBSET S : SumOf(T) \in Nat
  <1>0. PICK Bad : Bad = {T \in SUBSET S : SumOf(T) \notin Nat}
    OBVIOUS
  <1>1. SUFFICES ASSUME Bad # {} PROVE FALSE
    BY <1>0
  <1>2. PICK T \in Bad : \A U \in Bad : U \subseteq T => U = T
    <2>1. Bad \subseteq SUBSET S
      BY <1>0
    <2> QED BY <1>1, <2>1, Smallest
  <1>3. Adds(T) /\ T \in SUBSET S
    BY <1>0, SumAdds
  <1>4. CASE T = {}
    BY <1>0, <1>2, <1>3, <1>4 DEF Adds
  <1>5. CASE T # {}
    <2>1. AnyOf(T) \in T
      BY <1>5, AnyOfIsIn
    <2>2. SumOf(T \ {AnyOf(T)}) \in Nat /\ AnyOf(T).amount \in Nat
      BY <1>0, <1>2, <1>3, <2>1
    <2> QED BY <1>0, <1>3, <1>5, <2>2 DEF Adds
  <1> QED BY <1>4, <1>5

\* The order in which entries are added does not matter.
LEMMA SumRemoves ==
  ASSUME NEW S, IsFiniteSet(S), \A e \in S : e.amount \in Nat
  PROVE  \A T \in SUBSET S : \A e \in T : SumOf(T) = SumOf(T \ {e}) + e.amount
  <1>0. PICK Bad : Bad = {T \in SUBSET S : \E e \in T : SumOf(T) # SumOf(T \ {e}) + e.amount}
    OBVIOUS
  <1>1. SUFFICES ASSUME Bad # {} PROVE FALSE
    BY <1>0
  <1>2. PICK T \in Bad : \A U \in Bad : U \subseteq T => U = T
    <2>1. Bad \subseteq SUBSET S
      BY <1>0
    <2> QED BY <1>1, <2>1, Smallest
  <1>3. PICK e \in T : SumOf(T) # SumOf(T \ {e}) + e.amount
    BY <1>0
  <1>10. PICK a : a = AnyOf(T)
    OBVIOUS
  <1>4. a \in T
    BY <1>10, AnyOfIsIn
  <1>5. \A U \in SUBSET S : SumOf(U) \in Nat
    BY SumIsNat
  <1>6. T \in SUBSET S /\ a.amount \in Nat /\ e.amount \in Nat
    BY <1>0, <1>4
  <1>7. SumOf(T) = a.amount + SumOf(T \ {a})
    <2>1. Adds(T)
      BY <1>6, SumAdds
    <2> QED BY <1>10, <1>4, <2>1 DEF Adds
  <1>8. CASE a = e
    BY <1>3, <1>5, <1>6, <1>7, <1>8
  <1>9. CASE a # e
    <2>0. PICK A, E, B : A = T \ {a} /\ E = T \ {e} /\ B = T \ {a, e}
      OBVIOUS
    <2>1. /\ A \in SUBSET S /\ E \in SUBSET S /\ B \in SUBSET S
          /\ A \ {e} = B /\ E \ {a} = B /\ e \in A /\ a \in E
          /\ A \notin Bad /\ E \notin Bad
      BY <1>2, <1>4, <1>6, <1>9, <2>0
    <2>2. SumOf(A) = SumOf(B) + e.amount
      BY <1>0, <2>1
    <2>3. SumOf(E) = SumOf(B) + a.amount
      BY <1>0, <2>1
    <2>4. SumOf(A) \in Nat /\ SumOf(E) \in Nat /\ SumOf(B) \in Nat
      BY <1>5, <2>1
    <2>5. SumOf(T) = a.amount + SumOf(A) /\ SumOf(T) # SumOf(E) + e.amount
      BY <1>3, <1>7, <2>0
    <2> QED BY <1>6, <2>2, <2>3, <2>4, <2>5
  <1> QED BY <1>8, <1>9

LEMMA SumOfNone == SumOf({}) = 0
  <1>1. Adds({})
    BY FS_EmptySet, SumAdds
  <1> QED BY <1>1 DEF Adds

LEMMA SumOfOneMore ==
  ASSUME NEW T, IsFiniteSet(T), \A x \in T : x.amount \in Nat,
         NEW e, e \notin T, e.amount \in Nat
  PROVE  SumOf(T \cup {e}) = SumOf(T) + e.amount
  <1>0. PICK S : S = T \cup {e}
    OBVIOUS
  <1>1. IsFiniteSet(S)
    BY <1>0, FS_AddElement
  <1>2. \A x \in S : x.amount \in Nat
    BY <1>0
  <1>3. \A x \in S : SumOf(S) = SumOf(S \ {x}) + x.amount
    BY <1>1, <1>2, SumRemoves
  <1>4. S \ {e} = T /\ e \in S
    BY <1>0
  <1> QED BY <1>0, <1>3, <1>4

-----------------------------------------------------------------------------
(***************************************************************************)
(* What an account has received is the sum of its credits.  The ledger     *)
(* never grows but in the two commits that move money; createVan's adds a  *)
(* debit, recordPayment's one credit under a key the ledger did not have,  *)
(* and a row that has received its amount more.                            *)
(***************************************************************************)

Balance(i) == IF i \in DOMAIN vans THEN vans[i].received ELSE 0
AddsUp(i) == SumOf(Credits(i)) = Balance(i)

SumInv == IsFiniteSet(ledger) /\ \A i \in Invoices : AddsUp(i)

LEMMA CreditsAreFinite ==
  ASSUME Inv, IsFiniteSet(ledger), NEW i
  PROVE  /\ IsFiniteSet(Credits(i))
         /\ \A e \in Credits(i) : e.amount \in Nat
  <1>1. Credits(i) \in SUBSET ledger
    BY DEF Credits
  <1>2. ledger \in SUBSET Entries
    BY DEF Inv, DatabaseInv, DatabaseOK
  <1>3. \A e \in ledger : e.amount \in Nat
    BY <1>2 DEF Entries
  <1> QED BY <1>1, <1>3, FS_Subset

LEMMA OpeningAddsUp ==
  ASSUME Inv, LedgerInv, AccountInv, SumInv, NEW r \in Requests, Commit(r),
         pc[r] = "van.commit"
  PROVE  SumInv'
  <1>1. HasOpened(tx[r], cmd[r])
    BY DEF AccountInv, Chapter
  <1>2. PICK e : tx[r].ledger = {e} /\ IsDebitOf(e, cmd[r])
    BY DEF LedgerInv, Progress
  <1>3. ledger' = ledger \cup {e} /\ e.type = "debit"
    BY <1>2, CommitMakes DEF IsDebitOf
  <1>4. IsFiniteSet(ledger')
    BY <1>3, FS_AddElement DEF SumInv
  <1>5. \A i \in Invoices : Credits(i)' = Credits(i)
    BY <1>3 DEF Credits
  <1>6. \A i \in Invoices : Balance(i)' = Balance(i)
    <2>1. PICK opened \in Invoices : opened = cmd[r].invoice
      <3>1. pc[r] \in Steps("createVan")
        BY DEF Steps
      <3> QED BY <3>1, StepOfOp, CommandFields DEF Inv, SessionInv, Ops
    <2>2. /\ DOMAIN vans' = DOMAIN vans \cup {opened} /\ opened \notin DOMAIN vans
          /\ \A j \in DOMAIN vans : vans'[j] = vans[j]
      BY <1>1, <2>1, CommitMakes DEF HasOpened, WritesOnly
    <2>3. vans'[opened].received = 0
      <3>1. vans'[opened] = tx[r].vans[opened]
        BY <1>1, <2>1, CommitMakes DEF HasOpened, WritesOnly
      <3>2. tx[r].vans[opened]
              = [expected |-> cmd[r].expected, received |-> 0, status |-> "active"]
        BY <1>1, <2>1 DEF HasOpened
      <3> QED BY <3>1, <3>2
    <2> QED BY <2>2, <2>3 DEF Balance
  <1>7. \A i \in Invoices : AddsUp(i)'
    BY <1>5, <1>6 DEF AddsUp, SumInv
  <1> QED BY <1>4, <1>7 DEF SumInv

LEMMA PaymentAddsUp ==
  ASSUME Inv, LedgerInv, AccountInv, SumInv, NEW r \in Requests, Commit(r),
         pc[r] \in {"pay.commit", "pay.commitSettled"}
  PROVE  SumInv'
  <1>1. cmd[r].invoice \in Invoices /\ cmd[r].amount \in Nat
    <2>1. pc[r] \in Steps("pay")
      BY DEF Steps
    <2> QED BY <2>1, StepOfOp, CommandFields, VanAssumption DEF Inv, SessionInv, Ops
  <1>2. PICK paid \in Invoices : paid = cmd[r].invoice
    BY <1>1
  <1>3. PICK amount \in Nat : amount = cmd[r].amount
    BY <1>1
  <1>4. HasReceived(tx[r], cmd[r]) /\ paid \in DOMAIN vans
    BY <1>2 DEF AccountInv, Chapter, Paying, Inv, SessionInv, WithVanFound, Steps
  <1>5. PICK e : tx[r].ledger = {e} /\ IsCreditOf(e, cmd[r])
    BY DEF LedgerInv, Progress, BookedInTx
  <1>6. ledger' = ledger \cup {e}
    BY <1>5, CommitMakes
  <1>7. e.van = paid /\ e.type = "credit" /\ e.amount = amount /\ e \notin ledger
    BY <1>2, <1>3, <1>5 DEF IsCreditOf, LedgerInv, KeysOnce
  <1>8. IsFiniteSet(ledger')
    BY <1>6, FS_AddElement DEF SumInv
  <1>9. AddsUp(paid)'
    <2>1. Credits(paid)' = Credits(paid) \cup {e} /\ e \notin Credits(paid)
      BY <1>6, <1>7 DEF Credits
    <2>2. SumOf(Credits(paid)') = SumOf(Credits(paid)) + amount
      <3>1. PICK credits : credits = Credits(paid)
        OBVIOUS
      <3>2. IsFiniteSet(credits) /\ \A x \in credits : x.amount \in Nat
        BY <3>1, CreditsAreFinite DEF SumInv
      <3> QED BY <1>7, <2>1, <3>1, <3>2, SumOfOneMore
    <2>3. Balance(paid)' = Balance(paid) + amount
      BY <1>2, <1>3, <1>4, CommitMakes DEF Balance, HasReceived, WritesOnly
    <2>4. SumOf(Credits(paid)) = Balance(paid)
      BY DEF SumInv, AddsUp
    <2> QED BY <2>2, <2>3, <2>4 DEF AddsUp
  <1>10. ASSUME NEW i \in Invoices \ {paid} PROVE AddsUp(i)'
    <2>1. Credits(i)' = Credits(i)
      BY <1>6, <1>7 DEF Credits
    <2>2. Balance(i)' = Balance(i)
      BY <1>2, <1>4, CommitMakes DEF Balance, HasReceived, WritesOnly
    <2> QED BY <2>1, <2>2 DEF AddsUp, SumInv
  <1> QED BY <1>8, <1>9, <1>10 DEF SumInv

LEMMA NextAddsUp ==
  Inv /\ LedgerInv /\ AccountInv /\ SumInv /\ [Next]_vars => SumInv'
  <1> SUFFICES ASSUME Inv, LedgerInv, AccountInv, SumInv, [Next]_vars PROVE SumInv'
    OBVIOUS
  <1>1. MoneyMoves
    BY NextAccounts DEF AccountStep
  <1>2. CASE vans' = vans /\ ledger' = ledger
    <2>1. \A i \in Invoices : Credits(i)' = Credits(i) /\ Balance(i)' = Balance(i)
      BY <1>2 DEF Credits, Balance
    <2> QED BY <1>2, <2>1 DEF SumInv, AddsUp
  <1>3. CASE \E r \in Requests :
               Commit(r) /\ pc[r] \in {"van.commit", "pay.commit", "pay.commitSettled"}
    BY <1>3, OpeningAddsUp, PaymentAddsUp
  <1> QED BY <1>1, <1>2, <1>3 DEF MoneyMoves

LEMMA InitAddsUp == Init => SumInv
  <1> SUFFICES ASSUME Init PROVE SumInv
    OBVIOUS
  <1>1. vans = NoRows /\ ledger = {} /\ DOMAIN NoRows = {}
    BY DEF Init, ServerInit, DatabaseInit, NoRows
  <1>2. \A i \in Invoices : Credits(i) = {} /\ Balance(i) = 0
    BY <1>1 DEF Credits, Balance
  <1> QED BY <1>1, <1>2, SumOfNone, FS_EmptySet DEF SumInv, AddsUp

\* No increment of recordPayment is lost and none is counted twice, whatever
\* number of transfers, of whatever amounts, race for one account.
THEOREM ReceivedAddsUp == Spec => []ReceivedIsSumOfCredits
  <1>1. SumInv => ReceivedIsSumOfCredits
    BY DEF SumInv, AddsUp, Balance, SumOf, ReceivedIsSumOfCredits
  <1>2. SumInv /\ Inv /\ LedgerInv /\ AccountInv /\ [Next]_vars => SumInv'
    BY NextAddsUp
  <1> QED BY <1>1, <1>2, InitAddsUp, Invariance, LedgerInvariance, AccountInvariance, PTL
          DEF Spec

-----------------------------------------------------------------------------
(***************************************************************************)
(* The locks.  A step that waits for a lock has a rank, and whoever holds  *)
(* what it waits for is at a step of a higher rank: a circle of requests   *)
(* that wait for each other would have a rank above the highest.  The      *)
(* invariant is that locks are held only at the steps that say so, by      *)
(* requests that are running; Progress and Chapter say it of keys and      *)
(* accounts, Finishing of invoices.                                        *)
(***************************************************************************)

Finishing == {"submit.commit", "approve.commit", "finance.commit", "assess.commit",
              "pay.commitSettled"}

HoldsNoInvoice(t) == DOMAIN t.invoices = {}

LockInv == \A r \in Requests : pc[r] \notin Finishing => HoldsNoInvoice(tx[r])

\* A step of r after which it holds an invoice only if it is about to commit.
LetsGo(r) ==
  /\ \A s \in Requests \ {r} : pc'[s] = pc[s] /\ tx'[s] = tx[s]
  /\ \/ pc'[r] \in Finishing
     \/ HoldsNoInvoice(tx'[r])
     \/ pc[r] \notin Finishing /\ tx'[r].invoices = tx[r].invoices

LEMMA LetsGoKeeps ==
  ASSUME LockInv, NEW r \in Requests, LetsGo(r)
  PROVE  LockInv'
  <1>1. ASSUME NEW s \in Requests, pc'[s] \notin Finishing PROVE HoldsNoInvoice(tx'[s])
    <2>1. CASE s = r
      BY <1>1, <2>1 DEF LockInv, LetsGo, HoldsNoInvoice
    <2>2. CASE s # r
      BY <1>1, <2>2 DEF LockInv, LetsGo
    <2> QED BY <2>1, <2>2
  <1>2. \A s \in Requests : pc'[s] \notin Finishing => HoldsNoInvoice(tx'[s])
    BY <1>1
  <1> QED BY <1>2 DEF LockInv, HoldsNoInvoice

LEMMA EmptyHolds == HoldsNoInvoice(NoTx)
  BY DEF HoldsNoInvoice, NoTx, NoRows

\* What is written about an account or an entry locks no invoice.
LEMMA AccountsLockNoInvoice ==
  ASSUME NEW t, IsTransaction(t), NEW i, NEW row, NEW entry, NEW type
  PROVE  /\ WithVan(t, i, row).invoices = t.invoices
         /\ WithEntry(t, entry).invoices = t.invoices
         /\ WithEvent(WithEntry(WithVan(t, i, row), entry), i, type).invoices = t.invoices
  <1>1. DOMAIN t = {"begun", "invoices", "vans", "ledger", "events"}
    BY DEF IsTransaction
  <1>2. PICK u : u = WithVan(t, i, row)
    OBVIOUS
  <1>3. DOMAIN u = DOMAIN t /\ u.invoices = t.invoices
    BY <1>1, <1>2 DEF WithVan
  <1>4. PICK v : v = WithEntry(u, entry)
    OBVIOUS
  <1>5. DOMAIN v = DOMAIN u /\ v.invoices = u.invoices
    BY <1>1, <1>3, <1>4 DEF WithEntry
  <1>6. WithEvent(v, i, type).invoices = v.invoices
    BY <1>1, <1>3, <1>5 DEF WithEvent
  <1>7. WithEntry(t, entry).invoices = t.invoices
    BY <1>1 DEF WithEntry
  <1> QED BY <1>2, <1>3, <1>4, <1>5, <1>6, <1>7

\* A step that leaves the transaction of r as it is, opens or ends it.
LEMMA ReadsLetGo ==
  ASSUME Inv, NEW r \in Requests, NEW to, Reads(r, to), pc[r] \notin Finishing
  PROVE  LetsGo(r)
  BY ReadsAlone DEF LetsGo, Alone

LEMMA OpensLetGo ==
  ASSUME Inv, NEW r \in Requests, NEW from, NEW to, Opens(r, from, to)
  PROVE  LetsGo(r)
  BY OpensAlone DEF LetsGo, Alone, HoldsNoInvoice, NoRows

LEMMA CommitsLetGo ==
  ASSUME Inv, NEW r \in Requests, NEW from, NEW to, Commits(r, from, to)
  PROVE  LetsGo(r)
  BY CommitsAlone, EmptyHolds DEF LetsGo, Alone

LEMMA WritesLetGo ==
  ASSUME Inv, NEW r \in Requests, NEW t, NEW to, Write(r, t), Moves(r, to)
  PROVE  /\ to \in Finishing => LetsGo(r)
         /\ DOMAIN t.invoices = {} => LetsGo(r)
         /\ pc[r] \notin Finishing /\ t.invoices = tx[r].invoices => LetsGo(r)
  <1>1. pc'[r] = to /\ \A s \in Requests \ {r} : pc'[s] = pc[s]
    BY MovesAlone
  <1>2. tx'[r] = t /\ \A s \in Requests \ {r} : tx'[s] = tx[s]
    BY WriteAlone
  <1> QED BY <1>1, <1>2 DEF LetsGo, HoldsNoInvoice

LEMMA RollbackLetsGo ==
  ASSUME Inv, NEW r \in Requests, NEW to, Rollback(r), Moves(r, to)
  PROVE  LetsGo(r)
  <1>1. Write(r, NoTx) /\ DOMAIN NoTx.invoices = {}
    BY EmptyHolds DEF Rollback, HoldsNoInvoice
  <1> QED BY <1>1, WritesLetGo

LEMMA InvoiceStepLetsGo ==
  ASSUME Inv, NEW r \in Requests, InvoiceStep(r)
  PROVE  LetsGo(r)
  <1>1. CASE SubmitFind(r) \/ ApproveFind(r) \/ FinanceFind(r)
    BY <1>1, ReadsLetGo DEF SubmitFind, ApproveFind, FinanceFind, Finishing
  <1>2. CASE SubmitBegin(r) \/ ApproveBegin(r) \/ FinanceBegin(r)
    BY <1>2, OpensLetGo DEF SubmitBegin, ApproveBegin, FinanceBegin
  <1>3. CASE SubmitCommit(r) \/ ApproveCommit(r) \/ FinanceCommit(r)
    BY <1>3, CommitsLetGo DEF SubmitCommit, ApproveCommit, FinanceCommit
  <1>4. CASE SubmitUpdate(r) \/ ApproveUpdate(r) \/ FinanceUpdate(r)
    <2>1. \E t, to : Write(r, t) /\ Moves(r, to) /\ to \in Finishing
      BY <1>4 DEF SubmitUpdate, ApproveUpdate, FinanceUpdate, Finishing
    <2> QED BY <2>1, WritesLetGo
  <1>5. CASE SubmitSave(r)
    <2>1. CASE Rollback(r)
      BY <1>5, <2>1, RollbackLetsGo DEF SubmitSave
    <2>2. CASE ~ Rollback(r)
      <3>1. tx' = tx /\ pc[r] = "submit.save" /\ \E to : Moves(r, to)
        BY <1>5, <2>2 DEF SubmitSave
      <3> QED BY <3>1, MovesAlone DEF LetsGo, Finishing
    <2> QED BY <2>1, <2>2
  <1>6. CASE ApproveNotify(r)
    BY <1>6 DEF ApproveNotify, Goto, db, LetsGo, Finishing, Inv, SessionInv, SessionOK
  <1> QED BY <1>1, <1>2, <1>3, <1>4, <1>5, <1>6 DEF InvoiceStep

LEMMA VanStepLetsGo ==
  ASSUME Inv, NEW r \in Requests, VanStep(r)
  PROVE  LetsGo(r)
  <1>0. IsTransaction(tx[r])
    BY DEF Inv, DatabaseInv, Sound
  <1>1. CASE VanFind(r) \/ VanExisting(r) \/ PayLayer1(r) \/ PayEntries(r)
    BY <1>1, ReadsLetGo DEF VanFind, VanExisting, PayLayer1, PayEntries, Finishing
  <1>2. CASE VanBegin(r) \/ PayBegin(r)
    BY <1>2, OpensLetGo DEF VanBegin, PayBegin
  <1>3. CASE VanCommit(r) \/ PayCommit(r) \/ PayCommitSettled(r)
    BY <1>3, CommitsLetGo DEF VanCommit, PayCommit, PayCommitSettled
  <1>4. CASE VanInsert(r) \/ PayInsert(r)
    <2>1. CASE Rollback(r)
      BY <1>4, <2>1, RollbackLetsGo DEF VanInsert, PayInsert
    <2>2. CASE ~ Rollback(r)
      <3>1. /\ pc[r] \notin Finishing
            /\ \E t, to : /\ Write(r, t) /\ Moves(r, to)
                          /\ t.invoices = tx[r].invoices
        BY <1>0, <1>4, <2>2, AccountsLockNoInvoice DEF VanInsert, PayInsert, Finishing
      <3> QED BY <3>1, WritesLetGo
    <2> QED BY <2>1, <2>2
  <1>5. CASE PayReceive(r)
    <2>1. /\ pc[r] \notin Finishing
          /\ \E row, to : Write(r, WithVan(tx[r], cmd[r].invoice, row)) /\ Moves(r, to)
      BY <1>5 DEF PayReceive, Finishing
    <2>2. \A row : WithVan(tx[r], cmd[r].invoice, row).invoices = tx[r].invoices
      BY <1>0, AccountsLockNoInvoice
    <2> QED BY <2>1, <2>2, WritesLetGo
  <1>6. CASE PaySettle(r)
    <2>1. \E t : Write(r, t) /\ Moves(r, "pay.commitSettled")
      BY <1>6 DEF PaySettle
    <2> QED BY <2>1, WritesLetGo DEF Finishing
  <1>7. CASE PayFind(r)
    BY <1>7 DEF PayFind, Goto, db, LetsGo, Finishing, Inv, SessionInv, SessionOK
  <1>8. CASE PayEnqueue(r)
    BY <1>8 DEF PayEnqueue, Goto, db, LetsGo, Finishing, Inv, SessionInv, SessionOK
  <1> QED BY <1>1, <1>2, <1>3, <1>4, <1>5, <1>6, <1>7, <1>8 DEF VanStep

LEMMA RiskStepLetsGo ==
  ASSUME Inv, NEW r \in Requests, RiskStep(r)
  PROVE  LetsGo(r)
  <1>1. CASE AssessFind(r)
    BY <1>1, ReadsLetGo DEF AssessFind, Finishing
  <1>2. CASE AssessBegin(r)
    BY <1>2, OpensLetGo DEF AssessBegin
  <1>3. CASE AssessRecord(r)
    <2>1. \E t : Write(r, t) /\ Moves(r, "assess.commit")
      BY <1>3 DEF AssessRecord
    <2> QED BY <2>1, WritesLetGo DEF Finishing
  <1>4. CASE AssessCommit(r)
    BY <1>4, CommitsLetGo DEF AssessCommit
  <1> QED BY <1>1, <1>2, <1>3, <1>4 DEF RiskStep

LEMMA SlotLetsGo ==
  ASSUME Inv, NEW r \in Requests,
         \/ InvoiceArrive(r) \/ VanArrive(r) \/ RiskArrive(r) \/ Fail(r) \/ Respond(r)
  PROVE  LetsGo(r)
  <1>1. ASSUME NEW c, NEW step, Arrive(r, c, step)
        PROVE  LetsGo(r)
    BY <1>1 DEF Arrive, Goto, db, LetsGo, Finishing, Inv, SessionInv, SessionOK
  <1>2. CASE InvoiceArrive(r) \/ VanArrive(r) \/ RiskArrive(r)
    BY <1>1, <1>2 DEF InvoiceArrive, VanArrive, RiskArrive
  <1>3. CASE Fail(r)
    BY <1>3, RollbackLetsGo DEF Fail
  <1>4. CASE Respond(r)
    BY <1>4 DEF Respond, Goto, db, LetsGo, Finishing, Answers, Inv, SessionInv, SessionOK
  <1> QED BY <1>2, <1>3, <1>4

LEMMA LockInvariance == Spec => []LockInv
  <1>1. Init => LockInv
    BY EmptyHolds DEF Init, ServerInit, DatabaseInit, LockInv
  <1>2. Inv /\ LockInv /\ [Next]_vars => LockInv'
    <2> SUFFICES ASSUME Inv, LockInv, [Next]_vars PROVE LockInv'
      OBVIOUS
    <2>1. ASSUME NEW r \in Requests, LetsGo(r) PROVE LockInv'
      BY <2>1, LetsGoKeeps
    <2>2. CASE Crash
      <3>1. \A r \in Requests : tx'[r] = NoTx
        BY <2>2 DEF Crash, RollbackAll
      <3> QED BY <3>1, EmptyHolds DEF LockInv, HoldsNoInvoice
    <2>3. CASE UNCHANGED vars
      BY <2>3 DEF vars, db, session, LockInv, HoldsNoInvoice
    <2> QED BY <2>1, <2>2, <2>3, InvoiceStepLetsGo, VanStepLetsGo, RiskStepLetsGo, SlotLetsGo
            DEF Next, ServiceStep
  <1> QED BY <1>1, <1>2, Invariance, PTL DEF Spec

\* How far along the order key, account, invoice a request is.
Rank(r) ==
  IF pc[r] \in {"pay.insert", "van.insert"} THEN 1
  ELSE IF pc[r] = "pay.receive" THEN 2
  ELSE IF UpdatesInvoice(r) THEN 3
  ELSE 4

LEMMA WaitsForHigher ==
  ASSUME Inv, LedgerInv, AccountInv, LockInv, NEW r \in Requests, NEW s \in Requests, Waits(r, s)
  PROVE  Running(s) /\ Rank(s) > Rank(r)
  <1>1. CASE UpdatesInvoice(r) /\ cmd[r].invoice \in DOMAIN tx[s].invoices
    <2>1. pc[s] \in Finishing
      BY <1>1 DEF LockInv, HoldsNoInvoice
    <2>2. Rank(s) = 4 /\ Running(s)
      BY <2>1 DEF Finishing, Rank, UpdatesInvoice, Running, Answers
    <2>3. Rank(r) = 3
      BY <1>1 DEF Rank, UpdatesInvoice
    <2> QED BY <2>2, <2>3
  <1>2. CASE pc[r] \in {"van.insert", "pay.receive"} /\ cmd[r].invoice \in DOMAIN tx[s].vans
    <2>1. pc[s] \in Holding
      BY <1>2 DEF AccountInv, Chapter
    <2>2. Rank(s) \in {3, 4} /\ Running(s)
      BY <2>1 DEF Holding, Paying, Rank, UpdatesInvoice, Running, Answers
    <2>3. Rank(r) \in {1, 2}
      BY <1>2 DEF Rank
    <2> QED BY <2>2, <2>3
  <1>3. CASE pc[r] \in {"van.insert", "pay.insert"} /\ tx[s].ledger # {}
    <2>1. pc[s] \in BookedInTx \cup {"van.commit"}
      BY <1>3 DEF LedgerInv, Progress
    <2>2. Rank(s) \in {2, 3, 4} /\ Running(s)
      BY <2>1 DEF BookedInTx, Rank, UpdatesInvoice, Running, Answers
    <2>3. Rank(r) = 1
      BY <1>3 DEF Rank
    <2> QED BY <2>2, <2>3
  <1> QED BY <1>1, <1>2, <1>3 DEF Waits

\* Whatever number of requests there are, PostgreSQL never finds them waiting for
\* each other, nor waiting for a handler that has answered: the locks the services
\* take are ordered, and each way out of a transaction lets them go.
THEOREM NobodyWaitsForever == Spec => []NoEndlessWait
  <1>1. Inv /\ LedgerInv /\ AccountInv /\ LockInv => NoEndlessWait
    <2> SUFFICES ASSUME Inv, LedgerInv, AccountInv, LockInv,
                        NEW R \in (SUBSET Requests) \ {{}}
                 PROVE  \E r \in R : \A s \in Requests :
                          Waits(r, s) => s \notin R /\ Running(s)
      BY DEF NoEndlessWait
    <2>1. \A r, s \in Requests : Waits(r, s) => Running(s) /\ Rank(s) > Rank(r)
      BY WaitsForHigher
    <2>2. \A r \in R : Rank(r) \in 1 .. 4
      BY DEF Rank
    <2>3. \E r \in R : \A s \in R : Rank(s) <= Rank(r)
      <3>1. PICK rank \in [R -> 1 .. 4] : \A r \in R : rank[r] = Rank(r)
        <4>1. [r \in R |-> Rank(r)] \in [R -> 1 .. 4]
          BY <2>2
        <4> QED BY <4>1
      <3>2. \E r \in R : \A s \in R : rank[s] <= rank[r]
        <4>1. CASE \E r \in R : rank[r] = 4
          BY <4>1
        <4>2. CASE (\A r \in R : rank[r] # 4) /\ \E r \in R : rank[r] = 3
          BY <4>2
        <4>3. CASE (\A r \in R : rank[r] \notin {3, 4}) /\ \E r \in R : rank[r] = 2
          BY <4>3
        <4>4. CASE \A r \in R : rank[r] = 1
          BY <4>4
        <4> QED BY <4>1, <4>2, <4>3, <4>4
      <3> QED BY <3>1, <3>2
    <2>4. PICK r \in R : \A s \in R : Rank(s) <= Rank(r)
      BY <2>3
    <2>5. ASSUME NEW s \in Requests, Waits(r, s) PROVE s \notin R /\ Running(s)
      <3>1. Running(s) /\ Rank(s) > Rank(r)
        BY <2>1, <2>5
      <3>2. s \in R => Rank(s) <= Rank(r) /\ Rank(s) \in 1 .. 4 /\ Rank(r) \in 1 .. 4
        BY <2>2, <2>4
      <3> QED BY <3>1, <3>2
    <2> QED BY <2>5
  <1> QED BY <1>1, Invariance, LedgerInvariance, AccountInvariance, LockInvariance, PTL

=============================================================================
