# Verification of the settlement engine

TLA+ models of the invoice settlement engine, the TLC configurations that
check them on small instances, and TLAPS proofs about them for any instance.

## 1. The system

The engine turns a supplier's invoice into money: the supplier submits it, the
buyer approves it, the supplier asks for financing, the risk engine assesses
it, a virtual account (VAN) is opened against it and money advanced, and the
bank's webhook reports the buyer's transfers until the account is settled. An
Express process serves these requests over one PostgreSQL database and two
Redis queues; a worker process consumes the queues.

| component | state it keeps | operations | what makes it correct |
|---|---|---|---|
| Invoice state machine | none, a constant table | `assertValidTransition`, `isTerminalStatus` | a status moves only along the table; terminal statuses are final |
| Invoice service | rows of `invoices`, `invoice_events` | `submitInvoice`, `approveInvoice`, `requestFinancing` | status column and event log agree; no financing without approval and signature |
| VAN service | `virtual_accounts`, `ledger_entries` | `createVan`, `recordPayment` | each transfer booked exactly once; received is the sum of the credits; settled exactly when covered; one advance per invoice |
| Risk service and engine | none of its own, writes events and CANCELLED | `assessAndRecord` | a rejection and its status come together; thresholds as documented |
| Repositories, schema | the tables, their unique keys | one statement each | the database never holds half an operation |
| HTTP handlers | requests in flight | one handler per route | every request ends, with an answer that is true |
| HTTP idempotency guard | `idempotency_keys` | wrapper around `POST /invoices` | a key runs its handler once; a retry gets the first answer |
| Connection pool | `DB_POOL_MAX` clients | `connect`, `query`, `release` | every client comes back; waiters get one in the end |
| Queues, worker, admin | BullMQ jobs in Redis, receipt files | `add`, process, retry, discard | a job is done at least once; an e-mail is not repeated without cause; a receipt that is named is complete |
| Registration and login | `organisations`, `organisation_credentials` | `register`, `login` | an address has one owner, for good; an organisation and its credential come together |
| Webhook signature, JWT, rate limits, e-mail, PDF, telemetry | none a property speaks of | | |

**How they interact.** The services share nothing but the database. A handler
reads on the pool without a lock, decides, opens a transaction on a client of
its own, writes, commits, and after the commit adds a job to a queue. Node
interleaves handlers at every `await`; PostgreSQL makes writers of one row, and
inserters of one unique key, wait for each other.

**What is hard about it.** Decisions rest on unlocked reads that may be stale
when the write happens; only `received = received + x` and the unique keys are
atomic. The bank delivers a notice any number of times, concurrently. Every
await can throw; the process can die between any two; the acknowledgement of a
COMMIT can be lost. Work after the commit is outside every transaction. Locks
are taken in different orders by different operations. Handlers hold a client of
the pool while they wait for a second one, or for Redis. A worker that has lost
its job goes on running it. `hazards` in
`PROJECT.json` lists each of these at its line, with the properties that would
catch it.

## 2. The modules

| module | models | of the source |
|---|---|---|
| `InvoiceStateMachine` | the transition table | `core/services/invoice/state-machine.ts` |
| `Database` | tables, transactions, row locks, unique keys, BEGIN, COMMIT, ROLLBACK | `V001__initial_schema.sql`, `core/repositories/` |
| `ApiServer` | what every handler shares: arrival, steps, catch block, answer, death of the process | `services/routes/`, `error-handler.ts`, the shape common to the services |
| `InvoiceService` | `submitInvoice`, `approveInvoice`, `requestFinancing` | `core/services/invoice.service.ts` |
| `VanService` | `createVan`, `recordPayment` | `core/services/van.service.ts` |
| `RiskService` | `assessAndRecord` | `core/services/risk/risk.service.ts` |
| `RiskEngine` | the three layers and the decision, as operators | `core/services/risk/*.engine.ts`, `risk.types.ts` |
| `RiskReview` | the engine as its callers meet it: one command after another | `services/routes/risk/` |
| `SettlementEngine` | the composition: `Next`, fairness, and all the properties | `services/app.ts` |
| `PaymentBook` | the abstract promise about money | what `van.service.ts` amounts to |
| `DocumentedClaims` | sentences of the docs and comments the code contradicts | quoted at each property |
| `IdempotencyGuard` | one key of the HTTP idempotency guard and the requests that carry it | `services/middleware/idempotency.ts`, `idempotency.repository.ts`, `V003__idempotency_keys.sql` |
| `ConnectionPool` | who holds a client and who waits for one, over the demands of each handler | `core/database/pool.ts`, `redis-connection.ts`, the `pool` and `client` calls of the services |
| `JobQueue` | one BullMQ queue, its workers, handlers and administrators | `infra/queue/`, `infra/pdf/`, `infra/email/mailer.ts`, `admin.router.ts` |
| `AuthService` | `register` and `login` over their two tables | `core/services/auth.service.ts`, `auth.repository.ts`, `organisation.repository.ts`, `V002__auth_schema.sql` |
| `MCSettlementEngine`, `MCFinanced`, `MCIdempotencyGuard`, `MCRiskReview`, `MCConnectionPool`, `MCJobQueue`, `MCAuthService` | instances for TLC | |
| `EngineProofs`, `LedgerProofs`, `AccountProofs`, `GuardProofs`, `RiskProofs`, `PoolProofs`, `AuthProofs`, `JobProofs` | theorems and their proofs | |

**State.** `invoices`, `events`, `vans` and `ledger` are the committed rows of
the four tables. `tx[r]` is the open transaction of request `r`: the row
versions it has written. A row in `tx[s]` is locked by `s`, so a lock is never a
variable of its own and cannot disagree with the data. `clock` numbers the
BEGINs, because `occurred_at DEFAULT now()` is the start of the transaction.
`pc[r]`, `cmd[r]`, `seen[r]` are the local state of a handler: its next step,
its validated body, and the account status `recordPayment` read before its
transaction and tests after another await. `jobs` are the ids of the BullMQ jobs
added; an id added twice is one job, as in BullMQ.

**Actions.** One action per awaited step that another request can observe or
block: an unlocked read, BEGIN, the writes, COMMIT, a queue add. Several
statements that run under locks already held are one action. An action that
writes a row waits until no other transaction has it; an action that inserts a
unique key waits while another transaction has inserted it and not finished,
and then takes the branch of the error code 23505 or goes on. `save` in
`submitInvoice` is called without the client, so `SubmitSave` writes the table
and not the transaction. `Fail(r)` is any await that throws, at any step, after
the commit too; `Commits` may commit and still throw; `Crash` ends every
request and rolls every transaction back. Input validation that reads nothing
mutable is the field `valid` of a command.

**The guard** stands in front of `POST /invoices` and shares no table with the
services, so it is a module of its own. `record` is the row of one key; rows of
different keys never meet. `pc[r]` is the query a request waits for or the
handler it runs, `polls[r]` how often it has polled, and `outcomes` counts the
`markCompleted` and `markFailed` calls in flight, which nobody awaits. Each query
of `tryInsert` commits by itself and is an action of its own. The handler is
seen from outside: it answers 201 at most once, because an invoice number is
taken only once, or with an error, having taken it or not. `QueryFails`,
`UpdateFails`, `Crash` and `Expire` are the environment. `history` is there for
the properties only: no guard reads it.

**The risk engine** is a function, so `RiskEngine` has operators and no state;
`RiskService` computes the decision of a request with it, from the commands in
`Assessments`. `RiskReview` makes a state machine of one caller: each step
restates one signal of the last command, which is what lets an action property
compare two assessments. Percentages are compared without dividing. For the
integers the schema admits, the ratio the code computes in floating point is on
the same side of 2, 150 or 300, unless amounts are near 2^53.

**The pool.** `Plan` is the table of what each handler asks of the pool: queries
it waits for before it takes a client, and what it does outside that client while
it holds it. `waiting` is pg-pool's queue and `using` the queries that have a
client; both hold calls `<<request, kind>>`, because a query keeps its client
whatever becomes of its handler and a request can have several. `holding` are the
requests with a client from `pool.connect`. Three queries are not awaited one
after the other: `getInvoiceHistory` starts two with `Promise.all` and answers
when one of them fails while the other runs on (kinds `invoice` and `events`);
the guard stores an answer, and a login its time, with an update that nobody
waits for (kind `update`; `Records` and `LogsIn` say when). `keyed` is a
submission behind the guard with a key not seen before. A replay reads twice, as
`details` does, a poll repeats its second query, and a retry of a failed key
queries more often before the handler starts, so they are no entries of their
own. Everything a handler does on its own client asks nothing of the pool and is
no step here. Row locks cannot combine with these waits: a handler that waits for
a second client has written nothing yet (`submitInvoice`) or has committed.

**The jobs.** A worker runs one job at a time: `run[w]` is the handler it is in,
step by step at its awaits, and it keeps running after it has lost the lock of
the job, as a process does that nobody tells. `job[j]` is the job in Redis. BullMQ
is external and modelled from the options the code gives it and from its
documented behaviour: a job id is unique while the job exists, an expired lock
puts a job back once, `remove` refuses a locked job only. The two queues share
nothing but the table of handlers, so a behaviour is about one of them, which
`Init` chooses. An administrator's request may name any job, failed or not, at any
time (`Administer`).

**Registration.** Every query of `register` and `login` commits by itself and is
an action; `bcrypt` is the time between two of them. `history` holds the tokens
given out and whether anything failed or raced; no guard reads it.

**Abstracted.** Amounts are small naturals (BIGINT cents in the schema: no
overflow is in reach of a sum the API can accept). Ids are the business keys
that make rows unique: an invoice is its number, an account its invoice, an
entry its key. Dates, currencies, parties, e-mail addresses and texts are left
out.

## 3. Properties and runs

| run | specification | properties | what it shows |
|---|---|---|---|
| `lifecycle` | `Spec`, from an empty database | `TypeOK`, `StatusIsProjection`, `JobsFollowCommits`, `FinancingHasCollateral` | the status column is always what the log says; a job is never enqueued for something rolled back; a financing request is preceded by an approval and the row is signed |
| `payments` | `PaymentSpec`, from a financed invoice | `ReceivedIsSumOfCredits`, `SettledIffCovered`, `BookedOnce`, `OneAdvance`, `AcknowledgedIsBooked`, `KeepsPaymentBook` | money is booked exactly once and in whole, accounts settle when covered, a 200 to the bank is true; seen through its tables the engine implements `PaymentBook`, under the mapping `Accounts`, `Booked` |
| `answers` | `FinancedFairSpec` | `NoEndlessWait`, `EveryRequestAnswered` | locks form no circle and are always let go, so no request waits for ever |
| `guard` | `FairSpec` of `IdempotencyGuard` | `TypeOK`, `RunsOnceUnlessFailed`, `ReplayIsTrue`, `SuccessIsRemembered`, `EveryRequestAnswered` | as long as no run fails a key runs its handler once, whatever races, is lost or dies; what is replayed is the answer of a success; a success whose update landed stays in the row; polling ends, even behind a request that died |
| `risk` | `Spec` of `RiskReview` | `TypeOK`, `RejectTakesTwoSignals`, `ApprovalIsSound`, `MoreRiskIsNoSafer` | the weights and gates fit together: no single signal rejects a matching invoice, no approval passes over a critical flag, more risk is never better for the applicant |
| `pool` | `FairSpec` of `ConnectionPool` | `TypeOK`, `NoClientLeaks`, `StuckOnlyByNesting`, `EveryRequestEnds` | no way out of a handler loses the client it took, and a query outlives its handler only where the code does not wait for it; the pool can run dry for good, and then only with `PoolMax` nesting requests at once; otherwise every request ends, through an outage of Redis too |
| `jobs` | `FairSpec` of `JobQueue` | `TypeOK`, `ReceiptExists`, `DoneOrDropped`, `SentOncePerFault`, `EveryJobEnds` | a job is done at least once unless someone drops it; every repeated e-mail is paid for by a fault or a new job; a receipt that is named is whole; a job always ends |
| `registration` | `Spec` of `AuthService` | `TypeOK`, `TokenIsOwners`, `OrphanNeedsRaceOrFailure` | whoever got a token owns the address for good; organisations without a credential need a race or a failure |
| `claim_*` | as in the cfg | one each | a behaviour of the code that contradicts the quoted sentence |

**Bounds.** One invoice: operations on two invoices touch disjoint rows and
differ only in keys, and a bank key names one transfer, so two invoices add
interleavings and no interaction. Two transfers of 1 against `Expected = {1, 2}`
give the cases short, exactly covered and over-covered. Two slots (`Requests`)
in the runs of the life cycle, three where payments race (two deliveries of one
notice and a third transfer): every conflict here is between two holders, and
the third gives a waiter behind a holder and a racer. `MaxRequests` bounds
arrivals: 6 covers the whole life (submit, approve, finance, createVan or
assess, two payments); 4 on a financed invoice cover createVan and three
payments. Behaviours end when the bound is used up, which is why the runs do not
check deadlock; `EveryRequestAnswered` covers the waits that matter. A slot is
reused after its answer, so slots bound concurrency and not history.
`MCFinanced` starts in a state that `Spec` reaches (submit, approve and finance
served one after the other). Requests are symmetric in the safety runs
(`KeepsPaymentBook` is a safety formula, and names no request); the two runs of
`EveryRequestAnswered` use no symmetry.

The guard runs with three requests at once and four arrivals, which give two
retries of a failed key racing behind it and a third request that polls or
replays.
`MaxPolls = 2` stands for 30 s of polls every 500 ms: `GiveUp` may come after any
poll, because a poll may take any time, so the number only bounds the loop.

`MCRiskReview` takes the values on both sides of every threshold, in every
combination. The pool has two clients and three requests, so that one request
waits behind two holders, or two histories and an update compete for two clients,
and one outage. Four of the eleven handlers are tried: `keyed`, `settling`,
`financing` and `history` bring every kind of call and of step, and the others ask
for what these ask for in other numbers (`MCConnectionPool` says which). The
proofs of the pool's safety cover all eleven.
Each queue has one job, so two workers can only meet over the same job; three
faults give a job two stalls and a lost answer before an administrator retries
it, and two calls of two administrators meet each other. Registration has one
address in two spellings and one tax number, so all requests collide; four
arrivals on two slots are two racing registrations, a later one and a login.

**Fairness.** `Fairness` is weak fairness of each request's own next step and of
its answer. The event loop runs every callback whose awaited call has settled,
and PostgreSQL queues the waiters of a lock. In the guard, `Step(r)` holds
the deadline too: a poll that is due is made or the request gives up. In the
pool, queries end, also after their handler has answered, `Serve` hands a free client to the first waiter (pg-pool is a
queue), and a broken Redis connection comes back or is given up, because
`retryStrategy` ends after ten attempts; a handler that waits for a client or for
Redis has no step of its own, so no fairness ends its wait. In the queue,
workers that are up take jobs and run their handler to a return or a throw,
delayed jobs are promoted, and the stalled check runs, because every BullMQ
worker runs it on a timer; a worker that died is restarted. Failures and crashes are never
required. Nothing forces a request to arrive.

## 4. What the code does and a document denies

Each run `claim_X` ends in a counterexample; `findings` quotes the sentence.

* `SubmitIsAtomic` - the INSERT of `submitInvoice` is outside its transaction: a
  failure leaves a DRAFT nobody can resubmit, for its number is taken.
* `TerminalIsFinal` - an invoice the risk engine cancels after its account was
  opened is moved to REPAID by a payment.
* `SettledTakesNoMoney` - the settled guard tests a stale read.
* `NoConcurrentRuns` - the result of the second `tryInsert` is ignored, so two
  retries of a failed key are in the handler together.

Seen while modelling, and not given a run of their own:

* `recordPayment` writes REPAID without the table (`van.service.ts:252`); no code
  path writes FUNDED, the only status the table lets REPAID follow
  (`state-machine.ts:5-6`).
* Events are read back in the order their transactions began
  (`event.repository.ts:56`), the status follows the commits: ADR-0002 calls the
  column a projection "never out of sync".
* The wrapper of a retried key has no `markFailed` (`idempotency.ts:162`), so a
  retry that fails leaves its key in PROCESSING.
* `createVan` takes `expected_amount_cents` as sent (`van.schemas.ts:5` says it
  must match the invoice) and needs no assessment before it books the advance
  (`README.md:76`).
* After the commit of `recordPayment` a failing Redis or read answers the bank
  with an error (`ADR-0003-idempotent-ledger.md:65`), whose retry is then a
  duplicate, so `AcknowledgedIsBooked` and `BookedOnce` still hold.
* No query reads the `expires_at` of a key (`idempotency.ts:30`).
* `register` is not "in one transaction" (`auth.service.ts:46-47`); see
  `OrphanNeedsRaceOrFailure`.
* The worker logs "Job failed - will retry" (`worker.ts:139`) for a job that has
  failed for good because it stalled a second time: `attemptsMade` is below the
  limit then.
* `discardFailedJob` removes a job that waits or is delayed again
  (`failed-jobs.repository.ts:85-86` speaks of failed ones).
* An e-mail can go out twice for one approval, though `invoice.service.ts:245-247`
  says that only one is sent: the job id is unique only while the job is kept,
  and a job is done at least once.
* The gate that rejects a buyer at 75 (`risk.engine.ts:47`) cannot be reached:
  the engine passes no outstanding amount, so a buyer scores at most 70.
  `RiskReview!TypeOK` says so, and `RiskProofs` proves it.
* The amount flag compares the deviation with 300 %, that is four times the
  average; ADR-0004 speaks of 300 % of the average.
* Every `Error`, a database error included, is answered with 400 and its message
  (`error-handler.ts:167`), above the comment "never leak internals".

## 5. Proofs

`EngineProofs` proves, for every value of the constants that satisfies
`VanAssumption` (payments are for known invoices, amounts are positive) and
`BoundAssumption` (`MaxRequests` is a natural number; nothing depends on which):

* `TypeCorrect == Spec => []TypeOK`
* `StatusProjection == Spec => []StatusIsProjection`

`StatusIsProjection` is not inductive: that a commit preserves it depends on
what the transaction holds, and that the transaction is right depends on how
its request got there. The inductive invariant `Inv` adds

* `Sound(tx[r])`: a transaction writes only rows of existing invoices; for each
  invoice it either writes a status and logs, last, the event that names it, or
  does neither; and it logs nothing for an invoice that has no row (`Tells`);
* an account's invoice has a row;
* a request that is past its read has the invoice (`WithInvoice`) or the account
  (`WithVanFound`) it found, since rows are never deleted.

The argument goes bottom up: operators on tables and logs (`OverIsTable`,
`ConcatTells`), what each statement does to a transaction (`WithStatusOK`, ...),
soundness of each combination the services build (`StatusThenEvent`,
`EventThenStatus`, `EventOnly`, `MoneySound`), what each database operation
preserves (`WriteKeeps`, `CommitKeeps`, `InsertKeeps`, ...), each kind of step
(`ReadsKeep`, `OpensKeep`, `CommitsKeep`, ...), each action of each service, and
`NextInv`.

`LedgerProofs` and `AccountProofs` prove the other properties of the
engine, from the same assumptions and `BankKeysAssumption` (a key
names one transfer, and no transfer has the key of an advance):

* `PaymentBookedOnce == Spec => []BookedOnce`
* `PaymentAcknowledgedIsBooked == Spec => []AcknowledgedIsBooked`
* `AdvancedOnce == Spec => []OneAdvance`
* `SettledExactlyWhenCovered == Spec => []SettledIffCovered`
* `ImplementsPaymentBook == Spec => KeepsPaymentBook`
* `ReceivedAddsUp == Spec => []ReceivedIsSumOfCredits`
* `CollateralHeld == Spec => []FinancingHasCollateral`
* `JobsTellOfCommits == Spec => []JobsFollowCommits`
* `NobodyWaitsForever == Spec => []NoEndlessWait`

None of them follows from the tables alone: a commit merges a transaction into
them, so each invariant says what an open transaction may hold while others
commit. They stand on `Inv` and on each other.

* `LedgerInv`. A key is in the ledger or in one open transaction, once
  (`KeysOnce`); every entry is the debit of an advance or the credit of a known
  transfer (`AllGenuine`); and a request has written, or has seen, the entry its
  step says it has (`Progress`). That `duplicate` is a true answer needs both
  others: the key it found can belong only to this very transfer.
* `AccountInv`. No two transactions hold one account (`VanLocks`); what a
  transaction has written is the next chapter of the committed row, expected
  unchanged and received larger by its own amount, and it is about to settle
  exactly when that covers (`Chapter`); and the tables tell a consistent
  `Story`. The chapter of a request survives the commits of the others only
  because of `VanLocks`: the row it was added to cannot have changed.
* `MoneyMoves`. A step leaves accounts and entries alone or is a commit of
  `createVan` or `recordPayment`. The first is a stutter of `PaymentBook`, the
  others are its `Open` and its `Book`; that the payment was not booked before is
  `KeysOnce`, that the account settles in the step that covers it is `Story'`.

* `SumInv`. The ledger is finite and each account adds up. The step is easy: by
  `MoneyMoves` and `KeysOnce` a payment adds one new entry to the credits and its
  amount to the row. The sum is the work, for `MapThenSumSet` adds the entries in
  an order `CHOOSE` picks: `SumRemoves` shows that any entry may be taken out
  first. What holds of every finite set is proved by refuting its smallest
  counterexample (`Smallest`, from the well-foundedness of strict inclusion),
  which needs no induction over an operator.
* `CollateralInv`. `requestFinancing` reads the status without a lock and acts on
  it later; what it can rely on is that an approval, once committed, stays in the
  log (`Evidence`). The row is signed because every version written after the
  approval copies the row as it is under its lock (`InvoiceLocks`, `Signs`), and
  the commit of an approval carries both (`Backed`). `ToldOnce` says that jobs tell
  of approvals.
* `ReceiptInv`. The receipt of a settlement is enqueued in a later step than its
  commit; it tells the truth because a settled account stays settled
  (`SettledStays`): a payment's version of the row never has less in it.
* `LockInv`. An invoice is held only by a request about to commit. With `Progress`
  for the keys and `Chapter` for the accounts, whoever holds what a request waits
  for has a higher `Rank` in the order key, account, invoice, commit
  (`WaitsForHigher`), so among any requests one waits for none of them.
  `NoEndlessWait` is the part of `EveryRequestAnswered` that can be proved here.

For money and locks the actions of the other services are treated once
(`OtherServices`): they write neither an account nor an entry, and log no event
that is about one.

`GuardProofs` proves all four safety properties of the guard, for any set of
requests and any `MaxRequests`, `MaxPolls` (`GuardAssumption`):

* `GuardTypeCorrect == Spec => []TypeOK`
* `RunsOnce == Spec => []RunsOnceUnlessFailed`
* `ReplayTrue == Spec => []ReplayIsTrue`
* `Remembered == Spec => []SuccessIsRemembered`

Its invariant says when the row and the updates in flight may be trusted.
`Earned`: a COMPLETED in the row, in flight or replayed belongs to a success.
`Begun`: a run that goes on or has succeeded has begun. `NothingFailed`, as long as
no run has failed: nobody is on the retry path and no `markFailed` is in flight,
so nothing deletes the row; at most one run has begun, none while there is no
row; and a success is in the row or on its way there, unless it was lost. The
retry path is what makes the hypothesis "no run failed" necessary:
`claim_NoConcurrentRuns` starts there.

`RiskProofs` proves the four properties of `RiskReview` for all signals the schema
admits (`ValuesAssumption`):

* `RiskTypeCorrect == Spec => []TypeOK`
* `RejectNeedsTwo == Spec => []RejectTakesTwoSignals`
* `ApprovalsSound == Spec => []ApprovalIsSound`
* `NoReliefInRisk == Spec => MoreRiskIsNoSafer`

The invariant is that the result is the assessment of the command. The work is in
lemmas about the operators: what each flag and score can be, that two raised
flags stand behind every anomaly score above 40, and that each layer is monotone
in amount, average and defaults.

`PoolProofs` proves the three safety properties of the pool, for any set of
requests, any mix of operations and any `PoolMax` (`PoolAssumption`):

* `PoolTypeCorrect == Spec => []TypeOK`
* `NoLeak == Spec => []NoClientLeaks`
* `DryOnlyByNesting == Spec => []StuckOnlyByNesting`

The invariant adds two parts about the calls that wait or have a client. `Orderly`:
each is there once, so a served call is not still queued. `Due`: its request is where
that call belongs; a call of kind `query` or `client` has a handler that waits for it,
and only the two of a history and an update may find their handler gone. So whoever
is served `client` is `connecting`, which is why `holding` follows the phase, and a
holder that waits for a query is in a nesting operation. `DryOnlyByNesting` is the
sizing rule for `DB_POOL_MAX`: with fewer concurrent submissions, approvals and
payments than clients, the pool never runs dry, whatever else is going on.

`AuthProofs` proves the three safety properties of registration and login, for any
addresses, tax numbers, passwords and requests, if writing an address in lower
case twice is doing it once (`AuthAssumption`):

* `AuthTypeCorrect == Spec => []TypeOK`
* `TokensAreOwners == Spec => []TokenIsOwners`
* `OrphansExplained == Spec => []OrphanNeedsRaceOrFailure`

Rows are only ever added, and no credential changes hands (`Grows`); so what a
request has read stays true while it awaits `bcrypt` or its next query, and
`Asks` says what that is. That a token is given to the owner rests on the UNIQUE
e-mail alone. `OrphansExplained` needs more: two registrations of one address in
flight have raced (`Overlaps`), so one that has looked its address up still finds
it free, but for a race or a failure (`StillFree`), and its credential goes in.

`JobProofs` proves the four safety properties of the queue, for any jobs, workers,
administrators and bounds (`JobAssumption`, and `MarksAssumption`: the marks for "no
worker" and "no run" are no worker and no job):

* `JobTypeCorrect == Spec => []TypeOK`
* `ReceiptsExist == Spec => []ReceiptExists`
* `JobsAreDone == Spec => []DoneOrDropped`
* `EmailsArePaidFor == Spec => []SentOncePerFault`

`TypeOK` bounds the attempts of a job by the calls of administrators, and is not
inductive: a call on its way may be a retry that has not revived its job yet.
`Tries` counts only calls that were answered, and holds one attempt back for a
job that is not finished. `Achieved` says what a run has done by its step, which
stays true after it has lost its lock. `Paid` is a potential: the e-mails sent,
one more if the job itself leads to another, and one for each stray, a worker
about to send for a job it no longer owns, are together never more than the jobs
created and the faults. A run that goes astray and a yes that is lost each cost a
fault, and sending moves one from what may be sent to what was.

What is not proved. Every safety property the passing runs check is a theorem
above. Left to TLC is liveness under fairness, out of the prover's reach:
`EveryRequestAnswered` of the engine and of the guard, `EveryRequestEnds` and
`EveryJobEnds`. The runs `claim_*` are counterexamples and need no proof.

## 6. Not modelled, and the plan

Not modelled because no property speaks of it: authentication, the webhook
signature and rate limits (filters that touch no table; a request they refuse
never arrives), the wording and layout of e-mails and receipts, telemetry,
logging, health, configuration. Not composed: the pool, the queue and
registration share no variable with the services but the ids of what they
serve, so each is a module of its own; the pool's `Plan` is where the services
and the pool meet.

Plan, in order: a promise of what one idempotency key guarantees, as an abstract
specification that `IdempotencyGuard` implements as long as no run fails; the
safety part of `EveryRequestAnswered` of the guard and of `EveryJobEnds`, as
`NoEndlessWait` is that of the engine; a property of what a crash between a commit
and `documentQueue.add` leaves behind, should the code come to promise one.
