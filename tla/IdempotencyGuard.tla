---------------------------- MODULE IdempotencyGuard ----------------------------
(***************************************************************************)
(* services/middleware/idempotency.ts in front of POST /invoices, with the *)
(* queries of idempotency.repository.ts.  Rows of different keys never     *)
(* meet, so this is the row of one key, and the requests that carry it.    *)
(* Every query commits by itself.  The updates that record an outcome are  *)
(* not awaited: they are in flight while the response leaves.              *)
(*                                                                         *)
(* The handler behind the guard is SettlementEngine's submitInvoice, seen  *)
(* from outside: it succeeds at most once, because an invoice number is    *)
(* taken only once, and it may fail having taken it all the same.          *)
(***************************************************************************)
EXTENDS Naturals

CONSTANTS Requests,      \* requests that can be in flight at once
          MaxRequests,   \* bound: requests that arrive in one behaviour
          MaxPolls       \* PROCESSING_TIMEOUT_MS / POLL_INTERVAL_MS, in small

ASSUME GuardAssumption == MaxRequests \in Nat /\ MaxPolls \in Nat \ {0}

VARIABLES record,     \* the row of the key, or NoRecord
          outcomes,   \* how many updates to each status are in flight
          pc, polls,  \* of each request
          created,    \* the invoice number is taken
          issued,     \* requests that have arrived
          history     \* of the handler's runs: [begun, failed, succeeded], and lost:
                      \* the environment has swallowed an update or its caller

vars == <<record, outcomes, pc, polls, created, issued, history>>

NoRecord == [status |-> "none"]
Processing == [status |-> "PROCESSING", expired |-> FALSE]

Answers == {"ok", "replayed", "conflict", "error"}
Handlers == {"fresh", "retry"}     \* the handler runs, its res.json wrapped
Querying == {"insert", "select", "delete", "reinsert", "poll", "pollSelect"}

Goto(r, step) == pc' = [pc EXCEPT ![r] = step]

\* Mutant of Poll: one poll too many.
PollOnceMore(r) ==
  /\ pc[r] = "poll"
  /\ polls[r] <= MaxPolls
  /\ polls' = [polls EXCEPT ![r] = @ + 1]
  /\ record' = IF record = NoRecord THEN Processing ELSE record
  /\ Goto(r, IF record = NoRecord THEN "poll" ELSE "pollSelect")
  /\ UNCHANGED <<outcomes, created, issued, history>>

\* r's query leaves r at step and touches nothing but the record.
Asks(r, step) == Goto(r, step) /\ UNCHANGED <<outcomes, polls, created, issued, history>>

\* next() calls the handler.
Runs(r, kind) ==
  /\ Goto(r, kind)
  /\ history' = [history EXCEPT !.begun = @ + 1]
  /\ UNCHANGED <<outcomes, polls, created, issued>>

-----------------------------------------------------------------------------
Arrive(r) ==
  /\ pc[r] = "idle"
  /\ issued < MaxRequests
  /\ issued' = issued + 1
  /\ Goto(r, "insert")
  /\ UNCHANGED <<record, outcomes, polls, created, history>>

\* tryInsert, its INSERT: the UNIQUE constraint decides who is first.
Insert(r) ==
  /\ pc[r] = "insert"
  /\ \/ record = NoRecord /\ record' = Processing /\ Runs(r, "fresh")
     \/ record # NoRecord /\ UNCHANGED record /\ Asks(r, "select")

\* Mutant of Select: a key in PROCESSING may be run again.
SelectRunsProcessing(r) ==
  /\ pc[r] = "select"
  /\ UNCHANGED record
  /\ \/ record = NoRecord /\ Asks(r, "error")
     \/ record.status = "COMPLETED" /\ Asks(r, "replayed")
     \/ record.status \in {"FAILED", "PROCESSING"} /\ Asks(r, "delete")

\* tryInsert, its SELECT after a violation, and the branch on the status.
\* The row may be gone by now: record.status then throws.
Select(r) ==
  /\ pc[r] = "select"
  /\ UNCHANGED record
  /\ \/ record = NoRecord /\ Asks(r, "error")
     \/ record.status = "COMPLETED" /\ Asks(r, "replayed")
     \/ record.status = "FAILED" /\ Asks(r, "delete")
     \/ /\ record.status = "PROCESSING"
        /\ Goto(r, "poll")
        /\ polls' = [polls EXCEPT ![r] = 0]
        /\ UNCHANGED <<outcomes, created, issued, history>>

\* FAILED: deleteKey, whatever the row has become, then tryInsert, whose result
\* is not looked at, then the handler.
Delete(r) ==
  /\ pc[r] = "delete"
  /\ record' = NoRecord
  /\ Asks(r, "reinsert")

Reinsert(r) ==
  /\ pc[r] = "reinsert"
  /\ record' = IF record = NoRecord THEN Processing ELSE record
  /\ Runs(r, "retry")

\* PROCESSING: sleep, then tryInsert.  Its INSERT takes a key that is free.
Poll(r) ==
  /\ pc[r] = "poll"
  /\ polls[r] < MaxPolls
  /\ polls' = [polls EXCEPT ![r] = @ + 1]
  /\ record' = IF record = NoRecord THEN Processing ELSE record
  /\ Goto(r, IF record = NoRecord THEN "poll" ELSE "pollSelect")
  /\ UNCHANGED <<outcomes, created, issued, history>>

PollSelect(r) ==
  /\ pc[r] = "pollSelect"
  /\ UNCHANGED record
  /\ \/ record = NoRecord /\ Asks(r, "error")
     \/ record.status = "COMPLETED" /\ Asks(r, "replayed")
     \/ record.status = "FAILED" /\ Asks(r, "conflict")
     \/ record.status = "PROCESSING" /\ Asks(r, "poll")

\* Mutant of GiveUp: the loop has no deadline.
GiveUpNever(r) == FALSE /\ UNCHANGED vars

\* The deadline has passed: a poll can take any time.
GiveUp(r) ==
  /\ pc[r] = "poll"
  /\ polls[r] > 0
  /\ UNCHANGED record
  /\ Asks(r, "conflict")

-----------------------------------------------------------------------------
(* The handler, its response, and the update that records it *)

\* Mutant of Succeed: a retry does not cache its response.
SucceedUnrecorded(r) ==
  /\ pc[r] \in Handlers
  /\ ~ created
  /\ created' = TRUE
  /\ Goto(r, "ok")
  /\ history' = [history EXCEPT !.succeeded = TRUE]
  /\ UNCHANGED <<outcomes, record, polls, issued>>

\* 201: markCompleted is started, the response leaves.
Succeed(r) ==
  /\ pc[r] \in Handlers
  /\ ~ created
  /\ created' = TRUE
  /\ outcomes' = [outcomes EXCEPT !["COMPLETED"] = @ + 1]
  /\ Goto(r, "ok")
  /\ history' = [history EXCEPT !.succeeded = TRUE]
  /\ UNCHANGED <<record, polls, issued>>

\* Mutant of HandlerFails: every response is cached, whatever its status.
HandlerFailsCached(r) ==
  /\ pc[r] \in Handlers
  /\ created' \in {created, TRUE}
  /\ outcomes' = [outcomes EXCEPT !["COMPLETED"] = @ + 1]
  /\ Goto(r, "error")
  /\ history' = [history EXCEPT !.failed = TRUE]
  /\ UNCHANGED <<record, polls, issued>>

\* An error response: a fresh run starts markFailed, a retry nothing.
HandlerFails(r) ==
  /\ pc[r] \in Handlers
  /\ created' \in {created, TRUE}
  /\ outcomes' = [outcomes EXCEPT !["FAILED"] = IF pc[r] = "fresh" THEN @ + 1 ELSE @]
  /\ Goto(r, "error")
  /\ history' = [history EXCEPT !.failed = TRUE]
  /\ UNCHANGED <<record, polls, issued>>

\* An update in flight reaches the row, if there is one.
Record(status) ==
  /\ outcomes[status] > 0
  /\ outcomes' = [outcomes EXCEPT ![status] = @ - 1]
  /\ record' = IF record = NoRecord THEN record ELSE [record EXCEPT !.status = status]
  /\ UNCHANGED <<pc, polls, created, issued, history>>

Respond(r) ==
  /\ pc[r] \in Answers
  /\ Goto(r, "idle")
  /\ polls' = [polls EXCEPT ![r] = 0]
  /\ UNCHANGED <<record, outcomes, created, issued, history>>

-----------------------------------------------------------------------------
(* What goes wrong around the guard *)

\* A query of the guard rejects; an INSERT or DELETE may have happened all the same.
QueryFails(r) ==
  /\ pc[r] \in Querying
  /\ \/ UNCHANGED <<record, history>>
     \/ /\ pc[r] \in {"insert", "reinsert", "poll"}
        /\ record = NoRecord
        /\ record' = Processing
        /\ history' = [history EXCEPT !.lost = TRUE]
     \/ /\ pc[r] = "delete"
        /\ record' = NoRecord
        /\ UNCHANGED history
  /\ Goto(r, "error")
  /\ UNCHANGED <<outcomes, polls, created, issued>>

\* The update rejects, which is only logged.
UpdateFails(status) ==
  /\ outcomes[status] > 0
  /\ outcomes' = [outcomes EXCEPT ![status] = @ - 1]
  /\ history' = [history EXCEPT !.lost = TRUE]
  /\ UNCHANGED <<record, pc, polls, created, issued>>

\* The process dies; PostgreSQL keeps the row.
Crash ==
  /\ \E r \in Requests : pc[r] # "idle"
  /\ pc' = [r \in Requests |-> "idle"]
  /\ polls' = [r \in Requests |-> 0]
  /\ outcomes' = [status \in DOMAIN outcomes |-> 0]
  /\ history' = [history EXCEPT !.lost = TRUE]
  /\ UNCHANGED <<record, created, issued>>

\* expires_at passes.
Expire ==
  /\ record # NoRecord /\ ~ record.expired
  /\ record' = [record EXCEPT !.expired = TRUE]
  /\ UNCHANGED <<outcomes, pc, polls, created, issued, history>>

-----------------------------------------------------------------------------
Init ==
  /\ record = NoRecord
  /\ outcomes = [status \in {"COMPLETED", "FAILED"} |-> 0]
  /\ pc = [r \in Requests |-> "idle"]
  /\ polls = [r \in Requests |-> 0]
  /\ created = FALSE
  /\ issued = 0
  /\ history = [begun |-> 0, failed |-> FALSE, succeeded |-> FALSE, lost |-> FALSE]

\* A request's own next step.
Step(r) ==
  \/ Insert(r) \/ Select(r) \/ Delete(r) \/ Reinsert(r)
  \/ Poll(r) \/ PollSelect(r) \/ GiveUp(r)
  \/ Succeed(r) \/ HandlerFails(r)

Next ==
  \/ \E r \in Requests : Arrive(r) \/ Step(r) \/ Respond(r) \/ QueryFails(r)
  \/ \E status \in DOMAIN outcomes : Record(status) \/ UpdateFails(status)
  \/ Crash
  \/ Expire

Spec == Init /\ [][Next]_vars

\* The event loop runs whatever can run, and submitInvoice ends.
Fairness == \A r \in Requests : WF_vars(Step(r)) /\ WF_vars(Respond(r))

FairSpec == Spec /\ Fairness

-----------------------------------------------------------------------------
(* What the guard does ensure *)

\* The type invariant: the row is in one of its three states, every request at
\* one of its steps, and nobody polls past the deadline.
TypeOK ==
  /\ record \in {NoRecord} \cup
       [status: {"PROCESSING", "COMPLETED", "FAILED"}, expired: BOOLEAN]
  /\ outcomes \in [{"COMPLETED", "FAILED"} -> Nat]
  /\ pc \in [Requests -> {"idle"} \cup Querying \cup Handlers \cup Answers]
  /\ polls \in [Requests -> 0 .. MaxPolls]
  /\ created \in BOOLEAN
  /\ issued \in 0 .. MaxRequests
  /\ history \in [begun: Nat, failed: BOOLEAN, succeeded: BOOLEAN, lost: BOOLEAN]

\* However many requests carry the key, and however they race, the handler runs
\* once, unless it has answered one of them with an error; losing updates,
\* answers or the process does not make it run again.
RunsOnceUnlessFailed == history.begun > 1 => history.failed

\* A cached answer is the answer of a run that succeeded.
ReplayIsTrue ==
  (\E r \in Requests : pc[r] = "replayed") \/ record.status = "COMPLETED"
    => history.succeeded

Quiet == /\ \A r \in Requests : pc[r] \in {"idle"} \cup Answers
         /\ \A status \in DOMAIN outcomes : outcomes[status] = 0

\* Once everything in flight has landed, a success is remembered, so that every
\* later request replays it; unless a run failed or an update was lost.
SuccessIsRemembered ==
  Quiet /\ history.succeeded /\ ~ history.failed /\ ~ history.lost
    => record.status = "COMPLETED"

\* No request waits for ever for another one that died or forgot its key.
EveryRequestAnswered == \A r \in Requests : pc[r] # "idle" ~> pc[r] \in Answers \cup {"idle"}

-----------------------------------------------------------------------------
(* What comments and documents say of it, and it does not ensure *)

\* ADR-0006-resilience.md:45, "`PROCESSING` state with polling prevents duplicate
\* concurrent processing": two requests with one key are never in the handler.
NoConcurrentRuns ==
  \A r, s \in Requests : pc[r] \in Handlers /\ pc[s] \in Handlers => r = s

=============================================================================
