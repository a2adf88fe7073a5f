------------------------------- MODULE ApiServer -------------------------------
(***************************************************************************)
(* What every HTTP handler of the API shares: a request arrives, runs one  *)
(* awaited step after another, interleaved with the other requests, and is *)
(* answered.  pc[r] names the step r is about to take.  A step that throws *)
(* ends in the service's catch block (ROLLBACK, rethrow) and an error      *)
(* answer.  The process may die at any moment.  Jobs are enqueued in       *)
(* Redis, which outlives the process; adding a job id that is already      *)
(* there does nothing.                                                     *)
(***************************************************************************)
EXTENDS Database

CONSTANT MaxRequests   \* bound: requests that arrive in one behaviour

VARIABLES pc,          \* the next step of each request
          cmd,         \* the validated body of each request
          seen,        \* a status read earlier and used later (recordPayment)
          jobs,        \* ids of the BullMQ jobs added
          issued       \* requests that have arrived

session == <<pc, cmd, seen, jobs, issued>>

vars == <<db, session>>

Answers == {"ok", "duplicate", "error"}

NoCmd == [op |-> "none"]
NotRead == "not read"

Running(r) == pc[r] \notin Answers \cup {"idle"}

Goto(r, step) == pc' = [pc EXCEPT ![r] = step]

\* A request step that changes nothing but where r is.
Moves(r, step) == Goto(r, step) /\ UNCHANGED <<cmd, seen, jobs, issued>>

\* A read on the pool, outside any transaction, that decides the next step.
Reads(r, step) == Moves(r, step) /\ UNCHANGED db

-----------------------------------------------------------------------------
Arrive(r, c, firstStep) ==
  /\ pc[r] = "idle"
  /\ issued < MaxRequests
  /\ issued' = issued + 1
  /\ cmd' = [cmd EXCEPT ![r] = c]
  /\ Goto(r, firstStep)
  /\ UNCHANGED <<db, seen, jobs>>

\* await pool.connect(), BEGIN
Opens(r, from, to) ==
  /\ pc[r] = from
  /\ Begin(r)
  /\ Moves(r, to)

\* COMMIT.  The acknowledgement may be lost with the connection: the commit
\* has happened, and the catch block answers with an error all the same.
Commits(r, from, to) ==
  /\ pc[r] = from
  /\ Commit(r)
  /\ \E step \in {to, "error"} : Moves(r, step)

\* Mutant of Fail: the catch block forgets the ROLLBACK.
FailWithoutRollback(r) ==
  /\ Running(r)
  /\ UNCHANGED db
  /\ Moves(r, "error")

\* An awaited call rejects: the catch block of the service rolls back (which
\* does nothing after a COMMIT) and rethrows to the error handler.
Fail(r) ==
  /\ Running(r)
  /\ Rollback(r)
  /\ Moves(r, "error")

\* The response leaves; the request slot is free again.
Respond(r) ==
  /\ pc[r] \in Answers
  /\ Goto(r, "idle")
  /\ cmd' = [cmd EXCEPT ![r] = NoCmd]
  /\ seen' = [seen EXCEPT ![r] = NotRead]
  /\ UNCHANGED <<db, jobs, issued>>

\* The process dies with every request it was serving, and is restarted.
Crash ==
  /\ \E r \in Requests : pc[r] # "idle"
  /\ RollbackAll
  /\ pc' = [r \in Requests |-> "idle"]
  /\ cmd' = [r \in Requests |-> NoCmd]
  /\ seen' = [r \in Requests |-> NotRead]
  /\ UNCHANGED <<jobs, issued>>

ServerInit ==
  /\ DatabaseInit
  /\ pc = [r \in Requests |-> "idle"]
  /\ cmd = [r \in Requests |-> NoCmd]
  /\ seen = [r \in Requests |-> NotRead]
  /\ jobs = {}
  /\ issued = 0

=============================================================================
