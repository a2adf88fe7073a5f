-------------------------------- MODULE JobQueue --------------------------------
(***************************************************************************)
(* A BullMQ queue of infra/queue/: the API adds a job, a worker takes it,  *)
(* its handler sends an e-mail or writes a receipt, and an administrator   *)
(* retries or discards any job.  The two queues share nothing but          *)
(* the table of handlers, so this is one queue, and Init says which.       *)
(* BullMQ itself is external: a job lives in Redis and outlives every      *)
(* process; a worker owns the job it runs by a lock it must renew; a job   *)
(* whose lock is lost has stalled: it is put back once, and failed the     *)
(* second time.                                                            *)
(*                                                                         *)
(* A file is named after its invoice and the millisecond, so every run of  *)
(* a receipt job writes a file of its own, which nothing changes once the  *)
(* run has left it: the path in the invoice is represented by what is on   *)
(* disk under it.                                                          *)
(***************************************************************************)
EXTENDS Integers, FiniteSets

CONSTANTS Emails, Receipts,   \* ids of the jobs of the two types
          Workers,            \* workers of the queue, each with concurrency 1
          Admins,             \* administrators' requests that can be in flight
          MaxAdds,            \* bound: calls of queue.add
          MaxFaults,          \* bound: faults of the environment
          MaxAdminCalls       \* bound: retries and discards

Jobs == Emails \cup Receipts

QueueOf == [notification |-> Emails, document |-> Receipts]

ASSUME JobAssumption ==
  /\ Emails \cap Receipts = {}
  /\ MaxAdds \in Nat /\ MaxFaults \in Nat /\ MaxAdminCalls \in Nat

VARIABLES queue,    \* which of the two queues this is
          job,      \* job -> [state, attempts, stalls, owner]
          run,      \* worker -> the handler it runs: [job, step, file]
          sent,     \* e-mails sent for a job
          path,     \* the receipt invoices.pdf_receipt_path of the job's invoice names
          admin,    \* what an administrator's request is about to do
          count,    \* [adds, faults, calls], and how often each job was created
          dropped   \* jobs discarded, or failed and forgotten after seven days

vars == <<job, run, sent, path, admin, count, dropped>>

Nobody == "nobody"
Absent == [state |-> "absent", attempts |-> 0, stalls |-> 0, owner |-> Nobody]
Waiting == [Absent EXCEPT !.state = "waiting"]
NoFile == "none"
NoRun == [job |-> "none", step |-> "idle", file |-> NoFile]
NoCall == [op |-> "none"]

\* The marks name nobody and nothing.
ASSUME MarksAssumption == Nobody \notin Workers /\ NoRun.job \notin Jobs

Attempts == 3          \* defaultJobOptions.attempts
MaxStalledCount == 1   \* BullMQ's default

SetState(j, state) == job' = [job EXCEPT ![j].state = state, ![j].owner = Nobody]
Fault == /\ count.faults < MaxFaults
         /\ count' = [count EXCEPT !.faults = @ + 1]

effects == <<sent, path>>

-----------------------------------------------------------------------------
(* The API *)

\* queue.add with a jobId: nothing happens while a job of that id exists.
Add(j) ==
  /\ j \in QueueOf[queue]
  /\ count.adds < MaxAdds
  /\ \/ /\ job[j] = Absent
        /\ job' = [job EXCEPT ![j] = Waiting]
        /\ count' = [count EXCEPT !.adds = @ + 1, !.created[j] = @ + 1]
     \/ /\ job[j] # Absent
        /\ count' = [count EXCEPT !.adds = @ + 1]
        /\ UNCHANGED job
  /\ UNCHANGED <<run, effects, admin, dropped>>

-----------------------------------------------------------------------------
(* A worker *)

\* Mutant of Take: the job is not moved out of the waiting list.
TakeLeavesWaiting(w, j) ==
  /\ run[w] = NoRun
  /\ job[j].state = "waiting"
  /\ job' = [job EXCEPT ![j].owner = w]
  /\ run' = [run EXCEPT ![w] = [job |-> j, step |-> "started", file |-> NoFile]]
  /\ UNCHANGED <<effects, admin, count, dropped>>

\* The worker of the queue, idle, takes and locks a waiting job.
Take(w, j) ==
  /\ run[w] = NoRun
  /\ job[j].state = "waiting"
  /\ job' = [job EXCEPT ![j].state = "active", ![j].owner = w]
  /\ run' = [run EXCEPT ![w] = [job |-> j, step |-> "started", file |-> NoFile]]
  /\ UNCHANGED <<effects, admin, count, dropped>>

\* The run of a worker is at this step, and goes on to another.
At(w, step) == run[w].step = step
GoesOn(w, step) ==
  /\ run' = [run EXCEPT ![w].step = step]
  /\ UNCHANGED <<job, admin, count, dropped>>

\* sendEmail
Send(w) ==
  LET j == run[w].job IN
  /\ At(w, "started") /\ j \in Emails
  /\ sent' = [sent EXCEPT ![j] = @ + 1]
  /\ GoesOn(w, "done")
  /\ UNCHANGED path

\* generateSettlementReceipt: mkdir, createWriteStream, the pages.
Generate(w) ==
  /\ At(w, "started") /\ run[w].job \in Receipts
  /\ run' = [run EXCEPT ![w].step = "writing", ![w].file = "partial"]
  /\ UNCHANGED <<job, effects, admin, count, dropped>>

\* Mutant of FinishFile: the path is returned before the stream has finished.
FinishFileEarly(w) ==
  /\ At(w, "writing")
  /\ GoesOn(w, "written")
  /\ UNCHANGED effects

\* The stream's 'finish' resolves the promise.
FinishFile(w) ==
  /\ At(w, "writing")
  /\ run' = [run EXCEPT ![w].step = "written", ![w].file = "complete"]
  /\ UNCHANGED <<job, effects, admin, count, dropped>>

\* UPDATE invoices SET pdf_receipt_path
SavePath(w) ==
  LET j == run[w].job IN
  /\ At(w, "written")
  /\ path' = [path EXCEPT ![j] = run[w].file]
  /\ GoesOn(w, "done")
  /\ UNCHANGED sent

Owns(w) == job[run[w].job].owner = w

\* Mutant of Complete: the handler is not awaited.
CompleteUnawaited(w) ==
  /\ run[w] # NoRun
  /\ IF Owns(w) THEN SetState(run[w].job, "completed") ELSE UNCHANGED job
  /\ run' = [run EXCEPT ![w] = NoRun]
  /\ UNCHANGED <<effects, admin, count, dropped>>

\* The handler has returned.  A worker that lost the lock meanwhile changes nothing.
Complete(w) ==
  /\ At(w, "done")
  /\ IF Owns(w) THEN SetState(run[w].job, "completed") ELSE UNCHANGED job
  /\ run' = [run EXCEPT ![w] = NoRun]
  /\ UNCHANGED <<effects, admin, count, dropped>>

\* Mutant of Failed: one attempt more than the queue allows.
FailedOnceMore(j) ==
  [job[j] EXCEPT !.state = IF job[j].attempts < Attempts THEN "delayed" ELSE "failed",
                 !.attempts = @ + 1, !.owner = Nobody]

\* A job after another failed attempt: it waits for its backoff, or has failed.
Failed(j) ==
  [job[j] EXCEPT !.state = IF job[j].attempts + 1 < Attempts THEN "delayed" ELSE "failed",
                 !.attempts = @ + 1, !.owner = Nobody]

\* The handler throws, as it may at any of its awaits.
Throw(w) ==
  LET j == run[w].job IN
  /\ run[w].step \in {"started", "writing", "written"}
  /\ job' = IF Owns(w) THEN [job EXCEPT ![j] = Failed(j)] ELSE job
  /\ run' = [run EXCEPT ![w] = NoRun]
  /\ UNCHANGED <<effects, admin, count, dropped>>

\* The same, but the call that rejects had its effect.
ThrowAfterEffect(w) ==
  LET j == run[w].job IN
  /\ Fault
  /\ \/ /\ At(w, "started") /\ j \in Emails
        /\ sent' = [sent EXCEPT ![j] = @ + 1]
        /\ UNCHANGED path
     \/ /\ At(w, "written")
        /\ path' = [path EXCEPT ![j] = run[w].file]
        /\ UNCHANGED sent
  /\ job' = IF Owns(w) THEN [job EXCEPT ![j] = Failed(j)] ELSE job
  /\ run' = [run EXCEPT ![w] = NoRun]
  /\ UNCHANGED <<admin, dropped>>

-----------------------------------------------------------------------------
(* Redis and the environment *)

\* The backoff of a delayed job is over.
Promote(j) ==
  /\ job[j].state = "delayed"
  /\ SetState(j, "waiting")
  /\ UNCHANGED <<run, effects, admin, count, dropped>>

\* A worker process dies and is restarted.
Die(w) ==
  /\ run[w] # NoRun
  /\ Fault
  /\ run' = [run EXCEPT ![w] = NoRun]
  /\ UNCHANGED <<job, effects, admin, dropped>>

\* Whoever locked the job is not running it any more.
Orphaned(j) == /\ job[j].state = "active"
               /\ run[job[j].owner].job # j

\* The stalled check of some worker finds a job whose lock has expired.
Unlocked(j) ==
  job' = [job EXCEPT
    ![j].state = IF job[j].stalls + 1 > MaxStalledCount THEN "failed" ELSE "waiting",
    ![j].stalls = @ + 1,
    ![j].owner = Nobody]

\* Mutant of Stalled: there is no stalled check.
StalledNever(j) == FALSE /\ UNCHANGED vars

Stalled(j) ==
  /\ Orphaned(j)
  /\ Unlocked(j)
  /\ UNCHANGED <<run, effects, admin, count, dropped>>

\* A worker that still runs the job could not renew its lock in time.
LockLost(j) ==
  /\ job[j].state = "active" /\ ~ Orphaned(j)
  /\ Fault
  /\ Unlocked(j)
  /\ UNCHANGED <<run, effects, admin, dropped>>

\* removeOnComplete and removeOnFail: the job has been kept for long enough.
Forget(j) ==
  /\ job[j].state \in {"completed", "failed"}
  /\ job' = [job EXCEPT ![j] = Absent]
  /\ dropped' = IF job[j].state = "failed" THEN dropped \cup {j} ELSE dropped
  /\ UNCHANGED <<run, effects, admin, count>>

-----------------------------------------------------------------------------
(* The administrator: infra/queue/failed-jobs.repository.ts *)

\* POST .../retry or DELETE for a job, whatever has become of it since
\* GET /admin/failed-jobs may have shown it as failed.
Administer(a, j) ==
  /\ admin[a] = NoCall
  /\ count.calls < MaxAdminCalls
  /\ \E op \in {"retry", "discard"} : admin' = [admin EXCEPT ![a] = [op |-> op, job |-> j]]
  /\ count' = [count EXCEPT !.calls = @ + 1]
  /\ UNCHANGED <<job, run, effects, dropped>>

Answered(a) == admin' = [admin EXCEPT ![a] = NoCall] /\ UNCHANGED <<run, effects, count>>

\* retryFailedJob: a job that is not failed any more makes job.retry() throw.  The
\* attempts made stay, so the job gets one more.
Retry(a) ==
  LET j == admin[a].job IN
  /\ admin[a].op = "retry"
  /\ IF job[j].state = "failed" THEN SetState(j, "waiting") ELSE UNCHANGED job
  /\ Answered(a)
  /\ UNCHANGED dropped

\* discardFailedJob: job.remove() takes a job in any state but locked.
Discard(a) ==
  LET j == admin[a].job IN
  /\ admin[a].op = "discard"
  /\ \/ /\ job[j] # Absent
        /\ job[j].state # "active" \/ Orphaned(j)
        /\ job' = [job EXCEPT ![j] = Absent]
        /\ dropped' = dropped \cup {j}
     \/ /\ job[j] = Absent \/ job[j].state = "active"
        /\ UNCHANGED <<job, dropped>>
  /\ Answered(a)

-----------------------------------------------------------------------------
Init ==
  /\ queue \in DOMAIN QueueOf
  /\ job = [j \in Jobs |-> Absent]
  /\ run = [w \in Workers |-> NoRun]
  /\ sent = [j \in Emails |-> 0]
  /\ path = [j \in Receipts |-> NoFile]
  /\ admin = [a \in Admins |-> NoCall]
  /\ count = [adds |-> 0, created |-> [j \in Jobs |-> 0],
              faults |-> 0, calls |-> 0]
  /\ dropped = {}

\* What a worker does when nothing goes wrong, and what it does when it throws.
Works(w) == Send(w) \/ Generate(w) \/ FinishFile(w) \/ SavePath(w)
                 \/ Complete(w)

Next ==
  /\ UNCHANGED queue
  /\ \/ \E j \in Jobs :
          \/ Add(j) \/ Promote(j) \/ Stalled(j) \/ LockLost(j) \/ Forget(j)
          \/ \E w \in Workers : Take(w, j)
          \/ \E a \in Admins : Administer(a, j)
     \/ \E w \in Workers : Works(w) \/ Throw(w) \/ ThrowAfterEffect(w) \/ Die(w)
     \/ \E a \in Admins : Retry(a) \/ Discard(a)

Spec == Init /\ [][Next]_<<queue, vars>>

\* Workers that are up take jobs and run them to an end, good or bad; Redis
\* promotes delayed jobs, and its stalled check finds the jobs of the dead.
Fairness ==
  /\ \A j \in Jobs : WF_vars(Promote(j)) /\ WF_vars(Stalled(j))
                       /\ WF_vars(\E w \in Workers : Take(w, j))
  /\ \A w \in Workers : WF_vars(Works(w) \/ Throw(w))

FairSpec == Spec /\ Fairness

-----------------------------------------------------------------------------
States == {"absent", "waiting", "active", "delayed", "completed", "failed"}

\* The type invariant: a job is in one of BullMQ's states, was tried three times,
\* and once more for each retry of an administrator, and stalled at most twice
\* before one; only a receipt is ever written to a file.
TypeOK ==
  /\ \A j \in Jobs : job[j] # Absent => j \in QueueOf[queue]
  /\ job \in [Jobs -> [state: States, attempts: 0 .. Attempts + count.calls,
                       stalls: 0 .. MaxStalledCount + 1 + count.calls,
                       owner: Workers \cup {Nobody}]]
  /\ \A w \in Workers :
       \/ run[w] = NoRun
       \/ /\ run[w].job \in Jobs
          /\ run[w].step \in {"started", "writing", "written", "done"}
          /\ run[w].step \in {"writing", "written"} => run[w].job \in Receipts
  /\ \A j \in Receipts : path[j] \in {NoFile, "partial", "complete"}

\* The path in an invoice names a receipt that is on disk in full, however many
\* runs wrote one, overtook each other or died half way
\* (settlement-receipt.handler.ts:27, receipt-generator.ts:218).
ReceiptExists == \A j \in Receipts : path[j] \in {NoFile, "complete"}

Done(j) == IF j \in Emails THEN sent[j] > 0 ELSE path[j] # NoFile

\* A job is at least once done: one that has completed, or that was added and is
\* gone, has had its effect, unless an administrator discarded it or nobody looked
\* at it for the seven days it stayed failed.
DoneOrDropped ==
  \A j \in Jobs :
    job[j].state = "completed" \/ (job[j] = Absent /\ count.created[j] > 0) =>
      Done(j) \/ j \in dropped

\* An e-mail goes out once for each time its job was created; each one more is
\* paid for by a fault: a worker that died or lost its lock after sending, a mail
\* server whose yes was lost.
SentOncePerFault == \A j \in Emails : sent[j] <= count.created[j] + count.faults

\* Every job comes to an end, whatever its workers do.
EveryJobEnds ==
  \A j \in Jobs : job[j].state \in {"waiting", "active", "delayed"} ~>
                    job[j].state \in {"completed", "failed", "absent"}

=============================================================================
