-------------------------------- MODULE JobProofs --------------------------------
(***************************************************************************)
(* Theorems about JobQueue, for any jobs, workers, administrators and      *)
(* bounds.                                                                 *)
(***************************************************************************)
EXTENDS JobQueue, FiniteSetTheorems, TLAPS

-----------------------------------------------------------------------------
(* The inductive invariant *)

Files == {NoFile, "partial", "complete"}
JobRecords == [state: States, attempts: Nat, stalls: Nat, owner: Workers \cup {Nobody}]
RunRecords == [job: Jobs, step: {"started", "writing", "written", "done"}, file: Files]
Calls == [op: {"retry", "discard"}, job: Jobs]

Shape ==
  /\ queue \in DOMAIN QueueOf
  /\ job \in [Jobs -> JobRecords]
  /\ run \in [Workers -> RunRecords \cup {NoRun}]
  /\ sent \in [Emails -> Nat]
  /\ path \in [Receipts -> Files]
  /\ admin \in [Admins -> Calls \cup {NoCall}]
  /\ count \in [adds: Nat, created: [Jobs -> Nat], faults: Nat, calls: Nat]
  /\ dropped \subseteq Jobs

\* A job is locked exactly while it is active, and only if it is of this queue.
Locks(j) ==
  /\ job[j].state = "active" <=> job[j].owner # Nobody
  /\ job[j] # Absent => j \in QueueOf[queue]

\* The calls of administrators on their way; the others have been answered.
Pending == {a \in Admins : admin[a] # NoCall}
Answers == count.calls - Cardinality(Pending)

Unfinished == {"waiting", "active", "delayed"}

\* A job has its attempts, and one more for each call that was answered: one of
\* them may have been the retry that revived it.
Tries(j) ==
  LET left == IF job[j].state \in Unfinished THEN 1 ELSE 0 IN
  /\ job[j].attempts + left <= Attempts + Answers
  /\ job[j].stalls + left <= MaxStalledCount + 1 + Answers

\* What a run has achieved at its step.
Achieved(w) ==
  /\ run[w].step \in {"writing", "written"} => run[w].job \in Receipts
  /\ run[w].step = "written" => run[w].file = "complete"
  /\ run[w].step = "done" => Done(run[w].job)

\* The workers that are about to send the e-mail without owning the job.
Strays(j) ==
  {w \in Workers : run[w].job = j /\ run[w].step = "started" /\ job[j].owner # w}

\* The owner has sent the e-mail and only has to say so.
SentByOwner(j) ==
  LET w == job[j].owner IN
  job[j].state = "active" /\ run[w].job = j /\ run[w].step = "done"

\* Whether the job itself, not a stray, leads to another e-mail.
ToSend(j) ==
  IF job[j].state \in {"absent", "completed"} \/ SentByOwner(j) THEN 0 ELSE 1

\* What was sent and what may be sent with no further fault is paid for.
Paid(j) ==
  /\ IsFiniteSet(Strays(j))
  /\ sent[j] + ToSend(j) + Cardinality(Strays(j)) <= count.created[j] + count.faults

JobInv ==
  /\ Shape
  /\ IsFiniteSet(Pending) /\ Cardinality(Pending) <= count.calls
  /\ \A j \in Jobs : Locks(j) /\ Tries(j)
  /\ \A w \in Workers : Achieved(w)
  /\ ReceiptExists
  /\ DoneOrDropped
  /\ \A j \in Emails : Paid(j)

LEMMA NatTypes ==
  ASSUME Shape
  PROVE  /\ count.faults \in Nat /\ count.calls \in Nat /\ count.adds \in Nat
         /\ \A j \in Jobs : /\ count.created[j] \in Nat /\ job[j] \in JobRecords
                           /\ job[j].attempts \in Nat /\ job[j].stalls \in Nat
                           /\ job[j].owner \in Workers \cup {Nobody} /\ job[j].state \in States
         /\ \A j \in Emails : sent[j] \in Nat
         /\ \A w \in Workers : run[w].job \in Jobs \/ run[w] = NoRun
  BY DEF Shape, JobRecords, RunRecords

-----------------------------------------------------------------------------
(* What a step does to the job it is about, and to the others *)

\* A step about job j: every other job, and the runs of it, stay as they are.
About(j) ==
  /\ \A k \in Jobs \ {j} : job'[k] = job[k] /\ count'.created[k] = count.created[k]
  /\ \A w \in Workers :
       \/ run'[w] = run[w]
       \/ run[w].job \in {j, NoRun.job} /\ run'[w].job \in {j, NoRun.job}
  /\ \A k \in Emails \ {j} : sent'[k] = sent[k]
  /\ \A k \in Receipts \ {j} : path'[k] = path[k]
  /\ count.faults <= count'.faults
  /\ dropped \subseteq dropped'
  /\ queue' = queue

\* What it owes to the job itself.
Owes(j) ==
  /\ Locks(j)' /\ Tries(j)'
  /\ j \in Emails => Paid(j)'
  /\ j \in Receipts => path'[j] \in {NoFile, "complete"}
  /\ Done(j) => Done(j)'
  /\ job'[j].state = "completed" \/ (job'[j] = Absent /\ count'.created[j] > 0) =>
       Done(j)' \/ j \in dropped'

\* The administrators' calls: none on its way is forgotten.
CallsOK ==
  /\ IsFiniteSet(Pending)' /\ Cardinality(Pending') <= count'.calls
  /\ Answers <= Answers'

LEMMA OthersUntouched ==
  ASSUME Shape, Shape', NEW j \in Jobs, About(j), NEW k \in Emails \ {j}, Locks(k)
  PROVE  Strays(k)' = Strays(k) /\ ToSend(k)' = ToSend(k)
  <1>1. job'[k] = job[k] /\ k \in Jobs /\ k # NoRun.job
    BY MarksAssumption DEF About, Jobs
  <1>2. ASSUME NEW w \in Workers
        PROVE  /\ run'[w].job = k <=> run[w].job = k
               /\ run[w].job = k => run'[w] = run[w]
    BY <1>1 DEF About
  <1>3. Strays(k)' = Strays(k)
    BY <1>1, <1>2 DEF Strays
  <1>4. job[k].state = "active" => job[k].owner \in Workers
    BY <1>1, NatTypes DEF Locks
  <1>5. SentByOwner(k)' <=> SentByOwner(k)
    BY <1>1, <1>2, <1>4 DEF SentByOwner
  <1> QED BY <1>1, <1>3, <1>5 DEF ToSend

LEMMA StepKeeps ==
  ASSUME JobInv, Shape', NEW j \in Jobs, About(j), Owes(j), CallsOK,
         \A w \in Workers : run'[w] # run[w] => Achieved(w)'
  PROVE  JobInv'
  <1>0. Shape
    BY DEF JobInv
  <1>1. ASSUME NEW k \in Jobs PROVE Locks(k)'
    <2>1. CASE k = j
      BY <2>1 DEF Owes
    <2>2. CASE k # j
      BY <2>2 DEF JobInv, About, Locks
    <2> QED BY <2>1, <2>2
  <1>2. ASSUME NEW k \in Jobs PROVE Tries(k)'
    <2>1. CASE k = j
      BY <2>1 DEF Owes
    <2>2. CASE k # j
      <3>1. job'[k] = job[k] /\ Tries(k)
        BY <2>2 DEF JobInv, About
      <3>2. Answers \in Int /\ Answers' \in Int
        BY <1>0, FS_CardinalityType, NatTypes DEF JobInv, CallsOK, Answers, Shape
      <3>3. Answers <= Answers'
        BY DEF CallsOK
      <3>4. job[k].attempts \in Nat /\ job[k].stalls \in Nat
        BY <1>0, NatTypes
      <3> HIDE DEF Answers
      <3> QED BY <3>1, <3>2, <3>3, <3>4 DEF Tries, Attempts, MaxStalledCount
    <2> QED BY <2>1, <2>2
  <1>3. ASSUME NEW k \in Jobs PROVE Done(k) => Done(k)'
    <2>1. CASE k = j
      BY <2>1 DEF Owes
    <2>2. CASE k # j
      BY <2>2 DEF About, Done, Jobs
    <2> QED BY <2>1, <2>2
  <1>4. ASSUME NEW w \in Workers PROVE Achieved(w)'
    <2>1. CASE run'[w] # run[w]
      BY <2>1
    <2>2. CASE run'[w] = run[w]
      <3>1. Achieved(w)
        BY DEF JobInv
      <3>2. run[w].step = "done" => run[w].job \in Jobs
        BY <1>0, NatTypes DEF NoRun
      <3>3. run[w].step = "done" => Done(run[w].job) /\ Done(run[w].job)'
        <4>1. SUFFICES ASSUME run[w].step = "done"
                       PROVE  Done(run[w].job) /\ Done(run[w].job)'
          OBVIOUS
        <4>2. PICK k \in Jobs : k = run[w].job
          BY <3>2, <4>1
        <4>3. Done(k) /\ Done(k)'
          BY <1>3, <3>1, <4>1, <4>2 DEF Achieved
        <4> QED BY <2>2, <4>2, <4>3
      <3> QED BY <2>2, <3>1, <3>3 DEF Achieved
    <2> QED BY <2>1, <2>2
  <1>5. ReceiptExists'
    BY DEF JobInv, ReceiptExists, Owes, About
  <1>6. DoneOrDropped'
    <2> SUFFICES ASSUME NEW k \in Jobs,
                        job'[k].state = "completed" \/ (job'[k] = Absent /\ count'.created[k] > 0)
                 PROVE  Done(k)' \/ k \in dropped'
      BY DEF DoneOrDropped
    <2>1. CASE k = j
      BY <2>1 DEF Owes
    <2>2. CASE k # j
      BY <1>3, <2>2 DEF JobInv, DoneOrDropped, About
    <2> QED BY <2>1, <2>2
  <1>7. ASSUME NEW k \in Emails PROVE Paid(k)'
    <2>1. CASE k = j
      BY <2>1 DEF Owes
    <2>2. CASE k # j
      <3>1. k \in Jobs /\ Locks(k) /\ Paid(k)
        BY DEF JobInv, Jobs
      <3>2. Strays(k)' = Strays(k) /\ ToSend(k)' = ToSend(k)
        BY <1>0, <2>2, <3>1, OthersUntouched
      <3>3. /\ sent'[k] = sent[k] /\ count'.created[k] = count.created[k]
            /\ count.faults <= count'.faults
        BY <2>2, <3>1 DEF About
      <3>4. /\ sent[k] \in Nat /\ count.created[k] \in Nat /\ count.faults \in Nat
            /\ count'.faults \in Nat /\ Cardinality(Strays(k)) \in Nat /\ ToSend(k) \in Nat
        BY <1>0, <3>1, FS_CardinalityType, NatTypes DEF Paid, ToSend, Shape
      <3> QED BY <3>1, <3>2, <3>3, <3>4 DEF Paid
    <2> QED BY <2>1, <2>2
  <1> QED BY <1>1, <1>2, <1>4, <1>5, <1>6, <1>7 DEF JobInv, CallsOK

-----------------------------------------------------------------------------
(* What the helpers make of a job *)

\* The job changes into this, and no other job changes.
Becomes(j, state, attempts, stalls, owner) ==
  /\ job' \in [Jobs -> JobRecords]
  /\ \A k \in Jobs \ {j} : job'[k] = job[k]
  /\ job'[j].state = state /\ job'[j].attempts = attempts
  /\ job'[j].stalls = stalls /\ job'[j].owner = owner

LEMMA SetStateOK ==
  ASSUME Shape, NEW j \in Jobs, NEW state \in States, SetState(j, state)
  PROVE  Becomes(j, state, job[j].attempts, job[j].stalls, Nobody)
  BY DEF Shape, SetState, Becomes, JobRecords

LEMMA MarksOK ==
  /\ Absent \in JobRecords /\ Waiting \in JobRecords
  /\ Absent.state = "absent" /\ Waiting.state = "waiting"
  /\ Absent.attempts = 0 /\ Absent.stalls = 0 /\ Absent.owner = Nobody
  /\ Waiting.attempts = 0 /\ Waiting.stalls = 0 /\ Waiting.owner = Nobody
  BY DEF Absent, Waiting, JobRecords, States

LEMMA SetOK ==
  ASSUME Shape, NEW j \in Jobs, NEW record \in JobRecords, job' = [job EXCEPT ![j] = record]
  PROVE  /\ Becomes(j, record.state, record.attempts, record.stalls, record.owner)
         /\ job'[j] = record
  BY DEF Shape, Becomes

LEMMA AbsentOK ==
  ASSUME Shape, NEW j \in Jobs, job' = [job EXCEPT ![j] = Absent]
  PROVE  Becomes(j, "absent", 0, 0, Nobody) /\ job'[j] = Absent
  <1>1. PICK record \in JobRecords : record = Absent
    BY MarksOK
  <1>2. /\ Becomes(j, record.state, record.attempts, record.stalls, record.owner)
        /\ job'[j] = record
    BY <1>1, SetOK
  <1> QED BY <1>1, <1>2, MarksOK

LEMMA WaitingOK ==
  ASSUME Shape, NEW j \in Jobs, job' = [job EXCEPT ![j] = Waiting]
  PROVE  Becomes(j, "waiting", 0, 0, Nobody) /\ job'[j] = Waiting
  <1>1. PICK record \in JobRecords : record = Waiting
    BY MarksOK
  <1>2. /\ Becomes(j, record.state, record.attempts, record.stalls, record.owner)
        /\ job'[j] = record
    BY <1>1, SetOK
  <1> QED BY <1>1, <1>2, MarksOK

LEMMA FailedOK ==
  ASSUME Shape, NEW j \in Jobs, job' = [job EXCEPT ![j] = Failed(j)]
  PROVE  Becomes(j, IF job[j].attempts + 1 < Attempts THEN "delayed" ELSE "failed",
                 job[j].attempts + 1, job[j].stalls, Nobody)
  <1> DEFINE state == IF job[j].attempts + 1 < Attempts THEN "delayed" ELSE "failed"
  <1>1. job[j] \in JobRecords /\ job[j].attempts + 1 \in Nat /\ state \in States
    BY NatTypes DEF States
  <1>2. Failed(j) = [job[j] EXCEPT !.state = state, !.attempts = job[j].attempts + 1,
                                   !.owner = Nobody]
    BY DEF Failed
  <1> HIDE DEF state
  <1>3. /\ Failed(j) \in JobRecords
        /\ Failed(j).state = state /\ Failed(j).attempts = job[j].attempts + 1
        /\ Failed(j).stalls = job[j].stalls /\ Failed(j).owner = Nobody
    BY <1>1, <1>2 DEF JobRecords
  <1>4. PICK record : record = Failed(j)
    OBVIOUS
  <1>5. Becomes(j, record.state, record.attempts, record.stalls, record.owner)
    BY <1>3, <1>4, SetOK
  <1> QED BY <1>3, <1>4, <1>5 DEF state

LEMMA UnlockedOK ==
  ASSUME Shape, NEW j \in Jobs, Unlocked(j)
  PROVE  Becomes(j, IF job[j].stalls + 1 > MaxStalledCount THEN "failed" ELSE "waiting",
                 job[j].attempts, job[j].stalls + 1, Nobody)
  <1> DEFINE state == IF job[j].stalls + 1 > MaxStalledCount THEN "failed" ELSE "waiting"
  <1>1. job[j].stalls + 1 \in Nat /\ state \in States
    BY NatTypes DEF States
  <1>2. job' = [job EXCEPT ![j].state = state, ![j].stalls = job[j].stalls + 1, ![j].owner = Nobody]
    BY DEF Unlocked, Shape
  <1> HIDE DEF state
  <1>3. Becomes(j, state, job[j].attempts, job[j].stalls + 1, Nobody)
    BY <1>1, <1>2 DEF Shape, Becomes, JobRecords
  <1> QED BY <1>3 DEF state

\* No administrator's call starts or ends.
LEMMA CallsKept ==
  ASSUME JobInv, admin' = admin, count'.calls = count.calls
  PROVE  CallsOK
  <1>1. Pending' = Pending
    BY DEF Pending
  <1>2. Cardinality(Pending) \in Nat /\ count.calls \in Nat
    BY FS_CardinalityType, NatTypes DEF JobInv
  <1> QED BY <1>1, <1>2 DEF CallsOK, Answers, JobInv

LEMMA CallAnswered ==
  ASSUME JobInv, NEW a \in Admins, admin[a] # NoCall, Answered(a)
  PROVE  CallsOK /\ Answers' = Answers + 1
         /\ run' = run /\ sent' = sent /\ path' = path /\ count' = count
         /\ admin' \in [Admins -> Calls \cup {NoCall}]
  <1>1. /\ admin' = [admin EXCEPT ![a] = NoCall]
        /\ run' = run /\ sent' = sent /\ path' = path /\ count' = count
        /\ admin \in [Admins -> Calls \cup {NoCall}]
    BY DEF Answered, effects, JobInv, Shape
  <1>2. Pending' = Pending \ {a} /\ a \in Pending
    BY <1>1 DEF Pending
  <1>3. IsFiniteSet(Pending) /\ Cardinality(Pending) \in Nat /\ Cardinality(Pending) <= count.calls
        /\ count.calls \in Nat
    BY FS_CardinalityType, NatTypes DEF JobInv
  <1>4. IsFiniteSet(Pending \ {a}) /\ Cardinality(Pending \ {a}) = Cardinality(Pending) - 1
    BY <1>2, <1>3, FS_RemoveElement
  <1> QED BY <1>1, <1>2, <1>3, <1>4 DEF CallsOK, Answers

\* The strays of a job whose owner, if it had one, was not running it.
LEMMA SameStrays ==
  ASSUME Shape, NEW j \in Jobs, run' = run,
         \/ job'[j].owner = job[j].owner
         \/ job'[j].owner = Nobody /\ (job[j].owner = Nobody \/ run[job[j].owner].job # j)
  PROVE  Strays(j)' = Strays(j)
  BY MarksAssumption DEF Strays

\* An e-mail job that led to nothing more than was paid for still does.
LEMMA PaidKept ==
  ASSUME JobInv, Shape', NEW j \in Emails, Strays(j)' = Strays(j), sent'[j] = sent[j],
         ToSend(j)' + count.created[j] + count.faults
           <= ToSend(j) + count'.created[j] + count'.faults
  PROVE  Paid(j)'
  <1>1. Paid(j) /\ j \in Jobs
    BY DEF JobInv, Jobs
  <1>2. /\ sent[j] \in Nat /\ Cardinality(Strays(j)) \in Nat /\ ToSend(j) \in Nat
        /\ count.created[j] \in Nat /\ count.faults \in Nat
        /\ count'.created[j] \in Nat /\ count'.faults \in Nat /\ ToSend(j)' \in Nat
    BY <1>1, FS_CardinalityType, NatTypes DEF JobInv, Paid, ToSend, Shape
  <1> QED BY <1>1, <1>2 DEF Paid

-----------------------------------------------------------------------------
(* The steps of Redis, the API and the administrators: no run moves *)

\* A step that changes the job and no run keeps the invariant.
LEMMA JobStep ==
  ASSUME JobInv, NEW j \in Jobs, NEW state \in States \ {"active"},
         NEW attempts \in Nat, NEW stalls \in Nat,
         Becomes(j, state, attempts, stalls, Nobody),
         attempts + (IF state \in Unfinished THEN 1 ELSE 0) <= Attempts + Answers',
         stalls + (IF state \in Unfinished THEN 1 ELSE 0) <= MaxStalledCount + 1 + Answers',
         job'[j] # Absent => j \in QueueOf[queue],
         state = "completed" \/ (job'[j] = Absent /\ count'.created[j] > 0) =>
           Done(j) \/ j \in dropped',
         j \in Emails => Paid(j)',
         run' = run, sent' = sent, path' = path, queue' = queue,
         admin' \in [Admins -> Calls \cup {NoCall}], CallsOK,
         count' \in [adds: Nat, created: [Jobs -> Nat], faults: Nat, calls: Nat],
         \A k \in Jobs \ {j} : count'.created[k] = count.created[k],
         count.faults <= count'.faults,
         dropped \subseteq dropped', dropped' \subseteq Jobs
  PROVE  JobInv'
  <1>1. Shape'
    BY DEF JobInv, Shape, Becomes
  <1>2. About(j)
    BY DEF About, Becomes
  <1>3. Locks(j)'
    BY DEF Locks, Becomes
  <1>4. Tries(j)'
    <2> HIDE DEF Answers
    <2> QED BY DEF Tries, Becomes
  <1>5. Done(j)' <=> Done(j)
    BY DEF Done
  <1>6. j \in Receipts => path'[j] \in {NoFile, "complete"}
    BY DEF JobInv, ReceiptExists
  <1>7. Owes(j)
    BY <1>3, <1>4, <1>5, <1>6 DEF Owes, Becomes
  <1> QED BY <1>1, <1>2, <1>7, StepKeeps

\* A step that only answers or starts a call keeps it.
LEMMA UnchangedJob ==
  ASSUME JobInv, job' = job, run' = run, sent' = sent, path' = path, queue' = queue,
         admin' \in [Admins -> Calls \cup {NoCall}], CallsOK,
         count' \in [adds: Nat, created: [Jobs -> Nat], faults: Nat, calls: Nat],
         count'.created = count.created, count'.faults = count.faults, dropped' = dropped
  PROVE  JobInv'
  <1>1. Shape /\ Shape'
    BY DEF JobInv, Shape
  <1>2. ASSUME NEW j \in Jobs PROVE Locks(j)' /\ Tries(j)'
    <2>1. Locks(j) /\ Tries(j)
      BY DEF JobInv
    <2>2. Answers \in Int /\ Answers' \in Int /\ Answers <= Answers'
      BY <1>1, FS_CardinalityType, NatTypes DEF JobInv, CallsOK, Answers, Shape
    <2> HIDE DEF Answers
    <2>3. job[j].attempts \in Nat /\ job[j].stalls \in Nat
      BY <1>1, NatTypes
    <2> QED BY <2>1, <2>2, <2>3 DEF Locks, Tries, Attempts, MaxStalledCount
  <1>3. ASSUME NEW w \in Workers PROVE Achieved(w)'
    <2>1. Achieved(w)
      BY DEF JobInv
    <2> QED BY <2>1 DEF Achieved, Done
  <1>4. ASSUME NEW j \in Emails PROVE Paid(j)'
    <2>1. Paid(j)
      BY DEF JobInv
    <2> QED BY <2>1 DEF Paid, Strays, ToSend, SentByOwner
  <1>5. ReceiptExists' /\ DoneOrDropped'
    BY DEF JobInv, ReceiptExists, DoneOrDropped, Done
  <1> QED BY <1>1, <1>2, <1>3, <1>4, <1>5 DEF JobInv, CallsOK

\* What the invariant says of one job.
LEMMA JobFacts ==
  ASSUME JobInv, NEW j \in Jobs
  PROVE  /\ Shape /\ Locks(j) /\ Tries(j) /\ (j \in Emails => Paid(j))
         /\ Answers \in Nat
         /\ job[j].state = "active" => job[j].owner \in Workers
         /\ job[j].attempts \in Nat /\ job[j].stalls \in Nat /\ job[j].state \in States
         /\ count.created[j] \in Nat /\ count.faults \in Nat
         /\ job[j].state = "completed" \/ (job[j] = Absent /\ count.created[j] > 0) =>
              Done(j) \/ j \in dropped
         /\ dropped \subseteq Jobs
         /\ count \in [adds: Nat, created: [Jobs -> Nat], faults: Nat, calls: Nat]
         /\ admin \in [Admins -> Calls \cup {NoCall}]
  <1>1. Shape /\ Locks(j) /\ Tries(j) /\ (j \in Emails => Paid(j))
    BY DEF JobInv
  <1>2. Answers \in Nat
    BY <1>1, FS_CardinalityType, NatTypes DEF JobInv, Answers
  <1>3. job[j].state = "active" => job[j].owner \in Workers
    BY <1>1, NatTypes DEF Locks
  <1>4. job[j].state = "completed" \/ (job[j] = Absent /\ count.created[j] > 0) =>
              Done(j) \/ j \in dropped
    BY DEF JobInv, DoneOrDropped
  <1>5. /\ job[j].attempts \in Nat /\ job[j].stalls \in Nat /\ job[j].state \in States
        /\ count.created[j] \in Nat /\ count.faults \in Nat
    BY <1>1, NatTypes
  <1> QED BY <1>1, <1>2, <1>3, <1>4, <1>5 DEF Shape

LEMMA PromoteKeeps ==
  ASSUME JobInv, queue' = queue, NEW j \in Jobs, Promote(j)
  PROVE  JobInv'
  <1>1. /\ job[j].state = "delayed" /\ SetState(j, "waiting")
        /\ run' = run /\ sent' = sent /\ path' = path /\ admin' = admin /\ count' = count
        /\ dropped' = dropped
    BY DEF Promote, effects
  <1>2. Becomes(j, "waiting", job[j].attempts, job[j].stalls, Nobody)
    BY <1>1, JobFacts, SetStateOK DEF States
  <1>3. CallsOK /\ Answers' = Answers
    BY <1>1, CallsKept DEF Answers, Pending
  <1>4. /\ job[j].attempts + 1 <= Attempts + Answers
        /\ job[j].stalls + 1 <= MaxStalledCount + 1 + Answers
    BY <1>1, JobFacts DEF Tries, Unfinished
  <1>5. Shape'
    BY <1>1, <1>2, JobFacts DEF Shape, Becomes
  <1>6. ASSUME j \in Emails PROVE Paid(j)'
    <2>1. Strays(j)' = Strays(j)
      BY <1>1, <1>2, JobFacts, SameStrays DEF Becomes, Locks
    <2>2. ToSend(j) = 1 /\ ToSend(j)' = 1
      BY <1>1, <1>2 DEF ToSend, SentByOwner, Becomes
    <2> QED BY <1>1, <1>5, <1>6, <2>1, <2>2, JobFacts, PaidKept
  <1>7. j \in QueueOf[queue] /\ job'[j] # Absent
    BY <1>1, <1>2, JobFacts, MarksOK DEF Locks, Becomes
  <1> HIDE DEF Answers
  <1> QED BY <1>1, <1>2, <1>3, <1>4, <1>6, <1>7, JobFacts, JobStep DEF States, Unfinished

LEMMA ForgetKeeps ==
  ASSUME JobInv, queue' = queue, NEW j \in Jobs, Forget(j)
  PROVE  JobInv'
  <1>1. /\ job[j].state \in {"completed", "failed"}
        /\ job' = [job EXCEPT ![j] = Absent]
        /\ dropped' = IF job[j].state = "failed" THEN dropped \cup {j} ELSE dropped
        /\ run' = run /\ sent' = sent /\ path' = path /\ admin' = admin /\ count' = count
    BY DEF Forget, effects
  <1>2. Becomes(j, "absent", 0, 0, Nobody) /\ job'[j] = Absent
    BY <1>1, JobFacts, AbsentOK
  <1>3. CallsOK /\ Answers' = Answers
    BY <1>1, CallsKept DEF Answers, Pending
  <1>4. dropped \subseteq dropped' /\ dropped' \subseteq Jobs
    BY <1>1, JobFacts
  <1>5. Shape'
    BY <1>1, <1>2, <1>4, JobFacts DEF Shape, Becomes
  <1>6. ASSUME j \in Emails PROVE Paid(j)'
    <2>1. Strays(j)' = Strays(j)
      BY <1>1, <1>2, JobFacts, SameStrays DEF Becomes, Locks
    <2>2. ToSend(j) \in {0, 1} /\ ToSend(j)' = 0
      BY <1>2 DEF ToSend, Becomes
    <2> QED BY <1>1, <1>5, <1>6, <2>1, <2>2, JobFacts, PaidKept
  <1>7. Done(j) \/ j \in dropped'
    BY <1>1, JobFacts
  <1> HIDE DEF Answers
  <1> QED BY <1>1, <1>2, <1>3, <1>4, <1>6, <1>7, JobFacts, JobStep
          DEF States, Unfinished, Attempts, MaxStalledCount

LEMMA StalledKeeps ==
  ASSUME JobInv, queue' = queue, NEW j \in Jobs, Stalled(j)
  PROVE  JobInv'
  <1> DEFINE state == IF job[j].stalls + 1 > MaxStalledCount THEN "failed" ELSE "waiting"
  <1>1. /\ job[j].state = "active" /\ run[job[j].owner].job # j /\ Unlocked(j)
        /\ run' = run /\ sent' = sent /\ path' = path /\ admin' = admin /\ count' = count
        /\ dropped' = dropped
    BY DEF Stalled, Orphaned, effects
  <1>2. Becomes(j, state, job[j].attempts, job[j].stalls + 1, Nobody)
    BY <1>1, JobFacts, UnlockedOK
  <1>3. CallsOK /\ Answers' = Answers
    BY <1>1, CallsKept DEF Answers, Pending
  <1>4. /\ job[j].attempts + 1 <= Attempts + Answers
        /\ job[j].stalls + 1 <= MaxStalledCount + 1 + Answers
    BY <1>1, JobFacts DEF Tries, Unfinished
  <1>5. /\ job[j].attempts + (IF state \in Unfinished THEN 1 ELSE 0) <= Attempts + Answers
        /\ job[j].stalls + 1 + (IF state \in Unfinished THEN 1 ELSE 0)
             <= MaxStalledCount + 1 + Answers
        /\ state \in States \ {"active"} /\ state # "completed" /\ state # "absent"
    <2> HIDE DEF Answers
    <2> QED BY <1>4, JobFacts DEF States, Unfinished, MaxStalledCount, Attempts
  <1> HIDE DEF state, Answers
  <1>6. Shape'
    BY <1>1, <1>2, JobFacts DEF Shape, Becomes
  <1>7. ASSUME j \in Emails PROVE Paid(j)'
    <2>1. Strays(j)' = Strays(j)
      BY <1>1, <1>2, JobFacts, SameStrays DEF Becomes
    <2>2. ToSend(j) = 1 /\ ToSend(j)' \in {0, 1}
      BY <1>1 DEF ToSend, SentByOwner
    <2> QED BY <1>1, <1>6, <1>7, <2>1, <2>2, JobFacts, PaidKept
  <1>8. j \in QueueOf[queue] /\ job'[j] # Absent
    BY <1>1, <1>2, <1>5, JobFacts, MarksOK DEF Locks, Becomes
  <1> QED BY <1>1, <1>2, <1>3, <1>5, <1>7, <1>8, JobFacts, JobStep

LEMMA LockLostKeeps ==
  ASSUME JobInv, queue' = queue, NEW j \in Jobs, LockLost(j)
  PROVE  JobInv'
  <1> DEFINE state == IF job[j].stalls + 1 > MaxStalledCount THEN "failed" ELSE "waiting"
  <1>1. /\ job[j].state = "active" /\ run[job[j].owner].job = j /\ Unlocked(j)
        /\ count' = [count EXCEPT !.faults = count.faults + 1]
        /\ run' = run /\ sent' = sent /\ path' = path /\ admin' = admin
        /\ dropped' = dropped
    BY DEF LockLost, Orphaned, Fault, effects
  <1>2. Becomes(j, state, job[j].attempts, job[j].stalls + 1, Nobody)
    BY <1>1, JobFacts, UnlockedOK
  <1>3. /\ count' \in [adds: Nat, created: [Jobs -> Nat], faults: Nat, calls: Nat]
        /\ count'.calls = count.calls /\ count'.created = count.created
        /\ count'.faults = count.faults + 1
    BY <1>1, JobFacts
  <1>4. CallsOK /\ Answers' = Answers
    BY <1>1, <1>3, CallsKept DEF Answers, Pending
  <1>5. /\ job[j].attempts + 1 <= Attempts + Answers
        /\ job[j].stalls + 1 <= MaxStalledCount + 1 + Answers
    BY <1>1, JobFacts DEF Tries, Unfinished
  <1>6. /\ job[j].attempts + (IF state \in Unfinished THEN 1 ELSE 0) <= Attempts + Answers
        /\ job[j].stalls + 1 + (IF state \in Unfinished THEN 1 ELSE 0)
             <= MaxStalledCount + 1 + Answers
        /\ state \in States \ {"active"} /\ state # "completed" /\ state # "absent"
    <2> HIDE DEF Answers
    <2> QED BY <1>5, JobFacts DEF States, Unfinished, MaxStalledCount, Attempts
  <1> HIDE DEF state, Answers
  <1>7. ASSUME j \in Emails PROVE Paid(j)'
    <2> DEFINE w == job[j].owner
    <2>1. w \in Workers /\ w # Nobody /\ job'[j].owner = Nobody
      BY <1>1, <1>2, JobFacts, MarksAssumption DEF Becomes
    <2>2. ToSend(j)' = 1
      BY <1>2, <1>6 DEF ToSend, SentByOwner, Becomes
    <2>3. /\ Paid(j) /\ sent'[j] = sent[j] /\ sent[j] \in Nat
          /\ Cardinality(Strays(j)) \in Nat
          /\ count'.created[j] = count.created[j] /\ count'.faults = count.faults + 1
          /\ count.created[j] \in Nat /\ count.faults \in Nat
      BY <1>1, <1>3, <1>7, JobFacts, NatTypes, FS_CardinalityType DEF Paid
    <2>4. CASE run[w].step = "started"
      <3>1. Strays(j)' = Strays(j) \cup {w} /\ w \notin Strays(j)
        BY <1>1, <2>1, <2>4, MarksAssumption DEF Strays
      <3>2. ToSend(j) = 1
        BY <1>1, <2>4 DEF ToSend, SentByOwner
      <3>3. /\ IsFiniteSet(Strays(j)')
            /\ Cardinality(Strays(j)') = Cardinality(Strays(j)) + 1
        BY <2>3, <3>1, FS_AddElement DEF Paid
      <3> QED BY <2>2, <2>3, <3>2, <3>3 DEF Paid
    <2>5. CASE run[w].step # "started"
      <3>1. Strays(j)' = Strays(j)
        BY <1>1, <2>1, <2>5, MarksAssumption DEF Strays
      <3>2. ToSend(j) \in {0, 1}
        BY DEF ToSend
      <3> QED BY <2>2, <2>3, <3>1, <3>2 DEF Paid
    <2> QED BY <2>4, <2>5
  <1>8. j \in QueueOf[queue] /\ job'[j] # Absent
    BY <1>1, <1>2, <1>6, JobFacts, MarksOK DEF Locks, Becomes
  <1>9. count.faults <= count'.faults
    BY <1>3, JobFacts
  <1> QED BY <1>1, <1>2, <1>3, <1>4, <1>6, <1>7, <1>8, <1>9, JobFacts, JobStep

LEMMA RetryKeeps ==
  ASSUME JobInv, queue' = queue, NEW a \in Admins, Retry(a)
  PROVE  JobInv'
  <1>0. admin[a] # NoCall
    BY DEF Retry, NoCall
  <1>j. PICK j \in Jobs : j = admin[a].job
    BY <1>0 DEF JobInv, Shape, Calls
  <1>1. /\ IF job[j].state = "failed" THEN SetState(j, "waiting") ELSE job' = job
        /\ dropped' = dropped /\ Answered(a)
    BY <1>j DEF Retry
  <1>2. /\ CallsOK /\ Answers' = Answers + 1
        /\ run' = run /\ sent' = sent /\ path' = path /\ count' = count
        /\ admin' \in [Admins -> Calls \cup {NoCall}]
    BY <1>0, <1>1, CallAnswered
  <1> HIDE DEF Answers
  <1>3. CASE job[j].state = "failed"
    <2>1. Becomes(j, "waiting", job[j].attempts, job[j].stalls, Nobody)
      BY <1>1, <1>3, JobFacts, SetStateOK DEF States
    <2>2. /\ job[j].attempts + 1 <= Attempts + Answers'
          /\ job[j].stalls + 1 <= MaxStalledCount + 1 + Answers'
      BY <1>1, <1>2, <1>3, JobFacts DEF Tries, Unfinished, Attempts, MaxStalledCount
    <2>3. Shape'
      BY <1>1, <1>2, <2>1, JobFacts DEF Shape, Becomes
    <2>4. ASSUME j \in Emails PROVE Paid(j)'
      <3>1. Strays(j)' = Strays(j)
        BY <1>1, <1>2, <1>3, <2>1, JobFacts, SameStrays DEF Becomes, Locks
      <3>2. ToSend(j) = 1 /\ ToSend(j)' = 1
        BY <1>3, <2>1 DEF ToSend, SentByOwner, Becomes
      <3> QED BY <1>1, <1>2, <2>3, <2>4, <3>1, <3>2, JobFacts, PaidKept
    <2>5. j \in QueueOf[queue] /\ job'[j] # Absent
      BY <1>1, <1>3, <2>1, JobFacts, MarksOK DEF Locks, Becomes
    <2> QED BY <1>1, <1>2, <2>1, <2>2, <2>4, <2>5, JobFacts, JobStep DEF States, Unfinished
  <1>4. CASE job[j].state # "failed"
    <2>1. count' \in [adds: Nat, created: [Jobs -> Nat], faults: Nat, calls: Nat]
      BY <1>2, JobFacts
    <2> QED BY <1>1, <1>2, <1>4, <2>1, UnchangedJob
  <1> QED BY <1>3, <1>4

LEMMA DiscardKeeps ==
  ASSUME JobInv, queue' = queue, NEW a \in Admins, Discard(a)
  PROVE  JobInv'
  <1>0. admin[a] # NoCall
    BY DEF Discard, NoCall
  <1>j. PICK j \in Jobs : j = admin[a].job
    BY <1>0 DEF JobInv, Shape, Calls
  <1>1. /\ \/ /\ job[j] # Absent
              /\ job[j].state # "active" \/ run[job[j].owner].job # j
              /\ job' = [job EXCEPT ![j] = Absent]
              /\ dropped' = dropped \cup {j}
           \/ job' = job /\ dropped' = dropped
        /\ Answered(a)
    BY <1>j DEF Discard, Orphaned
  <1>2. /\ CallsOK /\ Answers' = Answers + 1
        /\ run' = run /\ sent' = sent /\ path' = path /\ count' = count
        /\ admin' \in [Admins -> Calls \cup {NoCall}]
    BY <1>0, <1>1, CallAnswered
  <1> HIDE DEF Answers
  <1>3. CASE /\ job[j].state # "active" \/ run[job[j].owner].job # j
             /\ job' = [job EXCEPT ![j] = Absent]
             /\ dropped' = dropped \cup {j}
    <2>1. Becomes(j, "absent", 0, 0, Nobody) /\ job'[j] = Absent
      BY <1>3, JobFacts, AbsentOK
    <2>2. dropped \subseteq dropped' /\ dropped' \subseteq Jobs
      BY <1>3, JobFacts
    <2>3. Shape'
      BY <1>2, <2>1, <2>2, JobFacts DEF Shape, Becomes
    <2>4. ASSUME j \in Emails PROVE Paid(j)'
      <3>1. Strays(j)' = Strays(j)
        BY <1>2, <1>3, <2>1, JobFacts, SameStrays DEF Becomes, Locks
      <3>2. ToSend(j) \in {0, 1} /\ ToSend(j)' = 0
        BY <2>1 DEF ToSend, Becomes
      <3> QED BY <1>2, <2>3, <2>4, <3>1, <3>2, JobFacts, PaidKept
    <2>5. Answers' \in Nat
      BY <1>2, JobFacts
    <2> QED BY <1>2, <1>3, <2>1, <2>2, <2>4, <2>5, JobFacts, JobStep
            DEF States, Unfinished, Attempts, MaxStalledCount
  <1>4. CASE job' = job /\ dropped' = dropped
    <2>1. count' \in [adds: Nat, created: [Jobs -> Nat], faults: Nat, calls: Nat]
      BY <1>2, JobFacts
    <2> QED BY <1>2, <1>4, <2>1, UnchangedJob
  <1> QED BY <1>1, <1>3, <1>4

LEMMA AdministerKeeps ==
  ASSUME JobInv, queue' = queue, NEW a \in Admins, NEW j \in Jobs, Administer(a, j)
  PROVE  JobInv'
  <1>1. PICK op \in {"retry", "discard"} : admin' = [admin EXCEPT ![a] = [op |-> op, job |-> j]]
    BY DEF Administer
  <1>2. /\ admin[a] = NoCall /\ count' = [count EXCEPT !.calls = count.calls + 1]
        /\ job' = job /\ run' = run /\ sent' = sent /\ path' = path /\ dropped' = dropped
    BY DEF Administer, effects
  <1>3. PICK call \in Calls : call = [op |-> op, job |-> j]
    BY DEF Calls
  <1>4. call # NoCall
    BY <1>3 DEF NoCall
  <1>5. admin' \in [Admins -> Calls \cup {NoCall}] /\ admin' = [admin EXCEPT ![a] = call]
    BY <1>1, <1>3, JobFacts
  <1>6. Pending' = Pending \cup {a} /\ a \notin Pending
    BY <1>2, <1>4, <1>5, JobFacts DEF Pending
  <1>7. /\ count' \in [adds: Nat, created: [Jobs -> Nat], faults: Nat, calls: Nat]
        /\ count'.calls = count.calls + 1 /\ count.calls \in Nat
        /\ count'.created = count.created /\ count'.faults = count.faults
    BY <1>2, JobFacts
  <1>8. IsFiniteSet(Pending) /\ Cardinality(Pending) \in Nat /\ Cardinality(Pending) <= count.calls
    BY FS_CardinalityType DEF JobInv
  <1>9. IsFiniteSet(Pending') /\ Cardinality(Pending') = Cardinality(Pending) + 1
    BY <1>6, <1>8, FS_AddElement
  <1>10. CallsOK
    BY <1>7, <1>8, <1>9 DEF CallsOK, Answers
  <1> QED BY <1>2, <1>5, <1>7, <1>10, UnchangedJob

LEMMA AddKeeps ==
  ASSUME JobInv, queue' = queue, NEW j \in Jobs, Add(j)
  PROVE  JobInv'
  <1>1. /\ j \in QueueOf[queue]
        /\ run' = run /\ sent' = sent /\ path' = path /\ admin' = admin
        /\ dropped' = dropped
    BY DEF Add, effects
  <1>2. CASE job[j] = Absent
    <2>1. /\ job' = [job EXCEPT ![j] = Waiting]
          /\ count' = [count EXCEPT !.adds = @ + 1, !.created[j] = @ + 1]
      BY <1>2 DEF Add
    <2>2. Becomes(j, "waiting", 0, 0, Nobody)
      BY <2>1, JobFacts, WaitingOK
    <2>3. /\ count' \in [adds: Nat, created: [Jobs -> Nat], faults: Nat, calls: Nat]
          /\ count'.calls = count.calls /\ count'.faults = count.faults
          /\ count'.created[j] = count.created[j] + 1
          /\ \A k \in Jobs \ {j} : count'.created[k] = count.created[k]
      <3> DEFINE created == [count.created EXCEPT ![j] = count.created[j] + 1]
      <3>1. count \in [adds: Nat, created: [Jobs -> Nat], faults: Nat, calls: Nat]
        BY JobFacts
      <3>2. /\ created \in [Jobs -> Nat] /\ created[j] = count.created[j] + 1
            /\ \A k \in Jobs \ {j} : created[k] = count.created[k]
        BY <3>1
      <3>3. count' = [count EXCEPT !.adds = count.adds + 1, !.created = created]
        BY <2>1, <3>1
      <3> HIDE DEF created
      <3>4. PICK c \in [Jobs -> Nat] : c = created
        BY <3>2
      <3>5. /\ count'.adds = count.adds + 1 /\ count'.created = c
            /\ count'.faults = count.faults /\ count'.calls = count.calls
        BY <3>1, <3>3, <3>4
      <3>6. count' \in [adds: Nat, created: [Jobs -> Nat], faults: Nat, calls: Nat]
        <4>1. count' = [count EXCEPT !.adds = count.adds + 1, !.created = c]
          BY <3>3, <3>4
        <4>2. PICK adds \in Nat : adds = count.adds + 1
          BY <3>1
        <4>3. count' = [count EXCEPT !.adds = adds, !.created = c]
          BY <4>1, <4>2
        <4> HIDE <3>4, <3>3
        <4> QED BY <3>1, <4>3
      <3> QED BY <3>2, <3>4, <3>5, <3>6
    <2>4. CallsOK /\ Answers' = Answers /\ Answers \in Nat
      BY <1>1, <2>3, CallsKept, JobFacts DEF Answers, Pending
    <2> HIDE DEF Answers
    <2>5. Shape'
      BY <1>1, <2>2, <2>3, JobFacts DEF Shape, Becomes
    <2>6. ASSUME j \in Emails PROVE Paid(j)'
      <3>1. Strays(j)' = Strays(j)
        BY <1>1, <1>2, <2>2, JobFacts, MarksOK, SameStrays DEF Becomes
      <3>2. ToSend(j) = 0 /\ ToSend(j)' = 1
        BY <1>2, <2>2, MarksOK DEF ToSend, SentByOwner, Becomes
      <3> QED BY <1>1, <2>3, <2>5, <2>6, <3>1, <3>2, JobFacts, PaidKept
    <2>7. job'[j] # Absent
      BY <2>2, MarksOK DEF Becomes
    <2> QED BY <1>1, <2>2, <2>3, <2>4, <2>6, <2>7, JobFacts, JobStep
            DEF States, Unfinished, Attempts, MaxStalledCount
  <1>3. CASE job[j] # Absent
    <2>1. job' = job /\ count' = [count EXCEPT !.adds = @ + 1]
      BY <1>3 DEF Add
    <2>2. /\ count' \in [adds: Nat, created: [Jobs -> Nat], faults: Nat, calls: Nat]
          /\ count'.calls = count.calls /\ count'.faults = count.faults
          /\ count'.created = count.created
      BY <2>1, JobFacts
    <2>3. CallsOK /\ admin' \in [Admins -> Calls \cup {NoCall}]
      BY <1>1, <2>2, CallsKept, JobFacts
    <2> QED BY <1>1, <2>1, <2>2, <2>3, UnchangedJob
  <1> QED BY <1>2, <1>3

-----------------------------------------------------------------------------
(* The steps of the workers *)

LEMMA RunFacts ==
  ASSUME JobInv, NEW w \in Workers, run[w].step # "idle"
  PROVE  /\ run[w] \in RunRecords /\ run[w].job \in Jobs /\ run[w].file \in Files
         /\ run[w].step \in {"started", "writing", "written", "done"} /\ Achieved(w)
         /\ run \in [Workers -> RunRecords \cup {NoRun}]
  BY DEF JobInv, Shape, RunRecords, NoRun

\* A step of one run, about one job, keeps the invariant.
LEMMA RunStep ==
  ASSUME JobInv, NEW w \in Workers, NEW j \in Jobs, NEW r \in RunRecords \cup {NoRun},
         run[w].job \in {j, NoRun.job}, r.job \in {j, NoRun.job},
         run' = [run EXCEPT ![w] = r], Achieved(w)',
         job' \in [Jobs -> JobRecords], \A k \in Jobs \ {j} : job'[k] = job[k],
         Locks(j)', Tries(j)', job'[j] = Absent => job[j] = Absent,
         job'[j].state = "completed" => Done(j)' \/ job[j].state = "completed",
         sent' \in [Emails -> Nat], \A k \in Emails \ {j} : sent'[k] = sent[k],
         path' \in [Receipts -> Files], \A k \in Receipts \ {j} : path'[k] = path[k],
         j \in Receipts => path'[j] \in {NoFile, "complete"}, Done(j) => Done(j)',
         j \in Emails => Paid(j)',
         count' \in [adds: Nat, created: [Jobs -> Nat], faults: Nat, calls: Nat],
         count'.created = count.created, count'.calls = count.calls,
         count.faults <= count'.faults,
         admin' = admin, dropped' = dropped, queue' = queue
  PROVE  JobInv'
  <1>1. Shape' /\ run \in [Workers -> RunRecords \cup {NoRun}]
    BY DEF JobInv, Shape
  <1>2. About(j)
    BY <1>1 DEF About
  <1>3. ASSUME NEW v \in Workers, run'[v] # run[v] PROVE Achieved(v)'
    <2>1. v = w
      BY <1>1, <1>3
    <2> QED BY <2>1
  <1>4. job'[j].state = "completed" \/ (job'[j] = Absent /\ count'.created[j] > 0) =>
          Done(j)' \/ j \in dropped'
    BY JobFacts
  <1>5. Owes(j)
    BY <1>4 DEF Owes
  <1>6. CallsOK
    BY CallsKept
  <1> QED BY <1>1, <1>2, <1>3, <1>5, <1>6, StepKeeps

LEMMA JobKept ==
  ASSUME JobInv, NEW j \in Jobs, job' = job, admin' = admin, queue' = queue,
         count'.calls = count.calls
  PROVE  Locks(j)' /\ Tries(j)'
  <1>1. Locks(j) /\ Tries(j)
    BY JobFacts
  <1>2. Answers' = Answers
    BY DEF Answers, Pending
  <1> HIDE DEF Answers
  <1> QED BY <1>1, <1>2 DEF Locks, Tries

LEMMA OneFaultMore ==
  ASSUME JobInv, Fault
  PROVE  /\ count' \in [adds: Nat, created: [Jobs -> Nat], faults: Nat, calls: Nat]
         /\ count'.created = count.created /\ count'.calls = count.calls
         /\ count'.faults = count.faults + 1 /\ count.faults \in Nat
  BY DEF JobInv, Shape, Fault

\* A worker that goes past sending, or stops, is no stray any more.
LEMMA StrayGone ==
  ASSUME Shape, NEW w \in Workers, NEW j \in Jobs, NEW r \in RunRecords \cup {NoRun},
         run' = [run EXCEPT ![w] = r], r = NoRun \/ r.step # "started",
         \/ job'[j].owner = job[j].owner
         \/ job[j].owner = w /\ job'[j].owner = Nobody
  PROVE  Strays(j)' = Strays(j) \ {w}
  <1>1. run'[w] = r /\ \A v \in Workers \ {w} : run'[v] = run[v]
    BY DEF Shape
  <1>2. r.job # j \/ r.step # "started"
    BY MarksAssumption
  <1> QED BY <1>1, <1>2, MarksAssumption DEF Strays

\* What a stray does leaves the job itself alone.
LEMMA StrayAlone ==
  ASSUME JobInv, NEW w \in Workers, NEW j \in Jobs, NEW r \in RunRecords \cup {NoRun},
         run' = [run EXCEPT ![w] = r], job[j].owner # w, job' = job
  PROVE  ToSend(j)' = ToSend(j)
  <1>1. job[j].state = "active" => run'[job[j].owner] = run[job[j].owner]
    BY JobFacts DEF Shape
  <1> QED BY <1>1 DEF ToSend, SentByOwner

\* A run that ends or sends: what it still may send pays for what it sends.
LEMMA PaidStep ==
  ASSUME JobInv, Shape', NEW w \in Workers, NEW j \in Emails, Strays(j)' = Strays(j) \ {w},
         count'.created = count.created,
         sent'[j] + ToSend(j)' + count.faults
           <= sent[j] + ToSend(j) + (IF w \in Strays(j) THEN 1 ELSE 0) + count'.faults
  PROVE  Paid(j)'
  <1>1. Paid(j) /\ j \in Jobs
    BY DEF JobInv, Jobs
  <1>2. /\ sent[j] \in Nat /\ Cardinality(Strays(j)) \in Nat /\ ToSend(j) \in Nat
        /\ count.created[j] \in Nat /\ count.faults \in Nat
        /\ count'.faults \in Nat /\ ToSend(j)' \in Nat /\ sent'[j] \in Nat
    BY <1>1, FS_CardinalityType, NatTypes DEF JobInv, Paid, ToSend, Shape
  <1>3. /\ IsFiniteSet(Strays(j)')
        /\ Cardinality(Strays(j)')
             = Cardinality(Strays(j)) - (IF w \in Strays(j) THEN 1 ELSE 0)
    BY <1>1, <1>2, FS_RemoveElement DEF Paid
  <1> QED BY <1>1, <1>2, <1>3 DEF Paid

LEMMA TakeKeeps ==
  ASSUME JobInv, queue' = queue, NEW j \in Jobs, NEW w \in Workers, Take(w, j)
  PROVE  JobInv'
  <1>1. /\ run[w] = NoRun /\ job[j].state = "waiting"
        /\ job' = [job EXCEPT ![j].state = "active", ![j].owner = w]
        /\ sent' = sent /\ path' = path /\ admin' = admin /\ count' = count
        /\ dropped' = dropped
    BY DEF Take, effects
  <1>2. PICK r \in RunRecords : r = [job |-> j, step |-> "started", file |-> NoFile]
    BY DEF RunRecords, Files
  <1>3. run' = [run EXCEPT ![w] = r] /\ r.job = j /\ r.step = "started"
    BY <1>2 DEF Take
  <1>4. Becomes(j, "active", job[j].attempts, job[j].stalls, w)
    BY <1>1, JobFacts DEF Shape, Becomes, JobRecords, States
  <1>5. Shape' /\ run'[w] = r /\ \A v \in Workers \ {w} : run'[v] = run[v]
    BY <1>1, <1>3, <1>4, JobFacts DEF Shape, Becomes
  <1>6. Achieved(w)'
    BY <1>3, <1>5 DEF Achieved
  <1>7. Answers' = Answers
    BY <1>1 DEF Answers, Pending
  <1> HIDE DEF Answers
  <1>8. Locks(j)' /\ Tries(j)' /\ job'[j] # Absent
    <2>1. job'[j] # Absent
      BY <1>4 DEF Becomes, Absent
    <2>2. Locks(j)'
      <3>1. job[j] # Absent
        BY <1>1, MarksOK
      <3>2. j \in QueueOf[queue]
        BY <3>1, JobFacts DEF Locks
      <3>3. job'[j].state = "active" /\ job'[j].owner # Nobody
        BY <1>4, MarksAssumption DEF Becomes
      <3> QED BY <3>2, <3>3 DEF Locks
    <2>3. Tries(j)'
      BY <1>1, <1>4, <1>7, JobFacts DEF Tries, Unfinished, Becomes
    <2> QED BY <2>1, <2>2, <2>3
  <1>9. Done(j) => Done(j)'
    BY <1>1 DEF Done
  <1>10. ASSUME j \in Emails PROVE Paid(j)'
    <2>1. job[j].owner = Nobody /\ job'[j].owner = w
      BY <1>1, <1>4, JobFacts DEF Locks, Becomes
    <2>2. Strays(j)' = Strays(j)
      BY <1>1, <1>3, <1>5, <2>1, MarksAssumption DEF Strays
    <2>3. ToSend(j) = 1 /\ ToSend(j)' = 1
      BY <1>1, <1>3, <1>4, <1>5, <2>1 DEF ToSend, SentByOwner, Becomes
    <2> QED BY <1>1, <1>5, <1>10, <2>2, <2>3, JobFacts, PaidKept
  <1>11. job'[j].state # "completed" /\ \A k \in Jobs \ {j} : job'[k] = job[k]
    BY <1>4 DEF Becomes
  <1>12. j \in Receipts => path'[j] \in {NoFile, "complete"}
    BY <1>1 DEF JobInv, ReceiptExists
  <1>13. /\ sent' \in [Emails -> Nat] /\ path' \in [Receipts -> Files]
         /\ count' \in [adds: Nat, created: [Jobs -> Nat], faults: Nat, calls: Nat]
         /\ job' \in [Jobs -> JobRecords] /\ count.faults <= count'.faults
    BY <1>1, <1>5, JobFacts DEF Shape
  <1> QED BY <1>1, <1>3, <1>6, <1>8, <1>9, <1>10, <1>11, <1>12, <1>13, RunStep

LEMMA DieKeeps ==
  ASSUME JobInv, queue' = queue, NEW w \in Workers, run[w].step # "idle", Die(w)
  PROVE  JobInv'
  <1>1. /\ run' = [run EXCEPT ![w] = NoRun] /\ Fault
        /\ job' = job /\ sent' = sent /\ path' = path /\ admin' = admin
        /\ dropped' = dropped
    BY DEF Die, effects
  <1>2. PICK r \in RunRecords \cup {NoRun} : r = NoRun
    OBVIOUS
  <1>3. PICK j \in Jobs : j = run[w].job
    BY RunFacts
  <1>4. /\ count' \in [adds: Nat, created: [Jobs -> Nat], faults: Nat, calls: Nat]
        /\ count'.created = count.created /\ count'.calls = count.calls
        /\ count'.faults = count.faults + 1 /\ count.faults \in Nat
    BY <1>1, OneFaultMore
  <1>5. Shape' /\ run'[w] = NoRun
    BY <1>1, <1>4, JobFacts DEF Shape
  <1>6. Locks(j)' /\ Tries(j)'
    BY <1>1, <1>4, JobKept
  <1>7. Achieved(w)'
    BY <1>5 DEF Achieved, NoRun
  <1>8. Done(j) => Done(j)'
    BY <1>1 DEF Done
  <1>9. ASSUME j \in Emails PROVE Paid(j)'
    <2>1. Strays(j)' = Strays(j) \ {w}
      BY <1>1, <1>2, JobFacts, StrayGone
    <2>2. ToSend(j) \in {0, 1} /\ ToSend(j)' \in {0, 1}
      BY DEF ToSend
    <2>3. sent[j] \in Nat
      BY <1>9, JobFacts, NatTypes
    <2> QED BY <1>1, <1>4, <1>5, <1>9, <2>1, <2>2, <2>3, PaidStep
  <1>10. j \in Receipts => path'[j] \in {NoFile, "complete"}
    BY <1>1 DEF JobInv, ReceiptExists
  <1>11. /\ sent' \in [Emails -> Nat] /\ path' \in [Receipts -> Files]
         /\ job' \in [Jobs -> JobRecords] /\ count.faults <= count'.faults
    BY <1>1, <1>4, <1>5 DEF Shape
  <1> QED BY <1>1, <1>2, <1>3, <1>4, <1>6, <1>7, <1>8, <1>9, <1>10, <1>11, RunStep

LEMMA SendKeeps ==
  ASSUME JobInv, queue' = queue, NEW w \in Workers, Send(w)
  PROVE  JobInv'
  <1>0. run[w].step = "started" /\ run[w].job \in Emails
    BY DEF Send, At
  <1>1. PICK j \in Jobs : j = run[w].job /\ j \in Emails /\ j \notin Receipts
    BY <1>0, JobAssumption DEF Jobs
  <1>2. /\ sent' = [sent EXCEPT ![j] = @ + 1] /\ run' = [run EXCEPT ![w].step = "done"]
        /\ job' = job /\ path' = path /\ admin' = admin /\ count' = count
        /\ dropped' = dropped
    BY <1>1 DEF Send, GoesOn
  <1>3. PICK r \in RunRecords : r = [run[w] EXCEPT !.step = "done"]
    BY <1>0, RunFacts DEF RunRecords
  <1>4. r.job = j /\ r.step = "done" /\ run' = [run EXCEPT ![w] = r]
    BY <1>0, <1>1, <1>2, <1>3, RunFacts DEF RunRecords
  <1>5. Shape' /\ run'[w] = r /\ sent'[j] = sent[j] + 1 /\ sent[j] \in Nat
    BY <1>1, <1>2, <1>4, JobFacts DEF Shape
  <1>6. Locks(j)' /\ Tries(j)'
    BY <1>2, JobKept
  <1>7. Done(j)'
    BY <1>1, <1>5 DEF Done
  <1>8. Achieved(w)'
    BY <1>4, <1>5, <1>7 DEF Achieved
  <1>9. Paid(j)'
    <2>1. Strays(j)' = Strays(j) \ {w}
      BY <1>2, <1>4, JobFacts, StrayGone
    <2>2. CASE job[j].owner = w
      <3>1. ToSend(j) = 1 /\ ToSend(j)' = 0
        BY <1>0, <1>1, <1>2, <1>4, <1>5, <2>2, MarksAssumption, JobFacts
           DEF ToSend, SentByOwner, Locks
      <3> QED BY <1>1, <1>2, <1>5, <2>1, <3>1, JobFacts, PaidStep
    <2>3. CASE job[j].owner # w
      <3>1. w \in Strays(j)
        BY <1>0, <1>1, <2>3 DEF Strays
      <3>2. ToSend(j)' = ToSend(j) /\ ToSend(j) \in {0, 1}
        BY <1>2, <1>4, <2>3, StrayAlone DEF ToSend
      <3> QED BY <1>1, <1>2, <1>5, <2>1, <3>1, <3>2, JobFacts, PaidStep
    <2> QED BY <2>2, <2>3
  <1>10. /\ sent' \in [Emails -> Nat] /\ path' \in [Receipts -> Files]
         /\ count' \in [adds: Nat, created: [Jobs -> Nat], faults: Nat, calls: Nat]
         /\ job' \in [Jobs -> JobRecords] /\ count.faults <= count'.faults
         /\ \A k \in Emails \ {j} : sent'[k] = sent[k]
    BY <1>2, <1>5, JobFacts DEF Shape
  <1> QED BY <1>1, <1>2, <1>4, <1>6, <1>7, <1>8, <1>9, <1>10, RunStep

\* Writing a receipt: the job and the e-mails stay as they are.
LEMMA ReceiptStep ==
  ASSUME JobInv, queue' = queue, NEW w \in Workers, run[w].step # "idle",
         NEW j \in Receipts, j = run[w].job, NEW r \in RunRecords, r.job = j,
         run' = [run EXCEPT ![w] = r], r.step = "written" => r.file = "complete",
         r.step = "done" => path'[j] # NoFile,
         path' \in [Receipts -> Files], \A k \in Receipts \ {j} : path'[k] = path[k],
         path'[j] \in {NoFile, "complete"}, path[j] # NoFile => path'[j] # NoFile,
         job' = job, sent' = sent, admin' = admin, count' = count, dropped' = dropped
  PROVE  JobInv'
  <1>1. j \in Jobs /\ j \notin Emails
    BY JobAssumption DEF Jobs
  <1>2. run'[w] = r
    BY RunFacts
  <1>3. Done(j) => Done(j)'
    BY <1>1 DEF Done
  <1>4. Achieved(w)'
    BY <1>1, <1>2 DEF Achieved, Done
  <1>5. Locks(j)' /\ Tries(j)'
    BY <1>1, JobKept
  <1>6. /\ sent' \in [Emails -> Nat] /\ job' \in [Jobs -> JobRecords]
        /\ count' \in [adds: Nat, created: [Jobs -> Nat], faults: Nat, calls: Nat]
        /\ count.faults <= count'.faults
    BY <1>1, JobFacts DEF Shape
  <1> QED BY <1>1, <1>3, <1>4, <1>5, <1>6, RunStep

LEMMA GenerateKeeps ==
  ASSUME JobInv, queue' = queue, NEW w \in Workers, Generate(w)
  PROVE  JobInv'
  <1>1. /\ run[w].step = "started"
        /\ run' = [run EXCEPT ![w].step = "writing", ![w].file = "partial"]
        /\ job' = job /\ sent' = sent /\ path' = path /\ admin' = admin
        /\ count' = count /\ dropped' = dropped
    BY DEF Generate, At, effects
  <1>2. PICK j \in Receipts : j = run[w].job
    BY DEF Generate
  <1>3. PICK r \in RunRecords : r = [run[w] EXCEPT !.step = "writing", !.file = "partial"]
    BY <1>1, RunFacts DEF RunRecords, Files
  <1>4. r.job = j /\ r.step = "writing" /\ run' = [run EXCEPT ![w] = r]
    BY <1>1, <1>2, <1>3, RunFacts DEF RunRecords
  <1>5. path \in [Receipts -> Files] /\ path[j] \in {NoFile, "complete"}
    BY DEF JobInv, Shape, ReceiptExists
  <1> QED BY <1>1, <1>2, <1>4, <1>5, ReceiptStep

LEMMA FinishFileKeeps ==
  ASSUME JobInv, queue' = queue, NEW w \in Workers, FinishFile(w)
  PROVE  JobInv'
  <1>1. /\ run[w].step = "writing"
        /\ run' = [run EXCEPT ![w].step = "written", ![w].file = "complete"]
        /\ job' = job /\ sent' = sent /\ path' = path /\ admin' = admin
        /\ count' = count /\ dropped' = dropped
    BY DEF FinishFile, At, effects
  <1>2. PICK j \in Receipts : j = run[w].job
    BY <1>1, RunFacts DEF Achieved
  <1>3. PICK r \in RunRecords : r = [run[w] EXCEPT !.step = "written", !.file = "complete"]
    BY <1>1, RunFacts DEF RunRecords, Files
  <1>4. /\ r.job = j /\ r.step = "written" /\ r.file = "complete"
        /\ run' = [run EXCEPT ![w] = r]
    BY <1>1, <1>2, <1>3, RunFacts DEF RunRecords
  <1>5. path \in [Receipts -> Files] /\ path[j] \in {NoFile, "complete"}
    BY DEF JobInv, Shape, ReceiptExists
  <1> QED BY <1>1, <1>2, <1>4, <1>5, ReceiptStep

\* What the path of the invoice becomes when the run at "written" saves it.
LEMMA PathSaved ==
  ASSUME JobInv, NEW w \in Workers, run[w].step = "written",
         NEW j \in Receipts, j = run[w].job, path' = [path EXCEPT ![j] = run[w].file]
  PROVE  /\ path' \in [Receipts -> Files] /\ path'[j] = "complete"
         /\ \A k \in Receipts \ {j} : path'[k] = path[k]
  <1>1. run[w].file = "complete" /\ path \in [Receipts -> Files]
    BY RunFacts DEF Achieved, JobInv, Shape
  <1> QED BY <1>1 DEF Files

LEMMA SavePathKeeps ==
  ASSUME JobInv, queue' = queue, NEW w \in Workers, SavePath(w)
  PROVE  JobInv'
  <1>0. run[w].step = "written"
    BY DEF SavePath, At
  <1>1. PICK j \in Receipts : j = run[w].job
    BY <1>0, RunFacts DEF Achieved
  <1>2. /\ path' = [path EXCEPT ![j] = run[w].file] /\ run' = [run EXCEPT ![w].step = "done"]
        /\ job' = job /\ sent' = sent /\ admin' = admin /\ count' = count
        /\ dropped' = dropped
    BY <1>1 DEF SavePath, GoesOn
  <1>3. PICK r \in RunRecords : r = [run[w] EXCEPT !.step = "done"]
    BY <1>0, RunFacts DEF RunRecords
  <1>4. r.job = j /\ r.step = "done" /\ run' = [run EXCEPT ![w] = r]
    BY <1>0, <1>1, <1>2, <1>3, RunFacts DEF RunRecords
  <1>5. /\ path' \in [Receipts -> Files] /\ path'[j] = "complete"
        /\ \A k \in Receipts \ {j} : path'[k] = path[k]
    BY <1>0, <1>1, <1>2, PathSaved
  <1>6. "complete" # NoFile
    BY DEF NoFile
  <1> QED BY <1>0, <1>1, <1>2, <1>4, <1>5, <1>6, ReceiptStep

\* A run that returns: the job of its owner is completed.
LEMMA CompleteKeeps ==
  ASSUME JobInv, queue' = queue, NEW w \in Workers, Complete(w)
  PROVE  JobInv'
  <1>0. run[w].step = "done"
    BY DEF Complete, At
  <1>1. PICK j \in Jobs : j = run[w].job
    BY <1>0, RunFacts
  <1>2. /\ IF job[j].owner = w THEN SetState(j, "completed") ELSE job' = job
        /\ run' = [run EXCEPT ![w] = NoRun] /\ sent' = sent /\ path' = path
        /\ admin' = admin /\ count' = count /\ dropped' = dropped
    BY <1>1 DEF Complete, Owns, effects
  <1>3. PICK r \in RunRecords \cup {NoRun} : r = NoRun
    OBVIOUS
  <1>4. Done(j) /\ Done(j)'
    BY <1>0, <1>1, <1>2, RunFacts DEF Achieved, Done
  <1>5. Answers' = Answers
    BY <1>2 DEF Answers, Pending
  <1> HIDE DEF Answers
  <1>6. CASE job[j].owner = w
    <2>1. Becomes(j, "completed", job[j].attempts, job[j].stalls, Nobody)
      BY <1>2, <1>6, JobFacts, SetStateOK DEF States
    <2>2. job[j].state = "active" /\ job[j] # Absent
      BY <1>6, JobFacts, MarksOK, MarksAssumption DEF Locks
    <2>3. Shape' /\ run'[w] = NoRun
      BY <1>2, <2>1, JobFacts DEF Shape, Becomes
    <2>4. Locks(j)' /\ Tries(j)' /\ job'[j] # Absent
      BY <1>2, <1>5, <2>1, <2>2, JobFacts, MarksOK DEF Becomes, Locks, Tries, Unfinished,
         Attempts, MaxStalledCount
    <2>5. ASSUME j \in Emails PROVE Paid(j)'
      <3>1. Strays(j)' = Strays(j) \ {w}
        BY <1>2, <1>3, <1>6, <2>1, JobFacts, StrayGone DEF Becomes
      <3>2. ToSend(j) \in {0, 1} /\ ToSend(j)' = 0 /\ sent[j] \in Nat
        BY <2>1, <2>5, JobFacts, NatTypes DEF ToSend, Becomes
      <3> QED BY <1>2, <2>3, <2>5, <3>1, <3>2, JobFacts, PaidStep
    <2>6. Achieved(w)'
      BY <2>3 DEF Achieved, NoRun
    <2>7. /\ sent' \in [Emails -> Nat] /\ path' \in [Receipts -> Files]
          /\ count' \in [adds: Nat, created: [Jobs -> Nat], faults: Nat, calls: Nat]
          /\ job' \in [Jobs -> JobRecords] /\ count.faults <= count'.faults
          /\ \A k \in Jobs \ {j} : job'[k] = job[k]
      BY <1>2, <2>1, <2>3, JobFacts DEF Shape, Becomes
    <2>8. j \in Receipts => path'[j] \in {NoFile, "complete"}
      BY <1>2 DEF JobInv, ReceiptExists
    <2> QED BY <1>1, <1>2, <1>3, <1>4, <2>4, <2>5, <2>6, <2>7, <2>8, RunStep
  <1>7. CASE job[j].owner # w
    <2>1. job' = job
      BY <1>2, <1>7
    <2>2. Shape' /\ run'[w] = NoRun
      BY <1>2, <2>1, JobFacts DEF Shape
    <2>3. Locks(j)' /\ Tries(j)'
      BY <1>2, <2>1, JobKept
    <2>4. ASSUME j \in Emails PROVE Paid(j)'
      <3>1. Strays(j)' = Strays(j) \ {w}
        BY <1>2, <1>3, <2>1, JobFacts, StrayGone
      <3>2. ToSend(j)' = ToSend(j) /\ ToSend(j) \in {0, 1} /\ sent[j] \in Nat
        BY <1>2, <1>3, <1>7, <2>1, <2>4, StrayAlone, JobFacts, NatTypes DEF ToSend
      <3> QED BY <1>2, <2>2, <2>4, <3>1, <3>2, JobFacts, PaidStep
    <2>5. Achieved(w)'
      BY <2>2 DEF Achieved, NoRun
    <2>6. /\ sent' \in [Emails -> Nat] /\ path' \in [Receipts -> Files]
          /\ count' \in [adds: Nat, created: [Jobs -> Nat], faults: Nat, calls: Nat]
          /\ job' \in [Jobs -> JobRecords] /\ count.faults <= count'.faults
      BY <1>2, <2>1, <2>2, JobFacts DEF Shape
    <2>7. j \in Receipts => path'[j] \in {NoFile, "complete"}
      BY <1>2 DEF JobInv, ReceiptExists
    <2> QED BY <1>1, <1>2, <1>3, <1>4, <2>1, <2>3, <2>4, <2>5, <2>6, <2>7, RunStep
  <1> QED BY <1>6, <1>7

\* A run that throws: the job of its owner has failed once more.
LEMMA FailingStep ==
  ASSUME JobInv, queue' = queue, NEW w \in Workers, NEW j \in Jobs, j = run[w].job,
         run[w].step \in {"started", "writing", "written"},
         job' = IF job[j].owner = w THEN [job EXCEPT ![j] = Failed(j)] ELSE job,
         run' = [run EXCEPT ![w] = NoRun],
         sent' \in [Emails -> Nat], \A k \in Emails \ {j} : sent'[k] = sent[k],
         path' \in [Receipts -> Files], \A k \in Receipts \ {j} : path'[k] = path[k],
         j \in Receipts => path'[j] \in {NoFile, "complete"}, Done(j) => Done(j)',
         j \in Emails => sent'[j] + count.faults <= sent[j] + count'.faults,
         count' \in [adds: Nat, created: [Jobs -> Nat], faults: Nat, calls: Nat],
         count'.created = count.created, count'.calls = count.calls,
         count.faults <= count'.faults, admin' = admin, dropped' = dropped
  PROVE  JobInv'
  <1>1. PICK r \in RunRecords \cup {NoRun} : r = NoRun
    OBVIOUS
  <1>2. Answers' = Answers
    BY DEF Answers, Pending
  <1>3. ASSUME j \in Emails
        PROVE  run[w].step = "started" /\ sent[j] \in Nat /\ sent'[j] \in Nat
               /\ count.faults \in Nat /\ count'.faults \in Nat
    BY <1>3, RunFacts, JobFacts, NatTypes, JobAssumption DEF Achieved
  <1> HIDE DEF Answers
  <1>4. CASE job[j].owner = w
    <2> DEFINE state == IF job[j].attempts + 1 < Attempts THEN "delayed" ELSE "failed"
    <2>1. Becomes(j, state, job[j].attempts + 1, job[j].stalls, Nobody)
      BY <1>4, JobFacts, FailedOK
    <2>2. job[j].state = "active" /\ job[j] # Absent
      BY <1>4, JobFacts, MarksOK, MarksAssumption DEF Locks
    <2>3. /\ job[j].attempts + 1 + (IF state \in Unfinished THEN 1 ELSE 0) <= Attempts + Answers
          /\ job[j].stalls + (IF state \in Unfinished THEN 1 ELSE 0)
               <= MaxStalledCount + 1 + Answers
          /\ state \in {"delayed", "failed"}
      BY <2>2, JobFacts DEF Tries, Unfinished, Attempts, MaxStalledCount
    <2> HIDE DEF state
    <2>4. Shape' /\ run'[w] = NoRun
      BY <2>1, JobFacts DEF Shape, Becomes
    <2>5. Locks(j)' /\ Tries(j)' /\ job'[j] # Absent
      BY <1>2, <2>1, <2>2, <2>3, JobFacts, MarksOK DEF Becomes, Locks, Tries
    <2>6. ASSUME j \in Emails PROVE Paid(j)'
      <3>1. Strays(j)' = Strays(j) \ {w}
        BY <1>1, <1>4, <2>1, JobFacts, StrayGone DEF Becomes
      <3>2. ToSend(j) = 1 /\ ToSend(j)' \in {0, 1}
        BY <1>3, <1>4, <2>2, <2>6 DEF ToSend, SentByOwner
      <3> QED BY <1>3, <2>4, <2>6, <3>1, <3>2, PaidStep
    <2>7. Achieved(w)'
      BY <2>4 DEF Achieved, NoRun
    <2>8. /\ job' \in [Jobs -> JobRecords] /\ \A k \in Jobs \ {j} : job'[k] = job[k]
          /\ job'[j].state # "completed"
      BY <2>1, <2>3 DEF Becomes
    <2> QED BY <1>1, <2>5, <2>6, <2>7, <2>8, RunStep
  <1>5. CASE job[j].owner # w
    <2>1. job' = job
      BY <1>5
    <2>2. Shape' /\ run'[w] = NoRun
      BY <2>1, JobFacts DEF Shape
    <2>3. Locks(j)' /\ Tries(j)'
      BY <2>1, JobKept
    <2>4. ASSUME j \in Emails PROVE Paid(j)'
      <3>1. Strays(j)' = Strays(j) \ {w}
        BY <1>1, <2>1, JobFacts, StrayGone
      <3>2. ToSend(j)' = ToSend(j) /\ ToSend(j) \in {0, 1}
        BY <1>1, <1>5, <2>1, StrayAlone DEF ToSend
      <3> QED BY <1>3, <2>2, <2>4, <3>1, <3>2, PaidStep
    <2>5. Achieved(w)'
      BY <2>2 DEF Achieved, NoRun
    <2>6. job' \in [Jobs -> JobRecords]
      BY <2>1, JobFacts DEF Shape
    <2> QED BY <1>1, <2>1, <2>3, <2>4, <2>5, <2>6, RunStep
  <1> QED BY <1>4, <1>5

LEMMA ThrowKeeps ==
  ASSUME JobInv, queue' = queue, NEW w \in Workers, Throw(w)
  PROVE  JobInv'
  <1>0. run[w].step \in {"started", "writing", "written"}
    BY DEF Throw
  <1>1. PICK j \in Jobs : j = run[w].job
    BY <1>0, RunFacts
  <1>2. /\ job' = IF job[j].owner = w THEN [job EXCEPT ![j] = Failed(j)] ELSE job
        /\ run' = [run EXCEPT ![w] = NoRun] /\ sent' = sent /\ path' = path
        /\ admin' = admin /\ count' = count /\ dropped' = dropped
    BY <1>1 DEF Throw, Owns, effects
  <1>3. /\ sent' \in [Emails -> Nat] /\ path' \in [Receipts -> Files]
        /\ count' \in [adds: Nat, created: [Jobs -> Nat], faults: Nat, calls: Nat]
        /\ count.faults <= count'.faults
        /\ j \in Emails => sent'[j] + count.faults <= sent[j] + count'.faults
    BY <1>2, JobFacts, NatTypes DEF Shape
  <1>4. j \in Receipts => path'[j] \in {NoFile, "complete"}
    BY <1>2 DEF JobInv, ReceiptExists
  <1>5. Done(j) => Done(j)'
    BY <1>2 DEF Done
  <1> QED BY <1>0, <1>1, <1>2, <1>3, <1>4, <1>5, FailingStep

LEMMA ThrowAfterEffectKeeps ==
  ASSUME JobInv, queue' = queue, NEW w \in Workers, ThrowAfterEffect(w)
  PROVE  JobInv'
  <1>0. run[w].step \in {"started", "written"}
    BY DEF ThrowAfterEffect, At
  <1>1. PICK j \in Jobs : j = run[w].job
    BY <1>0, RunFacts
  <1>2. /\ job' = IF job[j].owner = w THEN [job EXCEPT ![j] = Failed(j)] ELSE job
        /\ run' = [run EXCEPT ![w] = NoRun]
        /\ Fault /\ admin' = admin /\ dropped' = dropped
    BY <1>1 DEF ThrowAfterEffect, Owns
  <1>3. /\ count' \in [adds: Nat, created: [Jobs -> Nat], faults: Nat, calls: Nat]
        /\ count'.created = count.created /\ count'.calls = count.calls
        /\ count'.faults = count.faults + 1 /\ count.faults \in Nat
    BY <1>2, OneFaultMore
  <1>4. sent \in [Emails -> Nat] /\ path \in [Receipts -> Files] /\ ReceiptExists
    BY DEF JobInv, Shape
  <1>5. CASE /\ run[w].step = "started" /\ j \in Emails
             /\ sent' = [sent EXCEPT ![j] = @ + 1] /\ path' = path
    <2>1. /\ sent' \in [Emails -> Nat] /\ sent'[j] = sent[j] + 1 /\ sent[j] \in Nat
          /\ \A k \in Emails \ {j} : sent'[k] = sent[k]
          /\ j \notin Receipts
      BY <1>4, <1>5, JobAssumption
    <2>2. Done(j)'
      BY <1>5, <2>1 DEF Done
    <2>3. /\ count.faults <= count'.faults
          /\ sent'[j] + count.faults <= sent[j] + count'.faults
          /\ path' \in [Receipts -> Files]
      BY <1>3, <1>4, <1>5, <2>1
    <2> QED BY <1>0, <1>1, <1>2, <1>3, <1>5, <2>1, <2>2, <2>3, FailingStep
  <1>6. CASE run[w].step = "written" /\ path' = [path EXCEPT ![j] = run[w].file] /\ sent' = sent
    <2>1. j \in Receipts /\ j \notin Emails
      BY <1>0, <1>1, <1>6, RunFacts, JobAssumption DEF Achieved
    <2>2. /\ path' \in [Receipts -> Files] /\ path'[j] = "complete"
          /\ \A k \in Receipts \ {j} : path'[k] = path[k]
      BY <1>1, <1>6, <2>1, PathSaved
    <2>3. Done(j)'
      BY <2>1, <2>2 DEF Done, NoFile
    <2>4. /\ count.faults <= count'.faults /\ sent' \in [Emails -> Nat]
          /\ \A k \in Emails \ {j} : sent'[k] = sent[k]
      BY <1>3, <1>4, <1>6
    <2> QED BY <1>0, <1>1, <1>2, <1>3, <2>1, <2>2, <2>3, <2>4, FailingStep
  <1> QED BY <1>1, <1>5, <1>6 DEF ThrowAfterEffect, At

-----------------------------------------------------------------------------
(* The theorems *)

LEMMA InitJobInv == Init => JobInv
  <1> SUFFICES ASSUME Init PROVE JobInv
    OBVIOUS
  <1>1. /\ queue \in DOMAIN QueueOf
        /\ job = [j \in Jobs |-> Absent] /\ run = [w \in Workers |-> NoRun]
        /\ sent = [j \in Emails |-> 0] /\ path = [j \in Receipts |-> NoFile]
        /\ admin = [a \in Admins |-> NoCall] /\ dropped = {}
        /\ count = [adds |-> 0, created |-> [j \in Jobs |-> 0], faults |-> 0, calls |-> 0]
    BY DEF Init
  <1>2. Shape
    BY <1>1, MarksOK DEF Shape, Files
  <1>3. Pending = {} /\ IsFiniteSet(Pending) /\ Cardinality(Pending) = 0
    BY <1>1, FS_EmptySet DEF Pending
  <1>4. Answers = 0 /\ count.calls = 0 /\ count.faults = 0 /\ \A j \in Jobs : count.created[j] = 0
    BY <1>1, <1>3 DEF Answers
  <1>5. ASSUME NEW j \in Jobs PROVE Locks(j) /\ Tries(j)
    <2>1. job[j] = Absent
      BY <1>1
    <2> HIDE DEF Answers
    <2> QED BY <1>4, <2>1, MarksOK DEF Locks, Tries, Unfinished, Attempts, MaxStalledCount
  <1>6. ASSUME NEW w \in Workers PROVE Achieved(w)
    BY <1>1 DEF Achieved, NoRun
  <1>7. ReceiptExists
    BY <1>1 DEF ReceiptExists
  <1>8. DoneOrDropped
    BY <1>1, <1>4, MarksOK DEF DoneOrDropped
  <1>9. ASSUME NEW j \in Emails PROVE Paid(j)
    <2>1. Strays(j) = {} /\ sent[j] = 0 /\ j \in Jobs
      BY <1>1 DEF Strays, NoRun, Jobs
    <2>2. ToSend(j) = 0
      BY <1>1, <2>1, MarksOK DEF ToSend
    <2> QED BY <1>4, <2>1, <2>2, FS_EmptySet DEF Paid
  <1> QED BY <1>2, <1>3, <1>4, <1>5, <1>6, <1>7, <1>8, <1>9 DEF JobInv

LEMMA NextJobInv == JobInv /\ [Next]_<<queue, vars>> => JobInv'
  <1> SUFFICES ASSUME JobInv, [Next]_<<queue, vars>> PROVE JobInv'
    OBVIOUS
  <1>1. CASE UNCHANGED <<queue, vars>>
    <2>1. /\ job' = job /\ run' = run /\ sent' = sent /\ path' = path /\ queue' = queue
          /\ admin' = admin /\ count' = count /\ dropped' = dropped
      BY <1>1 DEF vars
    <2>2. CallsOK
      BY <2>1, CallsKept
    <2>3. /\ admin' \in [Admins -> Calls \cup {NoCall}]
          /\ count' \in [adds: Nat, created: [Jobs -> Nat], faults: Nat, calls: Nat]
      BY <2>1 DEF JobInv, Shape
    <2> QED BY <2>1, <2>2, <2>3, UnchangedJob
  <1>2. CASE Next
    <2>0. queue' = queue
      BY <1>2 DEF Next
    <2>1. ASSUME NEW j \in Jobs,
                 Add(j) \/ Promote(j) \/ Stalled(j) \/ LockLost(j) \/ Forget(j)
          PROVE  JobInv'
      BY <2>0, <2>1, AddKeeps, PromoteKeeps, StalledKeeps, LockLostKeeps, ForgetKeeps
    <2>2. ASSUME NEW j \in Jobs, NEW w \in Workers, Take(w, j) PROVE JobInv'
      BY <2>0, <2>2, TakeKeeps
    <2>3. ASSUME NEW j \in Jobs, NEW a \in Admins, Administer(a, j) PROVE JobInv'
      BY <2>0, <2>3, AdministerKeeps
    <2>4. ASSUME NEW w \in Workers, Works(w) PROVE JobInv'
      BY <2>0, <2>4, SendKeeps, GenerateKeeps, FinishFileKeeps, SavePathKeeps, CompleteKeeps
         DEF Works
    <2>5. ASSUME NEW w \in Workers, Throw(w) \/ ThrowAfterEffect(w) PROVE JobInv'
      BY <2>0, <2>5, ThrowKeeps, ThrowAfterEffectKeeps
    <2>6. ASSUME NEW w \in Workers, Die(w) PROVE JobInv'
      <3>1. run[w].step # "idle"
        BY <2>6 DEF Die, JobInv, Shape, RunRecords
      <3> QED BY <2>0, <2>6, <3>1, DieKeeps
    <2>7. ASSUME NEW a \in Admins, Retry(a) \/ Discard(a) PROVE JobInv'
      BY <2>0, <2>7, RetryKeeps, DiscardKeeps
    <2> QED BY <1>2, <2>1, <2>2, <2>3, <2>4, <2>5, <2>6, <2>7 DEF Next
  <1> QED BY <1>1, <1>2

\* The inductive invariant holds in every reachable state.
LEMMA JobInvariant == Spec => []JobInv
  BY InitJobInv, NextJobInv, PTL DEF Spec

LEMMA JobInvImplies ==
  ASSUME JobInv
  PROVE  TypeOK /\ ReceiptExists /\ DoneOrDropped /\ SentOncePerFault
  <1>1. Shape /\ ReceiptExists /\ DoneOrDropped
    BY DEF JobInv
  <1>2. Cardinality(Pending) \in Nat /\ count.calls \in Nat
    BY <1>1, FS_CardinalityType, NatTypes DEF JobInv
  <1>3. ASSUME NEW j \in Jobs
        PROVE  /\ job[j] # Absent => j \in QueueOf[queue]
               /\ job[j] \in [state: States, attempts: 0 .. Attempts + count.calls,
                             stalls: 0 .. MaxStalledCount + 1 + count.calls,
                             owner: Workers \cup {Nobody}]
    <2>1. Locks(j) /\ Tries(j) /\ job[j] \in JobRecords
      BY <1>1, NatTypes DEF JobInv
    <2>2. /\ job[j].attempts \in 0 .. Attempts + count.calls
          /\ job[j].stalls \in 0 .. MaxStalledCount + 1 + count.calls
      BY <1>2, <2>1 DEF Tries, Answers, Attempts, MaxStalledCount, JobRecords
    <2> QED BY <2>1, <2>2 DEF Locks, JobRecords
  <1>4. job \in [Jobs -> [state: States, attempts: 0 .. Attempts + count.calls,
                          stalls: 0 .. MaxStalledCount + 1 + count.calls,
                          owner: Workers \cup {Nobody}]]
    BY <1>1, <1>3 DEF Shape
  <1>5. ASSUME NEW w \in Workers, run[w] # NoRun
        PROVE  /\ run[w].job \in Jobs
               /\ run[w].step \in {"started", "writing", "written", "done"}
               /\ run[w].step \in {"writing", "written"} => run[w].job \in Receipts
    BY <1>1, <1>5 DEF JobInv, Achieved, Shape, RunRecords
  <1>6. \A j \in Receipts : path[j] \in {NoFile, "partial", "complete"}
    BY <1>1 DEF Shape, Files
  <1>7. TypeOK
    BY <1>3, <1>4, <1>5, <1>6 DEF TypeOK
  <1>8. ASSUME NEW j \in Emails PROVE sent[j] <= count.created[j] + count.faults
    <2>1. Paid(j) /\ j \in Jobs
      BY DEF JobInv, Jobs
    <2>2. /\ Cardinality(Strays(j)) \in Nat /\ ToSend(j) \in Nat /\ sent[j] \in Nat
          /\ count.created[j] \in Nat /\ count.faults \in Nat
      BY <1>1, <2>1, FS_CardinalityType, NatTypes DEF Paid, ToSend
    <2> QED BY <2>1, <2>2 DEF Paid
  <1> QED BY <1>1, <1>7, <1>8 DEF SentOncePerFault

\* A job has one of BullMQ's states and a bounded number of attempts and stalls:
\* the code of the API and of BullMQ never tries one more often than it was allowed
\* to, three times and once for every call of an administrator.
THEOREM JobTypeCorrect == Spec => []TypeOK
  BY JobInvariant, JobInvImplies, PTL

\* However many runs of settlement-receipt.handler.ts overlap, throw or die, the
\* path in the invoice names a receipt that was written in full.
THEOREM ReceiptsExist == Spec => []ReceiptExists
  BY JobInvariant, JobInvImplies, PTL

\* A job that has completed, or was created and is gone, has had its effect, unless
\* an administrator discarded it or it was forgotten as failed.
THEOREM JobsAreDone == Spec => []DoneOrDropped
  BY JobInvariant, JobInvImplies, PTL

\* No e-mail goes out more often than its job was created, except once for each
\* fault of the environment: a crash, a lost lock, an answer that was lost.
THEOREM EmailsArePaidFor == Spec => []SentOncePerFault
  BY JobInvariant, JobInvImplies, PTL

=============================================================================
