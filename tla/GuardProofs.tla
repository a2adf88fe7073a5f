------------------------------ MODULE GuardProofs ------------------------------
(***************************************************************************)
(* Proofs about IdempotencyGuard, for any number of requests and polls.    *)
(***************************************************************************)
EXTENDS IdempotencyGuard, TLAPS

\* Where a request is that has found the key FAILED.
Retrying == {"delete", "reinsert", "retry"}

\* As long as no run has failed, nobody retries, the row stays once it is there,
\* and a success is in the row or on its way to it.
NothingFailed ==
  /\ outcomes["FAILED"] = 0
  /\ record.status # "FAILED"
  /\ \A r \in Requests : pc[r] \notin Retrying
  /\ history.begun <= 1
  /\ record = NoRecord => history.begun = 0
  /\ history.succeeded /\ ~ history.lost =>
       record.status = "COMPLETED" \/ outcomes["COMPLETED"] > 0

\* A COMPLETED that is in the row, on its way or replayed has been earned.
Earned ==
  /\ record.status = "COMPLETED" => history.succeeded
  /\ outcomes["COMPLETED"] > 0 => history.succeeded
  /\ \A r \in Requests : pc[r] = "replayed" => history.succeeded

\* A run that is going on, or has succeeded, has begun.
Begun ==
  /\ \A r \in Requests : pc[r] \in Handlers => history.begun > 0
  /\ history.succeeded => history.begun > 0

Safe == Earned /\ Begun /\ (~ history.failed => NothingFailed)

Inv == TypeOK /\ Safe

LEMMA InitInv == Init => Inv
  <1> SUFFICES ASSUME Init PROVE Inv
    OBVIOUS
  <1>1. TypeOK
    <2>1. record \in {NoRecord} /\ created \in BOOLEAN
      BY DEF Init
    <2>2. /\ outcomes \in [{"COMPLETED", "FAILED"} -> Nat]
          /\ pc \in [Requests -> {"idle"}]
          /\ polls \in [Requests -> 0 .. MaxPolls]
          /\ issued \in 0 .. MaxRequests
      BY GuardAssumption DEF Init
    <2>3. history \in [begun: Nat, failed: BOOLEAN, succeeded: BOOLEAN, lost: BOOLEAN]
      BY DEF Init
    <2> QED BY <2>1, <2>2, <2>3 DEF TypeOK
  <1>2. Earned
    BY DEF Init, Earned, NoRecord
  <1>3. Begun
    BY DEF Init, Begun, Handlers
  <1>4. NothingFailed
    BY DEF Init, NothingFailed, NoRecord, Retrying
  <1> QED BY <1>1, <1>2, <1>3, <1>4 DEF Inv, Safe

Histories == [begun: Nat, failed: BOOLEAN, succeeded: BOOLEAN, lost: BOOLEAN]

LEMMA HistoryType ==
  ASSUME NEW h \in Histories
  PROVE  /\ [h EXCEPT !.begun = @ + 1] \in Histories
         /\ [h EXCEPT !.failed = TRUE] \in Histories
         /\ [h EXCEPT !.succeeded = TRUE] \in Histories
         /\ [h EXCEPT !.lost = TRUE] \in Histories
  <1>1. [h EXCEPT !.begun = @ + 1] \in Histories
    BY DEF Histories
  <1>2. [h EXCEPT !.failed = TRUE] \in Histories
    BY DEF Histories
  <1>3. [h EXCEPT !.succeeded = TRUE] \in Histories
    BY DEF Histories
  <1>4. [h EXCEPT !.lost = TRUE] \in Histories
    BY DEF Histories
  <1> QED BY <1>1, <1>2, <1>3, <1>4

LEMMA QueryFailsTouches ==
  ASSUME NEW r \in Requests, QueryFails(r)
  PROVE  /\ record' \in {record, Processing, NoRecord}
         /\ history' \in {history, [history EXCEPT !.lost = TRUE]}
         /\ pc' = [pc EXCEPT ![r] = "error"]
         /\ UNCHANGED <<outcomes, polls, created, issued>>
  <1>1. /\ pc' = [pc EXCEPT ![r] = "error"]
        /\ UNCHANGED <<outcomes, polls, created, issued>>
    BY DEF QueryFails, Goto
  <1>2. CASE UNCHANGED <<record, history>>
    BY <1>1, <1>2
  <1>3. CASE /\ record' = Processing
             /\ history' = [history EXCEPT !.lost = TRUE]
    BY <1>1, <1>3
  <1>4. CASE record' = NoRecord /\ UNCHANGED history
    BY <1>1, <1>4
  <1> QED BY <1>2, <1>3, <1>4 DEF QueryFails

LEMMA QueryFailsType ==
  ASSUME TypeOK, NEW r \in Requests, QueryFails(r)
  PROVE  TypeOK'
  <1>1. history' \in Histories
    <2>1. history \in Histories
      BY DEF TypeOK, Histories
    <2> QED BY <2>1, QueryFailsTouches, HistoryType
  <1>2. /\ record' \in {record, Processing, NoRecord}
        /\ pc' = [pc EXCEPT ![r] = "error"]
        /\ UNCHANGED <<outcomes, polls, created, issued>>
    BY QueryFailsTouches
  <1>3. /\ outcomes' \in [{"COMPLETED", "FAILED"} -> Nat]
        /\ polls' \in [Requests -> 0 .. MaxPolls]
        /\ created' \in BOOLEAN
        /\ issued' \in 0 .. MaxRequests
    BY <1>2 DEF TypeOK
  <1>4. pc' \in [Requests -> {"idle"} \cup Querying \cup Handlers \cup Answers]
    BY <1>2 DEF TypeOK, Answers
  <1>5. record' \in {NoRecord} \cup
                   [status: {"PROCESSING", "COMPLETED", "FAILED"}, expired: BOOLEAN]
    <2>1. Processing \in [status: {"PROCESSING", "COMPLETED", "FAILED"}, expired: BOOLEAN]
      BY DEF Processing
    <2> QED BY <1>2, <2>1 DEF TypeOK
  <1> QED BY <1>1, <1>3, <1>4, <1>5 DEF TypeOK, Histories

LEMMA NextType == TypeOK /\ [Next]_vars => TypeOK'
  <1> SUFFICES ASSUME TypeOK, [Next]_vars PROVE TypeOK'
    OBVIOUS
  <1> USE GuardAssumption DEF TypeOK, Goto, Asks, NoRecord, Processing, Querying,
          Handlers, Answers
  <1>1. ASSUME NEW r \in Requests, Arrive(r)
        PROVE  TypeOK'
    BY <1>1 DEF Arrive
  <1>2. ASSUME NEW r \in Requests, Insert(r)
        PROVE  TypeOK'
    <2>1. CASE record = NoRecord /\ record' = Processing /\ Runs(r, "fresh")
      BY <2>1 DEF Runs
    <2>2. CASE record # NoRecord /\ UNCHANGED record /\ Asks(r, "select")
      BY <2>2
    <2> QED BY <1>2, <2>1, <2>2 DEF Insert
  <1>3. ASSUME NEW r \in Requests, Select(r)
        PROVE  TypeOK'
    BY <1>3 DEF Select
  <1>4. ASSUME NEW r \in Requests, Delete(r)
        PROVE  TypeOK'
    BY <1>4 DEF Delete
  <1>5. ASSUME NEW r \in Requests, Reinsert(r)
        PROVE  TypeOK'
    BY <1>5 DEF Reinsert, Runs
  <1>6. ASSUME NEW r \in Requests, Poll(r)
        PROVE  TypeOK'
    BY <1>6 DEF Poll
  <1>7. ASSUME NEW r \in Requests, PollSelect(r)
        PROVE  TypeOK'
    BY <1>7 DEF PollSelect
  <1>8. ASSUME NEW r \in Requests, GiveUp(r)
        PROVE  TypeOK'
    BY <1>8 DEF GiveUp
  <1>9. ASSUME NEW r \in Requests, Succeed(r)
        PROVE  TypeOK'
    <2>1. history' \in Histories
      BY <1>9, HistoryType DEF Succeed, Histories
    <2>2. outcomes' \in [{"COMPLETED", "FAILED"} -> Nat]
      BY <1>9 DEF Succeed
    <2>3. created' \in BOOLEAN
      BY <1>9 DEF Succeed
    <2>4. pc' \in [Requests -> {"idle"} \cup Querying \cup Handlers \cup Answers]
      BY <1>9 DEF Succeed
    <2> QED BY <1>9, <2>1, <2>2, <2>3, <2>4 DEF Succeed, Histories
  <1>10. ASSUME NEW r \in Requests, HandlerFails(r)
        PROVE  TypeOK'
    <2>1. history' \in Histories
      BY <1>10, HistoryType DEF HandlerFails, Histories
    <2>2. outcomes' \in [{"COMPLETED", "FAILED"} -> Nat]
      BY <1>10 DEF HandlerFails
    <2>3. created' \in BOOLEAN
      BY <1>10 DEF HandlerFails
    <2>4. pc' \in [Requests -> {"idle"} \cup Querying \cup Handlers \cup Answers]
      BY <1>10 DEF HandlerFails
    <2> QED BY <1>10, <2>1, <2>2, <2>3, <2>4 DEF HandlerFails, Histories
  <1>11. ASSUME NEW r \in Requests, Respond(r)
        PROVE  TypeOK'
    BY <1>11 DEF Respond
  <1>12. ASSUME NEW r \in Requests, QueryFails(r)
        PROVE  TypeOK'
    BY <1>12, QueryFailsType
  <1>13. ASSUME NEW status \in DOMAIN outcomes, Record(status)
        PROVE  TypeOK'
    BY <1>13 DEF Record
  <1>14. ASSUME NEW status \in DOMAIN outcomes, UpdateFails(status)
        PROVE  TypeOK'
    <2>1. history' \in Histories
      BY <1>14, HistoryType DEF UpdateFails, Histories
    <2>2. outcomes' \in [{"COMPLETED", "FAILED"} -> Nat]
      BY <1>14 DEF UpdateFails
    <2> QED BY <1>14, <2>1, <2>2 DEF UpdateFails, Histories
  <1>15. CASE Crash
    <2>1. history' \in Histories
      BY <1>15, HistoryType DEF Crash, Histories
    <2>2. /\ outcomes' \in [{"COMPLETED", "FAILED"} -> Nat]
          /\ pc' \in [Requests -> {"idle"}]
          /\ polls' \in [Requests -> 0 .. MaxPolls]
      BY <1>15 DEF Crash
    <2> QED BY <1>15, <2>1, <2>2 DEF Crash, Histories
  <1>16. CASE Expire
    BY <1>16 DEF Expire
  <1>17. CASE UNCHANGED vars
    BY <1>17 DEF vars
  <1> QED BY <1>1, <1>2, <1>3, <1>4, <1>5, <1>6, <1>7, <1>8, <1>9,
           <1>10, <1>11, <1>12, <1>13, <1>14, <1>15, <1>16, <1>17 DEF Next, Step

-----------------------------------------------------------------------------
(* Each action keeps Safe *)

LEMMA ArriveSafe ==
  ASSUME TypeOK, Safe, NEW r \in Requests, Arrive(r)
  PROVE  Safe'
  <1> USE DEF Safe, TypeOK, Goto, Asks, Arrive
  <1>1. Earned'
    BY DEF Earned, NoRecord, Processing, Answers, Handlers
  <1>2. Begun'
    BY DEF Begun, Handlers, Answers
  <1>3. ~ history'.failed => NothingFailed'
    BY DEF NothingFailed, Begun, Earned, NoRecord, Processing, Retrying, Answers, Handlers
  <1> QED BY <1>1, <1>2, <1>3

LEMMA InsertSafe ==
  ASSUME TypeOK, Safe, NEW r \in Requests, Insert(r)
  PROVE  Safe'
  <1> USE DEF Safe, TypeOK, Goto, Asks, Insert, Runs
  <1>1. Earned'
    BY DEF Earned, NoRecord, Processing, Answers, Handlers
  <1>2. Begun'
    BY DEF Begun, Handlers, Answers
  <1>3. ~ history'.failed => NothingFailed'
    BY DEF NothingFailed, Begun, Earned, NoRecord, Processing, Retrying, Answers, Handlers
  <1> QED BY <1>1, <1>2, <1>3

LEMMA SelectSafe ==
  ASSUME TypeOK, Safe, NEW r \in Requests, Select(r)
  PROVE  Safe'
  <1> USE DEF Safe, TypeOK, Goto, Asks, Select
  <1>1. Earned'
    BY DEF Earned, NoRecord, Processing, Answers, Handlers
  <1>2. Begun'
    BY DEF Begun, Handlers, Answers
  <1>3. ~ history'.failed => NothingFailed'
    BY DEF NothingFailed, Begun, Earned, NoRecord, Processing, Retrying, Answers, Handlers
  <1> QED BY <1>1, <1>2, <1>3

LEMMA DeleteSafe ==
  ASSUME TypeOK, Safe, NEW r \in Requests, Delete(r)
  PROVE  Safe'
  <1> USE DEF Safe, TypeOK, Goto, Asks, Delete
  <1>1. Earned'
    BY DEF Earned, NoRecord, Processing, Answers, Handlers
  <1>2. Begun'
    BY DEF Begun, Handlers, Answers
  <1>3. ~ history'.failed => NothingFailed'
    BY DEF NothingFailed, Begun, Earned, NoRecord, Processing, Retrying, Answers, Handlers
  <1> QED BY <1>1, <1>2, <1>3

LEMMA ReinsertSafe ==
  ASSUME TypeOK, Safe, NEW r \in Requests, Reinsert(r)
  PROVE  Safe'
  <1> USE DEF Safe, TypeOK, Goto, Asks, Reinsert, Runs
  <1>1. Earned'
    BY DEF Earned, NoRecord, Processing, Answers, Handlers
  <1>2. Begun'
    BY DEF Begun, Handlers, Answers
  <1>3. ~ history'.failed => NothingFailed'
    BY DEF NothingFailed, Begun, Earned, NoRecord, Processing, Retrying, Answers, Handlers
  <1> QED BY <1>1, <1>2, <1>3

LEMMA PollSafe ==
  ASSUME TypeOK, Safe, NEW r \in Requests, Poll(r)
  PROVE  Safe'
  <1> USE DEF Safe, TypeOK, Goto, Asks, Poll
  <1>1. Earned'
    BY DEF Earned, NoRecord, Processing, Answers, Handlers
  <1>2. Begun'
    BY DEF Begun, Handlers, Answers
  <1>3. ~ history'.failed => NothingFailed'
    BY DEF NothingFailed, Begun, Earned, NoRecord, Processing, Retrying, Answers, Handlers
  <1> QED BY <1>1, <1>2, <1>3

LEMMA PollSelectSafe ==
  ASSUME TypeOK, Safe, NEW r \in Requests, PollSelect(r)
  PROVE  Safe'
  <1> USE DEF Safe, TypeOK, Goto, Asks, PollSelect
  <1>1. Earned'
    BY DEF Earned, NoRecord, Processing, Answers, Handlers
  <1>2. Begun'
    BY DEF Begun, Handlers, Answers
  <1>3. ~ history'.failed => NothingFailed'
    BY DEF NothingFailed, Begun, Earned, NoRecord, Processing, Retrying, Answers, Handlers
  <1> QED BY <1>1, <1>2, <1>3

LEMMA GiveUpSafe ==
  ASSUME TypeOK, Safe, NEW r \in Requests, GiveUp(r)
  PROVE  Safe'
  <1> USE DEF Safe, TypeOK, Goto, Asks, GiveUp
  <1>1. Earned'
    BY DEF Earned, NoRecord, Processing, Answers, Handlers
  <1>2. Begun'
    BY DEF Begun, Handlers, Answers
  <1>3. ~ history'.failed => NothingFailed'
    BY DEF NothingFailed, Begun, Earned, NoRecord, Processing, Retrying, Answers, Handlers
  <1> QED BY <1>1, <1>2, <1>3

LEMMA SucceedSafe ==
  ASSUME TypeOK, Safe, NEW r \in Requests, Succeed(r)
  PROVE  Safe'
  <1> USE DEF Safe, TypeOK, Goto, Asks, Succeed
  <1>1. Earned'
    BY DEF Earned, NoRecord, Processing, Answers, Handlers
  <1>2. Begun'
    BY DEF Begun, Handlers, Answers
  <1>3. ~ history'.failed => NothingFailed'
    BY DEF NothingFailed, Begun, Earned, NoRecord, Processing, Retrying, Answers, Handlers
  <1> QED BY <1>1, <1>2, <1>3

LEMMA HandlerFailsSafe ==
  ASSUME TypeOK, Safe, NEW r \in Requests, HandlerFails(r)
  PROVE  Safe'
  <1> USE DEF Safe, TypeOK, Goto, Asks, HandlerFails
  <1>1. Earned'
    BY DEF Earned, NoRecord, Processing, Answers, Handlers
  <1>2. Begun'
    BY DEF Begun, Handlers, Answers
  <1>3. ~ history'.failed => NothingFailed'
    BY DEF NothingFailed, Begun, Earned, NoRecord, Processing, Retrying, Answers, Handlers
  <1> QED BY <1>1, <1>2, <1>3

LEMMA RespondSafe ==
  ASSUME TypeOK, Safe, NEW r \in Requests, Respond(r)
  PROVE  Safe'
  <1> USE DEF Safe, TypeOK, Goto, Asks, Respond
  <1>1. Earned'
    BY DEF Earned, NoRecord, Processing, Answers, Handlers
  <1>2. Begun'
    BY DEF Begun, Handlers, Answers
  <1>3. ~ history'.failed => NothingFailed'
    BY DEF NothingFailed, Begun, Earned, NoRecord, Processing, Retrying, Answers, Handlers
  <1> QED BY <1>1, <1>2, <1>3

LEMMA QueryFailsSafe ==
  ASSUME TypeOK, Safe, NEW r \in Requests, QueryFails(r)
  PROVE  Safe'
  <1> USE DEF Safe, TypeOK, Goto, Asks, QueryFails
  <1>1. Earned'
    BY DEF Earned, NoRecord, Processing, Answers, Handlers
  <1>2. Begun'
    BY DEF Begun, Handlers, Answers
  <1>3. ~ history'.failed => NothingFailed'
    BY DEF NothingFailed, Begun, Earned, NoRecord, Processing, Retrying, Answers, Handlers
  <1> QED BY <1>1, <1>2, <1>3

LEMMA RecordSafe ==
  ASSUME TypeOK, Safe, NEW status \in DOMAIN outcomes, Record(status)
  PROVE  Safe'
  <1> USE DEF Safe, TypeOK, Goto, Asks, Record
  <1>1. Earned'
    BY DEF Earned, NoRecord, Processing, Answers, Handlers
  <1>2. Begun'
    BY DEF Begun, Handlers, Answers
  <1>3. ~ history'.failed => NothingFailed'
    BY DEF NothingFailed, Begun, Earned, NoRecord, Processing, Retrying, Answers, Handlers
  <1> QED BY <1>1, <1>2, <1>3

LEMMA UpdateFailsSafe ==
  ASSUME TypeOK, Safe, NEW status \in DOMAIN outcomes, UpdateFails(status)
  PROVE  Safe'
  <1> USE DEF Safe, TypeOK, Goto, Asks, UpdateFails
  <1>1. Earned'
    BY DEF Earned, NoRecord, Processing, Answers, Handlers
  <1>2. Begun'
    BY DEF Begun, Handlers, Answers
  <1>3. ~ history'.failed => NothingFailed'
    BY DEF NothingFailed, Begun, Earned, NoRecord, Processing, Retrying, Answers, Handlers
  <1> QED BY <1>1, <1>2, <1>3

LEMMA CrashSafe ==
  ASSUME TypeOK, Safe, Crash
  PROVE  Safe'
  <1> USE DEF Safe, TypeOK, Goto, Asks, Crash
  <1>1. Earned'
    BY DEF Earned, NoRecord, Processing, Answers, Handlers
  <1>2. Begun'
    BY DEF Begun, Handlers, Answers
  <1>3. ~ history'.failed => NothingFailed'
    BY DEF NothingFailed, Begun, Earned, NoRecord, Processing, Retrying, Answers, Handlers
  <1> QED BY <1>1, <1>2, <1>3

LEMMA ExpireSafe ==
  ASSUME TypeOK, Safe, Expire
  PROVE  Safe'
  <1> USE DEF Safe, TypeOK, Goto, Asks, Expire
  <1>1. Earned'
    BY DEF Earned, NoRecord, Processing, Answers, Handlers
  <1>2. Begun'
    BY DEF Begun, Handlers, Answers
  <1>3. ~ history'.failed => NothingFailed'
    BY DEF NothingFailed, Begun, Earned, NoRecord, Processing, Retrying, Answers, Handlers
  <1> QED BY <1>1, <1>2, <1>3

LEMMA StutterSafe == Safe /\ UNCHANGED vars => Safe'
  <1> SUFFICES ASSUME Safe, UNCHANGED vars PROVE Safe'
    OBVIOUS
  <1>1. Earned' /\ Begun'
    BY DEF Safe, vars, Earned, Begun
  <1>2. ~ history'.failed => NothingFailed'
    BY DEF Safe, vars, NothingFailed
  <1> QED BY <1>1, <1>2 DEF Safe

LEMMA NextInv == Inv /\ [Next]_vars => Inv'
  <1> SUFFICES ASSUME Inv, [Next]_vars PROVE Inv'
    OBVIOUS
  <1>1. TypeOK /\ Safe
    BY DEF Inv
  <1>2. TypeOK'
    BY <1>1, NextType
  <1>3. CASE \E r \in Requests : Arrive(r) \/ Step(r) \/ Respond(r) \/ QueryFails(r)
    BY <1>1, <1>2, <1>3, ArriveSafe, InsertSafe, SelectSafe, DeleteSafe, ReinsertSafe, PollSafe,
       PollSelectSafe, GiveUpSafe, SucceedSafe, HandlerFailsSafe, RespondSafe,
       QueryFailsSafe DEF Step, Inv
  <1>4. CASE \E status \in DOMAIN outcomes : Record(status) \/ UpdateFails(status)
    BY <1>1, <1>2, <1>4, RecordSafe, UpdateFailsSafe DEF Inv
  <1>5. CASE Crash
    BY <1>1, <1>2, <1>5, CrashSafe DEF Inv
  <1>6. CASE Expire
    BY <1>1, <1>2, <1>6, ExpireSafe DEF Inv
  <1>7. CASE UNCHANGED vars
    BY <1>1, <1>2, <1>7, StutterSafe DEF Inv
  <1> QED BY <1>3, <1>4, <1>5, <1>6, <1>7 DEF Next

LEMMA Invariance == Spec => []Inv
  BY InitInv, NextInv, PTL DEF Spec

-----------------------------------------------------------------------------
\* The row of a key is PROCESSING, COMPLETED or FAILED, every request is at one
\* of the guard's steps, and nobody polls past the deadline, for any number of
\* requests and any deadline.
THEOREM GuardTypeCorrect == Spec => []TypeOK
  <1>1. Inv => TypeOK
    BY DEF Inv
  <1> QED BY <1>1, Invariance, PTL

\* However many requests carry a key, and whatever is lost, the handler behind
\* the guard runs once unless a run of it has failed.
THEOREM RunsOnce == Spec => []RunsOnceUnlessFailed
  <1>1. Inv => RunsOnceUnlessFailed
    <2> SUFFICES ASSUME Inv, history.begun > 1, ~ history.failed PROVE FALSE
      BY DEF RunsOnceUnlessFailed
    <2>1. history.begun <= 1 /\ history.begun \in Nat
      BY DEF Inv, Safe, NothingFailed, TypeOK
    <2> QED BY <2>1
  <1> QED BY <1>1, Invariance, PTL

\* What the guard replays, or has cached, is the answer of a run that succeeded.
THEOREM ReplayTrue == Spec => []ReplayIsTrue
  <1>1. Inv => ReplayIsTrue
    BY DEF Inv, Safe, Earned, ReplayIsTrue
  <1> QED BY <1>1, Invariance, PTL

\* When nothing is in flight, nothing has failed and nothing was lost, a success
\* is in the row, where every later request finds it.
THEOREM Remembered == Spec => []SuccessIsRemembered
  <1>1. Inv => SuccessIsRemembered
    <2> SUFFICES ASSUME Inv, Quiet, history.succeeded, ~ history.failed, ~ history.lost
                 PROVE  record.status = "COMPLETED"
      BY DEF SuccessIsRemembered
    <2>1. outcomes["COMPLETED"] = 0
      BY DEF Inv, TypeOK, Quiet
    <2>2. record.status = "COMPLETED" \/ outcomes["COMPLETED"] > 0
      BY DEF Inv, Safe, NothingFailed
    <2> QED BY <2>1, <2>2
  <1> QED BY <1>1, Invariance, PTL

=============================================================================
