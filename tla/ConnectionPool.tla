----------------------------- MODULE ConnectionPool -----------------------------
(***************************************************************************)
(* The pool of database clients, core/database/pool.ts, and the demands    *)
(* the handlers make on it.  pg-pool is external: it lends at most PoolMax *)
(* clients, hands them out first come first served, and, with no           *)
(* connectionTimeoutMillis, lets a caller wait for ever.                   *)
(*                                                                         *)
(* A handler reads through the pool, then may take a client of its own and *)
(* give it back in its `finally'.  While it has that client some handlers  *)
(* query through the pool once more, or wait for Redis to take a job.  A   *)
(* statement on the handler's own client asks nothing of the pool.         *)
(*                                                                         *)
(* A query through the pool has a client for as long as it runs, whatever  *)
(* becomes of its handler: the history of an invoice starts two at once    *)
(* and answers when one fails, and two updates are started that no handler *)
(* waits for.  Row locks are left out: no handler holds one while it waits *)
(* here, as it has written nothing yet or has committed.                   *)
(***************************************************************************)
EXTENDS Integers, Sequences, FiniteSets, Functions

CONSTANTS Requests,    \* HTTP requests
          Operations,  \* the handlers they may be for
          PoolMax,     \* env.DB_POOL_MAX
          MaxOutages   \* bound: times Redis becomes unreachable

Handlers == {"submit", "keyed", "approve", "financing", "createVan", "payment", "settling",
             "history", "details", "register", "login"}

ASSUME PoolAssumption ==
  /\ Operations \subseteq Handlers
  /\ IsFiniteSet(Requests)
  /\ PoolMax \in Nat \ {0} /\ MaxOutages \in Nat

VARIABLES req,       \* request -> [op, phase, n], n the steps of the phase it has done
          waiting,   \* pg-pool's queue of pending calls, each <<request, what it is for>>
          using,     \* the queries that have a client
          holding,   \* requests that have a client of their own
          redis,     \* "up", "down", or "closed" once ioredis has given up
          outages

vars == <<req, waiting, using, holding, redis, outages>>

\* What a client is for: the two queries of a history, any other query its handler
\* waits for, an update nobody waits for, or a handler's transaction.
Together == {"invoice", "events"}
Kinds == Together \cup {"query", "update"}
Calls == Requests \X (Kinds \cup {"client"})

\* Mutant of Plan: the update of requestFinancing is not given the client.
PlanFinanceNests ==
  [submit    |-> [reads |-> 1, opens |-> TRUE,  inside |-> <<"query">>],
   keyed     |-> [reads |-> 2, opens |-> TRUE,  inside |-> <<"query">>],
   approve   |-> [reads |-> 1, opens |-> TRUE,  inside |-> <<"query", "enqueue">>],
   financing |-> [reads |-> 1, opens |-> TRUE,  inside |-> <<"query">>],
   createVan |-> [reads |-> 2, opens |-> TRUE,  inside |-> <<>>],
   payment   |-> [reads |-> 2, opens |-> TRUE,  inside |-> <<"query">>],
   settling  |-> [reads |-> 2, opens |-> TRUE,  inside |-> <<"query", "enqueue", "query">>],
   history   |-> [reads |-> 1, opens |-> FALSE, inside |-> <<>>],
   details   |-> [reads |-> 2, opens |-> FALSE, inside |-> <<>>],
   register  |-> [reads |-> 3, opens |-> FALSE, inside |-> <<>>],
   login     |-> [reads |-> 2, opens |-> FALSE, inside |-> <<>>]]

\* The handlers: how often they wait for queries through the pool before they call
\* pool.connect(), and what they do outside their own client before they release it.
\* `keyed' is `submit' behind the guard, with a key not seen before; a key seen
\* before asks for less (a replay reads as `details' does) or for more of the same
\* (a poll repeats it).  The risk assessment is another `financing'.
Plan ==
  [submit    |-> [reads |-> 1, opens |-> TRUE,  inside |-> <<"query">>],
   keyed     |-> [reads |-> 2, opens |-> TRUE,  inside |-> <<"query">>],
   approve   |-> [reads |-> 1, opens |-> TRUE,  inside |-> <<"query", "enqueue">>],
   financing |-> [reads |-> 1, opens |-> TRUE,  inside |-> <<>>],
   createVan |-> [reads |-> 2, opens |-> TRUE,  inside |-> <<>>],
   payment   |-> [reads |-> 2, opens |-> TRUE,  inside |-> <<"query">>],
   settling  |-> [reads |-> 2, opens |-> TRUE,  inside |-> <<"query", "enqueue", "query">>],
   history   |-> [reads |-> 1, opens |-> FALSE, inside |-> <<>>],
   details   |-> [reads |-> 2, opens |-> FALSE, inside |-> <<>>],
   register  |-> [reads |-> 3, opens |-> FALSE, inside |-> <<>>],
   login     |-> [reads |-> 2, opens |-> FALSE, inside |-> <<>>]]

NoRequest == [op |-> "details", phase |-> "idle", n |-> 0]
Ended == [NoRequest EXCEPT !.phase = "ended"]

-----------------------------------------------------------------------------
InFlight(r) == req[r].phase \notin {"idle", "ended"}

Inside(r) == Plan[req[r].op].inside

\* The next thing an open handler does outside its own client.
Faces(r, what) ==
  /\ req[r].phase = "open"
  /\ req[r].n < Len(Inside(r))
  /\ Inside(r)[req[r].n + 1] = what

\* The request needs a client of the pool to go on: for a query, or for itself.
Queries(r) == req[r].phase = "reading" \/ Faces(r, "query")
Wants(r) == Queries(r) \/ req[r].phase = "connecting"

\* The calls it makes: both queries of a history before it waits for either.
Asks(r) ==
  IF req[r].phase = "connecting" THEN <<<<r, "client">>>>
  ELSE IF req[r].op = "history" THEN <<<<r, "invoice">>, <<r, "events">>>>
       ELSE <<<<r, "query">>>>

\* The handler waits for the call; the calls of a handler that have not returned.
Awaited(c) == InFlight(c[1]) /\ c[2] # "update"
Pending(r) == {c \in Range(waiting) \cup using : c[1] = r /\ c[2] # "update"}

Lent == Cardinality(using) + Cardinality(holding)

\* The guard has let the request pass: it will store the answer, whichever it is.
Records(r) == req[r].op = "keyed" /\ (req[r].phase = "reading" => req[r].n > 0)

\* A login that has found the credential will store the time.
LogsIn(r) == req[r] = [op |-> "login", phase |-> "reading", n |-> 0]

\* An update is started, and nobody waits for it.
Leaves(r) == waiting' = Append(waiting, <<r, "update">>)

\* The handler has answered.  Its calls that have not returned are not called off.
Ends(r) ==
  /\ req' = [req EXCEPT ![r] = Ended]
  /\ IF Records(r) THEN Leaves(r) ELSE UNCHANGED waiting

\* The handler has done one more step.
StepsOn(r) ==
  LET plan == Plan[req[r].op] IN
  IF req[r].phase = "reading" /\ req[r].n + 1 = plan.reads
  THEN IF plan.opens
       THEN /\ req' = [req EXCEPT ![r].phase = "connecting", ![r].n = 0]
            /\ UNCHANGED waiting
       ELSE Ends(r)
  ELSE /\ req' = [req EXCEPT ![r].n = @ + 1]
       /\ IF LogsIn(r) THEN Leaves(r) ELSE UNCHANGED waiting

-----------------------------------------------------------------------------
Arrive(r) ==
  /\ req[r].phase = "idle"
  /\ \E op \in Operations : req' = [req EXCEPT ![r] = [op |-> op, phase |-> "reading", n |-> 0]]
  /\ UNCHANGED <<waiting, using, holding, redis, outages>>

\* pool.query or pool.connect
Ask(r) ==
  /\ Wants(r) /\ Pending(r) = {}
  /\ waiting' = waiting \o Asks(r)
  /\ UNCHANGED <<req, using, holding, redis, outages>>

\* Mutant of Serve: the pool is created without a maximum.
ServeUnbounded ==
  LET c == Head(waiting) IN
  /\ waiting # <<>>
  /\ waiting' = Tail(waiting)
  /\ IF c[2] = "client"
     THEN /\ holding' = holding \cup {c[1]}
          /\ req' = [req EXCEPT ![c[1]].phase = "open"]
          /\ UNCHANGED using
     ELSE /\ using' = using \cup {c}
          /\ UNCHANGED <<req, holding>>
  /\ UNCHANGED <<redis, outages>>

\* The pool has a client for the first in its queue.
Serve ==
  LET c == Head(waiting) IN
  /\ waiting # <<>>
  /\ Lent < PoolMax
  /\ waiting' = Tail(waiting)
  /\ IF c[2] = "client"
     THEN /\ holding' = holding \cup {c[1]}
          /\ req' = [req EXCEPT ![c[1]].phase = "open"]
          /\ UNCHANGED using
     ELSE /\ using' = using \cup {c}
          /\ UNCHANGED <<req, holding>>
  /\ UNCHANGED <<redis, outages>>

\* A query through the pool succeeds, and the handler goes on if that was the last
\* it waited for; or a query nobody waits for (any more) ends one way or the other.
QueryDone(c) ==
  /\ c \in using
  /\ using' = using \ {c}
  /\ IF Awaited(c) /\ Pending(c[1]) = {c} THEN StepsOn(c[1]) ELSE UNCHANGED <<req, waiting>>
  /\ UNCHANGED <<holding, redis, outages>>

\* What may make a handler fail: a query it waits for (or what the query returns),
\* or, if it has a client of its own, a statement there or queue.add (see Enqueue).
QueryFails(r) == \E c \in using : c[1] = r /\ Awaited(c) /\ using' = using \ {c}
Throws(r) ==
  /\ r \in holding /\ Pending(r) = {} /\ ~ (Faces(r, "enqueue") /\ redis # "up")
  /\ UNCHANGED using

\* Mutant of Fails: the client is released on success only.
FailsUnreleased(r) ==
  /\ QueryFails(r) \/ Throws(r)
  /\ Ends(r)
  /\ UNCHANGED <<holding, redis, outages>>

\* The handler releases its client and answers with an error; the other query of a
\* history goes on.
Fails(r) ==
  /\ QueryFails(r) \/ Throws(r)
  /\ Ends(r)
  /\ holding' = holding \ {r}
  /\ UNCHANGED <<redis, outages>>

\* Mutant of Enqueue: it waits although the connection is closed for good.
EnqueueIfUp(r) ==
  /\ Faces(r, "enqueue")
  /\ redis = "up"
  /\ StepsOn(r)
  /\ UNCHANGED <<using, holding, redis, outages>>

\* queue.add: with maxRetriesPerRequest null it waits while Redis is down, and it
\* throws once the connection is closed.
Enqueue(r) ==
  /\ Faces(r, "enqueue")
  /\ \/ redis = "up" /\ StepsOn(r) /\ UNCHANGED holding
     \/ redis = "closed" /\ Ends(r) /\ holding' = holding \ {r}
  /\ UNCHANGED <<using, redis, outages>>

\* COMMIT, and the `finally' of a handler that has done all its steps.
Release(r) ==
  /\ req[r].phase = "open" /\ req[r].n = Len(Inside(r))
  /\ holding' = holding \ {r}
  /\ Ends(r)
  /\ UNCHANGED <<using, redis, outages>>

\* Redis becomes unreachable; the connection comes back, or the eleventh attempt
\* to reconnect makes retryStrategy give up.
Outage ==
  /\ redis = "up" /\ outages < MaxOutages
  /\ redis' = "down"
  /\ outages' = outages + 1
  /\ UNCHANGED <<req, waiting, using, holding>>

Reconnect ==
  /\ redis = "down"
  /\ redis' \in {"up", "closed"}
  /\ UNCHANGED <<req, waiting, using, holding, outages>>

-----------------------------------------------------------------------------
Init ==
  /\ req = [r \in Requests |-> NoRequest]
  /\ waiting = <<>>
  /\ using = {}
  /\ holding = {}
  /\ redis = "up"
  /\ outages = 0

\* What a handler does by itself, and what becomes of its queries.
Handles(r) ==
  \/ Ask(r) \/ Enqueue(r) \/ Release(r)
  \/ \E kind \in Kinds : QueryDone(<<r, kind>>)

Next ==
  \/ \E r \in Requests : Arrive(r) \/ Handles(r) \/ Fails(r)
  \/ Serve \/ Outage \/ Reconnect

Spec == Init /\ [][Next]_vars

\* Queries end, the pool serves whoever it can, and a broken connection to Redis
\* comes back or is given up.
Fairness ==
  /\ \A r \in Requests : WF_vars(Handles(r))
  /\ WF_vars(Serve) /\ WF_vars(Reconnect)

FairSpec == Spec /\ Fairness

-----------------------------------------------------------------------------
\* The operations that ask for a second client while they hold one.
Nesting == {"submit", "keyed", "approve", "payment", "settling"}
Nested == {r \in Requests : InFlight(r) /\ req[r].op \in Nesting}

\* Nobody who has a client will ever give it back: each waits for another.
Stuck == /\ waiting # <<>> /\ using = {}
         /\ Cardinality(holding) = PoolMax
         /\ \A r \in holding : <<r, "query">> \in Range(waiting)

\* The type invariant: what has a client or waits for one, and never more clients
\* than the pool has, though one request may have two and an answered one some.
TypeOK ==
  /\ req \in [Requests -> [op: Handlers, n: Nat,
                           phase: {"idle", "reading", "connecting", "open", "ended"}]]
  /\ waiting \in Seq(Calls)
  /\ using \subseteq Requests \X Kinds /\ holding \subseteq Requests
  /\ Lent <= PoolMax
  /\ redis \in {"up", "down", "closed"} /\ outages \in 0 .. MaxOutages

\* A client a handler took for itself is lent for exactly as long as the handler
\* has not answered: none is lost on an error path (the `finally' of
\* van.service.ts:346 and its like).  The client of a query may outlive the handler
\* that asked for it, but only if the handler did not wait for the query
\* (idempotency.ts:108, auth.service.ts:107) or the query is one of the two of a
\* history, which answers as soon as the other one fails (invoice.service.ts:345).
NoClientLeaks ==
  /\ \A r \in Requests : r \in holding <=> req[r].phase = "open"
  /\ \A c \in using : InFlight(c[1]) \/ c[2] \in Together \cup {"update"}

\* The pool runs dry for good only when as many requests as it has clients are in
\* operations that query through the pool while they hold a client
\* (invoice.service.ts:104 and :221, van.service.ts:276 and :306): below that
\* number, whatever the load, a client always comes back.
StuckOnlyByNesting == Stuck => Cardinality(Nested) >= PoolMax

\* Every request ends, unless the pool has run dry in this way.  A Redis that
\* stays away does not hold the clients of approvals and settlements for ever.
EveryRequestEnds == \A r \in Requests : InFlight(r) ~> (~ InFlight(r) \/ Stuck)

=============================================================================
