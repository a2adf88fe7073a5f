------------------------------- MODULE PoolProofs -------------------------------
(***************************************************************************)
(* Proofs about ConnectionPool, for any number of requests, any mix of     *)
(* operations and any size of the pool.  The inductive invariant adds to   *)
(* the two invariants of the model that no call is made twice over, and    *)
(* that each call that has not returned is due: its request is where the   *)
(* handler made it, or has answered and left it behind.                    *)
(***************************************************************************)
EXTENDS ConnectionPool, FiniteSetTheorems, TLAPS

Phases == {"idle", "reading", "connecting", "open", "ended"}
ReqType == [Requests -> [op: Handlers, n: Nat, phase: Phases]]

\* The calls in the queue w and the queries in u are calls, and each is there once.
Orderly(w, u) ==
  /\ w \in Seq(Calls) /\ u \subseteq Requests \X Kinds
  /\ IsInjective(w) /\ Range(w) \cap u = {}

Calling == Range(waiting) \cup using

Due(c) ==
  LET q == req[c[1]] IN
  /\ c[2] = "client" => q.phase = "connecting"
  /\ c[2] = "query" => Queries(c[1]) /\ q.op # "history"
  /\ c[2] \in Together => q.phase = "ended" \/ (q.phase = "reading" /\ q.op = "history")
  /\ c[2] = "update" =>
       q.phase = "ended" \/ (q.phase = "reading" /\ q.op = "login" /\ q.n > 0)

Inv == /\ TypeOK /\ NoClientLeaks
       /\ Orderly(waiting, using)
       /\ \A c \in Calling : Due(c)

-----------------------------------------------------------------------------
LEMMA PlanFacts ==
  ASSUME NEW op \in Handlers
  PROVE  /\ Plan[op].reads \in Nat /\ Plan[op].opens \in BOOLEAN
         /\ Len(Plan[op].inside) \in Nat
         /\ op \notin Nesting => Len(Plan[op].inside) = 0
         /\ op = "keyed" => Plan[op].opens
<1>1. CASE op = "submit"
  BY <1>1 DEF Plan, Nesting
<1>2. CASE op = "keyed"
  BY <1>2 DEF Plan, Nesting
<1>3. CASE op = "approve"
  BY <1>3 DEF Plan, Nesting
<1>4. CASE op = "financing"
  BY <1>4 DEF Plan, Nesting
<1>5. CASE op = "createVan"
  BY <1>5 DEF Plan, Nesting
<1>6. CASE op = "payment"
  BY <1>6 DEF Plan, Nesting
<1>7. CASE op = "settling"
  BY <1>7 DEF Plan, Nesting
<1>8. CASE op = "history"
  BY <1>8 DEF Plan, Nesting
<1>9. CASE op = "details"
  BY <1>9 DEF Plan, Nesting
<1>10. CASE op = "register"
  BY <1>10 DEF Plan, Nesting
<1>11. CASE op = "login"
  BY <1>11 DEF Plan, Nesting
<1>12. QED
  BY <1>1, <1>2, <1>3, <1>4, <1>5, <1>6, <1>7, <1>8, <1>9, <1>10, <1>11 DEF Handlers

\* A smaller set of borrowers borrows less.
LEMMA LentDrops ==
  ASSUME NEW S, NEW T, IsFiniteSet(S), IsFiniteSet(T), NEW S1 \in SUBSET S,
         NEW T1 \in SUBSET T, Cardinality(S) + Cardinality(T) <= PoolMax
  PROVE  Cardinality(S1) + Cardinality(T1) <= PoolMax
<1>1. Cardinality(S1) <= Cardinality(S) /\ Cardinality(T1) <= Cardinality(T)
  BY FS_Subset
<1>2. Cardinality(S) \in Nat /\ Cardinality(T) \in Nat
  BY FS_CardinalityType
<1>3. Cardinality(S1) \in Nat /\ Cardinality(T1) \in Nat
  BY FS_Subset, FS_CardinalityType
<1>4. QED
  BY <1>1, <1>2, <1>3, PoolAssumption

\* One borrower more borrows at most one client more.
LEMMA LentGrows ==
  ASSUME NEW S, NEW T, IsFiniteSet(S), IsFiniteSet(T), NEW c,
         Cardinality(S) + Cardinality(T) < PoolMax
  PROVE  /\ Cardinality(S \cup {c}) + Cardinality(T) <= PoolMax
         /\ Cardinality(S) + Cardinality(T \cup {c}) <= PoolMax
<1>1. Cardinality(S) \in Nat /\ Cardinality(T) \in Nat
  BY FS_CardinalityType
<1>2. Cardinality(S \cup {c}) \in {Cardinality(S), Cardinality(S) + 1}
  BY <1>1, FS_AddElement
<1>3. Cardinality(T \cup {c}) \in {Cardinality(T), Cardinality(T) + 1}
  BY <1>1, FS_AddElement
<1>4. QED
  BY <1>1, <1>2, <1>3, PoolAssumption

LEMMA LentFinite ==
  ASSUME TypeOK
  PROVE  IsFiniteSet(using) /\ IsFiniteSet(holding)
<1>1. Kinds = {"invoice", "events", "query", "update"}
  BY DEF Kinds, Together
<1>2. IsFiniteSet({"invoice"})
  BY FS_Singleton
<1>3. IsFiniteSet({"invoice"} \cup {"events"})
  BY <1>2, FS_AddElement
<1>4. IsFiniteSet({"invoice"} \cup {"events"} \cup {"query"})
  BY <1>3, FS_AddElement
<1>5. IsFiniteSet({"invoice"} \cup {"events"} \cup {"query"} \cup {"update"})
  BY <1>4, FS_AddElement
<1>6. Kinds = {"invoice"} \cup {"events"} \cup {"query"} \cup {"update"}
  BY <1>1
<1>7. IsFiniteSet(Requests \X Kinds)
  BY <1>5, <1>6, FS_Product, PoolAssumption
<1>8. QED
  BY <1>7, FS_Subset, PoolAssumption DEF TypeOK

-----------------------------------------------------------------------------
\* A call that is new goes to the end of the queue.
LEMMA AppendOrderly ==
  ASSUME NEW w, NEW u, Orderly(w, u), NEW c \in Calls, c \notin Range(w) \cup u
  PROVE  Orderly(Append(w, c), u) /\ Range(Append(w, c)) = Range(w) \cup {c}
<1> DEFINE v == Append(w, c)
<1>1. /\ w \in Seq(Calls) /\ Len(w) \in Nat /\ DOMAIN w = 1 .. Len(w)
      /\ v \in Seq(Calls) /\ DOMAIN v = 1 .. Len(w) + 1
      /\ v[Len(w) + 1] = c
      /\ \A i \in 1 .. Len(w) : v[i] = w[i] /\ w[i] # c
  BY DEF Orderly, Range
<1> HIDE DEF v
<1>2. Range(v) = Range(w) \cup {c}
  <2>1. ASSUME NEW x \in Range(v) PROVE x \in Range(w) \cup {c}
    <3>1. PICK i \in 1 .. Len(w) + 1 : x = v[i]
      BY <1>1 DEF Range
    <3>2. i \in 1 .. Len(w) \/ i = Len(w) + 1
      BY <1>1
    <3>3. QED
      BY <3>1, <3>2, <1>1 DEF Range
  <2>2. ASSUME NEW x \in Range(w) \cup {c} PROVE x \in Range(v)
    <3>1. CASE x = c
      BY <3>1, <1>1 DEF Range
    <3>2. CASE x \in Range(w)
      <4>1. PICK i \in 1 .. Len(w) : x = w[i]
        BY <3>2, <1>1 DEF Range
      <4>2. i \in DOMAIN v /\ v[i] = x
        BY <4>1, <1>1
      <4>3. QED
        BY <4>2 DEF Range
    <3>3. QED
      BY <3>1, <3>2
  <2>3. QED
    BY <2>1, <2>2
<1>3. IsInjective(v)
  <2>1. ASSUME NEW i \in DOMAIN v, NEW j \in DOMAIN v, v[i] = v[j] PROVE i = j
    BY <1>1, <2>1 DEF Orderly, IsInjective
  <2>2. QED
    BY <2>1 DEF IsInjective
<1>4. Orderly(v, u)
  BY <1>1, <1>2, <1>3 DEF Orderly
<1>5. QED
  BY <1>2, <1>4 DEF v

\* The queue without its head, and what the head is.
LEMMA TailOrderly ==
  ASSUME NEW w, NEW u, Orderly(w, u), w # <<>>
  PROVE  /\ Orderly(Tail(w), u) /\ Head(w) \in Calls
         /\ Range(w) = Range(Tail(w)) \cup {Head(w)}
         /\ Head(w) \notin Range(Tail(w)) \cup u
<1> DEFINE t == Tail(w)
           h == Head(w)
<1>1. /\ w \in Seq(Calls) /\ Len(w) \in Nat \ {0} /\ DOMAIN w = 1 .. Len(w)
      /\ h = w[1] /\ 1 \in DOMAIN w
      /\ t \in Seq(Calls) /\ DOMAIN t = 1 .. Len(w) - 1
      /\ \A i \in 1 .. Len(w) - 1 : t[i] = w[i + 1]
  BY DEF Orderly
<1> HIDE DEF t, h
<1>2. h \in Calls /\ h \in Range(w)
  BY <1>1 DEF Range
<1>3. \A i \in DOMAIN t : i + 1 \in DOMAIN w /\ i + 1 # 1 /\ t[i] = w[i + 1]
  BY <1>1
<1>4. h \notin Range(t)
  BY <1>1, <1>3 DEF Orderly, IsInjective, Range
<1>5. Range(t) \subseteq Range(w)
  BY <1>3 DEF Range
<1>6. Range(w) \subseteq Range(t) \cup {h}
  <2> SUFFICES ASSUME NEW x \in Range(w), x # h PROVE x \in Range(t)
    OBVIOUS
  <2>1. PICK i \in 1 .. Len(w) : x = w[i]
    BY <1>1 DEF Range
  <2>2. i - 1 \in 1 .. Len(w) - 1
    BY <2>1, <1>1
  <2>3. t[i - 1] = x
    BY <2>1, <2>2, <1>1
  <2>4. QED
    BY <2>2, <2>3, <1>1 DEF Range
<1>7. IsInjective(t)
  <2>1. ASSUME NEW i \in DOMAIN t, NEW j \in DOMAIN t, t[i] = t[j] PROVE i = j
    <3>1. i + 1 = j + 1
      BY <2>1, <1>3 DEF Orderly, IsInjective
    <3>2. i \in Int /\ j \in Int
      BY <1>1
    <3>3. QED
      BY <3>1, <3>2
  <2>2. QED
    BY <2>1 DEF IsInjective
<1>8. Orderly(t, u) /\ h \notin u
  BY <1>1, <1>2, <1>5, <1>7 DEF Orderly
<1>9. QED
  BY <1>2, <1>4, <1>5, <1>6, <1>8 DEF t, h

-----------------------------------------------------------------------------
\* Whether a call is due is a matter of its request's own record.
LEMMA DueFrame ==
  ASSUME NEW c, req'[c[1]] = req[c[1]]
  PROVE  Due(c)' <=> Due(c)
BY DEF Due, Queries, Faces, Inside

\* A query that is due and outlives its handler is one nobody waits for or one of
\* the two of a history.
LEMMA DueOutlives ==
  ASSUME NEW c \in Requests \X Kinds, Due(c)
  PROVE  InFlight(c[1]) \/ c[2] \in Together \cup {"update"}
<1>1. c[2] \in Together \cup {"query", "update"}
  BY DEF Kinds
<1>2. c[2] = "query" => InFlight(c[1])
  BY DEF Due, Queries, Faces, InFlight
<1>3. QED
  BY <1>1, <1>2

\* What the calls of a request are, by the phase of its handler.
LEMMA CallsOf ==
  ASSUME Inv, NEW c \in Calling
  PROVE  LET r == c[1] IN
         /\ c \in Calls /\ c = <<r, c[2]>> /\ r \in Requests
         /\ c[2] \in {"client", "query", "invoice", "events", "update"}
         /\ req[r].phase # "idle"
         /\ req[r].phase = "connecting" => c[2] = "client"
         /\ req[r].phase = "open" => c[2] = "query" /\ Faces(r, "query")
         /\ req[r].phase = "reading" /\ req[r].op = "history" => c[2] \in Together
         /\ req[r].phase = "reading" /\ req[r].op # "history" => c[2] \in {"query", "update"}
         /\ req[r].phase = "reading" /\ c[2] = "update" => req[r].op = "login" /\ req[r].n > 0
<1>1. c \in Calls
  <2>1. Range(waiting) \subseteq Calls
    BY DEF Inv, TypeOK, Range
  <2>2. using \subseteq Calls
    BY DEF Inv, TypeOK, Calls
  <2>3. QED
    BY <2>1, <2>2 DEF Calling
<1>2. /\ c = <<c[1], c[2]>> /\ c[1] \in Requests
      /\ c[2] \in {"client", "query", "invoice", "events", "update"}
  BY <1>1 DEF Calls, Kinds, Together
<1>3. Due(c)
  BY DEF Inv
<1>4. CASE c[2] = "client"
  BY <1>1, <1>2, <1>3, <1>4 DEF Due
<1>5. CASE c[2] = "query"
  BY <1>1, <1>2, <1>3, <1>5 DEF Due, Queries, Faces
<1>6. CASE c[2] \in Together
  BY <1>1, <1>2, <1>3, <1>6 DEF Due, Together
<1>7. CASE c[2] = "update"
  BY <1>1, <1>2, <1>3, <1>7 DEF Due
<1>8. QED
  BY <1>2, <1>4, <1>5, <1>6, <1>7 DEF Together

\* A step of one request keeps the invariant if it makes and takes back only calls of
\* its own, and leaves those due that have not returned.
LEMMA Acts ==
  ASSUME Inv, NEW r \in Requests,
         req' \in ReqType, \A q \in Requests \ {r} : req'[q] = req[q],
         using' \subseteq using, Orderly(waiting', using'),
         holding' \subseteq holding, holding \subseteq holding' \cup {r},
         r \in holding' <=> req'[r].phase = "open",
         Range(waiting') \subseteq Range(waiting) \cup {<<r, k>> : k \in Kinds \cup {"client"}},
         \A c \in Calling' : c[1] = r => Due(c)',
         redis' = redis, outages' = outages
  PROVE  Inv'
<1>1. TypeOK'
  <2>1. Lent' <= PoolMax
    BY LentFinite, LentDrops DEF Inv, TypeOK, Lent
  <2>2. QED
    BY <2>1 DEF Inv, TypeOK, ReqType, Phases, Orderly
<1>2. ASSUME NEW c \in Calling' PROVE Due(c)'
  <2>1. CASE c[1] = r
    BY <2>1
  <2>2. CASE c[1] # r
    <3>1. c \in Calling
      BY <2>2 DEF Calling
    <3>2. c[1] \in Requests /\ Due(c)
      BY <3>1, CallsOf DEF Inv
    <3>3. QED
      BY <2>2, <3>2, DueFrame
  <2>3. QED
    BY <2>1, <2>2
<1>3. NoClientLeaks'
  <2>1. ASSUME NEW q \in Requests PROVE q \in holding' <=> req'[q].phase = "open"
    BY DEF Inv, NoClientLeaks
  <2>2. ASSUME NEW c \in using' PROVE (InFlight(c[1]) \/ c[2] \in Together \cup {"update"})'
    <3>1. c \in Requests \X Kinds /\ Due(c)'
      BY <1>2 DEF Inv, TypeOK, Calling
    <3>2. c[2] \in Together \cup {"query", "update"}
      BY <3>1 DEF Kinds
    <3>3. c[2] = "query" => InFlight(c[1])'
      BY <3>1 DEF Due, Queries, Faces, InFlight
    <3>4. QED
      BY <3>2, <3>3
  <2>3. QED
    BY <2>1, <2>2 DEF NoClientLeaks
<1>4. QED
  BY <1>1, <1>2, <1>3 DEF Inv

LEMMA InitInv ==
  ASSUME Init
  PROVE  Inv
<1>1. Lent = 0
  BY FS_EmptySet DEF Init, Lent
<1>2. TypeOK
  BY <1>1, PoolAssumption DEF Init, TypeOK, NoRequest, Handlers
<1>3. NoClientLeaks
  BY DEF Init, NoClientLeaks, NoRequest
<1>4. Range(waiting) = {} /\ using = {}
  BY DEF Init, Range
<1>5. Orderly(waiting, using)
  BY <1>2, <1>4 DEF Init, Orderly, IsInjective, TypeOK
<1>6. QED
  BY <1>2, <1>3, <1>4, <1>5 DEF Inv, Calling

-----------------------------------------------------------------------------
\* An update that is started is the first of its request.
LEMMA LeavesOrderly ==
  ASSUME Inv, NEW r \in Requests, NEW v, v \subseteq using, <<r, "update">> \notin Calling,
         Leaves(r)
  PROVE  /\ Orderly(waiting', v)
         /\ Range(waiting') = Range(waiting) \cup {<<r, "update">>}
<1>1. <<r, "update">> \in Calls
  BY DEF Calls, Kinds
<1>2. Orderly(waiting, v) /\ <<r, "update">> \notin Range(waiting) \cup v
  BY DEF Inv, Orderly, Calling
<1>3. QED
  BY <1>1, <1>2, AppendOrderly DEF Leaves

\* A handler that answers leaves at most the other query of a history behind, and an
\* update.
LEMMA EndsKeeps ==
  ASSUME Inv, NEW r \in Requests, Ends(r), InFlight(r),
         using' \subseteq using,
         \A c \in Range(waiting) \cup using' : c[1] = r => c[2] \in Together \cup {"update"},
         holding' = holding \ {r}, redis' = redis, outages' = outages
  PROVE  Inv'
<1>1. /\ req' \in ReqType /\ req'[r].phase = "ended"
      /\ \A q \in Requests \ {r} : req'[q] = req[q]
  BY DEF Inv, TypeOK, Ends, Ended, NoRequest, Handlers, ReqType, Phases
<1>2. CASE Records(r)
  <2>1. <<r, "update">> \notin Calling
    <3>1. ASSUME <<r, "update">> \in Calling PROVE FALSE
      <4>1. req[r].op = "keyed" /\ req[r].phase \in {"reading", "connecting", "open"}
        BY <1>2 DEF Records, InFlight, Inv, TypeOK
      <4>2. QED
        BY <3>1, <4>1 DEF Inv, Due
    <3>2. QED
      BY <3>1
  <2>2. Leaves(r)
    BY <1>2 DEF Ends
  <2>3. /\ Orderly(waiting', using')
        /\ Range(waiting') = Range(waiting) \cup {<<r, "update">>}
    BY <2>1, <2>2, LeavesOrderly
  <2>4. ASSUME NEW c \in Calling', c[1] = r PROVE Due(c)'
    <3>1. c[2] \in Together \cup {"update"}
      BY <2>3, <2>4 DEF Calling
    <3>2. QED
      BY <1>1, <2>4, <3>1 DEF Due, Together
  <2>5. QED
    BY <1>1, <2>3, <2>4, Acts DEF Kinds
<1>3. CASE ~ Records(r)
  <2>1. waiting' = waiting
    BY <1>3 DEF Ends
  <2>2. Orderly(waiting', using')
    BY <2>1 DEF Inv, Orderly
  <2>3. ASSUME NEW c \in Calling', c[1] = r PROVE Due(c)'
    <3>1. c[2] \in Together \cup {"update"}
      BY <2>1, <2>3 DEF Calling
    <3>2. QED
      BY <1>1, <2>3, <3>1 DEF Due, Together
  <2>4. QED
    BY <1>1, <2>1, <2>2, <2>3, Acts
<1>4. QED
  BY <1>2, <1>3

\* A handler that waits for nothing goes on.
LEMMA StepsOnKeeps ==
  ASSUME Inv, NEW r \in Requests, StepsOn(r), InFlight(r), req[r].phase # "connecting",
         using' \subseteq using,
         \A c \in Range(waiting) \cup using' : c[1] = r => c[2] = "update",
         holding' = holding, redis' = redis, outages' = outages
  PROVE  Inv'
<1> DEFINE op == req[r].op
<1>0. op \in Handlers /\ req[r].n \in Nat /\ req[r].phase \in {"reading", "open"}
  BY DEF Inv, TypeOK, InFlight
<1>1. CASE req[r].phase = "reading" /\ req[r].n + 1 = Plan[op].reads /\ ~ Plan[op].opens
  <2>1. Ends(r)
    BY <1>1 DEF StepsOn
  <2>2. r \notin holding
    BY <1>1 DEF Inv, NoClientLeaks
  <2>3. QED
    BY <2>1, <2>2, EndsKeeps
<1>2. CASE req[r].phase = "reading" /\ req[r].n + 1 = Plan[op].reads /\ Plan[op].opens
  <2>1. req' = [req EXCEPT ![r].phase = "connecting", ![r].n = 0] /\ waiting' = waiting
    BY <1>2 DEF StepsOn
  <2>2. /\ req' \in ReqType /\ req'[r].phase = "connecting"
        /\ \A q \in Requests \ {r} : req'[q] = req[q]
    BY <2>1 DEF Inv, TypeOK, ReqType, Phases
  <2>3. op # "login"
    BY <1>2 DEF Plan
  <2>4. ASSUME NEW c \in Calling', c[1] = r PROVE FALSE
    <3>1. c[2] = "update" /\ c \in Calling
      BY <2>1, <2>4 DEF Calling
    <3>2. QED
      BY <1>2, <2>3, <2>4, <3>1, CallsOf
  <2>5. r \notin holding
    BY <1>2 DEF Inv, NoClientLeaks
  <2>6. Orderly(waiting', using')
    BY <2>1 DEF Inv, Orderly
  <2>7. QED
    BY <2>1, <2>2, <2>4, <2>5, <2>6, Acts
<1>3. CASE ~ (req[r].phase = "reading" /\ req[r].n + 1 = Plan[op].reads)
  <2>1. /\ req' = [req EXCEPT ![r].n = @ + 1]
        /\ IF LogsIn(r) THEN Leaves(r) ELSE waiting' = waiting
    BY <1>3 DEF StepsOn
  <2>2. req[r].n + 1 \in Nat /\ req[r].n + 1 > 0
    BY <1>0
  <2>3. /\ req' \in ReqType /\ req'[r].phase = req[r].phase /\ req'[r].op = op
        /\ req'[r].n = req[r].n + 1
        /\ \A q \in Requests \ {r} : req'[q] = req[q]
    BY <2>1, <2>2 DEF Inv, TypeOK, ReqType, Phases
  <2>4. r \in holding' <=> req'[r].phase = "open"
    BY <2>3 DEF Inv, NoClientLeaks
  <2>5. CASE LogsIn(r)
    <3>1. req[r].phase = "reading" /\ op = "login" /\ req[r].n = 0
      BY <2>5 DEF LogsIn
    <3>2. <<r, "update">> \notin Calling
      BY <3>1, CallsOf
    <3>3. /\ Orderly(waiting', using')
          /\ Range(waiting') = Range(waiting) \cup {<<r, "update">>}
      BY <2>1, <2>5, <3>2, LeavesOrderly
    <3>4. ASSUME NEW c \in Calling', c[1] = r PROVE Due(c)'
      <4>1. c[2] = "update"
        BY <3>3, <3>4 DEF Calling
      <4>2. QED
        BY <2>2, <2>3, <3>1, <3>4, <4>1 DEF Due, Together
    <3>5. QED
      BY <2>3, <2>4, <3>3, <3>4, Acts DEF Kinds
  <2>6. CASE ~ LogsIn(r)
    <3>1. waiting' = waiting
      BY <2>1, <2>6
    <3>2. ASSUME NEW c \in Calling', c[1] = r PROVE Due(c)'
      <4>1. c[2] = "update" /\ c \in Calling
        BY <3>1, <3>2 DEF Calling
      <4>2. req[r].phase = "reading" /\ op = "login"
        BY <1>0, <3>2, <4>1, CallsOf
      <4>3. QED
        BY <2>2, <2>3, <3>2, <4>1, <4>2 DEF Due, Together
    <3>3. Orderly(waiting', using')
      BY <3>1 DEF Inv, Orderly
    <3>4. QED
      BY <2>3, <2>4, <3>1, <3>2, <3>3, Acts
  <2>7. QED
    BY <2>5, <2>6
<1>4. QED
  BY <1>1, <1>2, <1>3

\* What a waiting handler waits for, the handler that answers or goes on does not.
LEMMA LastCall ==
  ASSUME Inv, NEW r \in Requests, InFlight(r), NEW c \in using, c[1] = r, c[2] # "update",
         using' = using \ {c}
  PROVE  /\ Pending(r) = {c} =>
              \A d \in Range(waiting) \cup using' : d[1] = r => d[2] = "update"
         /\ \A d \in Range(waiting) \cup using' : d[1] = r => d[2] \in Together \cup {"update"}
<1>1. c \notin Range(waiting) \cup using'
  BY DEF Inv, Orderly
<1>2. ASSUME Pending(r) = {c}, NEW d \in Range(waiting) \cup using', d[1] = r
      PROVE  d[2] = "update"
  BY <1>1, <1>2 DEF Pending
<1>3. ASSUME NEW d \in Range(waiting) \cup using', d[1] = r, d[2] \notin Together \cup {"update"}
      PROVE  FALSE
  <2>1. d \in Calling /\ c \in Calling /\ c # d
    BY <1>1, <1>3 DEF Calling
  <2>2. /\ c[2] \in {"query", "invoice", "events"} /\ d[2] \in {"client", "query"}
        /\ c = <<r, c[2]>> /\ d = <<r, d[2]>>
    BY <2>1, <1>3, CallsOf DEF Inv, TypeOK, Kinds, Together
  <2>3. req[r].phase \in {"reading", "connecting", "open"}
    BY DEF Inv, TypeOK, InFlight
  <2>4. Due(c) /\ Due(d)
    BY <2>1 DEF Inv
  <2>5. QED
    BY <1>3, <2>1, <2>2, <2>3, CallsOf DEF Together
<1>4. QED
  BY <1>2, <1>3

-----------------------------------------------------------------------------
LEMMA ArriveKeeps ==
  ASSUME Inv, NEW r \in Requests, Arrive(r)
  PROVE  Inv'
<1>1. PICK op \in Operations :
        req' = [req EXCEPT ![r] = [op |-> op, phase |-> "reading", n |-> 0]]
  BY DEF Arrive
<1>2. /\ req' \in ReqType /\ req'[r].phase = "reading"
      /\ \A q \in Requests \ {r} : req'[q] = req[q]
  BY <1>1, PoolAssumption DEF Inv, TypeOK, ReqType, Phases
<1>3. r \notin holding
  BY DEF Inv, NoClientLeaks, Arrive
<1>4. \A c \in Calling : c[1] # r
  BY CallsOf DEF Arrive
<1>5. Orderly(waiting', using') /\ Calling' = Calling
  BY DEF Inv, Arrive, Calling
<1>6. QED
  BY <1>2, <1>3, <1>4, <1>5, Acts DEF Arrive

LEMMA TwoMore ==
  ASSUME NEW w \in Seq(Calls), NEW a \in Calls, NEW b \in Calls
  PROVE  w \o <<a, b>> = Append(Append(w, a), b)
OBVIOUS

LEMMA AskKeeps ==
  ASSUME Inv, NEW r \in Requests, Ask(r)
  PROVE  Inv'
<1>1. /\ Wants(r) /\ waiting' = waiting \o Asks(r)
      /\ req' = req /\ using' = using /\ holding' = holding
      /\ \A k \in {"client", "query", "invoice", "events"} :
           <<r, k>> \in Calls /\ <<r, k>> \notin Calling
  BY DEF Ask, Pending, Calling, Calls, Kinds, Together
<1>2. req' \in ReqType /\ (r \in holding' <=> req'[r].phase = "open")
  BY <1>1 DEF Inv, TypeOK, ReqType, Phases, NoClientLeaks
<1>3. ASSUME NEW c \in Calling PROVE Due(c)'
  BY <1>1, <1>3, DueFrame DEF Inv
<1>4. waiting \in Seq(Calls) /\ Orderly(waiting, using)
  BY DEF Inv, Orderly
<1>5. CASE req[r].op = "history" /\ req[r].phase # "connecting"
  <2> DEFINE w == Append(waiting, <<r, "invoice">>)
  <2>1. waiting' = Append(w, <<r, "events">>)
    <3>1. Asks(r) = <<<<r, "invoice">>, <<r, "events">>>>
      BY <1>5 DEF Asks
    <3>2. PICK a, b \in Calls : a = <<r, "invoice">> /\ b = <<r, "events">>
      BY <1>1
    <3>3. waiting \o <<a, b>> = Append(Append(waiting, a), b)
      BY <1>4, TwoMore
    <3>4. QED
      BY <1>1, <3>1, <3>2, <3>3
  <2>2. Orderly(w, using) /\ Range(w) = Range(waiting) \cup {<<r, "invoice">>}
    BY <1>1, <1>4, AppendOrderly DEF Calling
  <2> HIDE DEF w
  <2>3. /\ Orderly(waiting', using)
        /\ Range(waiting') = Range(waiting) \cup {<<r, "invoice">>, <<r, "events">>}
    <3>1. <<r, "events">> \notin Range(w) \cup using
      BY <1>1, <2>2 DEF Calling
    <3>2. QED
      BY <1>1, <2>1, <2>2, <3>1, AppendOrderly
  <2>4. req[r].phase = "reading"
    <3>1. Len(Inside(r)) = 0
      BY <1>5, PlanFacts DEF Inside, Handlers, Nesting
    <3>2. req[r].n \in Nat
      BY DEF Inv, TypeOK
    <3>3. QED
      BY <1>1, <1>5, <3>1, <3>2 DEF Wants, Queries, Faces
  <2>5. ASSUME NEW c \in Calling' PROVE Due(c)'
    <3>1. CASE c \in Calling
      BY <3>1, <1>3
    <3>2. CASE c \in {<<r, "invoice">>, <<r, "events">>}
      BY <3>2, <1>1, <1>5, <2>4 DEF Due, Together
    <3>3. QED
      BY <3>1, <3>2, <2>3, <1>1 DEF Calling
  <2>6. QED
    BY <1>1, <1>2, <2>3, <2>5, Acts DEF Ask, Kinds, Together
<1>6. ASSUME NEW k \in {"client", "query"}, Asks(r) = <<<<r, k>>>>, Due(<<r, k>>)
      PROVE  Inv'
  <2>1. /\ Orderly(waiting', using)
        /\ Range(waiting') = Range(waiting) \cup {<<r, k>>}
    <3>1. waiting' = Append(waiting, <<r, k>>)
      BY <1>1, <1>4, <1>6
    <3>2. QED
      BY <1>1, <1>4, <3>1, AppendOrderly DEF Calling
  <2>2. ASSUME NEW c \in Calling' PROVE Due(c)'
    <3>1. CASE c \in Calling
      BY <3>1, <1>3
    <3>2. CASE c = <<r, k>>
      BY <3>2, <1>1, <1>6, DueFrame
    <3>3. QED
      BY <3>1, <3>2, <2>1, <1>1 DEF Calling
  <2>3. QED
    BY <1>1, <1>2, <2>1, <2>2, Acts DEF Ask, Kinds
<1>7. CASE req[r].phase = "connecting"
  <2>1. Asks(r) = <<<<r, "client">>>>
    BY <1>7 DEF Asks
  <2>2. Due(<<r, "client">>)
    BY <1>7 DEF Due, Together
  <2>3. QED
    BY <2>1, <2>2, <1>6
<1>8. CASE req[r].op # "history" /\ req[r].phase # "connecting"
  <2>1. Queries(r)
    BY <1>1, <1>8 DEF Wants
  <2>2. QED
    BY <1>8, <2>1, <1>6 DEF Asks, Due, Together
<1>9. QED
  BY <1>5, <1>7, <1>8

LEMMA QueryDoneKeeps ==
  ASSUME Inv, NEW r \in Requests, NEW kind \in Kinds, QueryDone(<<r, kind>>)
  PROVE  Inv'
<1> DEFINE c == <<r, kind>>
<1>1. c \in using /\ using' = using \ {c} /\ c[1] = r /\ c[2] = kind
  BY DEF QueryDone
<1>2. CASE Awaited(c) /\ Pending(r) = {c}
  <2>1. StepsOn(r) /\ InFlight(r) /\ kind # "update"
    BY <1>2 DEF QueryDone, Awaited
  <2>2. \A d \in Range(waiting) \cup using' : d[1] = r => d[2] = "update"
    BY <1>1, <1>2, <2>1, LastCall
  <2>3. req[r].phase # "connecting"
    BY <1>1, CallsOf DEF Calling, Kinds, Together
  <2>4. QED
    BY <1>1, <2>1, <2>2, <2>3, StepsOnKeeps DEF QueryDone
<1>3. CASE ~ (Awaited(c) /\ Pending(r) = {c})
  <2>1. req' = req /\ waiting' = waiting /\ holding' = holding
    BY <1>3 DEF QueryDone
  <2>2. req' \in ReqType /\ (r \in holding' <=> req'[r].phase = "open")
    BY <2>1 DEF Inv, TypeOK, ReqType, Phases, NoClientLeaks
  <2>3. Orderly(waiting', using')
    BY <1>1, <2>1 DEF Inv, Orderly
  <2>4. ASSUME NEW d \in Calling' PROVE Due(d)'
    <3>1. d \in Calling
      BY <1>1, <2>1 DEF Calling
    <3>2. QED
      BY <3>1, <2>1, DueFrame DEF Inv
  <2>5. QED
    BY <1>1, <2>1, <2>2, <2>3, <2>4, Acts DEF QueryDone
<1>4. QED
  BY <1>2, <1>3

LEMMA FailsKeeps ==
  ASSUME Inv, NEW r \in Requests, Fails(r)
  PROVE  Inv'
<1>1. CASE QueryFails(r)
  <2>1. PICK c \in using : c[1] = r /\ Awaited(c) /\ using' = using \ {c}
    BY <1>1 DEF QueryFails
  <2>2. InFlight(r) /\ c[2] # "update"
    BY <2>1 DEF Awaited
  <2>3. QED
    BY <2>1, <2>2, LastCall, EndsKeeps DEF Fails
<1>2. CASE Throws(r)
  <2>1. InFlight(r) /\ using' = using
    BY <1>2 DEF Throws, Inv, NoClientLeaks, InFlight
  <2>2. \A c \in Range(waiting) \cup using' : c[1] = r => c[2] = "update"
    BY <1>2, <2>1 DEF Throws, Pending
  <2>3. QED
    BY <2>1, <2>2, EndsKeeps DEF Fails
<1>3. QED
  BY <1>1, <1>2 DEF Fails

\* An open handler that asks the pool for nothing has no call on its way.
LEMMA NoCalls ==
  ASSUME Inv, NEW r \in Requests, req[r].phase = "open", ~ Faces(r, "query")
  PROVE  \A c \in Calling : c[1] # r
BY CallsOf

LEMMA EnqueueKeeps ==
  ASSUME Inv, NEW r \in Requests, Enqueue(r)
  PROVE  Inv'
<1>1. req[r].phase = "open" /\ ~ Faces(r, "query") /\ InFlight(r)
  BY DEF Enqueue, Faces, InFlight
<1>2. \A c \in Range(waiting) \cup using' : c[1] # r
  BY <1>1, NoCalls DEF Enqueue, Calling
<1>3. CASE StepsOn(r) /\ UNCHANGED holding
  BY <1>1, <1>2, <1>3, StepsOnKeeps DEF Enqueue
<1>4. CASE Ends(r) /\ holding' = holding \ {r}
  BY <1>1, <1>2, <1>4, EndsKeeps DEF Enqueue
<1>5. QED
  BY <1>3, <1>4 DEF Enqueue

LEMMA ReleaseKeeps ==
  ASSUME Inv, NEW r \in Requests, Release(r)
  PROVE  Inv'
<1>1. req[r].phase = "open" /\ ~ Faces(r, "query") /\ InFlight(r)
  BY DEF Release, Faces, InFlight, Inv, TypeOK
<1>2. \A c \in Range(waiting) \cup using' : c[1] # r
  BY <1>1, NoCalls DEF Release, Calling
<1>3. QED
  BY <1>1, <1>2, EndsKeeps DEF Release

LEMMA ServeKeeps ==
  ASSUME Inv, Serve
  PROVE  Inv'
<1>1. PICK c : c = Head(waiting)
  OBVIOUS
<1>2. /\ waiting # <<>> /\ Cardinality(using) + Cardinality(holding) < PoolMax
      /\ waiting' = Tail(waiting) /\ redis' = redis /\ outages' = outages
      /\ IF c[2] = "client"
         THEN /\ holding' = holding \cup {c[1]} /\ using' = using
              /\ req' = [req EXCEPT ![c[1]].phase = "open"]
         ELSE using' = using \cup {c} /\ req' = req /\ holding' = holding
  BY <1>1 DEF Serve, Lent
<1>3. /\ Orderly(waiting', using) /\ c \in Calls
      /\ Range(waiting) = Range(waiting') \cup {c} /\ c \notin Range(waiting') \cup using
  BY <1>1, <1>2, TailOrderly DEF Inv
<1>4. c \in Calling /\ c = <<c[1], c[2]>> /\ c[1] \in Requests /\ Due(c)
  BY <1>3, CallsOf DEF Calling, Inv
<1>5. IsFiniteSet(using) /\ IsFiniteSet(holding)
  BY LentFinite DEF Inv
<1>6. Lent' <= PoolMax
  BY <1>2, <1>5, LentGrows DEF Lent
<1>7. CASE c[2] = "client"
  <2>1. req[c[1]].phase = "connecting"
    BY <1>4, <1>7 DEF Due
  <2>2. /\ req' \in ReqType /\ req'[c[1]].phase = "open"
        /\ \A q \in Requests \ {c[1]} : req'[q] = req[q]
    <3>1. PICK r \in Requests : r = c[1]
      BY <1>4
    <3>2. req' = [req EXCEPT ![r].phase = "open"]
      BY <1>2, <1>7, <3>1
    <3>3. /\ req' \in ReqType /\ req'[r].phase = "open"
          /\ \A q \in Requests \ {r} : req'[q] = req[q]
      BY <3>2 DEF Inv, TypeOK, ReqType, Phases
    <3>4. QED
      BY <3>1, <3>3
  <2>3. ASSUME NEW d \in Calling' PROVE d[1] \in Requests \ {c[1]} /\ Due(d)'
    <3>1. d \in Calling /\ d # c
      BY <1>2, <1>3, <1>7 DEF Calling
    <3>2. d[1] # c[1] /\ d[1] \in Requests
      BY <3>1, <2>1, <1>4, <1>7, CallsOf
    <3>3. QED
      BY <3>1, <3>2, <2>2, DueFrame DEF Inv
  <2>4. TypeOK'
    BY <1>2, <1>3, <1>4, <1>6, <1>7, <2>2 DEF Inv, TypeOK, ReqType, Phases, Orderly
  <2>5. NoClientLeaks'
    <3>1. ASSUME NEW q \in Requests PROVE q \in holding' <=> req'[q].phase = "open"
      BY <1>2, <1>7, <2>2 DEF Inv, NoClientLeaks
    <3>2. ASSUME NEW d \in using'
          PROVE  (InFlight(d[1]) \/ d[2] \in Together \cup {"update"})'
      <4>1. d \in using /\ d \in Calling'
        BY <1>2, <1>7 DEF Calling
      <4>2. req'[d[1]] = req[d[1]]
        BY <4>1, <2>2, <2>3
      <4>3. QED
        BY <4>1, <4>2 DEF Inv, NoClientLeaks, InFlight
    <3>3. QED
      BY <3>1, <3>2 DEF NoClientLeaks
  <2>6. Orderly(waiting', using')
    BY <1>2, <1>3, <1>7
  <2>7. QED
    BY <2>3, <2>4, <2>5, <2>6 DEF Inv
<1>8. CASE c[2] # "client"
  <2>1. c \in Requests \X Kinds
    BY <1>3, <1>8 DEF Calls
  <2>2. Orderly(waiting', using')
    BY <1>2, <1>3, <1>8, <2>1 DEF Orderly
  <2>3. Calling' = Calling
    BY <1>2, <1>3, <1>8 DEF Calling
  <2>4. TypeOK'
    BY <1>2, <1>6, <1>8, <2>2 DEF Inv, TypeOK, Orderly
  <2>5. NoClientLeaks'
    <3>1. InFlight(c[1]) \/ c[2] \in Together \cup {"update"}
      BY <1>4, <2>1, DueOutlives
    <3>2. QED
      BY <1>2, <1>8, <3>1 DEF Inv, NoClientLeaks, InFlight
  <2>6. \A d \in Calling' : Due(d)'
    BY <1>2, <1>8, <2>3, DueFrame DEF Inv
  <2>7. QED
    BY <2>2, <2>4, <2>5, <2>6 DEF Inv
<1>9. QED
  BY <1>7, <1>8

\* Redis, and stuttering, touch neither the pool nor the handlers.
LEMMA OutsideKeeps ==
  ASSUME Inv, UNCHANGED <<req, waiting, using, holding>>,
         redis' \in {"up", "down", "closed"}, outages' \in 0 .. MaxOutages
  PROVE  Inv'
<1>1. TypeOK'
  BY DEF Inv, TypeOK, Lent
<1>2. NoClientLeaks'
  BY DEF Inv, NoClientLeaks, InFlight
<1>3. Orderly(waiting', using') /\ Calling' = Calling
  BY DEF Inv, Calling
<1>4. \A c \in Calling' : Due(c)'
  BY <1>3, DueFrame DEF Inv
<1>5. QED
  BY <1>1, <1>2, <1>3, <1>4 DEF Inv

LEMMA StepInv ==
  ASSUME Inv, [Next]_vars
  PROVE  Inv'
<1>1. ASSUME NEW r \in Requests, Arrive(r) \/ Handles(r) \/ Fails(r)
      PROVE  Inv'
  BY <1>1, ArriveKeeps, AskKeeps, QueryDoneKeeps, EnqueueKeeps, ReleaseKeeps, FailsKeeps
     DEF Handles
<1>2. CASE Serve
  BY <1>2, ServeKeeps
<1>3. CASE Outage
  BY <1>3, OutsideKeeps, PoolAssumption DEF Outage, Inv, TypeOK
<1>4. CASE Reconnect
  BY <1>4, OutsideKeeps DEF Reconnect, Inv, TypeOK
<1>5. CASE UNCHANGED vars
  BY <1>5, OutsideKeeps DEF vars, Inv, TypeOK
<1>6. QED
  BY <1>1, <1>2, <1>3, <1>4, <1>5 DEF Next

LEMMA SpecInv == Spec => []Inv
<1>1. Init => Inv
  BY InitInv
<1>2. Inv /\ [Next]_vars => Inv'
  BY StepInv
<1>3. QED
  BY <1>1, <1>2, PTL DEF Spec

-----------------------------------------------------------------------------
\* A handler that holds a client and waits is one of the nesting operations.
LEMMA HoldersNest ==
  ASSUME Inv, \A r \in holding : <<r, "query">> \in Range(waiting)
  PROVE  holding \subseteq Nested
<1> SUFFICES ASSUME NEW r \in holding PROVE r \in Nested
  OBVIOUS
<1>1. r \in Requests /\ req[r].phase = "open" /\ req[r].op \in Handlers /\ req[r].n \in Nat
  BY DEF Inv, TypeOK, NoClientLeaks
<1>2. Faces(r, "query")
  <2>1. Due(<<r, "query">>)
    BY DEF Inv, Calling
  <2>2. QED
    BY <1>1, <2>1 DEF Due, Queries
<1>3. req[r].n < Len(Plan[req[r].op].inside)
  BY <1>2 DEF Faces, Inside
<1>4. req[r].op \in Nesting
  BY <1>1, <1>3, PlanFacts
<1>5. QED
  BY <1>1, <1>4 DEF Nested, InFlight

\* The pool never lends more clients than it has, whoever asks for how many.
THEOREM PoolTypeCorrect == Spec => []TypeOK
<1>1. Inv => TypeOK
  BY DEF Inv
<1>2. QED
  BY <1>1, SpecInv, PTL

\* No way out of a handler leaves a client it took for itself lent (the `finally' of
\* every handler that called pool.connect), and the client of a query outlives the
\* handler only where the code does not wait for the query: the other query of a
\* history, the update of the guard, the update of a login.
THEOREM NoLeak == Spec => []NoClientLeaks
<1>1. Inv => NoClientLeaks
  BY DEF Inv
<1>2. QED
  BY <1>1, SpecInv, PTL

\* Whatever the size of the pool and the load, the pool runs dry for good only when
\* as many requests as it has clients are in operations that need a second one.
THEOREM DryOnlyByNesting == Spec => []StuckOnlyByNesting
<1>1. ASSUME Inv, Stuck PROVE Cardinality(Nested) >= PoolMax
  <2>1. holding \subseteq Nested
    BY <1>1, HoldersNest DEF Stuck
  <2>2. IsFiniteSet(Nested)
    BY FS_Subset, PoolAssumption DEF Nested
  <2>3. Cardinality(holding) <= Cardinality(Nested)
    BY <2>1, <2>2, FS_Subset
  <2>4. Cardinality(Nested) \in Nat /\ Cardinality(holding) = PoolMax
    BY <1>1, <2>2, FS_CardinalityType DEF Stuck
  <2>5. QED
    BY <2>3, <2>4, PoolAssumption
<1>2. Inv => StuckOnlyByNesting
  BY <1>1 DEF StuckOnlyByNesting
<1>3. QED
  BY <1>2, SpecInv, PTL

=============================================================================
