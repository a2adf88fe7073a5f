------------------------------- MODULE AuthProofs -------------------------------
(***************************************************************************)
(* Theorems about AuthService, for any set of requests, addresses, tax     *)
(* numbers and passwords.                                                  *)
(***************************************************************************)
EXTENDS AuthService, TLAPS

-----------------------------------------------------------------------------
(* The inductive invariant *)

Registering == {"register.find", "register.org", "register.credential"}
LoggingIn == {"login.find", "login.org"}

\* The credential e is for this organisation and has this password.
Opens(e, o, password) ==
  /\ e \in DOMAIN credentials
  /\ credentials[e].org = o /\ credentials[e].password = password

\* A request is at a step of what it asked for, and has what the step needs.
Asks(r) ==
  /\ pc[r] \in Registering => cmd[r] \in RegisterCmds
  /\ pc[r] \in LoggingIn => cmd[r] \in LoginCmds
  /\ pc[r] = "register.credential" => org[r] \in DOMAIN organisations
  /\ pc[r] = "login.org" => Opens(Stored(r), org[r], cmd[r].password)

\* Two registrations of one address in flight have overlapped.
Overlaps ==
  \A r, s \in Requests :
    /\ r # s
    /\ pc[r] \in Registering /\ pc[s] \in Registering
    /\ Stored(r) = Stored(s)
    => history.raced

\* The address a registration has looked up is free, but for a race or a failure.
StillFree ==
  \A r \in Requests :
    pc[r] \in {"register.org", "register.credential"} =>
      Stored(r) \notin DOMAIN credentials \/ history.raced \/ history.failed

AuthInv ==
  /\ TypeOK
  /\ \A r \in Requests : Asks(r)
  /\ TokenIsOwners
  /\ Overlaps
  /\ StillFree
  /\ OrphanNeedsRaceOrFailure

-----------------------------------------------------------------------------
(* What a step leaves alone *)

Others(r) ==
  \A s \in Requests \ {r} : pc'[s] = pc[s] /\ cmd'[s] = cmd[s] /\ org'[s] = org[s]

\* No credential changes hands, and no organisation goes.
Grows ==
  /\ \A e \in DOMAIN credentials :
       /\ e \in DOMAIN credentials'
       /\ credentials'[e].org = credentials[e].org
       /\ credentials'[e].password = credentials[e].password
  /\ DOMAIN organisations \subseteq DOMAIN organisations'

LEMMA MovesOnly ==
  ASSUME TypeOK, NEW r \in Requests, NEW step, Moves(r, step)
  PROVE  /\ Others(r) /\ Grows
         /\ pc'[r] = step /\ cmd' = cmd /\ org' = org
         /\ organisations' = organisations /\ credentials' = credentials
         /\ recording' = recording /\ issued' = issued /\ history' = history
  BY DEF TypeOK, Moves, Goto, Others, Grows

LEMMA InsertedOrganisation ==
  ASSUME TypeOK, NEW r \in Requests, NEW gstin \in Gstins \cup {Null},
         InsertOrganisation(r, gstin)
  PROVE  LET new == Len(organisations) + 1 IN
         /\ Grows
         /\ organisations' \in Seq(Gstins \cup {Null})
         /\ DOMAIN organisations' = DOMAIN organisations \cup {new}
         /\ new \notin DOMAIN organisations
         /\ org' = [org EXCEPT ![r] = new]
         /\ org' \in [Requests -> {NoOrg} \cup DOMAIN organisations']
         /\ credentials' = credentials /\ cmd' = cmd /\ recording' = recording /\ issued' = issued
  BY DEF TypeOK, InsertOrganisation, Grows, NoOrg

LEMMA InsertedCredential ==
  ASSUME TypeOK, NEW r \in Requests, InsertCredential(r, Stored(r)),
         cmd[r] \in RegisterCmds, org[r] \in DOMAIN organisations
  PROVE  /\ Grows
         /\ Stored(r) \notin DOMAIN credentials
         /\ DOMAIN credentials' = DOMAIN credentials \cup {Stored(r)}
         /\ Stored(r) \in StoredEmails
         /\ credentials'[Stored(r)].org = org[r]
         /\ credentials'[Stored(r)].password = cmd[r].password
         /\ \A e \in DOMAIN credentials' : credentials'[e] \in CredentialRows
                                          /\ credentials'[e].org \in DOMAIN organisations
         /\ organisations' = organisations /\ cmd' = cmd /\ org' = org
         /\ recording' = recording /\ issued' = issued
  <1> DEFINE row == [org |-> org[r], password |-> cmd[r].password, loggedIn |-> FALSE]
  <1>1. /\ organisations' = organisations /\ cmd' = cmd /\ org' = org
        /\ recording' = recording /\ issued' = issued
        /\ Stored(r) \notin DOMAIN credentials
        /\ credentials' = Put(credentials, Stored(r), row)
    BY DEF InsertCredential
  <1>2. cmd[r].address \in Addresses /\ cmd[r].password \in Passwords
    BY DEF RegisterCmds
  <1>3. Stored(r) \in StoredEmails
    BY <1>2 DEF StoredEmails, Stored
  <1>4. org[r] \in Nat \ {0}
    BY DEF TypeOK
  <1>5. row \in CredentialRows /\ row.org = org[r] /\ row.password = cmd[r].password
    BY <1>2, <1>4 DEF CredentialRows
  <1> HIDE DEF row
  <1>6. /\ DOMAIN credentials' = DOMAIN credentials \cup {Stored(r)}
        /\ credentials'[Stored(r)] = row
        /\ \A e \in DOMAIN credentials : credentials'[e] = credentials[e]
    BY <1>1 DEF Put
  <1>7. \A e \in DOMAIN credentials' : credentials'[e] \in CredentialRows
                                     /\ credentials'[e].org \in DOMAIN organisations
    BY <1>5, <1>6 DEF TypeOK
  <1>8. Grows
    BY <1>1, <1>6 DEF Grows
  <1> QED BY <1>1, <1>3, <1>5, <1>6, <1>7, <1>8

LEMMA OthersAsk ==
  ASSUME NEW r \in Requests, Others(r), Grows, NEW s \in Requests \ {r}, Asks(s)
  PROVE  Asks(s)'
  <1>1. pc'[s] = pc[s] /\ cmd'[s] = cmd[s] /\ org'[s] = org[s] /\ Stored(s)' = Stored(s)
    BY DEF Others, Stored
  <1> QED BY <1>1 DEF Grows, Asks, Opens

LEMMA TokensKept ==
  ASSUME Grows, TokenIsOwners, NEW t \in history.told
  PROVE  LET e == Lower[t.address] IN
         /\ e \in DOMAIN credentials'
         /\ credentials'[e].org = t.org /\ credentials'[e].password = t.password
  BY DEF Grows, TokenIsOwners

LEMMA GstinOK ==
  ASSUME NEW r \in Requests, cmd[r] \in RegisterCmds
  PROVE  Gstin(r) \in Gstins \cup {Null}
  BY DEF Gstin, RegisterCmds

-----------------------------------------------------------------------------
(* What a step of request r has to show *)

\* Nothing the properties remember is forgotten.
Remembers ==
  /\ history.raced => history'.raced
  /\ history.failed => history'.failed

\* A token that is told is good when it is told.
TellsTruth ==
  \A t \in history'.told \ history.told : Opens(Lower[t.address], t.org, t.password)'

\* r does not start to overlap unnoticed.
NoNewOverlap(r) ==
  \A s \in Requests \ {r} :
    pc'[r] \in Registering /\ pc[s] \in Registering /\ Stored(r)' = Stored(s)
      => history'.raced

\* A credential is added only for the address of r.
AddsOwn(r) ==
  /\ DOMAIN credentials' # DOMAIN credentials =>
       pc[r] \in Registering /\ DOMAIN credentials' \subseteq DOMAIN credentials \cup {Stored(r)}
  /\ pc'[r] \in {"register.org", "register.credential"} =>
       Stored(r)' \notin DOMAIN credentials' \/ history'.raced \/ history'.failed

\* An organisation without a credential is not r's doing, or waits for r.
Adopts(r) ==
  \A o \in DOMAIN organisations' :
    Orphan(o)' =>
      \/ o \in DOMAIN organisations /\ ~ (pc[r] = "register.credential" /\ org[r] = o)
      \/ pc'[r] = "register.credential" /\ org'[r] = o
      \/ history'.raced \/ history'.failed

LEMMA StepKeeps ==
  ASSUME AuthInv, NEW r \in Requests, Others(r), Grows, TypeOK', Asks(r)', Remembers,
         TellsTruth, NoNewOverlap(r), AddsOwn(r), Adopts(r)
  PROVE  AuthInv'
  <1>1. ASSUME NEW s \in Requests PROVE Asks(s)'
    <2>1. CASE s = r
      BY <2>1
    <2>2. CASE s # r
      BY <2>2, OthersAsk DEF AuthInv
    <2> QED BY <2>1, <2>2
  <1>2. TokenIsOwners'
    <2> SUFFICES ASSUME NEW t \in history'.told
                 PROVE  LET e == Lower[t.address] IN
                        /\ e \in DOMAIN credentials'
                        /\ credentials'[e].org = t.org /\ credentials'[e].password = t.password
      BY DEF TokenIsOwners
    <2>1. CASE t \in history.told
      BY <2>1, TokensKept DEF AuthInv
    <2>2. CASE t \notin history.told
      BY <2>2 DEF TellsTruth, Opens
    <2> QED BY <2>1, <2>2
  <1>3. \A s \in Requests \ {r} :
          pc'[s] = pc[s] /\ Stored(s)' = Stored(s) /\ org'[s] = org[s]
    BY DEF Others, Stored
  <1>4. Overlaps'
    <2> SUFFICES ASSUME NEW s \in Requests, NEW u \in Requests, s # u,
                        pc'[s] \in Registering, pc'[u] \in Registering,
                        Stored(s)' = Stored(u)'
                 PROVE  history'.raced
      BY DEF Overlaps
    <2>1. CASE s = r
      BY <1>3, <2>1 DEF NoNewOverlap
    <2>2. CASE u = r
      BY <1>3, <2>2 DEF NoNewOverlap
    <2>3. CASE s # r /\ u # r
      BY <1>3, <2>3 DEF AuthInv, Overlaps, Remembers
    <2> QED BY <2>1, <2>2, <2>3
  <1>5. StillFree'
    <2> SUFFICES ASSUME NEW s \in Requests,
                        pc'[s] \in {"register.org", "register.credential"}
                 PROVE  Stored(s)' \notin DOMAIN credentials'
                          \/ history'.raced \/ history'.failed
      BY DEF StillFree
    <2>1. CASE s = r
      BY <2>1 DEF AddsOwn
    <2>2. CASE s # r
      <3>1. pc[s] \in {"register.org", "register.credential"} /\ Stored(s)' = Stored(s)
        BY <1>3, <2>2
      <3>2. Stored(s) \notin DOMAIN credentials \/ history'.raced \/ history'.failed
        BY <3>1 DEF AuthInv, StillFree, Remembers
      <3>3. CASE DOMAIN credentials' = DOMAIN credentials
        BY <3>1, <3>2, <3>3
      <3>4. CASE pc[r] \in Registering /\ Stored(r) = Stored(s)
        BY <2>2, <3>1, <3>4 DEF AuthInv, Overlaps, Registering, Remembers
      <3> QED BY <3>1, <3>2, <3>3, <3>4 DEF AddsOwn
    <2> QED BY <2>1, <2>2
  <1>6. OrphanNeedsRaceOrFailure'
    <2> SUFFICES ASSUME NEW o \in DOMAIN organisations', Orphan(o)',
                        ~ history'.raced, ~ history'.failed
                 PROVE  \E s \in Requests : pc'[s] = "register.credential" /\ org'[s] = o
      BY DEF OrphanNeedsRaceOrFailure
    <2>1. CASE pc'[r] = "register.credential" /\ org'[r] = o
      BY <2>1
    <2>2. CASE o \in DOMAIN organisations /\ ~ (pc[r] = "register.credential" /\ org[r] = o)
      <3>1. Orphan(o)
        BY DEF Orphan, Grows
      <3>2. PICK s \in Requests : pc[s] = "register.credential" /\ org[s] = o
        BY <2>2, <3>1 DEF AuthInv, OrphanNeedsRaceOrFailure, Remembers
      <3> QED BY <1>3, <2>2, <3>2
    <2> QED BY <2>1, <2>2 DEF Adopts
  <1> QED BY <1>1, <1>2, <1>4, <1>5, <1>6 DEF AuthInv

\* A step that moves nothing but the request.
LEMMA MoveKeeps ==
  ASSUME AuthInv, NEW r \in Requests, NEW step, Moves(r, step), Asks(r)',
         step \in {"register.org", "error", "unauthorized"},
         pc[r] = "register.find" /\ step = "register.org" => Stored(r) \notin DOMAIN credentials,
         step = "register.org" => pc[r] = "register.find",
         pc[r] = "register.credential" =>
           ~ Orphan(org[r]) \/ history.raced \/ history.failed
  PROVE  AuthInv'
  <1>1. /\ Others(r) /\ Grows
        /\ pc'[r] = step /\ cmd' = cmd /\ org' = org
        /\ organisations' = organisations /\ credentials' = credentials
        /\ recording' = recording /\ issued' = issued /\ history' = history
    BY MovesOnly DEF AuthInv
  <1>2. pc' = [pc EXCEPT ![r] = step]
    BY DEF Moves, Goto
  <1>3. TypeOK'
    BY <1>1, <1>2 DEF AuthInv, TypeOK, Answers
  <1>4. Remembers /\ TellsTruth
    BY <1>1 DEF Remembers, TellsTruth
  <1>5. Stored(r)' = Stored(r)
    BY <1>1 DEF Stored
  <1>6. NoNewOverlap(r)
    BY <1>1, <1>5 DEF NoNewOverlap, AuthInv, Overlaps, Registering
  <1>7. AddsOwn(r)
    BY <1>1, <1>5 DEF AddsOwn
  <1>8. Adopts(r)
    BY <1>1 DEF Adopts, Orphan
  <1> QED BY <1>1, <1>3, <1>4, <1>6, <1>7, <1>8, StepKeeps

-----------------------------------------------------------------------------
(* The actions *)

LEMMA ArriveKeeps ==
  ASSUME AuthInv, NEW r \in Requests, Arrive(r)
  PROVE  AuthInv'
  <1>1. PICK c \in RegisterCmds \cup LoginCmds :
          /\ cmd' = [cmd EXCEPT ![r] = c]
          /\ Goto(r, IF c.op = "register" THEN "register.find" ELSE "login.find")
          /\ history' = [history EXCEPT !.raced = @ \/
               \E s \in Requests : /\ Running(s) /\ c.op = "register" /\ cmd[s].op = "register"
                                   /\ Lower[cmd[s].address] = Lower[c.address]]
    BY DEF Arrive
  <1> DEFINE step == IF c.op = "register" THEN "register.find" ELSE "login.find"
             meets == \E s \in Requests : /\ Running(s) /\ c.op = "register"
                                          /\ cmd[s].op = "register"
                                          /\ Lower[cmd[s].address] = Lower[c.address]
  <1>2. /\ organisations' = organisations /\ credentials' = credentials /\ org' = org
        /\ recording' = recording /\ issued' = issued + 1 /\ issued < MaxRequests
        /\ pc[r] = "idle" /\ pc' = [pc EXCEPT ![r] = step]
    BY <1>1 DEF Arrive, Goto
  <1>3. /\ c.op = "register" => c \in RegisterCmds
        /\ c.op # "register" => c \in LoginCmds
    BY DEF RegisterCmds, LoginCmds
  <1>4. /\ Others(r) /\ Grows /\ cmd'[r] = c /\ pc'[r] = step
        /\ step \in {"register.find", "login.find"}
    BY <1>1, <1>2 DEF AuthInv, TypeOK, Others, Grows
  <1>5. /\ history'.told = history.told /\ history'.failed = history.failed
        /\ history'.raced = (history.raced \/ meets)
        /\ history' \in [told: SUBSET Tokens, failed: BOOLEAN, raced: BOOLEAN]
    <2>1. history \in [told: SUBSET Tokens, failed: BOOLEAN, raced: BOOLEAN]
      BY DEF AuthInv, TypeOK
    <2>2. PICK raced : raced = (history.raced \/ meets)
      OBVIOUS
    <2>3. raced \in BOOLEAN
      BY <2>2
    <2>4. history' = [history EXCEPT !.raced = raced]
      BY <1>1, <2>2
    <2> HIDE DEF meets
    <2> QED BY <2>1, <2>2, <2>3, <2>4
  <1>6. issued' \in 0 .. MaxRequests
    BY <1>2, AuthAssumption DEF AuthInv, TypeOK
  <1>7. cmd' \in [Requests -> RegisterCmds \cup LoginCmds \cup {NoCmd}]
    BY <1>1 DEF AuthInv, TypeOK
  <1>8. TypeOK'
    <2> HIDE DEF meets
    <2> QED BY <1>2, <1>4, <1>5, <1>6, <1>7 DEF AuthInv, TypeOK
  <1>9. Asks(r)'
    BY <1>3, <1>4 DEF Asks, Registering, LoggingIn
  <1>10. Remembers /\ TellsTruth
    BY <1>5 DEF Remembers, TellsTruth
  <1>11. NoNewOverlap(r)
    <2> SUFFICES ASSUME NEW s \in Requests \ {r}, step = "register.find",
                        pc[s] \in Registering, Stored(r)' = Stored(s)
                 PROVE  history'.raced
      BY <1>4 DEF NoNewOverlap, Registering
    <2>1. Running(s)
      BY DEF Running, Registering, Answers
    <2>2. cmd[s].op = "register"
      BY DEF AuthInv, Asks, RegisterCmds
    <2>3. Lower[cmd[s].address] = Lower[c.address]
      BY <1>4 DEF Stored
    <2> QED BY <1>5, <2>1, <2>2, <2>3
  <1>12. AddsOwn(r) /\ Adopts(r)
    <2>1. AddsOwn(r)
      BY <1>2, <1>4 DEF AddsOwn
    <2>2. Adopts(r)
      BY <1>2 DEF Adopts
    <2> QED BY <2>1, <2>2
  <1> QED BY <1>4, <1>8, <1>9, <1>10, <1>11, <1>12, StepKeeps

LEMMA RegisterFindKeeps ==
  ASSUME AuthInv, NEW r \in Requests, RegisterFind(r)
  PROVE  AuthInv'
  <1>1. PICK step \in {"error", "register.org"} :
          Moves(r, step) /\ (step = "register.org" => Stored(r) \notin DOMAIN credentials)
    BY DEF RegisterFind
  <1>2. pc[r] = "register.find" /\ cmd[r] \in RegisterCmds
    BY DEF RegisterFind, AuthInv, Asks, Registering
  <1>3. Asks(r)'
    BY <1>1, <1>2, MovesOnly DEF AuthInv, Asks, Registering, LoggingIn
  <1> QED BY <1>1, <1>2, <1>3, MoveKeeps

LEMMA RegisterOrgKeeps ==
  ASSUME AuthInv, NEW r \in Requests, RegisterOrg(r)
  PROVE  AuthInv'
  <1>1. pc[r] = "register.org" /\ cmd[r] \in RegisterCmds
    BY DEF RegisterOrg, AuthInv, Asks, Registering
  <1>2. CASE Moves(r, "error")
    <2>1. Asks(r)'
      BY <1>2, MovesOnly DEF AuthInv, Asks, Registering, LoggingIn
    <2> QED BY <1>1, <1>2, <2>1, MoveKeeps
  <1>3. CASE /\ InsertOrganisation(r, Gstin(r)) /\ Goto(r, "register.credential")
             /\ UNCHANGED history
    <2> DEFINE new == Len(organisations) + 1
    <2>1. /\ Grows
          /\ organisations' \in Seq(Gstins \cup {Null})
          /\ DOMAIN organisations' = DOMAIN organisations \cup {new}
          /\ org' = [org EXCEPT ![r] = new]
          /\ org' \in [Requests -> {NoOrg} \cup DOMAIN organisations']
          /\ credentials' = credentials /\ cmd' = cmd /\ recording' = recording /\ issued' = issued
      BY <1>1, <1>3, GstinOK, InsertedOrganisation DEF AuthInv
    <2>2. pc' = [pc EXCEPT ![r] = "register.credential"] /\ history' = history
      BY <1>3 DEF Goto
    <2> HIDE DEF new
    <2>3. /\ Others(r) /\ pc'[r] = "register.credential" /\ org'[r] = new
          /\ Stored(r)' = Stored(r)
      BY <2>1, <2>2 DEF AuthInv, TypeOK, Others, Stored
    <2>4. TypeOK'
      BY <2>1, <2>2 DEF AuthInv, TypeOK
    <2>5. Asks(r)'
      BY <1>1, <2>1, <2>3 DEF Asks, Registering, LoggingIn
    <2>6. Remembers /\ TellsTruth
      BY <2>2 DEF Remembers, TellsTruth
    <2>7. NoNewOverlap(r)
      BY <1>1, <2>2, <2>3 DEF NoNewOverlap, AuthInv, Overlaps, Registering
    <2>8. AddsOwn(r)
      BY <1>1, <2>1, <2>2, <2>3 DEF AddsOwn, AuthInv, StillFree
    <2>9. Adopts(r)
      BY <1>1, <2>1, <2>3 DEF Adopts
    <2> QED BY <2>1, <2>3, <2>4, <2>5, <2>6, <2>7, <2>8, <2>9, StepKeeps
  <1> QED BY <1>2, <1>3 DEF RegisterOrg

\* The token a request is told belongs to the credential of its address.
LEMMA TellsOwn ==
  ASSUME AuthInv, NEW r \in Requests, Tell(r), cmd[r] \in RegisterCmds \cup LoginCmds,
         Opens(Stored(r), org[r], cmd[r].password)', cmd' = cmd, org' = org,
         org[r] \in Nat \ {0}
  PROVE  /\ history' \in [told: SUBSET Tokens, failed: BOOLEAN, raced: BOOLEAN]
         /\ Remembers /\ TellsTruth
         /\ history'.raced = history.raced
  <1>0. PICK token :
          token = [address |-> cmd[r].address, password |-> cmd[r].password, org |-> org[r]]
    OBVIOUS
  <1>1. token \in Tokens /\ token.address = cmd[r].address
        /\ token.password = cmd[r].password /\ token.org = org[r]
    BY <1>0 DEF Tokens, RegisterCmds, LoginCmds
  <1>2. history' = [history EXCEPT !.told = @ \cup {token}]
    BY <1>0 DEF Tell
  <1>3. history \in [told: SUBSET Tokens, failed: BOOLEAN, raced: BOOLEAN]
    BY DEF AuthInv, TypeOK
  <1>4. /\ history'.told = history.told \cup {token}
        /\ history'.failed = history.failed /\ history'.raced = history.raced
        /\ history' \in [told: SUBSET Tokens, failed: BOOLEAN, raced: BOOLEAN]
    BY <1>1, <1>2, <1>3
  <1>5. Opens(Lower[token.address], token.org, token.password)'
    BY <1>1 DEF Stored, Opens
  <1>6. TellsTruth
    BY <1>4, <1>5 DEF TellsTruth
  <1> QED BY <1>4, <1>6 DEF Remembers

LEMMA RegisterCredentialKeeps ==
  ASSUME AuthInv, NEW r \in Requests, RegisterCredential(r)
  PROVE  AuthInv'
  <1>1. /\ pc[r] = "register.credential" /\ cmd[r] \in RegisterCmds
        /\ org[r] \in DOMAIN organisations
    BY DEF RegisterCredential, AuthInv, Asks, Registering
  <1>2. CASE Stored(r) \in DOMAIN credentials /\ Moves(r, "error")
    <2>1. Asks(r)'
      BY <1>2, MovesOnly DEF AuthInv, Asks, Registering, LoggingIn
    <2>2. history.raced \/ history.failed
      BY <1>1, <1>2 DEF AuthInv, StillFree
    <2> QED BY <1>1, <1>2, <2>1, <2>2, MoveKeeps
  <1>3. CASE InsertCredential(r, Stored(r)) /\ Tell(r) /\ Goto(r, "ok")
    <2>1. /\ Grows
          /\ DOMAIN credentials' = DOMAIN credentials \cup {Stored(r)}
          /\ Stored(r) \in StoredEmails
          /\ credentials'[Stored(r)].org = org[r]
          /\ credentials'[Stored(r)].password = cmd[r].password
          /\ \A e \in DOMAIN credentials' : credentials'[e] \in CredentialRows
                                          /\ credentials'[e].org \in DOMAIN organisations
          /\ organisations' = organisations /\ cmd' = cmd /\ org' = org
          /\ recording' = recording /\ issued' = issued
      BY <1>1, <1>3, InsertedCredential DEF AuthInv
    <2>2. pc' = [pc EXCEPT ![r] = "ok"]
      BY <1>3 DEF Goto
    <2>3. Others(r) /\ pc'[r] = "ok" /\ Stored(r)' = Stored(r)
      BY <2>1, <2>2 DEF AuthInv, TypeOK, Others, Stored
    <2>4. Opens(Stored(r), org[r], cmd[r].password)'
      BY <2>1, <2>3 DEF Opens
    <2>5. org[r] \in Nat \ {0}
      BY <1>1 DEF AuthInv, TypeOK
    <2>6. /\ history' \in [told: SUBSET Tokens, failed: BOOLEAN, raced: BOOLEAN]
          /\ Remembers /\ TellsTruth /\ history'.raced = history.raced
      BY <1>1, <1>3, <2>1, <2>4, <2>5, TellsOwn
    <2>7. TypeOK'
      BY <2>1, <2>2, <2>6 DEF AuthInv, TypeOK, Answers
    <2>8. Asks(r)'
      BY <2>3 DEF Asks, Registering, LoggingIn
    <2>9. NoNewOverlap(r) /\ AddsOwn(r)
      BY <1>1, <2>1, <2>3 DEF NoNewOverlap, AddsOwn, Registering
    <2>10. Adopts(r)
      BY <2>1 DEF Adopts, Orphan
    <2> QED BY <2>1, <2>3, <2>6, <2>7, <2>8, <2>9, <2>10, StepKeeps
  <1> QED BY <1>2, <1>3 DEF RegisterCredential

LEMMA LoginFindKeeps ==
  ASSUME AuthInv, NEW r \in Requests, LoginFind(r)
  PROVE  AuthInv'
  <1>1. pc[r] = "login.find" /\ cmd[r] \in LoginCmds
    BY DEF LoginFind, AuthInv, Asks, LoggingIn
  <1>2. CASE Moves(r, "unauthorized")
    <2>1. Asks(r)'
      BY <1>2, MovesOnly DEF AuthInv, Asks, Registering, LoggingIn
    <2> QED BY <1>1, <1>2, <2>1, MoveKeeps
  <1>3. CASE ~ Moves(r, "unauthorized")
    <2> DEFINE owner == credentials[Stored(r)].org
    <2>1. /\ Opens(Stored(r), owner, cmd[r].password)
          /\ org' = [org EXCEPT ![r] = owner] /\ recording' = recording \cup {org'[r]}
          /\ pc' = [pc EXCEPT ![r] = "login.org"]
          /\ organisations' = organisations /\ credentials' = credentials /\ cmd' = cmd
          /\ issued' = issued /\ history' = history
      BY <1>3 DEF LoginFind, Opens, Goto
    <2>2. owner \in DOMAIN organisations
      BY <2>1 DEF AuthInv, TypeOK, Opens
    <2> HIDE DEF owner
    <2>3. /\ Others(r) /\ Grows /\ pc'[r] = "login.org" /\ org'[r] = owner /\ cmd'[r] = cmd[r]
          /\ Stored(r)' = Stored(r)
      BY <2>1 DEF AuthInv, TypeOK, Others, Grows, Stored
    <2>4. TypeOK'
      BY <2>1, <2>2, <2>3 DEF AuthInv, TypeOK
    <2>5. Asks(r)'
      BY <1>1, <2>1, <2>3 DEF Asks, Registering, LoggingIn, Opens
    <2>6. Remembers /\ TellsTruth
      BY <2>1 DEF Remembers, TellsTruth
    <2>7. NoNewOverlap(r) /\ AddsOwn(r)
      BY <2>1, <2>3 DEF NoNewOverlap, AddsOwn, Registering
    <2>8. Adopts(r)
      BY <1>1, <2>1 DEF Adopts
    <2> QED BY <2>3, <2>4, <2>5, <2>6, <2>7, <2>8, StepKeeps
  <1> QED BY <1>2, <1>3

LEMMA LoginOrgKeeps ==
  ASSUME AuthInv, NEW r \in Requests, LoginOrg(r)
  PROVE  AuthInv'
  <1>1. /\ pc[r] = "login.org" /\ cmd[r] \in LoginCmds
        /\ Opens(Stored(r), org[r], cmd[r].password)
    BY DEF LoginOrg, AuthInv, Asks, LoggingIn
  <1>2. /\ pc' = [pc EXCEPT ![r] = "ok"] /\ Tell(r)
        /\ organisations' = organisations /\ credentials' = credentials /\ cmd' = cmd
        /\ org' = org /\ recording' = recording /\ issued' = issued
    BY DEF LoginOrg, Goto
  <1>3. Others(r) /\ Grows /\ pc'[r] = "ok"
    BY <1>2 DEF AuthInv, TypeOK, Others, Grows
  <1>4. org[r] \in Nat \ {0}
    BY <1>1 DEF AuthInv, TypeOK, Opens, CredentialRows
  <1>5. Opens(Stored(r), org[r], cmd[r].password)'
    BY <1>1, <1>2 DEF Opens, Stored
  <1>6. /\ history' \in [told: SUBSET Tokens, failed: BOOLEAN, raced: BOOLEAN]
        /\ Remembers /\ TellsTruth /\ history'.raced = history.raced
    BY <1>1, <1>2, <1>4, <1>5, TellsOwn
  <1>7. TypeOK'
    BY <1>2, <1>6 DEF AuthInv, TypeOK, Answers
  <1>8. Asks(r)'
    BY <1>3 DEF Asks, Registering, LoggingIn
  <1>9. NoNewOverlap(r) /\ AddsOwn(r)
    BY <1>2, <1>3 DEF NoNewOverlap, AddsOwn, Registering
  <1>10. Adopts(r)
    BY <1>1, <1>2 DEF Adopts
  <1> QED BY <1>3, <1>6, <1>7, <1>8, <1>9, <1>10, StepKeeps

\* The last login of an organisation is nobody's token.
LEMMA RecordLoginKeeps ==
  ASSUME AuthInv, NEW o \in recording, RecordLogin(o)
  PROVE  AuthInv'
  <1>1. /\ organisations' = organisations /\ pc' = pc /\ cmd' = cmd /\ org' = org
        /\ issued' = issued /\ history' = history /\ recording' \subseteq recording
    BY DEF RecordLogin
  <1>2. /\ DOMAIN credentials' = DOMAIN credentials
        /\ \A e \in DOMAIN credentials :
             /\ credentials'[e].org = credentials[e].org
             /\ credentials'[e].password = credentials[e].password
             /\ credentials'[e] \in CredentialRows
    <2>1. CASE credentials' = credentials
      BY <2>1 DEF AuthInv, TypeOK
    <2>2. CASE credentials' = [e \in DOMAIN credentials |->
                [credentials[e] EXCEPT !.loggedIn = @ \/ credentials[e].org = o]]
      <3>1. DOMAIN credentials' = DOMAIN credentials
        BY <2>2
      <3>2. ASSUME NEW e \in DOMAIN credentials
            PROVE  /\ credentials'[e].org = credentials[e].org
                   /\ credentials'[e].password = credentials[e].password
                   /\ credentials'[e] \in CredentialRows
        <4>1. PICK loggedIn : loggedIn = (credentials[e].loggedIn \/ credentials[e].org = o)
          OBVIOUS
        <4>2. credentials'[e] = [credentials[e] EXCEPT !.loggedIn = loggedIn]
          BY <2>2, <4>1
        <4>3. loggedIn \in BOOLEAN
          BY <4>1
        <4>4. credentials[e] \in CredentialRows
          BY DEF AuthInv, TypeOK
        <4> QED BY <4>2, <4>3, <4>4 DEF CredentialRows
      <3> QED BY <3>1, <3>2
    <2> QED BY <2>1, <2>2 DEF RecordLogin
  <1>3. TypeOK'
    BY <1>1, <1>2 DEF AuthInv, TypeOK
  <1>4. ASSUME NEW r \in Requests PROVE Asks(r)'
    BY <1>1, <1>2 DEF AuthInv, Asks, Opens, Stored
  <1>5. TokenIsOwners'
    BY <1>1, <1>2 DEF AuthInv, TokenIsOwners
  <1>6. Overlaps' /\ StillFree'
    BY <1>1, <1>2 DEF AuthInv, Overlaps, StillFree, Stored
  <1>7. OrphanNeedsRaceOrFailure'
    BY <1>1, <1>2 DEF AuthInv, OrphanNeedsRaceOrFailure, Orphan
  <1> QED BY <1>3, <1>4, <1>5, <1>6, <1>7 DEF AuthInv

LEMMA QueryFailsKeeps ==
  ASSUME AuthInv, NEW r \in Requests, QueryFails(r)
  PROVE  AuthInv'
  <1>1. /\ Running(r) /\ pc' = [pc EXCEPT ![r] = "error"]
        /\ history' = [history EXCEPT !.failed = TRUE]
    BY DEF QueryFails, Goto
  <1>2. /\ history' \in [told: SUBSET Tokens, failed: BOOLEAN, raced: BOOLEAN]
        /\ history'.failed /\ history'.told = history.told /\ history'.raced = history.raced
    BY <1>1 DEF AuthInv, TypeOK
  <1>3. /\ Others(r) /\ Grows /\ cmd' = cmd /\ recording' = recording /\ issued' = issued
        /\ organisations' \in Seq(Gstins \cup {Null})
        /\ org' \in [Requests -> {NoOrg} \cup DOMAIN organisations']
        /\ DOMAIN organisations \subseteq DOMAIN organisations'
        /\ DOMAIN credentials' \subseteq StoredEmails
        /\ \A e \in DOMAIN credentials' : /\ credentials'[e] \in CredentialRows
                                         /\ credentials'[e].org \in DOMAIN organisations'
        /\ DOMAIN credentials' # DOMAIN credentials =>
             /\ pc[r] \in Registering
             /\ DOMAIN credentials' \subseteq DOMAIN credentials \cup {Stored(r)}
    <2>1. CASE UNCHANGED <<organisations, credentials, cmd, org, recording, issued>>
      BY <1>1, <2>1 DEF AuthInv, TypeOK, Others, Grows
    <2>2. CASE pc[r] = "register.org" /\ InsertOrganisation(r, Gstin(r))
      <3>1. Gstin(r) \in Gstins \cup {Null}
        BY <2>2, GstinOK DEF AuthInv, Asks, Registering
      <3>2. LET new == Len(organisations) + 1 IN
            /\ Grows
            /\ organisations' \in Seq(Gstins \cup {Null})
            /\ DOMAIN organisations' = DOMAIN organisations \cup {new}
            /\ org' = [org EXCEPT ![r] = new]
            /\ org' \in [Requests -> {NoOrg} \cup DOMAIN organisations']
            /\ credentials' = credentials /\ cmd' = cmd /\ recording' = recording
            /\ issued' = issued
        BY <2>2, <3>1, InsertedOrganisation DEF AuthInv
      <3> QED BY <1>1, <3>2 DEF AuthInv, TypeOK, Others
    <2>3. CASE pc[r] = "register.credential" /\ InsertCredential(r, Stored(r))
      <3>1. cmd[r] \in RegisterCmds /\ org[r] \in DOMAIN organisations
        BY <2>3 DEF AuthInv, Asks, Registering
      <3>2. /\ Grows
            /\ DOMAIN credentials' = DOMAIN credentials \cup {Stored(r)}
            /\ Stored(r) \in StoredEmails
            /\ \A e \in DOMAIN credentials' : credentials'[e] \in CredentialRows
                                            /\ credentials'[e].org \in DOMAIN organisations
            /\ organisations' = organisations /\ cmd' = cmd /\ org' = org
            /\ recording' = recording /\ issued' = issued
        BY <2>3, <3>1, InsertedCredential DEF AuthInv
      <3> QED BY <1>1, <2>3, <3>2 DEF AuthInv, TypeOK, Others, Registering
    <2> QED BY <2>1, <2>2, <2>3 DEF QueryFails
  <1>4. TypeOK'
    BY <1>1, <1>2, <1>3 DEF AuthInv, TypeOK, Answers
  <1>5. pc'[r] = "error"
    BY <1>1 DEF AuthInv, TypeOK
  <1>6. Asks(r)'
    BY <1>5 DEF Asks, Registering, LoggingIn
  <1>7. Remembers /\ TellsTruth
    BY <1>2 DEF Remembers, TellsTruth
  <1>8. NoNewOverlap(r) /\ AddsOwn(r) /\ Adopts(r)
    BY <1>2, <1>3, <1>5 DEF NoNewOverlap, AddsOwn, Adopts, Registering
  <1> QED BY <1>3, <1>4, <1>6, <1>7, <1>8, StepKeeps

LEMMA RespondKeeps ==
  ASSUME AuthInv, NEW r \in Requests, Respond(r)
  PROVE  AuthInv'
  <1>1. /\ pc[r] \in Answers /\ pc' = [pc EXCEPT ![r] = "idle"]
        /\ cmd' = [cmd EXCEPT ![r] = NoCmd] /\ org' = [org EXCEPT ![r] = NoOrg]
        /\ organisations' = organisations /\ credentials' = credentials
        /\ recording' = recording /\ issued' = issued /\ history' = history
    BY DEF Respond, Goto
  <1>2. Others(r) /\ Grows /\ pc'[r] = "idle"
    BY <1>1 DEF AuthInv, TypeOK, Others, Grows
  <1>3. TypeOK'
    BY <1>1 DEF AuthInv, TypeOK
  <1>4. Asks(r)'
    BY <1>2 DEF Asks, Registering, LoggingIn
  <1>5. Remembers /\ TellsTruth
    BY <1>1 DEF Remembers, TellsTruth
  <1>6. NoNewOverlap(r) /\ AddsOwn(r)
    BY <1>1, <1>2 DEF NoNewOverlap, AddsOwn, Registering
  <1>7. Adopts(r)
    BY <1>1 DEF Adopts, Answers
  <1> QED BY <1>2, <1>3, <1>4, <1>5, <1>6, <1>7, StepKeeps

\* The requests are gone, the rows stay, and a failure is remembered.
LEMMA CrashKeeps ==
  ASSUME AuthInv, Crash
  PROVE  AuthInv'
  <1>1. /\ pc' = [r \in Requests |-> "idle"] /\ cmd' = [r \in Requests |-> NoCmd]
        /\ org' = [r \in Requests |-> NoOrg] /\ recording' = {}
        /\ history' = [history EXCEPT !.failed = TRUE]
        /\ organisations' = organisations /\ credentials' = credentials /\ issued' = issued
    BY DEF Crash
  <1>2. /\ history' \in [told: SUBSET Tokens, failed: BOOLEAN, raced: BOOLEAN]
        /\ history'.failed /\ history'.told = history.told
    BY <1>1 DEF AuthInv, TypeOK
  <1>3. TypeOK'
    BY <1>1, <1>2 DEF AuthInv, TypeOK
  <1>4. \A r \in Requests : Asks(r)'
    BY <1>1 DEF Asks, Registering, LoggingIn
  <1>5. TokenIsOwners'
    BY <1>1, <1>2 DEF AuthInv, TokenIsOwners
  <1>6. Overlaps' /\ StillFree' /\ OrphanNeedsRaceOrFailure'
    BY <1>1, <1>2 DEF Overlaps, StillFree, OrphanNeedsRaceOrFailure, Registering
  <1> QED BY <1>3, <1>4, <1>5, <1>6 DEF AuthInv

-----------------------------------------------------------------------------
(* The invariant *)

LEMMA InitAuth == Init => AuthInv
  <1> SUFFICES ASSUME Init PROVE AuthInv
    OBVIOUS
  <1>1. /\ organisations = <<>> /\ DOMAIN organisations = {} /\ DOMAIN credentials = {}
        /\ pc = [r \in Requests |-> "idle"] /\ cmd = [r \in Requests |-> NoCmd]
        /\ org = [r \in Requests |-> NoOrg] /\ recording = {} /\ issued = 0
        /\ history = [told |-> {}, failed |-> FALSE, raced |-> FALSE]
    BY DEF Init
  <1>2. history \in [told: SUBSET Tokens, failed: BOOLEAN, raced: BOOLEAN] /\ history.told = {}
    BY <1>1
  <1>3. TypeOK
    BY <1>1, <1>2, AuthAssumption DEF TypeOK
  <1>4. \A r \in Requests : Asks(r)
    BY <1>1 DEF Asks, Registering, LoggingIn
  <1>5. TokenIsOwners /\ Overlaps /\ StillFree /\ OrphanNeedsRaceOrFailure
    BY <1>1, <1>2 DEF TokenIsOwners, Overlaps, StillFree, OrphanNeedsRaceOrFailure, Registering
  <1> QED BY <1>3, <1>4, <1>5 DEF AuthInv

LEMMA NextAuth == AuthInv /\ [Next]_vars => AuthInv'
  <1> SUFFICES ASSUME AuthInv, [Next]_vars PROVE AuthInv'
    OBVIOUS
  <1>1. ASSUME NEW r \in Requests, Step(r)
        PROVE  AuthInv'
    BY <1>1, RegisterFindKeeps, RegisterOrgKeeps, RegisterCredentialKeeps,
       LoginFindKeeps, LoginOrgKeeps DEF Step
  <1>2. ASSUME NEW r \in Requests, Arrive(r) \/ QueryFails(r) \/ Respond(r)
        PROVE  AuthInv'
    BY <1>2, ArriveKeeps, QueryFailsKeeps, RespondKeeps
  <1>3. ASSUME NEW o \in recording, RecordLogin(o)
        PROVE  AuthInv'
    BY <1>3, RecordLoginKeeps
  <1>4. CASE Crash
    BY <1>4, CrashKeeps
  <1>5. CASE UNCHANGED vars
    BY <1>5 DEF vars, session, AuthInv, TypeOK, Asks, Opens, Stored, TokenIsOwners, Overlaps,
                StillFree, OrphanNeedsRaceOrFailure, Orphan
  <1> QED BY <1>1, <1>2, <1>3, <1>4, <1>5 DEF Next

LEMMA AuthInvariance == Spec => []AuthInv
  <1> QED BY InitAuth, NextAuth, PTL DEF Spec

\* Whatever requests meet, fail or die, the rows of both tables are well formed,
\* every credential names an organisation that exists, and addresses are stored
\* in lower case.
THEOREM AuthTypeCorrect == Spec => []TypeOK
  <1>1. AuthInv => TypeOK
    BY DEF AuthInv
  <1> QED BY <1>1, AuthInvariance, PTL

\* Who has been given a token owns the organisation for good, however many others
\* register the same address, written in whatever way.
THEOREM TokensAreOwners == Spec => []TokenIsOwners
  <1>1. AuthInv => TokenIsOwners
    BY DEF AuthInv
  <1> QED BY <1>1, AuthInvariance, PTL

\* register leaves an organisation without a credential only after a failure or
\* beside a registration of the same address that overlaps it.
THEOREM OrphansExplained == Spec => []OrphanNeedsRaceOrFailure
  <1>1. AuthInv => OrphanNeedsRaceOrFailure
    BY DEF AuthInv
  <1> QED BY <1>1, AuthInvariance, PTL

=============================================================================
