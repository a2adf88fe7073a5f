------------------------------- MODULE AuthService -------------------------------
(***************************************************************************)
(* core/services/auth.service.ts: register and login, over the tables      *)
(* organisations and organisation_credentials.  No transaction: each query *)
(* commits by itself on the pool, so the two inserts of register can come  *)
(* apart.  An organisation's id is its place in the order of the INSERTs.  *)
(***************************************************************************)
EXTENDS Naturals, Sequences

CONSTANTS Requests,      \* requests that can be in flight at once
          MaxRequests,   \* bound: requests that arrive in one behaviour
          Addresses,     \* e-mail addresses as clients write them
          Lower,         \* toLowerCase().trim() of an address
          Gstins,        \* tax numbers
          Passwords

NoGstin == "no gstin"    \* an absent field of the body
Null == "null"           \* a NULL column

ASSUME AuthAssumption ==
  /\ MaxRequests \in Nat
  /\ Lower \in [Addresses -> Addresses]
  /\ \A a \in Addresses : Lower[Lower[a]] = Lower[a]
  /\ NoGstin \notin Gstins /\ Null \notin Gstins

VARIABLES organisations,   \* the gstin of each organisation, in the order of their ids
          credentials,     \* stored e-mail -> [org, password, loggedIn]
          pc, cmd,         \* of each request
          org,             \* the organisation a request has created or read
          recording,       \* recordLogin updates in flight, nobody awaits them
          issued,          \* requests that have arrived
          history          \* for the properties: [told, failed, raced]

session == <<pc, cmd, org, recording, issued>>
vars == <<organisations, credentials, session, history>>

RegisterCmds == [op: {"register"}, address: Addresses, password: Passwords,
                 gstin: Gstins \cup {NoGstin}]
LoginCmds == [op: {"login"}, address: Addresses, password: Passwords]
NoCmd == [op |-> "none"]
NoOrg == 0

Answers == {"ok", "unauthorized", "error"}
Running(r) == pc[r] \notin Answers \cup {"idle"}

Goto(r, step) == pc' = [pc EXCEPT ![r] = step]

\* A step that only decides where r goes.
Moves(r, step) ==
  /\ Goto(r, step)
  /\ UNCHANGED <<organisations, credentials, cmd, org, recording, issued, history>>

Put(table, key, row) ==
  [k \in DOMAIN table \cup {key} |-> IF k = key THEN row ELSE table[k]]

-----------------------------------------------------------------------------
Arrive(r) ==
  /\ pc[r] = "idle"
  /\ issued < MaxRequests
  /\ issued' = issued + 1
  /\ \E c \in RegisterCmds \cup LoginCmds :
       /\ cmd' = [cmd EXCEPT ![r] = c]
       /\ Goto(r, IF c.op = "register" THEN "register.find" ELSE "login.find")
       /\ history' = [history EXCEPT !.raced = @ \/
            \E s \in Requests : /\ Running(s) /\ c.op = "register" /\ cmd[s].op = "register"
                                /\ Lower[cmd[s].address] = Lower[c.address]]
  /\ UNCHANGED <<organisations, credentials, org, recording>>

\* The e-mail column of the row a query looks for.
Stored(r) == Lower[cmd[r].address]

\* Mutant of RegisterFind: the e-mail is looked up as it was typed.
RegisterFindAsTyped(r) ==
  /\ pc[r] = "register.find"
  /\ Moves(r, IF cmd[r].address \in DOMAIN credentials THEN "error" ELSE "register.org")

\* findByEmail; then bcrypt.hash, which takes its time.
RegisterFind(r) ==
  /\ pc[r] = "register.find"
  /\ Moves(r, IF Stored(r) \in DOMAIN credentials THEN "error" ELSE "register.org")

\* INSERT INTO organisations: gstin is UNIQUE, NULL is not.
InsertOrganisation(r, gstin) ==
  /\ \A o \in DOMAIN organisations : organisations[o] = gstin => gstin = Null
  /\ organisations' = Append(organisations, gstin)
  /\ org' = [org EXCEPT ![r] = Len(organisations) + 1]
  /\ UNCHANGED <<credentials, cmd, recording, issued>>

\* Mutant of Gstin: the absent field is stored as a text of its own, not as NULL.
GstinAsSent(r) == cmd[r].gstin

\* input.gstin ?? null
Gstin(r) == IF cmd[r].gstin = NoGstin THEN Null ELSE cmd[r].gstin

RegisterOrg(r) ==
  /\ pc[r] = "register.org"
  /\ \/ /\ InsertOrganisation(r, Gstin(r))
        /\ Goto(r, "register.credential")
        /\ UNCHANGED history
     \/ /\ Gstin(r) # Null /\ \E o \in DOMAIN organisations : organisations[o] = Gstin(r)
        /\ Moves(r, "error")

\* INSERT INTO organisation_credentials: email is UNIQUE.
InsertCredential(r, email) ==
  /\ email \notin DOMAIN credentials
  /\ credentials' = Put(credentials, email,
       [org |-> org[r], password |-> cmd[r].password, loggedIn |-> FALSE])
  /\ UNCHANGED <<organisations, cmd, org, recording, issued>>

\* What a 201 or a 200 tells the client: a token for this organisation.
Tell(r) == history' = [history EXCEPT !.told =
  @ \cup {[address |-> cmd[r].address, password |-> cmd[r].password, org |-> org[r]]}]

\* Mutant of RegisterCredential: the e-mail is stored as it was typed.
RegisterCredentialAsTyped(r) ==
  /\ pc[r] = "register.credential"
  /\ \/ InsertCredential(r, cmd[r].address) /\ Tell(r) /\ Goto(r, "ok")
     \/ cmd[r].address \in DOMAIN credentials /\ Moves(r, "error")

RegisterCredential(r) ==
  /\ pc[r] = "register.credential"
  /\ \/ InsertCredential(r, Stored(r)) /\ Tell(r) /\ Goto(r, "ok")
     \/ Stored(r) \in DOMAIN credentials /\ Moves(r, "error")

-----------------------------------------------------------------------------
(* login *)

\* findByEmail, bcrypt.compare; recordLogin is started and not awaited.
LoginFind(r) ==
  LET known == /\ Stored(r) \in DOMAIN credentials
               /\ credentials[Stored(r)].password = cmd[r].password
  IN
  /\ pc[r] = "login.find"
  /\ \/ ~ known /\ Moves(r, "unauthorized")
     \/ /\ known
        /\ org' = [org EXCEPT ![r] = credentials[Stored(r)].org]
        /\ recording' = recording \cup {org'[r]}
        /\ Goto(r, "login.org")
        /\ UNCHANGED <<organisations, credentials, cmd, issued, history>>

\* findById of the organisation, for its name; then the token.
LoginOrg(r) ==
  /\ pc[r] = "login.org"
  /\ Tell(r)
  /\ Goto(r, "ok")
  /\ UNCHANGED <<organisations, credentials, cmd, org, recording, issued>>

\* An update of last_login_at in flight lands, or is lost.
RecordLogin(o) ==
  /\ o \in recording
  /\ recording' = recording \ {o}
  /\ \/ credentials' = [e \in DOMAIN credentials |->
           [credentials[e] EXCEPT !.loggedIn = @ \/ credentials[e].org = o]]
     \/ UNCHANGED credentials
  /\ UNCHANGED <<organisations, pc, cmd, org, issued, history>>

-----------------------------------------------------------------------------
(* What goes wrong *)

\* An awaited query rejects; an INSERT may have been committed all the same.
QueryFails(r) ==
  /\ Running(r)
  /\ history' = [history EXCEPT !.failed = TRUE]
  /\ Goto(r, "error")
  /\ \/ UNCHANGED <<organisations, credentials, cmd, org, recording, issued>>
     \/ pc[r] = "register.org" /\ InsertOrganisation(r, Gstin(r))
     \/ pc[r] = "register.credential" /\ InsertCredential(r, Stored(r))

Respond(r) ==
  /\ pc[r] \in Answers
  /\ Goto(r, "idle")
  /\ cmd' = [cmd EXCEPT ![r] = NoCmd]
  /\ org' = [org EXCEPT ![r] = NoOrg]
  /\ UNCHANGED <<organisations, credentials, recording, issued, history>>

\* The process dies; PostgreSQL keeps what each query has committed.
Crash ==
  /\ \E r \in Requests : pc[r] # "idle"
  /\ pc' = [r \in Requests |-> "idle"]
  /\ cmd' = [r \in Requests |-> NoCmd]
  /\ org' = [r \in Requests |-> NoOrg]
  /\ recording' = {}
  /\ history' = [history EXCEPT !.failed = TRUE]
  /\ UNCHANGED <<organisations, credentials, issued>>

-----------------------------------------------------------------------------
Init ==
  /\ organisations = <<>>
  /\ credentials = <<>>
  /\ pc = [r \in Requests |-> "idle"]
  /\ cmd = [r \in Requests |-> NoCmd]
  /\ org = [r \in Requests |-> NoOrg]
  /\ recording = {}
  /\ issued = 0
  /\ history = [told |-> {}, failed |-> FALSE, raced |-> FALSE]

Step(r) == RegisterFind(r) \/ RegisterOrg(r) \/ RegisterCredential(r)
             \/ LoginFind(r) \/ LoginOrg(r)

Next ==
  \/ \E r \in Requests : Arrive(r) \/ Step(r) \/ QueryFails(r) \/ Respond(r)
  \/ \E o \in recording : RecordLogin(o)
  \/ Crash

Spec == Init /\ [][Next]_vars

-----------------------------------------------------------------------------
Tokens == [address: Addresses, password: Passwords, org: Nat \ {0}]
CredentialRows == [org: Nat \ {0}, password: Passwords, loggedIn: BOOLEAN]
StoredEmails == {Lower[a] : a \in Addresses}

\* The type invariant: rows are well formed, e-mails are stored in lower case,
\* and every credential names an organisation that exists.
TypeOK ==
  /\ organisations \in Seq(Gstins \cup {Null})
  /\ DOMAIN credentials \subseteq StoredEmails
  /\ \A e \in DOMAIN credentials :
       credentials[e] \in CredentialRows /\ credentials[e].org \in DOMAIN organisations
  /\ pc \in [Requests -> {"idle", "register.find", "register.org", "register.credential",
                          "login.find", "login.org"} \cup Answers]
  /\ cmd \in [Requests -> RegisterCmds \cup LoginCmds \cup {NoCmd}]
  /\ org \in [Requests -> {NoOrg} \cup DOMAIN organisations]
  /\ recording \subseteq DOMAIN organisations
  /\ issued \in 0 .. MaxRequests
  /\ history \in [told: SUBSET Tokens, failed: BOOLEAN, raced: BOOLEAN]

\* A client that was given a token, by register or by login, owns that
\* organisation for good: the credential behind its address, however it is
\* written, has its password and names it.  So an address is registered once,
\* whoever else tries, at the same time or later (auth.service.ts:52, 72).
TokenIsOwners ==
  \A t \in history.told :
    LET e == Lower[t.address] IN
    /\ e \in DOMAIN credentials
    /\ credentials[e].org = t.org /\ credentials[e].password = t.password

Orphan(o) == \A e \in DOMAIN credentials : credentials[e].org # o

\* The two inserts of register are not one transaction, whatever the comment at
\* auth.service.ts:46 says.  Still an organisation is left without a credential
\* only after a failure, or by registrations of one address that overlap: the
\* look at the e-mail before the inserts stops every other repetition.
OrphanNeedsRaceOrFailure ==
  \A o \in DOMAIN organisations :
    Orphan(o) => \/ history.failed \/ history.raced
                 \/ \E r \in Requests : pc[r] = "register.credential" /\ org[r] = o

=============================================================================
