------------------------------ MODULE PaymentBook ------------------------------
(***************************************************************************)
(* What the platform promises about money, with nothing of how: an account *)
(* is opened once; a transfer is booked once, whole, on the account it was *)
(* sent to; and the account settles in the very step that covers it.       *)
(***************************************************************************)
EXTENDS Integers

CONSTANTS Invoices, Payments, Expected

VARIABLES accounts,   \* invoice -> [expected, received, settled]
          booked      \* the payments that have been credited

Open(i, expected) ==
  /\ i \notin DOMAIN accounts
  /\ accounts' = [j \in DOMAIN accounts \cup {i} |->
                    IF j = i THEN [expected |-> expected, received |-> 0, settled |-> FALSE]
                             ELSE accounts[j]]
  /\ UNCHANGED booked

Book(p) ==
  LET a == accounts[p.invoice]
      received == a.received + p.amount
  IN
  /\ p \notin booked
  /\ p.invoice \in DOMAIN accounts
  /\ booked' = booked \cup {p}
  /\ accounts' = [accounts EXCEPT ![p.invoice] =
                    [a EXCEPT !.received = received, !.settled = received >= a.expected]]

Init ==
  /\ accounts = [i \in {} |-> i]
  /\ booked = {}

Next ==
  \/ \E i \in Invoices, expected \in Expected : Open(i, expected)
  \/ \E p \in Payments : Book(p)

Spec == Init /\ [][Next]_<<accounts, booked>>

=============================================================================
