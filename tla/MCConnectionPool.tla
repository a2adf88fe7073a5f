----------------------------- MODULE MCConnectionPool ---------------------------
(* Small instances of ConnectionPool for TLC.  An approval is a settling payment *)
(* with less in it; a submission without a key, or a payment that does not      *)
(* settle, is one with a key that stores no answer; createVan is a request for  *)
(* financing that reads twice; details, register and login read through the     *)
(* pool as every handler does, and the update of a login is one that nobody     *)
(* waits for, as that of the guard.                                             *)
EXTENDS ConnectionPool, TLC

MCOperations == {"keyed", "settling", "financing", "history"}

=============================================================================
