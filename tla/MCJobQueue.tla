------------------------------- MODULE MCJobQueue -------------------------------
(* Small instances of JobQueue for TLC.  Each queue has one job, so that two    *)
(* workers can only meet over the same job.                                     *)
EXTENDS JobQueue, TLC

MCEmails == {"invoice-approved"}
MCReceipts == {"receipt"}

=============================================================================
