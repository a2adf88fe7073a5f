SPECIFICATION FairSpec
CONSTANTS
  Emails <- MCEmails
  Receipts <- MCReceipts
  Workers = {w1, w2}
  Admins = {a1, a2}
  MaxAdds = 2
  MaxFaults = 3
  MaxAdminCalls = 2
INVARIANTS
  TypeOK
  ReceiptExists
  DoneOrDropped
  SentOncePerFault
PROPERTIES
  EveryJobEnds
CHECK_DEADLOCK FALSE
