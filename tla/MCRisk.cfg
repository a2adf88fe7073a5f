SPECIFICATION Spec
CONSTANTS
  Values <- MCValues
INVARIANTS
  TypeOK
  RejectTakesTwoSignals
  ApprovalIsSound
PROPERTIES
  MoreRiskIsNoSafer
