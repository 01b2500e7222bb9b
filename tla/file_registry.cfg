SPECIFICATION FairSpec
CONSTANTS
  k1 = k1
  q1 = q1
  q2 = q2
  Keys = {k1}
  Requests = {q1, q2}
INVARIANTS
  TypeOK
  RowHasUsedTicket
  SweepSparesFiles
PROPERTIES
  LeftoversGo
CHECK_DEADLOCK FALSE
