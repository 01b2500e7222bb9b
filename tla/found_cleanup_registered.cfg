SPECIFICATION Spec
CONSTANTS
  k1 = k1
  q1 = q1
  q2 = q2
  Keys = {k1}
  Requests = {q1}
INVARIANTS
  OnlyOrphansAreErased
CHECK_DEADLOCK FALSE
