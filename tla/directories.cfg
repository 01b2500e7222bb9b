SPECIFICATION Spec
CONSTANTS
  n1 = n1
  n2 = n2
  n3 = n3
  q1 = q1
  q2 = q2
  Top = Top
  Unborn = Unborn
  Gone = Gone
  Nodes = {n1, n2, n3}
  Resources = {"r1"}
  Grants = {"g1"}
  Requests = {q1, q2}
  MaxMarks = 1
  Attempts = 2
  StopAfterRace = TRUE
  MAX_DIRECTORY_DEPTH = 2
INVARIANTS
  TypeOK
  CycleNeedsRacingMoves
  DepthBounded
  NothingPromoted
PROPERTIES
  RemovalSparesGrants
SYMMETRY NodeSymmetry
CHECK_DEADLOCK FALSE
