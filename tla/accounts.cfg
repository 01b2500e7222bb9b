SPECIFICATION Spec
CONSTANTS
  u1 = u1
  u2 = u2
  s1 = s1
  s2 = s2
  q1 = q1
  q2 = q2
  p1 = p1
  NoUser = NoUser
  Users = {u1, u2}
  Sessions = {s1, s2}
  Permissions = {p1}
  Requests = {q1, q2}
  Inputs = {{"TEACHER", "password"}, {"ADMIN", "active"}, {"inactive"}}
  MaxPasswords = 2
  StopAfterSlip = TRUE
INVARIANTS
  TypeOK
  AdminRemains
  OldPasswordsExpire
  GrantsAsGiven
PROPERTIES
  AdminsAreHandedOver
SYMMETRY AccountSymmetry
CHECK_DEADLOCK FALSE
