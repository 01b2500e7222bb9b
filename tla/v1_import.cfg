SPECIFICATION Spec
CONSTANTS
  g1 = g1
  ops = ops
  dev = dev
  NoItem = NoItem
  MaxId = 1
  Grants = {g1}
  Runs = {ops, dev}
INVARIANTS
  TypeOK
  CopiedOnce
  AdminsWorkStands
  NothingLost
CHECK_DEADLOCK FALSE
