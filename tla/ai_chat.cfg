SPECIFICATION FairSpec
CONSTANTS
  ann = ann
  ben = ben
  t1 = t1
  t2 = t2
  c1 = c1
  r1 = r1
  NoUser = NoUser
  NoConversation = NoConversation
  Users = {ann, ben}
  Turns = {t1, t2}
  Conversations = {c1}
  Resources = {r1}
  PerMinute = 1
  MaxConcurrent = 2
  MaxCalls = 3
  MaxRefills = 2
INVARIANTS
  TypeOK
  GateCountsTurns
  CallsBooked
PROPERTIES
  GateReopens
