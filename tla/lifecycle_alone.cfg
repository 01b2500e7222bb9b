SPECIFICATION Spec
CONSTANTS
  alice = alice
  rita = rita
  root = root
  q1 = q1
  q2 = q2
  q3 = q3
  f1 = f1
  f2 = f2
  NoUser = NoUser
  Users = {alice, rita, root}
  Admins = {root}
  Reviewers = {rita}
  Publishers = {rita}
  Resources = {"r1"}
  FileIds = {f1, f2}
  Requests = {q1}
  Ops = {"create", "edit", "submit", "review", "recall", "force", "delete", "restore", "purge", "register", "remove", "dirs"}
  Faults = TRUE
  MaxVersion = 3
PROPERTY
  PublishedNotOverwritten
