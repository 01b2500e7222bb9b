SPECIFICATION RaceSpec
CONSTANTS
  alice = alice
  rita = rita
  root = root
  q1 = q1
  q2 = q2
  q3 = q3
  f1 = f1
  f2 = f2
  NoUser = NoUser
  Users = {rita, root}
  Admins = {root}
  Reviewers = {rita}
  Publishers = {rita}
  Resources = {"r1"}
  FileIds = {f1}
  Requests = {q1, q2}
  Ops = {"create", "edit", "submit", "review", "recall", "force", "delete", "restore", "purge", "register", "remove"}
  Faults = TRUE
  MaxVersion = 2
INVARIANT
  TypeOK
PROPERTIES
  OneDecisionPerSubmission
  RejectionsExplained
  ImplementsPublication
  NothingPublishedBinned
  SubmissionKeepsFiles
  EditTakesOffLine
  FrozenStandsStill
SYMMETRY OverlapSymmetry
