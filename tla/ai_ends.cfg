SPECIFICATION FairSpec
CONSTANTS
  r1 = r1
  short = short
  long = long
  d1 = d1
  d2 = d2
  server = server
  script = script
  NoFile = NoFile
  NoDir = NoDir
  Resources = {r1}
  FileIds = {long}
  Dirs = {d1, d2}
  LongFiles = {long}
  Server = server
  Scripts = {}
  Batch = 2
  MaxIndexAttempts = 3
  MaxJobs = 2
  Faults = {"enqueue", "process", "finish", "crash"}
PROPERTIES
  EveryJobEnds
CHECK_DEADLOCK FALSE
