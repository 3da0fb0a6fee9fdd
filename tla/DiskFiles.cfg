CONSTANTS
  Requests = {r1, r2}
  Values = {v1, v2}
  Template = v1
  MaxEdits = 1
  Records = {1, 2, 3}
  Cleaners = {c1, c2}
  Days = {1, 2}
  PageSize = 1
  MaxCrashes = 1
  Openers = {p1, p2}
  Columns = {k1, k2}
  Seconds = {1, 2, 3}
  MaxKills = 2
CHECK_DEADLOCK FALSE
SPECIFICATION FilesSpec
INVARIANTS FilesTypeOK NothingLost InForce ProbeHonest JournalExact SchemaWhole OldKept
PROPERTY PagesMissNothing
SYMMETRY Threads
