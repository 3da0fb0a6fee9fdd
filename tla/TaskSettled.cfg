CONSTANTS
  t1 = t1  t2 = t2  o1 = o1  o2 = o2  w1 = w1  w2 = w2  c1 = c1  n1 = n1  n2 = n2
  NoOne = NoOne  NoFile = NoFile  Names <- TwoNames
  Tasks <- TwoTasks  Old <- OldTwo  RemoteName <- OwnName  Web <- OneWeb  Cli <- NoCli
  Ops <- NoEdit  Timing = "late"  StartAfterFailure = FALSE
  GcodeStates = {"IDLE", "RUNNING"}  Panel = TRUE
  Grace = 0  MaxTime = 0  MaxCrashes = 0  MaxStarts = 2
SPECIFICATION FairSpec
INVARIANT SessionsExclude
PROPERTY EventuallySettled
