CONSTANTS
  t1 = t1  t2 = t2  o1 = o1  o2 = o2  w1 = w1  w2 = w2  c1 = c1  n1 = n1  n2 = n2
  NoOne = NoOne  NoFile = NoFile  Names <- TwoNames
  Tasks <- OneTask  Old <- OldOne  RemoteName <- OnlyName  Web <- OneWeb  Cli <- NoCli
  Ops = {"submit", "update"}  Timing = "early"  StartAfterFailure = FALSE
  GcodeStates = {"IDLE", "RUNNING"}  Panel = TRUE
  Grace = 1  MaxTime = 1  MaxCrashes = 0  MaxStarts = 2
SPECIFICATION Spec
INVARIANT AtMostOneStart
