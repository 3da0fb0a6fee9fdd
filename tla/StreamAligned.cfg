CONSTANTS
  b1 = b1  b2 = b2  p1 = p1  w1 = w1  w2 = w2  None = None  Due = Due
  Browsers <- TwoBrowsers  Stuck <- TheSecond  Writers <- OneWriter  Paho = p1
  Fields = {"job"}  Values = {0, 1}  Default = 0
  QueueSize = 1  WireMax = 1
  MaxChanges = 2  MaxEvents = 1
SPECIFICATION FairSpec
INVARIANTS TypeOK Converged
PROPERTY EventuallyAligned
CHECK_DEADLOCK FALSE
