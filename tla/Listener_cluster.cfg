SPECIFICATION FairSpec
CONSTANTS
  Kinds = {"notify"}
  Nodes = {n1, n2}
  Threads = {t1, t2, t3}
  Star = {FALSE}
  MaxInbox = 1
INVARIANT AfterStopOneMore
PROPERTY StopEndsLoops
