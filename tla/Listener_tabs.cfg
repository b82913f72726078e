SPECIFICATION Spec
CONSTANTS
  Kinds = {"pubsub", "monitor"}
  Nodes = {n1}
  Threads = {t1, t2}
  Star = {TRUE}
  MaxInbox = 0
SYMMETRY ThreadSymmetry
INVARIANT TypeOK
INVARIANT TabAgrees
