SPECIFICATION Spec
CONSTANTS
  Keys = {h}
  Lists = {}
  None = None
  N = 2
  MaxAsks = 4
  MaxForeign = 0
INVARIANT RescanComplete
CHECK_DEADLOCK FALSE
