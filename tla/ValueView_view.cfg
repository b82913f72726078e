SPECIFICATION Spec
CONSTANTS
  Keys = {l, h}
  Lists = {l}
  None = None
  N = 2
  MaxAsks = 4
  MaxForeign = 1
INVARIANT ShowsChosen
INVARIANT CompleteWhenSteady
PROPERTY ChoiceLoads
CHECK_DEADLOCK FALSE
